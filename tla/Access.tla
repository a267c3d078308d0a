------------------------------- MODULE Access -------------------------------
(***************************************************************************)
(* libpqxx as a program uses it: transactions with their statements,       *)
(* subtransactions and streams (Transactions), and the three objects a     *)
(* program may hold within a transaction, each of which is its focus or    *)
(* has it to itself: a pipeline (Pipeline), a cursor (Cursors) or a large  *)
(* object (LargeObjects).  Two of these have nothing in common but the     *)
(* transaction, so here the program uses one of them only; or it waits     *)
(* for notifications (Notices), walks through a result (Results), or has a *)
(* transaction run again until it succeeds (Retries).                      *)
(***************************************************************************)
EXTENDS Transactions, Pipeline, Cursors, LargeObjects, Notices, Results, Retries

VARIABLE using  \* what the program uses

vars == <<transactionVars, p, called, c, got, o, latest, using, noticeVars, resultVars, retryVars>>

\* What the program does not use is as it may be at the beginning; of the
\* PGresults, no row or as many as the bounds allow, and of the names, which are
\* interchangeable, the first column has the same one always.
Init == /\ TransactionInit /\ PipelineInit /\ CursorInit /\ ObjectInit
        /\ NoticeInit /\ ResultsInit /\ RetryInit
        /\ using \in {"transaction", "pipeline", "cursor", "object", "receivers", "result", "perform"}
        /\ using # "pipeline" => p.tx = "open"
        /\ using # "cursor"   => c = NoCursor(Min(Rows), 0, FALSE, 0)
        /\ using # "result"   => /\ \A j \in 1 .. 2 : received[j].names = <<>> /\ received[j].rows = 0
                                 /\ it.i.of = "rows" /\ ~it.back
        /\ using = "result"   => /\ received[1].rows \in {0, MaxRows}
                                 /\ received[2].rows = Other /\ Len(received[2].names) = Other
                                 /\ received[1].names # <<>> => Head(received[1].names) = CHOOSE n \in Names : TRUE
        /\ using # "perform"  => asked = [fn |-> "perform", attempts |-> 0]

WithTransaction == /\ using = "transaction" /\ TransactionNext
                   /\ UNCHANGED <<p, called, c, got, o, latest, using, noticeVars, resultVars, retryVars>>
WithPipeline    == /\ using = "pipeline" /\ PipelineNext
                   /\ UNCHANGED <<transactionVars, c, got, o, latest, using, noticeVars, resultVars, retryVars>>
WithCursor      == /\ using = "cursor" /\ CursorNext
                   /\ UNCHANGED <<transactionVars, p, called, o, latest, using, noticeVars, resultVars, retryVars>>
WithObject      == /\ using = "object" /\ ObjectNext
                   /\ UNCHANGED <<transactionVars, p, called, c, got, using, noticeVars, resultVars, retryVars>>
WithReceivers   == /\ using = "receivers" /\ NoticeNext
                   /\ UNCHANGED <<transactionVars, p, called, c, got, o, latest, using, resultVars, retryVars>>
WithResult      == /\ using = "result" /\ ResultsNext
                   /\ UNCHANGED <<transactionVars, p, called, c, got, o, latest, using, noticeVars, retryVars>>
WithPerform     == /\ using = "perform" /\ RetryNext
                   /\ UNCHANGED <<transactionVars, p, called, c, got, o, latest, using, noticeVars, resultVars>>

Next == \/ WithTransaction \/ WithPipeline \/ WithCursor \/ WithObject
        \/ WithReceivers \/ WithResult \/ WithPerform
Spec == Init /\ [][Next]_vars
=============================================================================
