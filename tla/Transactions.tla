---------------------------- MODULE Transactions ----------------------------
(***************************************************************************)
(* The transactions of libpqxx on one connection: transaction_base with    *)
(* its pending errors and foci, dbtransaction, pqxx::work, robusttrans-    *)
(* action, subtransaction and the streams of COPY.                         *)
(*                                                                         *)
(* The client owns at most one transaction object, with at most one        *)
(* subtransaction or stream in it, and lets exceptions destroy them, as    *)
(* the handlers of PoliticalParty do.  The one it catches is the SQL error *)
(* of a statement in a subtransaction, which is what these are for.        *)
(* Mishaps names what else may happen:                                     *)
(*   "sub"       the client goes on with a transaction after a subtrans-   *)
(*               action has lost the connection                            *)
(*   "params"    it goes on after an exec_params, exec_prepared or         *)
(*               complete that failed                                      *)
(*   "abort"     it calls abort after the destructor of a stream           *)
(*   "settings"  it sets a variable in a subtransaction, or has a receiver *)
(*               added in a transaction                                    *)
(*   "log"       there is no log table yet, or an SQL error on it          *)
(***************************************************************************)
EXTENDS Connection, Sequences

CONSTANTS Kinds,          \* classes of transactions, of "work" and "robust"
          MaxTrans,       \* bound: number of transaction objects
          MaxStatements,  \* bound: statements of the first transaction; a later one has fewer
          Mishaps

ASSUME BoundsAssumption == MaxTrans \in Nat /\ MaxStatements \in Nat

VARIABLES conn, inhibited, settings,   \* the connection object
          session, stored,             \* the server
          trans, sub,                  \* the transaction and subtransaction object
          ended,                       \* what became of earlier transactions
          unwinding                    \* an exception is on its way

transactionVars == <<conn, inhibited, settings, session, stored, trans, sub, ended, unwinding>>

NoTrans == [status |-> "none"]
NoSub == [status |-> "none"]

here == [conn |-> conn, inhibited |-> inhibited, settings |-> settings,
         session |-> session, stored |-> stored, trans |-> trans, sub |-> sub]

Becomes(w) ==
    /\ conn' = w.conn /\ inhibited' = w.inhibited /\ settings' = w.settings
    /\ session' = w.session /\ stored' = w.stored
    /\ trans' = w.trans /\ sub' = w.sub

\* The n-th transaction's statement k; statement 0 is the record of a robust one.
Statement(n, k) == [tx |-> n, item |-> k]
LogTable == Statement(0, 0)
number == Len(ended) + 1
Record == Statement(number, 0)
StoredOf(n) == {k \in 1 .. MaxStatements : Statement(n, k) \in stored}

-----------------------------------------------------------------------------
(* transaction_base and dbtransaction *)

CheckPendingError(w) ==
    IF w.trans.pending THEN {Outcome([w EXCEPT !.trans.pending = FALSE], "failure")}
    ELSE {Outcome(w, "ok")}

direct_exec(w, c, retry) == Then(CheckPendingError(w), LAMBDA v : exec(v, c, retry))

rollback(w) == direct_exec(w, Run("ROLLBACK"), FALSE)
start(w) == direct_exec(w, Run("BEGIN"), TRUE)

-----------------------------------------------------------------------------
(* robusttransaction: a record in a log table, deleted by the transaction, *)
(* tells after the loss of a connection that COMMIT has not been executed. *)

\* A statement on the log table fails when there is none.
OnLog(w, c) ==
    LET present == LogTable \in Applied(w.stored, w.session.work)
    IN  {o \in direct_exec(w, c, FALSE) :
            /\ present \/ o.res # "ok"
            /\ present /\ o.res = "sql" => "log" \in Mishaps}

CreateTransactionRecord(w) ==
    Then(OnLog(w, Run("query")), LAMBDA v : OnLog(v, Add(Record)))

CreateLogTable(w) ==
    Quietly({o \in direct_exec(w, Add(LogTable), TRUE) : o.res = "sql" => "log" \in Mishaps},
            LAMBDA v : {Outcome(v, "ok")})

DeleteTransactionRecord(w) ==
    Quietly(direct_exec(w, Deleted(Record), TRUE), LAMBDA v : {Outcome(v, "ok")})

\* Always throws: activate gives up the handle that the lost COMMIT has left.
CheckTransactionRecord(w) == direct_exec(w, Run("query"), FALSE)

\* Mutant: the transaction does not delete its record.
robust_beginKeepingRecord(w) ==
    Then(CreateTransactionRecord(w), LAMBDA v :
    Then(start(v), LAMBDA u : OnLog(u, Run("query"))))

robust_begin(w) ==
    LET firstUse(o) ==
            Quietly(rollback(o.w), LAMBDA v :
            Then(CreateLogTable(v), LAMBDA u :
            Then(start(u), CreateTransactionRecord)))
    IN  Then(Catch(CreateTransactionRecord(w), firstUse), LAMBDA v :
        Then(start(v), LAMBDA u :
        Then(OnLog(u, Deleted(Record)), LAMBDA t : OnLog(t, Run("query")))))

robust_abort(w) == Then(rollback(w), DeleteTransactionRecord)

robust_commit(w) ==
    LET abortAnd(o) == Then(robust_abort(o.w), LAMBDA v : {Outcome(v, o.res)})
        lost(o) == Then({Outcome(p.w, IF p.res = "ok" THEN "ok" ELSE "in_doubt") :
                            p \in CheckTransactionRecord(o.w)},
                        LAMBDA v : {Outcome(v, "ok")} \cup abortAnd(Outcome(v, "broken")))
        failed(o) == IF is_open(o.w) THEN abortAnd(o) ELSE lost(o)
    IN  Then(Catch(direct_exec(w, Run("query"), FALSE), abortAnd), LAMBDA v :
        Catch(direct_exec(v, Run("COMMIT"), FALSE), failed))

-----------------------------------------------------------------------------
(* The virtual functions of the two classes *)

do_begin(w) == IF w.trans.kind = "robust" THEN robust_begin(w) ELSE start(w)

do_abort(w) == IF w.trans.kind = "robust" THEN robust_abort(w) ELSE rollback(w)

\* Mutant: a lost connection is a failure like others.
work_commitUndoubting(w) == direct_exec(w, Run("COMMIT"), FALSE)

\* A COMMIT that failed with the connection lost may have been executed.
work_commit(w) ==
    LET doubt(o) == {IF is_open(o.w) THEN o ELSE Outcome(o.w, "in_doubt")}
    IN  Catch(direct_exec(w, Run("COMMIT"), FALSE), doubt)

do_commit(w) == IF w.trans.kind = "robust" THEN robust_commit(w) ELSE work_commit(w)

-----------------------------------------------------------------------------
(* transaction_base *)

WithStatus(w, status) == [w EXCEPT !.trans.status = status]

\* End() for a transaction that is not active: an unseen error is dropped.
DropError(w) == [w EXCEPT !.trans.pending = FALSE]

abort(w) ==
    CASE w.trans.status = "active" ->
             Quietly(do_abort(w), LAMBDA v : {Outcome(DropError(WithStatus(v, "aborted")), "ok")})
      [] w.trans.status \in {"aborted", "in_doubt"} -> {Outcome(w, "ok")}
      [] w.trans.status = "committed" -> {Outcome(w, "usage")}

\* Mutant: the server is left to find out.
EndSilently(w) == {Outcome(DropError(w), "ok")}

End(w) == IF w.trans.status = "active" THEN abort(DropError(w)) ELSE {Outcome(DropError(w), "ok")}

\* Pending notifications first; a lost link shows here.
get_notifs(w) == {Outcome(w, "ok")} \cup (IF is_open(w) THEN {Outcome(Cut(w, "bad"), "broken")} ELSE {})

\* As history: whether the log of robusttransaction will tell how it ends.
Logged(w) == [w EXCEPT !.trans.logged = Record \in w.stored]

Begin(w) ==
    LET endAnd(o) == {Outcome(p.w, o.res) : p \in End(o.w)}
    IN  Then(Catch(Then(get_notifs(w), do_begin), endAnd),
             LAMBDA v : {Outcome(Logged(WithStatus(v, "active")), "ok")})

\* The class decides at once; the base keeps the right to begin later.
construct(w, kind) ==
    Begin([w EXCEPT !.trans = [status |-> "nascent", kind |-> kind, focus |-> FALSE,
                               pending |-> FALSE, vars |-> {}, sent |-> 0, acked |-> {},
                               logged |-> FALSE]])

commit(w) ==
    LET settle(o) == {Outcome(WithStatus(o.w, IF o.res = "in_doubt" THEN "in_doubt" ELSE "aborted"), o.res)}
        committed(v) == {Outcome(DropError(WithStatus(add_variables(v, v.trans.vars), "committed")), "ok")}
        proceed(v) ==
            CASE v.trans.status = "committed" -> {Outcome(v, "ok")}
              [] v.trans.status = "aborted" -> {Outcome(v, "usage")}
              [] v.trans.status = "in_doubt" -> {Outcome(v, "in_doubt")}
              [] v.trans.status = "active" ->
                    IF v.trans.focus THEN {Outcome(v, "failure")}
                    ELSE IF ~is_open(v) THEN {Outcome(v, "broken")}
                    ELSE Then(Catch(do_commit(v), settle), committed)
    IN  Then(CheckPendingError(w), proceed)

\* A transaction that a statement has failed in is rolled back at once.
trans_exec(w, c) ==
    LET abortAnd(o) == {Outcome(p.w, o.res) : p \in abort(o.w)}
    IN  Then(CheckPendingError(w), LAMBDA v :
        IF v.trans.focus \/ v.trans.status # "active" THEN {Outcome(v, "usage")}
        ELSE Catch(direct_exec(v, c, FALSE), abortAnd))

-----------------------------------------------------------------------------
(* subtransaction: begins at its first statement; neither the parent nor the *)
(* connection knows of it.                                                   *)

sub_abort(w) ==
    Quietly(exec(w, Run("ROLLBACK TO"), FALSE), LAMBDA v : {Outcome([v EXCEPT !.sub.status = "aborted"], "ok")})

sub_begin(w) ==
    Then(Then(get_notifs(w), LAMBDA v : exec(v, Run("SAVEPOINT"), FALSE)),
         LAMBDA v : {Outcome([v EXCEPT !.sub.status = "active"], "ok")})

sub_exec(w, c) ==
    LET abortAnd(o) == {Outcome(p.w, o.res) : p \in sub_abort(o.w)}
    IN  Then(IF w.sub.status = "nascent" THEN sub_begin(w) ELSE {Outcome(w, "ok")},
             LAMBDA v : Catch(exec(v, c, FALSE), abortAnd))

sub_commit(w) ==
    LET aborted(o) == {Outcome([o.w EXCEPT !.sub.status = "aborted"], o.res)}
        committed(v) == {Outcome([add_variables(v, v.sub.vars) EXCEPT
                                      !.sub.status = "committed",
                                      !.trans.acked = @ \cup v.sub.acked], "ok")}
    IN  IF w.sub.status = "nascent" THEN {Outcome(w, "ok")}
        ELSE IF ~is_open(w) THEN {Outcome(w, "broken")}
        ELSE Then(Catch(exec(w, Run("RELEASE"), FALSE), aborted), committed)

-----------------------------------------------------------------------------
(* The end of a COPY: the rows are one statement. *)

end_copy_write(w, c) ==
    IF is_open(w) THEN checked(PQexec(w, c)) ELSE {Outcome(w, "failure")}

\* Mutant: an exception in a destructor is dropped.
forget_error(o) == {Outcome(o.w, "ok")}

\* The destructor of a stream cannot throw.
reg_pending_error(o) == {Outcome([o.w EXCEPT !.trans.pending = TRUE], "ok")}

-----------------------------------------------------------------------------
(* The client *)

\* One call with one of its outcomes; the client catches some.
Does(outs, catches) ==
    \E o \in outs : /\ Becomes(o.w)
                    /\ unwinding' = (unwinding \/ o.res \notin {"ok"} \cup catches)

Survives(mishap, results) == IF mishap \in Mishaps THEN results ELSE {}

Active == trans.status = "active" /\ sub = NoSub /\ ~trans.focus /\ ~unwinding

\* The next statement of the transaction, sent and acknowledged.
next == Statement(number, trans.sent + 1)
Sends == trans.sent + Len(ended) < MaxStatements
sending == [here EXCEPT !.trans.sent = @ + 1]
Acknowledge(w) == {Outcome([w EXCEPT !.trans.acked = @ \cup {w.trans.sent}], "ok")}

Construct(kind) ==
    /\ trans = NoTrans /\ number <= MaxTrans
    /\ \E o \in construct(here, kind) :
          IF o.res = "ok"
          THEN Becomes(o.w) /\ UNCHANGED ended
          ELSE /\ Becomes([o.w EXCEPT !.trans = NoTrans])
               /\ ended' = Append(ended, [kind |-> kind, status |-> "aborted", acked |-> {}, logged |-> FALSE])
    /\ UNCHANGED unwinding

Exec ==
    /\ Active /\ Sends
    /\ Does(Then(trans_exec(sending, Add(next)), Acknowledge), {})
    /\ UNCHANGED ended

ExecParams ==
    /\ Active /\ Sends
    /\ Does(Then(exec_params(sending, Add(next)), Acknowledge), Survives("params", {"sql"}))
    /\ UNCHANGED ended

ExecPrepared ==
    /\ Active /\ Sends
    /\ Does(Then(exec_prepared(sending, Add(next)), Acknowledge), Survives("params", {"sql"}))
    /\ UNCHANGED ended

SetVariable ==
    /\ Active
    /\ Does(Then(exec(here, Run("SET"), FALSE),
                 LAMBDA v : {Outcome([v EXCEPT !.trans.vars = {"SET"}], "ok")}), {})
    /\ UNCHANGED ended

OpenCopy ==
    /\ Active /\ Sends
    /\ Does(Then(trans_exec(sending, Run("query")),
                 LAMBDA v : {Outcome([v EXCEPT !.trans.focus = TRUE], "ok")}), {})
    /\ UNCHANGED ended

\* A row that cannot be written ends the COPY.
WriteRow ==
    /\ trans # NoTrans /\ trans.focus /\ ~unwinding
    /\ Does({Outcome(Cut(here, "bad"), "failure")}, {})
    /\ UNCHANGED ended

closing == [here EXCEPT !.trans.focus = FALSE]

CompleteStream ==
    /\ trans # NoTrans /\ trans.focus /\ ~unwinding
    /\ Does(Then(end_copy_write(closing, Add(Statement(number, trans.sent))), Acknowledge),
            Survives("params", {"sql"}))
    /\ UNCHANGED ended

\* The client hears nothing, and relies on commit.
DropStream ==
    /\ trans # NoTrans /\ trans.focus
    /\ Does(Then(Catch(end_copy_write(closing, Add(Statement(number, trans.sent))), reg_pending_error),
                 Acknowledge), {})
    /\ UNCHANGED ended

OpenSub ==
    /\ Active
    /\ Becomes([here EXCEPT !.sub = [status |-> "nascent", vars |-> {}, acked |-> {}]])
    /\ UNCHANGED <<ended, unwinding>>

InSub == sub # NoSub /\ sub.status \in {"nascent", "active"} /\ ~unwinding

\* set_variable neither begins the subtransaction nor aborts it.
SubSet == Then(exec(here, Run("SET"), FALSE), LAMBDA v : {Outcome([v EXCEPT !.sub.vars = {"SET"}], "ok")})
SubSend == Then(sub_exec(sending, Add(next)),
                LAMBDA v : {Outcome([v EXCEPT !.sub.acked = @ \cup {v.trans.sent}], "ok")})

SubExec ==
    /\ InSub
    /\ \E set \in {FALSE} \cup Survives("settings", {TRUE}) :
          /\ ~set => Sends
          /\ Does(IF set THEN SubSet ELSE SubSend,
                  IF set THEN {} ELSE {"sql"} \cup Survives("sub", {"broken"}))
    /\ UNCHANGED ended

SubCommit ==
    /\ InSub
    /\ Does(sub_commit(here), Survives("sub", {"broken"}))
    /\ UNCHANGED ended

\* Mutant: the destructor does not call End().
DropSubSilently == sub # NoSub /\ Becomes([here EXCEPT !.sub = NoSub]) /\ UNCHANGED <<ended, unwinding>>

\* The destructor aborts what is active.
DropSub ==
    /\ sub # NoSub
    /\ \E o \in IF sub.status = "active" THEN sub_abort(here) ELSE {Outcome(here, "ok")} :
          Becomes([o.w EXCEPT !.sub = NoSub])
    /\ UNCHANGED <<ended, unwinding>>

Commit ==
    /\ trans # NoTrans /\ sub = NoSub /\ ~unwinding
    /\ Does(commit(here), {})
    /\ UNCHANGED ended

Abort ==
    /\ trans # NoTrans /\ sub = NoSub /\ ~unwinding /\ ~trans.focus
    /\ trans.pending => "abort" \in Mishaps
    /\ Does(abort(here), {})
    /\ UNCHANGED ended

DestroyTransaction ==
    /\ trans # NoTrans /\ sub = NoSub /\ ~trans.focus
    /\ \E o \in End(here) :
          /\ Becomes([o.w EXCEPT !.trans = NoTrans])
          /\ ended' = Append(ended, [kind |-> trans.kind, status |-> o.w.trans.status, acked |-> trans.acked,
                                     logged |-> trans.logged])
    /\ unwinding' = FALSE

\* Calls on the connection, between transactions
SetOutside == trans = NoTrans /\ Does(set_variable(here), {"sql", "broken"}) /\ UNCHANGED ended

Listen ==
    /\ trans = NoTrans \/ (Active /\ "settings" \in Mishaps)
    /\ "LISTEN" \notin settings
    /\ Does(add_receiver(here), {"sql", "broken"})
    /\ UNCHANGED ended

Unlisten ==
    /\ trans = NoTrans /\ "LISTEN" \in settings
    /\ Does(remove_receiver(here), {})
    /\ UNCHANGED ended

Deactivate == trans = NoTrans /\ Becomes(deactivate(here)) /\ UNCHANGED <<ended, unwinding>>

Inhibit == Becomes([here EXCEPT !.inhibited = ~@]) /\ UNCHANGED <<ended, unwinding>>

-----------------------------------------------------------------------------
TransactionInit ==
    /\ conn = "ok" /\ inhibited = FALSE /\ settings = {}
    /\ session = Fresh
    /\ stored = {LogTable} \/ (stored = {} /\ "log" \in Mishaps)
    /\ trans = NoTrans /\ sub = NoSub /\ ended = <<>> /\ unwinding = FALSE

TransactionNext ==
    \/ \E kind \in Kinds : Construct(kind)
    \/ Exec \/ ExecParams \/ ExecPrepared \/ SetVariable
    \/ OpenCopy \/ WriteRow \/ CompleteStream \/ DropStream
    \/ OpenSub \/ SubExec \/ SubCommit \/ DropSub
    \/ Commit \/ Abort \/ DestroyTransaction
    \/ SetOutside \/ Listen \/ Unlisten \/ Deactivate \/ Inhibit

TransactionSpec == TransactionInit /\ [][TransactionNext]_transactionVars

-----------------------------------------------------------------------------
Numbers == 1 .. MaxTrans
Ended(n) == n \in 1 .. Len(ended)

\* commit() returns only when exactly the statements that the client takes for
\* executed are stored: none is lost, none of a subtransaction rolled back has
\* slipped in, none has been executed in another session.
CommittedIsExact ==
    \A n \in Numbers : Ended(n) /\ ended[n].status = "committed" => StoredOf(n) = ended[n].acked

\* After an exception other than in_doubt_error, of a statement or of commit(),
\* nothing is stored: what perform() relies on when it tries again.
AbortedIsGone ==
    \A n \in Numbers : Ended(n) /\ ended[n].status = "aborted" => StoredOf(n) = {}

\* in_doubt_error leaves two possibilities only.
DoubtIsAllOrNothing ==
    \A n \in Numbers : Ended(n) /\ ended[n].status = "in_doubt" => StoredOf(n) \in {{}, ended[n].acked}

\* The session is outside a transaction whenever no transaction object exists,
\* so the next one does not find itself in an earlier one's transaction.
NothingLeftOpen == trans = NoTrans => session.tx = "idle"

\* Variables, receivers and prepared statements the connection object remembers
\* are those in effect in its session, across rollbacks and reconnections, but
\* for what set_up_state has failed to restore without noticing.
SettingsAgree == trans = NoTrans /\ conn = "ok" => session.set = settings \ session.lost

\* What the documentation of set_variable promises; set_up_state does not look
\* at the results of its batch.
RestoredAutomatically ==
    trans = NoTrans /\ conn = "ok" /\ "SET" \in settings => "SET" \in session.set

\* A record found in the log of robusttransaction proves that its transaction
\* has not been executed, whatever its client was told; and if there was a record
\* when the transaction began, one missing after in_doubt_error proves that it has.
LogTellsTheTruth ==
    \A n \in Numbers :
        /\ Statement(n, 0) \in stored => StoredOf(n) = {}
        /\ Ended(n) /\ ended[n].status = "in_doubt" /\ ended[n].logged /\ Statement(n, 0) \notin stored
              => StoredOf(n) = ended[n].acked

InDoubt(n) == Ended(n) /\ ended[n].kind = "robust" /\ ended[n].status = "in_doubt"

=============================================================================
