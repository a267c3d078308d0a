------------------------------ MODULE Pipeline ------------------------------
(***************************************************************************)
(* pqxx::pipeline: queries go to the server in batches, results come back  *)
(* in order, and a batch with a syntax error is replayed query by query to *)
(* find the culprit.  The iterators of m_issuedrange are the identifiers   *)
(* they point to, or NoMore.  The link does not break here (that is the    *)
(* subject of Transactions); results arrive when they like.                *)
(***************************************************************************)
EXTENDS Outcomes, Naturals, Sequences, FiniteSetsExt

CONSTANTS MaxQueries,   \* bound: queries inserted
          MaxRetain,    \* bound: argument of retain
          Transient     \* TRUE: a batch can fail although its queries are good

ASSUME MaxQueriesAssumption == MaxQueries \in Nat

VARIABLES p,       \* the pipeline, its transaction and connection
          called   \* the latest call and what it came to

pipelineVars == <<p, called>>

Ids == 1 .. MaxQueries
NoMore == MaxQueries + 1       \* m_queries.end()
Limit == MaxQueries + 2     \* qid_limit(), also m_error when there is none
NoResult == [of |-> 0, ok |-> TRUE]
BatchError == [of |-> 0, ok |-> FALSE]

(***************************************************************************)
(* Fields of p: queries (m_queries), first and second (m_issuedrange),     *)
(* retain, waiting, q_id, dummy, error (of the same names in the code),    *)
(* registered; the transaction's session tx ("non" for a nontransaction,   *)
(* "open", "failed", or "gone" when it has been rolled back); of libpq,    *)
(* active (a query is in progress) and answers (the results to come);      *)
(* stray, whether a statement went out after the rollback; got, what the   *)
(* latest retrieve has handed over, with the kind of its query; cancelled, *)
(* whether results have been left with libpq by cancel.                    *)
(***************************************************************************)
have_pending(w) == w.first # w.second

Known(w) == DOMAIN w.queries
From(w, q) == {i \in Known(w) : i >= q}
FirstKnown(w) == Min(Known(w) \cup {NoMore})
Successor(w, q) == Min({i \in Known(w) : i > q} \cup {NoMore})
Drop(w, gone) == [q \in Known(w) \ gone |-> w.queries[q]]

\* Mutant: the error is not remembered.
set_error_atNowhere(w, q) == w

set_error_at(w, q) == [w EXCEPT !.error = Min({@, q})]
internal_error(w) == Outcome(set_error_at(w, 0), "internal")

-----------------------------------------------------------------------------
(* The server and libpq *)

\* The place of q in a batch, and the query at a place.
Rank(qs, q) == Cardinality({r \in qs : r <= q})
Nth(qs, i) == CHOOSE q \in qs : Rank(qs, q) = i

\* Results of the queries of a batch, up to the first that fails.
UpToError(w, qs) ==
    LET bad == {q \in qs : w.queries[q].kind # "good"}
        run == {q \in qs : \A b \in bad : q <= b}
    IN  [i \in 1 .. Cardinality(run) |-> [of |-> Nth(run, i), ok |-> Nth(run, i) \notin bad]]

\* The answers to a batch, and what becomes of the transaction.  All of it is
\* parsed before any of it is executed.
Answers(w, qs, dummy) ==
    LET parsed == \A q \in qs : w.queries[q].kind # "syntax"
        lead == IF dummy THEN <<[of |-> 0, ok |-> TRUE]>> ELSE <<>>
        refused == IF dummy \/ qs = {} THEN <<BatchError>> ELSE <<[of |-> Min(qs), ok |-> FALSE]>>
    IN  IF w.tx = "failed" \/ ~parsed THEN {refused}
        ELSE {lead \o UpToError(w, qs)} \cup (IF Transient /\ dummy THEN {refused} ELSE {})

AfterBatch(w, answers) ==
    [w EXCEPT !.answers = answers, !.active = TRUE,
              !.tx = IF @ = "open" /\ \E i \in 1 .. Len(answers) : ~answers[i].ok THEN "failed" ELSE @,
              !.stray = @ \/ w.tx = "gone"]

start_exec(w, qs, dummy) ==
    IF w.active THEN {Outcome(w, "failure")}
    ELSE {Outcome(AfterBatch(w, a), "ok") : a \in Answers(w, qs, dummy)}

\* transaction_base::exec; a dbtransaction rolls back when a statement fails.
exec_query(w, q) ==
    LET v == [w EXCEPT !.active = FALSE, !.answers = <<>>]
    IN  IF w.registered \/ w.tx = "gone" THEN Outcome(w, "usage")
        ELSE IF w.tx # "failed" /\ w.queries[q].kind = "good" THEN Outcome(v, "ok")
        ELSE Outcome([v EXCEPT !.tx = IF @ = "non" THEN "non" ELSE "gone"], "sql")

-----------------------------------------------------------------------------
(* Results *)

\* "more" and "none" are the results true and false.
obtain_result(w, expect_none) ==
    LET idle == [w EXCEPT !.active = FALSE]
        rest == [w EXCEPT !.answers = Tail(@)]
    IN  IF w.answers = <<>>
        THEN IF have_pending(w) /\ ~expect_none
             THEN IF w.first = NoMore THEN Outcome(w, "undefined")
                  ELSE Outcome([set_error_at(idle, w.first) EXCEPT !.second = w.first], "none")
             ELSE Outcome(idle, "none")
        ELSE IF Known(w) = {} THEN Outcome(rest, "undefined")
        ELSE IF ~have_pending(w) THEN Outcome(set_error_at(rest, FirstKnown(w)), "logic")
        ELSE IF w.first \notin Known(w) THEN Outcome(rest, "undefined")
        ELSE IF w.queries[w.first].res # NoResult THEN internal_error(rest)
        ELSE Outcome([rest EXCEPT !.queries[w.first].res = Head(w.answers),
                                  !.first = Successor(w, w.first)], "more")

\* Mutant: the issued range still ends where the batch began.
replay_oneKeepingRange(w) ==
    LET q == w.first
        o == exec_query([w EXCEPT !.waiting = @ - 1], q)
        after == [o.w EXCEPT !.first = Successor(w, q)]
    IN  IF o.res = "ok" THEN Outcome([after EXCEPT !.queries[q].res = [of |-> q, ok |-> TRUE]], "ok")
        ELSE Outcome(set_error_at(after, IF after.first = NoMore THEN q + 1 ELSE after.first), "caught")

\* The oldest query of the batch by itself.
replay_one(w) ==
    LET q == w.first
        o == exec_query([w EXCEPT !.waiting = @ - 1], q)
        after == [o.w EXCEPT !.first = Successor(w, q)]
        failed == [after EXCEPT !.second = after.first]
    IN  IF o.res = "ok" THEN Outcome([after EXCEPT !.queries[q].res = [of |-> q, ok |-> TRUE]], "ok")
        ELSE Outcome(set_error_at(failed, IF after.first = NoMore THEN q + 1 ELSE after.first), "caught")

\* One by one, until one fails: the queries after it are given up.  replayed[n]
\* is what the n-th of them leaves.
Replay(w, stop) ==
    LET replayed[n \in 0 .. MaxQueries] == IF n = 0 THEN Outcome(w, "ok") ELSE replay_one(replayed[n - 1].w)
        goes_on(n) == n = 0 \/ (replayed[n].res = "ok" /\ replayed[n].w.first # stop)
    IN  {Outcome(replayed[n].w, "ok") :
            n \in {k \in 0 .. MaxQueries : (\A m \in 0 .. k - 1 : goes_on(m)) /\ ~goes_on(k)}}

\* Mutant: the whole batch is blamed.
obtain_dummyOnly(w) ==
    LET rest == [w EXCEPT !.answers = Tail(@), !.dummy = FALSE, !.first = w.second, !.active = FALSE]
        batch == From(w, w.first) \ From(w, w.second)
    IN  IF w.answers = <<>> THEN {internal_error(w)}
        ELSE IF Head(w.answers).ok THEN {Outcome([w EXCEPT !.answers = Tail(@), !.dummy = FALSE], "ok")}
        ELSE {Outcome([rest EXCEPT !.queries = [q \in Known(w) |->
                 IF q \in batch THEN [@[q] EXCEPT !.res = BatchError] ELSE @[q]]], "ok")}

obtain_dummy(w) ==
    LET rest == [w EXCEPT !.answers = Tail(@), !.dummy = FALSE]
        batch == From(w, w.first) \ From(w, w.second)
        blamed == [rest EXCEPT !.queries =
                      [q \in Known(w) |-> IF q \in batch THEN [@[q] EXCEPT !.res = BatchError] ELSE @[q]]]
        ended == obtain_result(blamed, TRUE)
        reset == [ended.w EXCEPT !.waiting = @ + Cardinality(batch), !.second = w.first, !.registered = FALSE]
    IN  IF w.answers = <<>> THEN {internal_error([w EXCEPT !.dummy = FALSE])}
        ELSE IF Head(w.answers).ok
        THEN {IF Head(w.answers).of = 0 THEN Outcome(rest, "ok") ELSE internal_error(rest)}
        ELSE IF ended.res \notin {"none", "more"} THEN {ended}
        ELSE Replay(reset, w.second)

\* obtained(w)[n] is the outcome of the n-th call of obtain_result in a row.
obtained(w) ==
    LET o[n \in 0 .. Len(w.answers) + 1] ==
            IF n = 0 THEN Outcome(w, "more") ELSE obtain_result(o[n - 1].w, FALSE)
    IN  o

\* Whatever has arrived; the connection may be busy at any point.
get_further_available_results(w) ==
    LET o == obtained(w)
        tried == {n \in 0 .. Len(w.answers) + 1 : \A m \in 0 .. n - 1 : o[m].res = "more"}
    IN  {Outcome(o[n].w, IF o[n].res \in {"more", "none"} THEN "ok" ELSE o[n].res) : n \in tried}

DummyFirst(w) == IF w.dummy THEN obtain_dummy(w) ELSE {Outcome(w, "ok")}

FurtherIfPending(w) == IF have_pending(w) THEN get_further_available_results(w) ELSE {Outcome(w, "ok")}

receive_if_available(w) == {Outcome(w, "ok")} \cup Then(DummyFirst(w), FurtherIfPending)

ReceiveUpTo(w, stop) ==
    LET o == obtained(w)
        goes_on(n) == n = 0 \/ (o[n].res = "more" /\ o[n].w.first # stop)
        last == {n \in 0 .. Len(w.answers) + 1 : (\A m \in 0 .. n - 1 : goes_on(m)) /\ ~goes_on(n)}
    IN  UNION {IF o[n].res \notin {"more", "none"} THEN {o[n]}
               ELSE IF o[n].w.first = stop THEN get_further_available_results(o[n].w)
               ELSE {Outcome(o[n].w, "ok")} : n \in last}

receive(w, stop) == Then(DummyFirst(w), LAMBDA v : ReceiveUpTo(v, stop))

-----------------------------------------------------------------------------
(* Sending *)

\* Mutant: the dummy query is not expected back.
issueForgettingDummy(w) ==
    LET o == obtain_result(w, FALSE)
        batch == From(o.w, o.w.second)
        issued(u) == {Outcome([u EXCEPT !.first = o.w.second, !.second = NoMore,
                                        !.waiting = @ - Cardinality(batch)], "ok")}
    IN  IF o.res \notin {"more", "none"} THEN {o}
        ELSE IF o.w.error < Limit THEN {Outcome(o.w, "ok")}
        ELSE Then(start_exec(o.w, batch, Cardinality(batch) > 1), issued)

issue(w) ==
    LET o == obtain_result(w, FALSE)
        v == o.w
        batch == From(v, v.second)
        dummy == Cardinality(batch) > 1
        issued(u) == {Outcome([u EXCEPT !.dummy = dummy, !.first = v.second, !.second = NoMore,
                                        !.waiting = @ - Cardinality(batch)], "ok")}
    IN  IF o.res \notin {"more", "none"} THEN {o}
        ELSE IF v.error < Limit THEN {Outcome(v, "ok")}
        ELSE Then(start_exec(v, batch, dummy), issued)

IssueIf(w, condition) == IF condition THEN issue(w) ELSE {Outcome(w, "ok")}

ReceiveAvailable(w) == IF have_pending(w) THEN receive_if_available(w) ELSE {Outcome(w, "ok")}

resume(w) ==
    Then(ReceiveAvailable(w), LAMBDA v :
    IF ~have_pending(v) /\ v.waiting > 0 THEN Then(issue(v), receive_if_available)
    ELSE {Outcome(v, "ok")})

insert(w, kind) ==
    LET q == w.q_id + 1
        v == [w EXCEPT !.registered = TRUE, !.q_id = q, !.waiting = @ + 1,
                       !.queries = [i \in Known(w) \cup {q} |->
                                       IF i = q THEN [kind |-> kind, res |-> NoResult] ELSE @[i]],
                       !.second = IF @ = NoMore THEN q ELSE @,
                       !.first = IF w.second = NoMore /\ @ = NoMore THEN q ELSE @]
    IN  IF v.waiting <= v.retain THEN {Outcome(v, "ok")}
        ELSE Then(ReceiveAvailable(v), LAMBDA u : IssueIf(u, ~have_pending(u)))

ReceiveIssued(w) == IF have_pending(w) THEN receive(w, w.second) ELSE {Outcome(w, "ok")}

IssueRest(w) ==
    IF w.waiting > 0 /\ w.error = Limit THEN Then(issue(w), LAMBDA v : receive(v, NoMore))
    ELSE {Outcome(w, "ok")}

unregister(w) == {Outcome([w EXCEPT !.registered = FALSE], "ok")}

complete(w) == Then(Then(ReceiveIssued(w), IssueRest), unregister)

flush(w) ==
    LET cleared(v) == {Outcome([v EXCEPT !.first = NoMore, !.second = NoMore, !.waiting = 0, !.dummy = FALSE,
                                         !.queries = Drop(v, Known(v)), !.registered = FALSE], "ok")}
    IN  IF Known(w) = {} THEN unregister(w)
        ELSE Then(ReceiveIssued(w), cleared)

\* PQcancel cannot recall what the server has done already.
cancel(w) == {Outcome([w EXCEPT !.queries = Drop(w, From(w, w.first) \ From(w, w.second)),
                                !.first = w.second,
                                !.cancelled = @ \/ have_pending(w)], "ok")}

retain(w, n) ==
    LET v == [w EXCEPT !.retain = n]
    IN  IF v.waiting >= n THEN resume(v) ELSE {Outcome(v, "ok")}

\* The steps of retrieve: its batch is issued, its result received, the next batch
\* issued meanwhile, and the result handed over.
IssueFor(w, q) ==
    IF w.second # NoMore /\ q >= w.second
    THEN Then(ReceiveIssued(w), LAMBDA u : IssueIf(u, u.error = Limit))
    ELSE {Outcome(w, "ok")}

ReceiveFor(w, q) ==
    IF ~have_pending(w) THEN {Outcome(w, "ok")}
    ELSE IF w.first = NoMore THEN {Outcome(w, "undefined")}
    ELSE IF q >= w.first THEN receive(w, Successor(w, q))
    ELSE receive_if_available(w)

IssueMeanwhile(w, q) ==
    IF q >= w.error THEN {Outcome(w, "runtime")}
    ELSE IssueIf(w, w.waiting > 0 /\ ~have_pending(w) /\ w.error = Limit)

HandOver(w, q) ==
    LET r == w.queries[q].res
        u == [w EXCEPT !.queries = Drop(w, {q}), !.got = [kind |-> w.queries[q].kind, res |-> r]]
    IN  {Outcome(u, IF r = NoResult THEN "failure" ELSE IF r.ok THEN "ok" ELSE "sql")}

retrieve(w, q) ==
    IF q \notin Known(w) THEN {Outcome(w, "logic")}
    ELSE IF q >= w.error THEN {Outcome(w, "runtime")}
    ELSE Then(Then(Then(IssueFor(w, q), LAMBDA v : ReceiveFor(v, q)),
                   LAMBDA v : IssueMeanwhile(v, q)),
              LAMBDA v : HandOver(v, q))

is_finished(w, q) == w.first = NoMore \/ (q < w.first /\ q < w.error)

-----------------------------------------------------------------------------
(* The client *)

Call(op, q, outs) ==
    \E o \in outs : p' = o.w /\ called' = [op |-> op, q |-> q, res |-> o.res]

Insert(kind) == p.q_id < MaxQueries /\ Call("insert", p.q_id + 1, insert(p, kind))
Complete == Call("complete", 0, complete(p))
Flush == Call("flush", 0, flush(p))
Cancel == Call("cancel", 0, cancel(p))
Resume == Call("resume", 0, resume(p))
Retain(n) == Call("retain", 0, retain(p, n))
RetrieveResult(q) == Call("retrieve", q, retrieve(p, q))

PipelineInit ==
    /\ \E tx \in {"non", "open"} :
          p = [queries |-> <<>>, first |-> NoMore, second |-> NoMore, retain |-> 0, waiting |-> 0,
               q_id |-> 0, dummy |-> FALSE, error |-> Limit, registered |-> TRUE,
               tx |-> tx, active |-> FALSE, answers |-> <<>>, stray |-> FALSE, cancelled |-> FALSE,
               got |-> [kind |-> "good", res |-> NoResult]]
    /\ called = [op |-> "construct", q |-> 0, res |-> "ok"]

PipelineNext ==
    \/ \E kind \in {"good", "syntax", "runtime"} : Insert(kind)
    \/ Complete \/ Flush \/ Cancel \/ Resume
    \/ \E n \in 0 .. MaxRetain : Retain(n)
    \/ \E q \in Known(p) : RetrieveResult(q)

PipelineSpec == PipelineInit /\ [][PipelineNext]_pipelineVars

-----------------------------------------------------------------------------
\* retrieve(q) hands over the result of q, whatever batches q and its neighbours
\* went through, in whatever order results arrive and are asked for; an error is
\* that of q or of its batch.  What is_finished calls finished has its result, or
\* is beyond an error.
RightAnswer ==
    /\ called.op = "retrieve" =>
        /\ called.res = "ok" => p.got.res = [of |-> called.q, ok |-> TRUE]
        /\ called.res = "sql" => p.got.res.of \in {called.q, 0}
    /\ \A q \in Known(p) : is_finished(p, q) /\ q < p.error => p.queries[q].res # NoResult

\* In a nontransaction the replay finds the query that is wrong: no other query
\* of its batch is reported as failed.
CulpritBlamed ==
    called.op = "retrieve" /\ called.res = "sql" /\ p.tx = "non" => p.got.kind # "good"

\* No iterator is followed that has been erased or is at the end, the bookkeeping
\* of results never contradicts itself, and the issued range is a range.
NeverUndefined ==
    /\ called.res # "undefined" /\ (called.res \in {"internal", "logic"} => p.cancelled)
    /\ {p.first, p.second} \subseteq Known(p) \cup {NoMore} /\ p.first <= p.second

\* Once a replay has rolled the transaction back, nothing is sent any more: it
\* would be executed outside of any transaction.
NeverStray == ~p.stray
=============================================================================
