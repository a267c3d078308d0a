----------------------------- MODULE Connection -----------------------------
(***************************************************************************)
(* A connection of libpqxx (connection_base with the direct policy) and    *)
(* the session of the server behind it.  The link can break at any         *)
(* statement, before the server executes it or after it has; the server    *)
(* then ends the session and rolls back what is open.                      *)
(*                                                                         *)
(* Left out: reactivation avoidance, which is for cursors WITH HOLD.       *)
(***************************************************************************)
EXTENDS Outcomes, Naturals, FiniteSets

(***************************************************************************)
(* A world has the fields                                                  *)
(*   conn       m_conn: "none" (null), "ok", or "bad" (PQstatus)           *)
(*   inhibited  m_inhibit_reactivation                                     *)
(*   settings   what the client believes to be set in its session: m_vars, *)
(*              m_receivers and the registered ones of m_prepared          *)
(*   session    the session at the server: state of its transaction, what  *)
(*              it has executed, and until its savepoint, settings, and as *)
(*              history those that its start has failed to restore         *)
(*   stored     what has been committed at the server                      *)
(* and those of the transaction objects, which module Transactions adds.   *)
(* One variable, one channel and one prepared statement stand for all.     *)
(***************************************************************************)
-----------------------------------------------------------------------------
(* The server *)

Fresh == [tx |-> "idle", work |-> {}, save |-> {}, set |-> {}, lost |-> {}]

Run(op) == [op |-> op]
Add(item) == [op |-> "add", item |-> item]
Deleted(item) == [op |-> "remove", item |-> item]

Items(work, op) == {c.item : c \in {d \in work : d.op = op}}

\* What the database holds, and the session has set, once work counts.
Applied(stored, work) == (stored \cup Items(work, "add")) \ Items(work, "remove")
InEffect(s) == s.set \cup {op \in {"SET", "LISTEN"} : Run(op) \in s.work}

\* COMMIT of a failed transaction rolls back, and is no error; nor are BEGIN
\* inside, COMMIT and ROLLBACK outside of a transaction (they draw a warning).
\* COMMIT can fail (deferred constraints), and so can any other statement.
\* SET and LISTEN belong to the transaction, PREPARE does not.
Executes(w, c) ==
    LET s == w.session
        ended(set) == [Fresh EXCEPT !.set = set, !.lost = s.lost \ set]
        to(session) == Outcome([w EXCEPT !.session = session], "ok")
        failed(session) == Outcome([w EXCEPT !.session =
                               [session EXCEPT !.tx = IF @ = "idle" THEN "idle" ELSE "failed"]], "sql")
        now == InEffect([set |-> s.set, work |-> {c}])
        alone == [w EXCEPT !.stored = Applied(@, {c}), !.session.set = now, !.session.lost = @ \ now]
    IN  CASE c.op = "COMMIT" /\ s.tx = "open" ->
                 {Outcome([w EXCEPT !.session = ended(InEffect(s)), !.stored = Applied(@, s.work)], "ok"),
                  failed(ended(s.set))}
          [] c.op = "ROLLBACK" \/ (c.op = "COMMIT" /\ s.tx # "open") -> {to(ended(s.set))}
          [] c.op = "ROLLBACK TO" /\ s.save # {} -> {to([s EXCEPT !.tx = "open", !.work = UNION s.save])}
          [] c.op = "BEGIN" /\ s.tx # "failed" -> {to([s EXCEPT !.tx = "open"])}
          [] c.op = "SAVEPOINT" /\ s.tx = "open" -> {to([s EXCEPT !.save = {s.work}])}
          [] c.op = "RELEASE" /\ s.tx = "open" /\ s.save # {} -> {to([s EXCEPT !.save = {}])}
          [] c.op = "PREPARE" /\ s.tx # "failed" -> {to([s EXCEPT !.set = @ \cup {c.op}]), failed(s)}
          [] c.op = "query" /\ s.tx # "failed" -> {to(s), failed(s)}
          [] c.op \in {"add", "remove", "SET", "LISTEN"} /\ s.tx = "open" ->
                 {to([s EXCEPT !.work = @ \cup {c}]), failed(s)}
          [] c.op \in {"add", "remove", "SET", "LISTEN"} /\ s.tx = "idle" -> {Outcome(alone, "ok"), failed(s)}
          [] c.op = "UNLISTEN" /\ s.tx = "idle" -> {to([s EXCEPT !.set = @ \ {"LISTEN"}, !.lost = @ \ {"LISTEN"}])}
          [] OTHER -> {failed(s)}

-----------------------------------------------------------------------------
(* connection_base *)

is_open(w) == w.conn = "ok"

\* PQfinish, or the server loses the client.
Cut(w, state) == [w EXCEPT !.conn = state, !.session = Fresh]

\* PQexec: "lost" is a null result; the answer "broken" is also a lost link.
PQexec(w, c) ==
    IF ~is_open(w) THEN {Outcome(w, "lost")}
    ELSE Executes(w, c)
         \cup {Outcome(Cut(w, "bad"), "lost"), Outcome(Cut(w, "bad"), "broken")}
         \cup {Outcome(Cut(o.w, "bad"), "broken") : o \in Executes(w, c)}

\* The batch of one transaction that is to set again what the old session had;
\* its results are thrown away.
Restore(w, kept) ==
    LET begun(set) == [w EXCEPT !.session = [Fresh EXCEPT !.set = set, !.lost = kept \ set]]
    IN  IF kept = {} THEN {Outcome(begun({}), "ok")}
        ELSE {Outcome(begun(kept), "ok"), Outcome(begun({}), "ok"), Outcome(Cut(w, "bad"), "broken")}

\* Mutant: statements of the old session are taken for prepared.
set_up_statePrepared(w) == Restore([w EXCEPT !.conn = "ok"], w.settings \ {"PREPARE"})

\* Variables and channels are restored, statements prepared again on demand.
set_up_state(w) ==
    LET kept == w.settings \ {"PREPARE"}
    IN  Restore([w EXCEPT !.conn = "ok", !.settings = kept], kept)

\* normalconnect, without a handle.
connect(w) ==
    LET disconnected(o) == {Outcome(Cut(o.w, "none"), o.res)}
    IN  Catch(set_up_state(w), disconnected) \cup {Outcome(w, "broken")}

\* A handle that went bad is given up first, with an exception.
activate(w) ==
    IF is_open(w) THEN {Outcome(w, "ok")}
    ELSE IF w.inhibited THEN {Outcome(w, "broken")}
    ELSE IF w.conn = "bad" THEN {Outcome(Cut(w, "none"), "broken")}
    ELSE connect(w)

\* PQreset of a broken handle.
reset(w) ==
    IF w.inhibited THEN {Outcome(w, "broken")}
    ELSE set_up_state(w) \cup {Outcome(Cut(w, "none"), "broken")}

\* check_result, and get_notifs: a lost link shows as broken_connection.
checked(outs) == {IF o.res = "lost" THEN Outcome(o.w, "broken") ELSE o : o \in outs}

\* A null result is tried again on a new session; as nothing has been executed
\* then, trying twice has the outcomes of trying once.
exec(w, c, retry) ==
    LET again(o) == IF o.res = "lost" /\ retry
                    THEN Then(reset(o.w), LAMBDA v : PQexec(v, c)) ELSE {o}
    IN  Then(activate(w), LAMBDA v : checked(Catch(PQexec(v, c), again)))

\* Neither activated nor retried.
exec_params(w, c) == checked(PQexec(w, c))

register_prepared(w) ==
    LET prepared(v) == {Outcome([v EXCEPT !.settings = @ \cup {"PREPARE"}], "ok")}
    IN  Then(activate(w), LAMBDA v : IF "PREPARE" \in v.settings THEN {Outcome(v, "ok")}
                                     ELSE Then(checked(PQexec(v, Run("PREPARE"))), prepared))

\* A statement that the session does not know fails.
exec_prepared(w, c) ==
    LET run(v) == IF "PREPARE" \in v.session.set THEN PQexec(v, c) ELSE {Outcome(v, "sql")}
    IN  Then(register_prepared(w), LAMBDA v : Then(activate(v), LAMBDA u : checked(run(u))))

\* Outside a transaction: in the session if there is one, and for the next.
set_variable(w) ==
    Then(IF is_open(w) THEN exec(w, Run("SET"), FALSE) ELSE {Outcome(w, "ok")},
         LAMBDA v : {Outcome([v EXCEPT !.settings = @ \cup {"SET"}], "ok")})

add_variables(w, vars) == [w EXCEPT !.settings = @ \cup vars]

\* LISTEN at once when connected; a lost link will be made good by set_up_state.
add_receiver(w) ==
    LET lost(o) == {IF o.res = "broken" THEN Outcome(o.w, "ok") ELSE o}
    IN  Then(IF is_open(w) THEN Catch(checked(PQexec(w, Run("LISTEN"))), lost) ELSE {Outcome(w, "ok")},
             LAMBDA v : {Outcome([v EXCEPT !.settings = @ \cup {"LISTEN"}], "ok")})

remove_receiver(w) ==
    LET erased == [w EXCEPT !.settings = @ \ {"LISTEN"}]
    IN  IF w.conn = "none" THEN {Outcome(erased, "ok")}
        ELSE Quietly(exec(erased, Run("UNLISTEN"), FALSE), LAMBDA v : {Outcome(v, "ok")})

\* Not while a transaction is open.
deactivate(w) == Cut(w, "none")
=============================================================================
