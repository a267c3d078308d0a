----------------------------- MODULE Sessions -----------------------------
(***************************************************************************)
(* The handlers of Party, statement by statement.  Each W.exec of a        *)
(* handler is a step; its writes stay with the transaction until           *)
(* W.commit(), and the program may die at any point in between.  With one  *)
(* program this implements Party: its actions may be thought of as atomic. *)
(* With several programs the statements interleave as PostgreSQL runs them *)
(* at READ COMMITTED, the level of pqxx::work:                             *)
(*   - a statement sees what is committed when it starts, and the writes   *)
(*     of its own transaction;                                             *)
(*   - a write waits while another open transaction has written the same   *)
(*     row, or inserted the same value of a PRIMARY KEY or UNIQUE column;  *)
(*   - an INSERT of a value that is there raises unique_violation;         *)
(*   - of transactions that wait in a circle, the server fails one.        *)
(* The checks of foreign keys lock no row against the UPDATEs made here,   *)
(* as these touch no key column.  No handler catches an exception: the     *)
(* program terminates.                                                     *)
(***************************************************************************)
EXTENDS Calls

CONSTANTS
    Prog,      \* programs connected to the database
    Input,     \* the calls that can be read
    MaxCalls   \* bound: number of calls read in a behaviour

ASSUME InputAssumption ==
    Input \subseteq
        {TrollsCall(ts) : ts \in Timestamp}
        \cup {MemberCall(fn, m, ts, pw) :
                 fn \in {"leader", "report"}, m \in MemberArg, ts \in Timestamp, pw \in Password}
        \cup {VoteCall(fn, m, ts, pw, a) :
                 fn \in VoteType, m \in MemberArg, ts \in Timestamp, pw \in Password, a \in ActionArg}
        \cup {ActionCall(fn, m, ts, pw, a, p, auth) :
                 fn \in ActionType, m \in MemberArg, ts \in Timestamp, pw \in Password,
                 a \in ActionArg, p \in ProjectArg, auth \in AuthorityArg \cup {Absent}}
ASSUME MaxCallsAssumption == MaxCalls \in Nat

VARIABLES
    pc,      \* statement each program executes next
    call,    \* the call it works on
    known,   \* createAction: the project exists
    listed,  \* createAction: auth_exist
    writes,  \* what its open transaction has written: rows, by their tables
    output,  \* lines on standard output: <<call, status>>
    calls    \* number of calls read so far

local == <<pc, call, known, listed, writes>>
sessionVars == <<callsVars, local, output, calls>>

-----------------------------------------------------------------------------
(* Transactions *)

\* Rows of each table: those of a transaction, or of the database.
Rows(ofMembers, ofProjects, ofActions, ofVotes, ofTakenid) ==
    [members |-> ofMembers, projects |-> ofProjects, actions |-> ofActions,
     votes |-> ofVotes, takenid |-> ofTakenid]

NoWrites == Rows(EmptyTable, EmptyTable, EmptyTable, <<>>, {})
Committed == Rows(members, projects, actions, votes, takenid)

\* Row versions over those they supersede.
Over(new, old) ==
    [k \in DOMAIN new \cup DOMAIN old |-> IF k \in DOMAIN new THEN new[k] ELSE old[k]]

Merged(new, old) ==
    Rows(Over(new.members, old.members), Over(new.projects, old.projects),
         Over(new.actions, old.actions), old.votes \o new.votes, new.takenid \cup old.takenid)

\* What a statement of program s sees.
View(s) == Merged(writes[s], Committed)

\* Both have a row under one PRIMARY KEY, or a value of a UNIQUE column.
Clash(v, w) ==
    \/ DOMAIN v.members \cap DOMAIN w.members # {}
    \/ DOMAIN v.projects \cap DOMAIN w.projects # {}
    \/ DOMAIN v.actions \cap DOMAIN w.actions # {}
    \/ v.takenid \cap w.takenid # {}

-----------------------------------------------------------------------------
(* The INSERTs and UPDATEs of the handlers *)

NewMember(c) ==
    [password |-> crypt(c.password), timestamp |-> c.ts, isleader |-> c.fn = "leader"]

Ballot(c) == [actionid |-> c.action, memberid |-> c.member, type |-> c.fn]

\* The authority that createAction writes into the action.
AuthorityOf(s) ==
    IF known[s] THEN View(s).projects[call[s].project] ELSE call[s].authority

\* UPDATE actions SET ... = ... + 1
Counted(row, type) ==
    IF type = "upvote" THEN [row EXCEPT !.upvotes = @ + 1] ELSE [row EXCEPT !.downvotes = @ + 1]

\* What one INSERT or UPDATE writes.
Row(key, row) == [k \in {key} |-> row]
InMembers(m, row) == Rows(Row(m, row), EmptyTable, EmptyTable, <<>>, {})
InProjects(p, auth) == Rows(EmptyTable, Row(p, auth), EmptyTable, <<>>, {})
InActions(a, row) == Rows(EmptyTable, EmptyTable, Row(a, row), <<>>, {})
InVotes(row) == Rows(EmptyTable, EmptyTable, EmptyTable, <<row>>, {})
InTaken(id) == Rows(EmptyTable, EmptyTable, EmptyTable, <<>>, {id})

\* What the statement that s executes next writes.
Pending(s) ==
    LET c == call[s]
        db == View(s)
    IN  CASE pc[s] = "memberTaken"    -> InTaken(c.member)
          [] pc[s] = "memberRow"      -> InMembers(c.member, NewMember(c))
          [] pc[s] = "touch"          -> InMembers(c.member, [db.members[c.member] EXCEPT !.timestamp = c.ts])
          [] pc[s] = "projectRow"     -> InProjects(c.project, c.authority)
          [] pc[s] = "actionRow"      -> InActions(c.action, NewAction(c.member, c.fn, c.project, AuthorityOf(s)))
          [] pc[s] = "projectTaken"   -> InTaken(c.project)
          [] pc[s] = "actionTaken"    -> InTaken(c.action)
          [] pc[s] = "authorityTaken" -> InTaken(c.authority)
          [] pc[s] = "voteRow"        -> InVotes(Ballot(c))
          [] pc[s] = "count"          -> InActions(c.action, Counted(db.actions[c.action], c.fn))
          [] OTHER                    -> NoWrites

\* s waits for the transaction of t to end.
Waits(s, t) == s # t /\ Clash(Pending(s), writes[t])

\* s, and each program on the way from s to s, waits for the next.
InCircle(s) ==
    \E n \in 1 .. Cardinality(Prog) : \E way \in [0 .. n -> Prog] :
        /\ way[0] = s /\ way[n] = s
        /\ \A i \in 1 .. n : Waits(way[i - 1], way[i])

\* Mutant: takenid is not UNIQUE.
DuplicateAllowed(s) == Clash([Pending(s) EXCEPT !.takenid = {}], View(s))

\* What s inserts is there.
Duplicate(s) == Clash(Pending(s), View(s))

-----------------------------------------------------------------------------
(* Kinds of steps *)

Goto(s, label) == pc' = [pc EXCEPT ![s] = label]

Discard(s) == writes' = [writes EXCEPT ![s] = NoWrites]

Answer(s, status) == output' = output \cup {<<call[s], status>>}

\* The call takes its place in the order of calls, with this result.
Settle(s, status) == reply' = status /\ clock' = call[s].ts /\ request' = call[s]

\* A SELECT that decides where the handler goes on.
Select(s, label, next) ==
    /\ pc[s] = label /\ Goto(s, next)
    /\ UNCHANGED <<callsVars, call, known, listed, writes, output, calls>>

\* An exception: main ends, the server rolls back.
Throw(s) ==
    /\ Settle(s, "terminated")
    /\ Goto(s, "idle") /\ Discard(s)
    /\ UNCHANGED <<tables, call, known, listed, output, calls>>

\* An UPDATE adds a version of its row.
Update(s, label, next) ==
    /\ pc[s] = label
    /\ \A t \in Prog : ~Waits(s, t)
    /\ writes' = [writes EXCEPT ![s] = Merged(Pending(s), @)]
    /\ Goto(s, next)
    /\ UNCHANGED <<callsVars, call, known, listed, output, calls>>

\* An INSERT adds a row, unless its key is there.
InsertRow(s, label, next) ==
    /\ pc[s] = label
    /\ \A t \in Prog : ~Waits(s, t)
    /\ IF Duplicate(s) THEN Throw(s) ELSE Update(s, label, next)

\* Mutant: W.commit() is missing.
StoreNothing(s) == UNCHANGED tables /\ Discard(s)

\* W.commit() at the server.
Store(s) ==
    LET db == View(s)
    IN  /\ members' = db.members /\ projects' = db.projects /\ actions' = db.actions
        /\ votes' = db.votes /\ takenid' = db.takenid
        /\ Discard(s)

-----------------------------------------------------------------------------
(* leader *)

leaderStatement(s) ==
    Select(s, "leader", IF call[s].member \in View(s).takenid THEN "error" ELSE "memberTaken")

-----------------------------------------------------------------------------
(* createAction and vote: admitting the member *)

\* Mutant: a vote leaves the timestamp of its member alone.
UnlessFrozenOrVoting(s) ==
    LET c == call[s]
    IN  IF isFrozen(View(s).members[c.member].timestamp, c.ts) THEN "error"
        ELSE IF c.fn \in VoteType THEN "action" ELSE "touch"

UnlessFrozen(s) ==
    IF isFrozen(View(s).members[call[s].member].timestamp, call[s].ts) THEN "error" ELSE "touch"

memberStatement(s) ==
    LET c == call[s]
        db == View(s)
        admitted == IF c.fn = "leader" THEN "commit" ELSE
                    IF c.fn \in VoteType THEN "action" ELSE "project"
    IN  \/ Select(s, "member", IF c.member \in DOMAIN db.members THEN "password" ELSE "memberTaken?")
        \/ Select(s, "memberTaken?", IF c.member \in db.takenid THEN "error" ELSE "memberTaken")
        \/ InsertRow(s, "memberTaken", "memberRow")
        \/ InsertRow(s, "memberRow", admitted)
        \/ pc[s] = "password" /\ Select(s, "password",
               IF db.members[c.member].password = crypt(c.password) THEN "frozen" ELSE "error")
        \/ pc[s] = "frozen" /\ Select(s, "frozen", UnlessFrozen(s))
        \/ Update(s, "touch", IF c.fn = "report" THEN "query" ELSE admitted)

-----------------------------------------------------------------------------
(* createAction: the project and the action *)

\* SELECT id FROM projects WHERE id = projectid
projectStatement(s) ==
    LET c == call[s]
        exists == c.project \in DOMAIN View(s).projects
    IN  /\ pc[s] = "project"
        /\ known' = [known EXCEPT ![s] = exists]
        /\ Goto(s, IF exists THEN "actionTaken?" ELSE "authority")
        /\ UNCHANGED <<callsVars, call, listed, writes, output, calls>>

\* SELECT id FROM projects WHERE authorityid = authorityid
authorityStatement(s) ==
    LET c == call[s]
        db == View(s)
    IN  /\ pc[s] = "authority"
        /\ \/ c.authority = Absent /\ Throw(s)
           \/ /\ c.authority # Absent
              /\ listed' = [listed EXCEPT ![s] =
                               \E p \in DOMAIN db.projects : db.projects[p] = c.authority]
              /\ Goto(s, "idsTaken?")
              /\ UNCHANGED <<callsVars, call, known, writes, output, calls>>

actionStatement(s) ==
    LET c == call[s]
        db == View(s)
        asked == {c.action, c.project} \cup (IF listed[s] THEN {} ELSE {c.authority})
        clash == asked \cap db.takenid # {} \/ c.action = c.project \/ c.project = c.authority
    IN  \/ Select(s, "actionTaken?", IF c.action \in db.takenid THEN "error" ELSE "actionRow")
        \/ Select(s, "idsTaken?", IF clash THEN "error" ELSE "projectRow")
        \/ InsertRow(s, "projectRow", "actionRow")
        \/ InsertRow(s, "actionRow", IF known[s] THEN "actionTaken" ELSE "projectTaken")
        \/ InsertRow(s, "projectTaken", "actionTaken")
        \/ InsertRow(s, "actionTaken", IF known[s] \/ listed[s] THEN "commit" ELSE "authorityTaken")
        \/ InsertRow(s, "authorityTaken", "commit")

-----------------------------------------------------------------------------
(* vote: the vote *)

voteStatement(s) ==
    LET c == call[s]
        db == View(s)
        voted == \E i \in DOMAIN db.votes :
                     db.votes[i].actionid = c.action /\ db.votes[i].memberid = c.member
    IN  \/ Select(s, "action", IF c.action \in DOMAIN db.actions THEN "voted?" ELSE "error")
        \/ Select(s, "voted?", IF voted THEN "error" ELSE "voteRow")
        \/ InsertRow(s, "voteRow", "count")
        \/ Update(s, "count", "commit")

-----------------------------------------------------------------------------
(* actions, projects, votes ("report") and trolls *)

reportStatement(s) ==
    LET c == call[s]
        db == View(s)
        leads == /\ c.member \in DOMAIN db.members
                 /\ db.members[c.member].password = crypt(c.password)
                 /\ db.members[c.member].isleader
    IN  Select(s, "report", IF leads THEN "frozen" ELSE "error")

\* The rows are printed under status OK before W.commit() is called.
printReport(s) ==
    /\ pc[s] = "query" /\ Goto(s, "commitReport")
    /\ Answer(s, "OK")
    /\ UNCHANGED <<callsVars, call, known, listed, writes, calls>>

commitReport(s) ==
    /\ pc[s] = "commitReport" /\ Goto(s, "idle")
    /\ Store(s) /\ Settle(s, "OK")
    /\ UNCHANGED <<call, known, listed, output, calls>>

trollsStatement(s) ==
    /\ pc[s] = "trolls" /\ Goto(s, "rollback")
    /\ Answer(s, "OK") /\ Settle(s, "OK")
    /\ UNCHANGED <<tables, call, known, listed, writes, calls>>

-----------------------------------------------------------------------------
(* How a handler ends *)

commit(s) ==
    /\ pc[s] = "commit" /\ Goto(s, "confirmation")
    /\ Store(s) /\ Settle(s, "OK")
    /\ UNCHANGED <<call, known, listed, output, calls>>

printConfirmation(s) ==
    /\ pc[s] = "confirmation" /\ Goto(s, "idle")
    /\ Answer(s, "OK")
    /\ UNCHANGED <<callsVars, call, known, listed, writes, calls>>

printNegation(s) ==
    /\ pc[s] = "error" /\ Goto(s, "rollback")
    /\ Answer(s, "ERROR") /\ Settle(s, "ERROR")
    /\ UNCHANGED <<tables, call, known, listed, writes, calls>>

\* Mutant: the transaction outlives the handler.
rollbackLate(s) ==
    /\ pc[s] = "rollback" /\ Goto(s, "idle")
    /\ UNCHANGED <<callsVars, call, known, listed, writes, output, calls>>

\* The pqxx::work goes out of scope uncommitted.
rollback(s) ==
    /\ pc[s] = "rollback" /\ Goto(s, "idle") /\ Discard(s)
    /\ UNCHANGED <<callsVars, call, known, listed, output, calls>>

\* The server ends a circle of waiting transactions at one of them.
deadlockDetected(s) ==
    /\ InCircle(s)
    /\ Throw(s)

\* The process is killed, or the connection is lost: an open transaction is
\* rolled back.  The next run of the program takes its place.
crash(s) ==
    /\ pc[s] # "idle" /\ Goto(s, "idle") /\ Discard(s)
    /\ UNCHANGED <<callsVars, call, known, listed, output, calls>>

-----------------------------------------------------------------------------
(* Reading calls, and the specification *)

\* The first statement of each function.
Entry(fn) ==
    CASE fn \in {"leader", "report", "trolls"} -> fn
      [] fn \in ActionType \cup VoteType       -> "member"

read(s) ==
    /\ pc[s] = "idle" /\ calls < MaxCalls /\ calls' = calls + 1
    /\ \E c \in Input :
          /\ c.ts >= clock /\ \A t \in Prog : c.ts >= call[t].ts
          /\ call' = [call EXCEPT ![s] = c]
          /\ Goto(s, Entry(c.fn))
    /\ UNCHANGED <<callsVars, known, listed, writes, output>>

Statement(s) ==
    \/ leaderStatement(s) \/ memberStatement(s)
    \/ projectStatement(s) \/ authorityStatement(s) \/ actionStatement(s)
    \/ voteStatement(s)
    \/ reportStatement(s) \/ printReport(s) \/ commitReport(s) \/ trollsStatement(s)
    \/ commit(s) \/ printConfirmation(s) \/ printNegation(s) \/ rollback(s)

SessionInit ==
    /\ CallsInit
    /\ pc = [s \in Prog |-> "idle"]
    /\ call = [s \in Prog |-> [fn |-> "none", ts |-> clock]]
    /\ known = [s \in Prog |-> FALSE] /\ listed = [s \in Prog |-> FALSE]
    /\ writes = [s \in Prog |-> NoWrites]
    /\ output = {}
    /\ calls = 0

SessionNext == \E s \in Prog : read(s) \/ Statement(s) \/ deadlockDetected(s) \/ crash(s)

\* A program that is running goes on with its call when its statement need not
\* wait, and the server looks for deadlocks (deadlock_timeout).
SessionSpec ==
    /\ SessionInit /\ [][SessionNext]_sessionVars
    /\ \A s \in Prog : WF_sessionVars(Statement(s)) /\ WF_sessionVars(deadlockDetected(s))

-----------------------------------------------------------------------------
(* Properties *)

\* What is in the database when a call has been carried out.
Stored(c) ==
    CASE c.fn \in ActionType -> c.action \in DOMAIN actions /\ actions[c.action].memberid = c.member
      [] c.fn \in VoteType   -> c.action \in DOMAIN actions /\ HasVoted(c.action, c.member)
      [] c.fn = "leader"     -> c.member \in DOMAIN members /\ members[c.member].isleader
      [] c.fn = "report"     -> members[c.member].timestamp >= c.ts
      [] c.fn = "trolls"     -> TRUE

Confirmed(fns) == {line[1] : line \in {l \in output : l[2] = "OK" /\ l[1].fn \in fns}}

\* A call that modifies the registry and was answered OK is stored, whatever
\* crashes and other programs do: W.commit() comes before the answer.
ConfirmedIsStored == \A c \in Confirmed({"leader"} \cup ActionType \cup VoteType) : Stored(c)

\* The same for the activity of a leader who asks for a report.
ReportIsStored ==
    \A c \in Confirmed({"report"}) :
        Stored(c) \/ \E s \in Prog : call[s] = c /\ pc[s] = "commitReport"

\* Every call that is read comes to an end, although statements wait for each
\* other's transactions.
EveryCallEnds == \A s \in Prog : pc[s] # "idle" ~> pc[s] = "idle"

\* What the statements of the one program store, refuse or die of for a call is
\* what the atomic handler of Party does for the same call; a crash leaves no
\* part of a handler behind.
HandlersAreAtomic == CallsSpec
=============================================================================
