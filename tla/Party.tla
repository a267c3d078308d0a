------------------------------- MODULE Party -------------------------------
(***************************************************************************)
(* The party registry: one action per API function of DatabaseFunctions.   *)
(* A handler works in one database transaction (pqxx::work) that is either *)
(* committed with all its statements or rolled back, so an action here is  *)
(* the whole handler; module Sessions takes the handlers apart into their  *)
(* statements.  Nothing is kept in memory between two calls, so the runs   *)
(* of the program (--init for leader, without it for the other functions)  *)
(* show here as one sequence of calls; module Program models the runs.     *)
(*                                                                         *)
(* The tables of dbinit.sql are the variables.  A table with a PRIMARY KEY *)
(* is a function whose domain is the set of keys present; votes, which has *)
(* no key, is the sequence of its rows; takenid is the set of its ids.     *)
(* The column actions.timestamp is written and never read: left out.       *)
(***************************************************************************)
EXTENDS Integers, Sequences, FiniteSets

CONSTANTS
    MemberArg,    \* the identifiers (int in the code) a call can carry as its
    ActionArg,    \*   member, action, project and authority; in general the
    ProjectArg,   \*   four sets overlap
    AuthorityArg,
    Password,     \* the passwords a call can carry
    Timestamp,    \* the timestamps a call can carry (bound of the model)
    FreezeAfter,  \* the literal 31556900000 of isFrozen and trolls
    Absent        \* an optional JSON argument that was not given

Id == MemberArg \cup ActionArg \cup ProjectArg \cup AuthorityArg

ASSUME TimestampAssumption == Timestamp \subseteq Int
ASSUME FreezeAssumption == FreezeAfter \in Nat
ASSUME AbsentAssumption == Absent \notin Id

VARIABLES
    members,   \* id -> [password, timestamp, isleader]
    projects,  \* id -> authorityid
    actions,   \* id -> [projectid, memberid, authorityid, type, upvotes, downvotes]
    votes,     \* rows [actionid, memberid, type]
    takenid,   \* every identifier in use
    clock,     \* timestamp of the latest call; calls come in timestamp order
    reply      \* status the latest call printed; "terminated": uncaught exception

tables == <<members, projects, actions, votes, takenid>>
vars == <<members, projects, actions, votes, takenid, clock, reply>>

ActionType == {"support", "protest"}
VoteType == {"upvote", "downvote"}
Reply == {"none", "OK", "ERROR", "terminated"}

\* crypt(password, salt): equal digests exactly for equal passwords.
crypt(password) == [bf |-> password]

MemberRow == [password : {crypt(pw) : pw \in Password}, timestamp : Int, isleader : BOOLEAN]
ActionRow == [projectid : Id, memberid : Id, authorityid : Id, type : ActionType,
              upvotes : Nat, downvotes : Nat]
VoteRow == [actionid : Id, memberid : Id, type : VoteType]

TypeOK ==
    /\ DOMAIN members \subseteq Id  /\ members \in [DOMAIN members -> MemberRow]
    /\ DOMAIN projects \subseteq Id /\ projects \in [DOMAIN projects -> Id]
    /\ DOMAIN actions \subseteq Id  /\ actions \in [DOMAIN actions -> ActionRow]
    /\ votes \in Seq(VoteRow)
    /\ takenid \subseteq Id
    /\ clock \in Int
    /\ reply \in Reply

-----------------------------------------------------------------------------
(* Reading the tables *)

EmptyTable == [k \in {} |-> Absent]

\* INSERT of a row under a key that the table does not hold.
Insert(table, key, row) ==
    [k \in DOMAIN table \cup {key} |-> IF k = key THEN row ELSE table[k]]

Authorities == {projects[p] : p \in DOMAIN projects}

isFrozen(lastTS, currTS) == currTS - lastTS > FreezeAfter

\* SELECT ... WHERE id = member AND password = crypt(mempass, password)
Authenticated(m, pw) == m \in DOMAIN members /\ members[m].password = crypt(pw)

\* Mutant: the identifier of a new member is not looked up in takenid.
JoinsUnchecked(m) == m \notin DOMAIN members

Joins(m) == m \notin DOMAIN members /\ m \notin takenid

\* Mutant: the test of isFrozen is missing.
AdmittedFrozen(m, ts, pw) == Joins(m) \/ Authenticated(m, pw)

\* The member checks createAction and vote begin with.
Admitted(m, ts, pw) ==
    Joins(m) \/ (Authenticated(m, pw) /\ ~isFrozen(members[m].timestamp, ts))

\* Mutant: the password is stored without crypt.
MembersAfterInClear(m, ts, pw) ==
    IF m \in DOMAIN members
    THEN [members EXCEPT ![m].timestamp = ts]
    ELSE Insert(members, m, [password |-> pw, timestamp |-> ts, isleader |-> FALSE])

\* members and takenid once the member is admitted: inserted, or its
\* timestamp updated.
MembersAfter(m, ts, pw) ==
    IF m \in DOMAIN members
    THEN [members EXCEPT ![m].timestamp = ts]
    ELSE Insert(members, m, [password |-> crypt(pw), timestamp |-> ts, isleader |-> FALSE])

TakenAfter(m) == IF m \in DOMAIN members THEN takenid ELSE takenid \cup {m}

-----------------------------------------------------------------------------
(* How a handler ends *)

\* Calls are given in the order of their timestamps.
Call(ts) == ts >= clock /\ clock' = ts

\* flag is false: the transaction object is destroyed without a commit.
Reject == reply' = "ERROR" /\ UNCHANGED tables

\* An exception leaves main: no line is printed, the server rolls back.
Terminate == reply' = "terminated" /\ UNCHANGED tables

-----------------------------------------------------------------------------
(* leader *)

leader(m, ts, pw) ==
    /\ Call(ts)
    /\ \/ m \in takenid /\ Reject
       \/ /\ m \notin takenid
          /\ takenid' = takenid \cup {m}
          /\ members' = Insert(members, m,
                 [password |-> crypt(pw), timestamp |-> ts, isleader |-> TRUE])
          /\ reply' = "OK"
          /\ UNCHANGED <<projects, actions, votes>>

-----------------------------------------------------------------------------
(* createAction: support and protest *)

\* Mutant: the project is written into the column of the authority, too.
NewActionMisplaced(m, type, p, auth) ==
    [projectid |-> p, memberid |-> m, authorityid |-> p, type |-> type,
     upvotes |-> 0, downvotes |-> 0]

NewAction(m, type, p, auth) ==
    [projectid |-> p, memberid |-> m, authorityid |-> auth, type |-> type,
     upvotes |-> 0, downvotes |-> 0]

\* The project exists: its authority is copied, the argument is ignored.
ActionOnProject(m, ts, pw, type, a, p) ==
    \/ a \in TakenAfter(m) /\ Reject
    \/ /\ a \notin TakenAfter(m)
       /\ members' = MembersAfter(m, ts, pw)
       /\ actions' = Insert(actions, a, NewAction(m, type, p, projects[p]))
       /\ takenid' = TakenAfter(m) \cup {a}
       /\ reply' = "OK"
       /\ UNCHANGED <<projects, votes>>

\* Mutant: a new authority is neither looked up nor recorded in takenid.
CheckedPartly(a, p, auth) == {a, p}

\* The identifiers createAction looks for in takenid when the project is new.
Checked(a, p, auth) == {a, p} \cup (IF auth \in Authorities THEN {} ELSE {auth})

IdsRejected(m, a, p, auth) ==
    Checked(a, p, auth) \cap TakenAfter(m) # {} \/ a = p \/ p = auth

\* takenid is UNIQUE: inserting the action and the authority under one
\* identifier makes the second INSERT throw pqxx::unique_violation.
InsertedTwice(a, auth) == a = auth /\ auth \notin Authorities

ActionOnNewProject(m, ts, pw, type, a, p, auth) ==
    \/ auth = Absent /\ Terminate       \* jobj["authority"] is null: type_error
    \/ auth # Absent /\ IdsRejected(m, a, p, auth) /\ Reject
    \/ auth # Absent /\ ~IdsRejected(m, a, p, auth) /\ InsertedTwice(a, auth) /\ Terminate
    \/ /\ auth # Absent /\ ~IdsRejected(m, a, p, auth) /\ ~InsertedTwice(a, auth)
       /\ members' = MembersAfter(m, ts, pw)
       /\ projects' = Insert(projects, p, auth)
       /\ actions' = Insert(actions, a, NewAction(m, type, p, auth))
       /\ takenid' = TakenAfter(m) \cup {p, a} \cup Checked(a, p, auth)
       /\ reply' = "OK"
       /\ UNCHANGED votes

createAction(m, ts, pw, type, a, p, auth) ==
    /\ Call(ts)
    /\ \/ ~Admitted(m, ts, pw) /\ Reject
       \/ /\ Admitted(m, ts, pw) /\ p \in DOMAIN projects
          /\ ActionOnProject(m, ts, pw, type, a, p)
       \/ /\ Admitted(m, ts, pw) /\ p \notin DOMAIN projects
          /\ ActionOnNewProject(m, ts, pw, type, a, p, auth)

-----------------------------------------------------------------------------
(* vote: upvote and downvote *)

HasVoted(a, m) == \E i \in DOMAIN votes : votes[i].actionid = a /\ votes[i].memberid = m

\* UPDATE actions SET ... = ... + 1
Tallied(type, a) ==
    IF type = "upvote" THEN [actions EXCEPT ![a].upvotes = @ + 1]
                       ELSE [actions EXCEPT ![a].downvotes = @ + 1]

vote(m, ts, pw, type, a) ==
    /\ Call(ts)
    /\ \/ ~Admitted(m, ts, pw) /\ Reject
       \/ Admitted(m, ts, pw) /\ (a \notin DOMAIN actions \/ HasVoted(a, m)) /\ Reject
       \/ /\ Admitted(m, ts, pw) /\ a \in DOMAIN actions /\ ~HasVoted(a, m)
          /\ members' = MembersAfter(m, ts, pw)
          /\ takenid' = TakenAfter(m)
          /\ votes' = Append(votes, [actionid |-> a, memberid |-> m, type |-> type])
          /\ actions' = Tallied(type, a)
          /\ reply' = "OK"
          /\ UNCHANGED projects

-----------------------------------------------------------------------------
(* The functions that report; module Reports defines the rows they print. *)

\* actions, projects and votes: only for a leader, and the call counts as
\* activity of the leader.
leaderReport(m, ts, pw) ==
    /\ Call(ts)
    /\ \/ ~(Authenticated(m, pw) /\ members[m].isleader) /\ Reject
       \/ /\ Authenticated(m, pw) /\ members[m].isleader
          /\ isFrozen(members[m].timestamp, ts)
          /\ Reject
       \/ /\ Authenticated(m, pw) /\ members[m].isleader
          /\ ~isFrozen(members[m].timestamp, ts)
          /\ members' = [members EXCEPT ![m].timestamp = ts]
          /\ reply' = "OK"
          /\ UNCHANGED <<projects, actions, votes, takenid>>

\* trolls takes no credentials and never commits.
trolls(ts) == Call(ts) /\ reply' = "OK" /\ UNCHANGED tables

-----------------------------------------------------------------------------

Init ==
    /\ members = EmptyTable /\ projects = EmptyTable /\ actions = EmptyTable
    /\ votes = <<>>
    /\ takenid = {}
    /\ clock \in Timestamp
    /\ reply = "none"

Next ==
    \E ts \in Timestamp :
        \/ trolls(ts)
        \/ \E m \in MemberArg, pw \in Password :
            \/ leader(m, ts, pw)
            \/ leaderReport(m, ts, pw)
            \/ \E type \in VoteType, a \in ActionArg : vote(m, ts, pw, type, a)
            \/ \E type \in ActionType, a \in ActionArg, p \in ProjectArg,
                  auth \in AuthorityArg \cup {Absent} :
                   createAction(m, ts, pw, type, a, p, auth)

Spec == Init /\ [][Next]_vars

-----------------------------------------------------------------------------
(* Properties *)

VotesOn(a, type) == {i \in DOMAIN votes : votes[i].actionid = a /\ votes[i].type = type}

\* takenid is exactly the union of the four kinds of identifiers.  The handlers
\* fill it by hand, in INSERTs of their own beside those of the tables.
TakenIsExact ==
    takenid = DOMAIN members \cup DOMAIN projects \cup DOMAIN actions \cup Authorities

\* No identifier is used for two kinds of things, whatever order the calls come
\* in.  createAction never compares the action with the authority, and looks
\* the authority up in projects, not in takenid.
GlobalUniqueness ==
    /\ DOMAIN members \cap (DOMAIN projects \cup DOMAIN actions \cup Authorities) = {}
    /\ DOMAIN projects \cap (DOMAIN actions \cup Authorities) = {}
    /\ DOMAIN actions \cap Authorities = {}

\* The rows refer to each other as the FOREIGN KEYs say, and the authority
\* copied into an action is the authority of its project.
References ==
    /\ \A a \in DOMAIN actions :
           /\ actions[a].memberid \in DOMAIN members
           /\ actions[a].projectid \in DOMAIN projects
           /\ actions[a].authorityid = projects[actions[a].projectid]
    /\ \A i \in DOMAIN votes :
           votes[i].memberid \in DOMAIN members /\ votes[i].actionid \in DOMAIN actions

\* The counters of an action, kept so that trolls is fast, are the numbers of
\* the rows vote inserted for it.
CountersMatchVotes ==
    \A a \in DOMAIN actions :
        /\ actions[a].upvotes = Cardinality(VotesOn(a, "upvote"))
        /\ actions[a].downvotes = Cardinality(VotesOn(a, "downvote"))

\* A member votes at most once on an action; the table votes has no key that
\* would stop a second row.
OneVotePerMember ==
    \A i, j \in DOMAIN votes :
        votes[i].actionid = votes[j].actionid /\ votes[i].memberid = votes[j].memberid
            => i = j

\* Freezing is permanent: once a member is frozen its row stays as it is, and
\* neither a vote nor an action of the member is added.
FrozenForever ==
    [][\A m \in DOMAIN members :
           isFrozen(members[m].timestamp, clock) =>
               /\ m \in DOMAIN members' /\ members'[m] = members[m]
               /\ \A a \in DOMAIN actions' \ DOMAIN actions : actions'[a].memberid # m
               /\ \A i \in DOMAIN votes' \ DOMAIN votes : votes'[i].memberid # m]_vars

\* A call that would break the global uniqueness of identifiers, by naming one
\* identifier for the action and for a new authority, is answered ERROR.
ClashIsAnError ==
    [][\A m \in MemberArg, ts \in Timestamp, pw \in Password, type \in ActionType,
          a \in ActionArg \cap AuthorityArg, p \in ProjectArg \ DOMAIN projects :
           a \notin Authorities /\ createAction(m, ts, pw, type, a, p, a)
               => reply' = "ERROR"]_vars
=============================================================================
