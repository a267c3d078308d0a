--------------------------- MODULE HandlerProofs ---------------------------
(***************************************************************************)
(* Proofs about the handlers, called one after another, on the invariant   *)
(* of PartyProofs, and about the runs of the program they are called in.   *)
(*                                                                         *)
(* First, the tables implement the registry: the initial state maps to an  *)
(* initial state, and every call to what the registry makes of it.  An     *)
(* identifier has the role that one of the tables gives it because no two  *)
(* of them hold it, and is free if takenid does not hold it because        *)
(* takenid is exact.                                                       *)
(*                                                                         *)
(* Then Activity and Reports.  That silence freezes is a question of two   *)
(* clocks: the timestamp of a member never runs ahead of the latest call,  *)
(* since each handler that writes it has checked the password and that     *)
(* the member is not frozen, which is what makes a call count.  That the   *)
(* reports agree is a question of sums: each column of a report adds up to *)
(* the size of one set of rows of votes, which the rows of the report      *)
(* divide among themselves.                                                *)
(*                                                                         *)
(* Last, Program, the runs the calls are made in, for any number of        *)
(* databases.  OneRegistry counts; what each step keeps is which databases *)
(* there are.                                                              *)
(***************************************************************************)
EXTENDS Activity, PartyRefinement, PartyProofs, Program

-----------------------------------------------------------------------------
(* Roles *)

\* One role for each table, and none without.
Roles(i) ==
    /\ roleOf[i] = "member"    <=> i \in DOMAIN members
    /\ roleOf[i] = "project"   <=> i \in DOMAIN projects
    /\ roleOf[i] = "action"    <=> i \in DOMAIN actions
    /\ roleOf[i] = "authority" <=> i \in Authorities
    /\ roleOf[i] = "free"      <=> i \notin takenid
    /\ roleOf[i] \in R!Role

RolesHold == \A i \in Id : Roles(i)

LEMMA RolesAreTables == IInv => RolesHold
<1> SUFFICES ASSUME IInv, NEW i \in Id PROVE Roles(i)
  BY DEF RolesHold
<1>1. roleOf[i] = CASE i \in DOMAIN members  -> "member"
                    [] i \in DOMAIN projects -> "project"
                    [] i \in DOMAIN actions  -> "action"
                    [] i \in Authorities     -> "authority"
                    [] OTHER                 -> "free"
  BY DEF roleOf
<1>2. TakenIsExact /\ GlobalUniqueness
  BY DEF IInv
<1> HIDE DEF roleOf
<1>3. CASE i \in DOMAIN members
  <2>1. roleOf[i] = "member" /\ i \in takenid
        /\ i \notin DOMAIN projects \cup DOMAIN actions \cup Authorities
    BY <1>1, <1>2, <1>3 DEF TakenIsExact, GlobalUniqueness
  <2> QED BY <1>3, <2>1 DEF Roles, R!Role
<1>4. CASE i \in DOMAIN projects
  <2>1. roleOf[i] = "project" /\ i \in takenid
        /\ i \notin DOMAIN members \cup DOMAIN actions \cup Authorities
    BY <1>1, <1>2, <1>4 DEF TakenIsExact, GlobalUniqueness
  <2> QED BY <1>4, <2>1 DEF Roles, R!Role
<1>5. CASE i \in DOMAIN actions
  <2>1. roleOf[i] = "action" /\ i \in takenid
        /\ i \notin DOMAIN members \cup DOMAIN projects \cup Authorities
    BY <1>1, <1>2, <1>5 DEF TakenIsExact, GlobalUniqueness
  <2> QED BY <1>5, <2>1 DEF Roles, R!Role
<1>6. CASE i \in Authorities
  <2>1. roleOf[i] = "authority" /\ i \in takenid
        /\ i \notin DOMAIN members \cup DOMAIN projects \cup DOMAIN actions
    BY <1>1, <1>2, <1>6 DEF TakenIsExact, GlobalUniqueness
  <2> QED BY <1>6, <2>1 DEF Roles, R!Role
<1>7. CASE i \notin DOMAIN members \cup DOMAIN projects \cup DOMAIN actions \cup Authorities
  <2>1. roleOf[i] = "free" /\ i \notin takenid
    BY <1>1, <1>2, <1>7 DEF TakenIsExact
  <2> QED BY <1>7, <2>1 DEF Roles, R!Role
<1> QED BY <1>3, <1>4, <1>5, <1>6, <1>7

LEMMA RolesAreTablesNext == IInv' => RolesHold'
  BY RolesAreTables, PTL

\* Grant gives each claimed identifier its role and leaves the others alone.
LEMMA Granted ==
    ASSUME NEW claims,
           \A i \in Id : \A r \in R!Role : <<i, r>> \in claims => roleOf'[i] = r,
           \A i \in Id : (\A r \in R!Role : <<i, r>> \notin claims) => roleOf'[i] = roleOf[i]
    PROVE  R!Grant(claims)
<1>1. roleOf' = [i \in Id |-> roleOf'[i]]
  BY DEF roleOf
<1>2. ASSUME NEW i \in Id
      PROVE  roleOf'[i] = IF \E r \in R!Role : <<i, r>> \in claims
                          THEN CHOOSE r \in R!Role : <<i, r>> \in claims
                          ELSE roleOf[i]
  OBVIOUS
<1> QED BY <1>1, <1>2 DEF R!Grant, R!Id, Id

-----------------------------------------------------------------------------
(* The member of a call *)

LEMMA PersonIsRow ==
    ASSUME TypeOK, NEW m \in DOMAIN members
    PROVE  /\ personOf[m].secret = members[m].password.bf
           /\ personOf[m].lastSeen = members[m].timestamp
           /\ personOf[m].leader = members[m].isleader
           /\ \A pw : members[m].password = crypt(pw) <=> personOf[m].secret = pw
           /\ members[m].timestamp \in Int
<1>1. members[m] \in MemberRow
  BY DEF TypeOK
<1>2. PICK old \in Password : members[m].password = crypt(old)
  BY <1>1 DEF MemberRow
<1> QED BY <1>1, <1>2 DEF personOf, crypt, MemberRow

\* What createAction and vote ask of their member is what the registry asks.
LEMMA MayActIsAdmitted ==
    ASSUME IInv, NEW c, c.member \in MemberArg, c.ts \in Timestamp
    PROVE  R!MayAct(c) <=> Admitted(c.member, c.ts, c.password)
<1>1. c.ts \in Int /\ FreezeAfter \in Int
  <2>1. FreezeAfter \in Int
    BY FreezeAssumption
  <2> QED BY <2>1, TimestampAssumption
<1>2. Roles(c.member)
  BY RolesAreTables DEF RolesHold, Id
<1>3. CASE c.member \in DOMAIN members
  <2>1. /\ roleOf[c.member] = "member"
        /\ members[c.member].password = crypt(c.password) <=> personOf[c.member].secret = c.password
        /\ personOf[c.member].lastSeen = members[c.member].timestamp
        /\ members[c.member].timestamp \in Int
    BY <1>2, <1>3, PersonIsRow DEF Roles, IInv
  <2>2. isFrozen(members[c.member].timestamp, c.ts)
          <=> ~(c.ts - personOf[c.member].lastSeen <= FreezeAfter)
    BY <1>1, <2>1 DEF isFrozen
  <2> QED BY <1>3, <2>1, <2>2 DEF R!MayAct, Admitted, Joins, Authenticated
<1>4. CASE c.member \notin DOMAIN members
  BY <1>2, <1>4 DEF Roles, R!MayAct, Admitted, Joins, Authenticated
<1> QED BY <1>3, <1>4

\* Writing the member's row is what Seen says.
LEMMA SeenIsWritten ==
    ASSUME IInv, NEW c, c.member \in MemberArg,
           members' = MembersAfter(c.member, c.ts, c.password)
    PROVE  R!Seen(c)
<1>1. Roles(c.member) /\ TypeOK
  BY RolesAreTables DEF RolesHold, Id, IInv
<1>2. personOf' = [n \in DOMAIN members' |->
                      [secret |-> members'[n].password.bf, lastSeen |-> members'[n].timestamp,
                       leader |-> members'[n].isleader]]
  BY DEF personOf
<1>3. personOf = [n \in DOMAIN members |->
                      [secret |-> members[n].password.bf, lastSeen |-> members[n].timestamp,
                       leader |-> members[n].isleader]]
  BY DEF personOf
<1>4. CASE c.member \in DOMAIN members
  <2>1. roleOf[c.member] = "member"
    BY <1>1, <1>4 DEF Roles
  <2>2. members' = [members EXCEPT ![c.member].timestamp = c.ts]
    BY <1>4 DEF MembersAfter
  <2>3. \A n \in DOMAIN members : members[n] \in MemberRow
    BY <1>1 DEF TypeOK
  <2>4. personOf' = [personOf EXCEPT ![c.member].lastSeen = c.ts]
    BY <1>2, <1>3, <1>4, <2>2, <2>3 DEF MemberRow
  <2> QED BY <2>1, <2>4 DEF R!Seen
<1>5. CASE c.member \notin DOMAIN members
  <2>1. roleOf[c.member] # "member"
    BY <1>1, <1>5 DEF Roles
  <2>2. members' = Insert(members, c.member,
                       [password |-> crypt(c.password), timestamp |-> c.ts, isleader |-> FALSE])
    BY <1>5 DEF MembersAfter
  <2> DEFINE new == [secret |-> c.password, lastSeen |-> c.ts, leader |-> FALSE]
  <2>3. /\ DOMAIN members' = DOMAIN members \cup {c.member}
        /\ \A n \in DOMAIN members : members'[n] = members[n]
        /\ members'[c.member]
             = [password |-> crypt(c.password), timestamp |-> c.ts, isleader |-> FALSE]
    BY <1>5, <2>2 DEF Insert
  <2>4. [secret |-> members'[c.member].password.bf, lastSeen |-> members'[c.member].timestamp,
         leader |-> members'[c.member].isleader] = new
    <3>1. \A pw : crypt(pw).bf = pw
      BY DEF crypt
    <3>2. /\ members'[c.member].password = crypt(c.password)
          /\ members'[c.member].timestamp = c.ts /\ members'[c.member].isleader = FALSE
      BY <2>3
    <3> QED BY <3>1, <3>2
  <2> HIDE DEF new
  <2>5. personOf' = [n \in DOMAIN members \cup {c.member} |->
                        IF n = c.member THEN new ELSE personOf[n]]
    BY <1>2, <1>3, <2>3, <2>4
  <2>6. personOf' = R!Extend(personOf, c.member, new)
    BY <1>3, <2>5 DEF R!Extend
  <2>7. personOf' = R!Extend(personOf, c.member,
                       [secret |-> c.password, lastSeen |-> c.ts, leader |-> FALSE])
    BY <2>6 DEF new
  <2> QED BY <2>1, <2>7 DEF R!Seen
<1> QED BY <1>4, <1>5

-----------------------------------------------------------------------------
(* Answers *)

LEMMA TablesDetermine ==
    ASSUME UNCHANGED tables
    PROVE  UNCHANGED R!contents
<1>1. /\ members' = members /\ projects' = projects /\ actions' = actions /\ votes' = votes
  BY DEF tables
<1>2. roleOf' = roleOf
  BY <1>1 DEF roleOf, Authorities
<1>3. personOf' = personOf /\ actionOf' = actionOf
  BY <1>1 DEF personOf, actionOf
<1>4. ballotOf' = ballotOf
  BY <1>1 DEF ballotOf, BallotRow
<1> QED BY <1>1, <1>2, <1>3, <1>4 DEF R!contents

\* A call that is rolled back is one the registry refuses.
LEMMA RefusalSettles ==
    ASSUME NEW c, Call(c.ts), Reject \/ Terminate
    PROVE  R!Settle(c, FALSE)
<1>1. UNCHANGED tables /\ reply' \in {"ERROR", "terminated"}
  BY DEF Reject, Terminate
<1>2. outcomeOf' = "refused" /\ UNCHANGED R!contents
  BY <1>1, TablesDetermine DEF outcomeOf
<1> QED BY <1>2 DEF R!Settle, Call

LEMMA SuccessSettles ==
    ASSUME NEW c, Call(c.ts), reply' = "OK"
    PROVE  R!Settle(c, TRUE)
<1>1. outcomeOf' = "done"
  BY DEF outcomeOf
<1> QED BY <1>1 DEF R!Settle, Call

-----------------------------------------------------------------------------
(* Ballots *)

BallotsHold ==
    \A i \in DOMAIN votes : ballotOf[<<votes[i].memberid, votes[i].actionid>>] = votes[i].type

\* There is one row for each ballot, so the first is the only one.
LEMMA BallotsAreVotes == IInv => BallotsHold
<1> SUFFICES ASSUME IInv, NEW i \in DOMAIN votes
             PROVE  ballotOf[<<votes[i].memberid, votes[i].actionid>>] = votes[i].type
  BY DEF BallotsHold
<1> DEFINE v == <<votes[i].memberid, votes[i].actionid>>
           First(k) == BallotRow(v, k) /\ \A j \in DOMAIN votes : BallotRow(v, j) => k <= j
<1>1. \A j \in DOMAIN votes : BallotRow(v, j) <=> j = i
  BY DEF BallotRow, IInv, OneVotePerMember
<1>2. i \in Int
  BY DEF IInv, TypeOK
<1>3. \A k \in DOMAIN votes : First(k) <=> k = i
  BY <1>1, <1>2
<1>4. (CHOOSE k \in DOMAIN votes : First(k)) = i
  <2> HIDE DEF First
  <2> QED BY <1>3
<1>5. ballotOf[v] = votes[CHOOSE k \in DOMAIN votes : First(k)].type
  BY DEF ballotOf
<1> QED BY <1>4, <1>5

LEMMA BallotsAreVotesNext == IInv' => BallotsHold'
  BY BallotsAreVotes, PTL

LEMMA BallotsAreKept ==
    ASSUME NEW m, NEW a
    PROVE  HasVoted(a, m) <=> <<m, a>> \in DOMAIN ballotOf
  BY DEF HasVoted, ballotOf

LEMMA BallotIsAdded ==
    ASSUME IInv, IInv', NEW m, NEW a, NEW type, ~HasVoted(a, m),
           votes' = Append(votes, [actionid |-> a, memberid |-> m, type |-> type])
    PROVE  ballotOf' = R!Extend(ballotOf, <<m, a>>, type)
<1> DEFINE Key(i) == <<votes[i].memberid, votes[i].actionid>>
           NewKey(i) == <<votes'[i].memberid, votes'[i].actionid>>
           last == Len(votes) + 1
<1>1. /\ DOMAIN votes' = DOMAIN votes \cup {last} /\ last \notin DOMAIN votes
      /\ \A i \in DOMAIN votes : votes'[i] = votes[i]
      /\ votes'[last] = [actionid |-> a, memberid |-> m, type |-> type]
  BY DEF IInv, TypeOK
<1> HIDE DEF last
<1>2. \A i \in DOMAIN votes : NewKey(i) = Key(i) /\ votes'[i].type = votes[i].type
  BY <1>1
<1>3. NewKey(last) = <<m, a>> /\ votes'[last].type = type
  BY <1>1
<1>4. /\ DOMAIN ballotOf = {Key(i) : i \in DOMAIN votes}
      /\ DOMAIN ballotOf' = {NewKey(i) : i \in DOMAIN votes'}
  BY DEF ballotOf
<1>5. /\ \A i \in DOMAIN votes : ballotOf[Key(i)] = votes[i].type
      /\ \A i \in DOMAIN votes' : ballotOf'[NewKey(i)] = votes'[i].type
  BY BallotsAreVotes, BallotsAreVotesNext DEF BallotsHold
<1>6. <<m, a>> \notin DOMAIN ballotOf
  BY BallotsAreKept
<1>7. ballotOf' = [v \in DOMAIN ballotOf' |-> ballotOf'[v]]
  BY DEF ballotOf
<1> HIDE DEF Key, NewKey
<1>8. DOMAIN ballotOf' = DOMAIN ballotOf \cup {<<m, a>>}
  BY <1>1, <1>2, <1>3, <1>4
<1>9. ASSUME NEW v \in DOMAIN ballotOf'
      PROVE  ballotOf'[v] = IF v = <<m, a>> THEN type ELSE ballotOf[v]
  <2>1. CASE v = <<m, a>>
    BY <1>1, <1>3, <1>5, <2>1
  <2>2. CASE v # <<m, a>>
    <3>1. PICK i \in DOMAIN votes : v = Key(i)
      BY <1>4, <1>8, <2>2
    <3> QED BY <1>1, <1>2, <1>5, <2>2, <3>1
  <2> QED BY <2>1, <2>2
<1> QED BY <1>7, <1>8, <1>9 DEF R!Extend

-----------------------------------------------------------------------------
(* One call after another *)

LEMMA SameRole ==
    ASSUME IInv, IInv', NEW i \in Id,
           i \in DOMAIN members' <=> i \in DOMAIN members,
           i \in DOMAIN projects' <=> i \in DOMAIN projects,
           i \in DOMAIN actions' <=> i \in DOMAIN actions,
           i \in Authorities' <=> i \in Authorities
    PROVE  roleOf'[i] = roleOf[i]
<1>1. Roles(i) /\ Roles(i)'
  BY RolesAreTables, RolesAreTablesNext DEF RolesHold
<1>2. i \in takenid' <=> i \in takenid
  BY DEF IInv, TakenIsExact
<1> QED BY <1>1, <1>2 DEF Roles, R!Role

LEMMA leaderRefines ==
    ASSUME IInv, IInv', NEW ts \in Timestamp, NEW m \in MemberArg, NEW pw \in Password,
           leader(m, ts, pw), request' = MemberCall("leader", m, ts, pw)
    PROVE  R!Next
<1> DEFINE c == MemberCall("leader", m, ts, pw)
<1>1. /\ c \in R!Personal /\ c.fn = "leader"
      /\ c.member = m /\ c.ts = ts /\ c.password = pw
  BY DEF MemberCall, R!Personal
<1> HIDE DEF c
<1>2. m \in Id /\ Roles(m) /\ Roles(m)' /\ Call(ts)
  BY RolesAreTables, RolesAreTablesNext DEF RolesHold, Id, leader
<1>3. CASE m \in takenid /\ Reject
  <2>1. roleOf[m] # "free"
    BY <1>2, <1>3 DEF Roles
  <2>2. R!Settle(c, FALSE)
    BY <1>1, <1>2, <1>3, RefusalSettles
  <2>3. R!AppointLeader(c)
    BY <1>1, <2>1, <2>2 DEF R!AppointLeader, R!Settle
  <2> QED BY <1>1, <2>3 DEF c, R!Next
<1>4. CASE ~(m \in takenid /\ Reject)
  <2> DEFINE row == [password |-> crypt(pw), timestamp |-> ts, isleader |-> TRUE]
             person == [secret |-> pw, lastSeen |-> ts, leader |-> TRUE]
  <2>1. /\ m \notin takenid /\ members' = Insert(members, m, row)
        /\ reply' = "OK" /\ UNCHANGED <<projects, actions, votes>>
    BY <1>4 DEF leader
  <2>2. roleOf[m] = "free"
    BY <1>2, <2>1 DEF Roles
  <2>3. /\ DOMAIN members' = DOMAIN members \cup {m} /\ m \notin DOMAIN members
        /\ \A n \in DOMAIN members : members'[n] = members[n]
        /\ members'[m] = row
    BY <2>1 DEF Insert, IInv, TakenIsExact
  <2>4. R!Grant({<<m, "member">>})
    <3>1. roleOf'[m] = "member"
      BY <1>2, <2>3 DEF Roles
    <3>2. Authorities' = Authorities
      BY <2>1 DEF Authorities
    <3>3. ASSUME NEW i \in Id, i # m PROVE roleOf'[i] = roleOf[i]
      BY <2>1, <2>3, <3>2, <3>3, SameRole
    <3> QED BY <1>2, <3>1, <3>3, Granted DEF R!Role
  <2>5. personOf' = R!Extend(personOf, m, person)
    <3>1. \A p : crypt(p).bf = p
      BY DEF crypt
    <3>2. [secret |-> members'[m].password.bf, lastSeen |-> members'[m].timestamp,
           leader |-> members'[m].isleader] = person
      <4>1. members'[m].password = crypt(pw) /\ members'[m].timestamp = ts /\ members'[m].isleader = TRUE
        BY <2>3
      <4> QED BY <3>1, <4>1
    <3> HIDE DEF person
    <3>3. personOf' = [n \in DOMAIN members \cup {m} |-> IF n = m THEN person ELSE personOf[n]]
      BY <2>3, <3>2 DEF personOf
    <3>4. DOMAIN personOf = DOMAIN members
      BY DEF personOf
    <3> QED BY <3>3, <3>4 DEF R!Extend
  <2>6. actionOf' = actionOf /\ ballotOf' = ballotOf
    BY <2>1 DEF actionOf, ballotOf, BallotRow
  <2>7. R!Settle(c, TRUE)
    BY <1>1, <1>2, <2>1, SuccessSettles
  <2>8. R!AppointLeader(c)
    BY <1>1, <2>1, <2>2, <2>4, <2>5, <2>6, <2>7 DEF R!AppointLeader, R!Settle
  <2> QED BY <1>1, <2>8 DEF c, R!Next
<1> QED BY <1>3, <1>4

LEMMA trollsRefines ==
    ASSUME NEW ts \in Timestamp, trolls(ts), request' = TrollsCall(ts)
    PROVE  R!Next
<1> DEFINE c == TrollsCall(ts)
<1>1. c \in R!Question /\ c.ts = ts
  BY DEF TrollsCall, R!Question
<1> HIDE DEF c
<1>2. R!Settle(c, TRUE) /\ UNCHANGED R!contents
  BY <1>1, SuccessSettles, TablesDetermine DEF trolls
<1>3. R!Ask(c)
  BY <1>2 DEF R!Ask
<1> QED BY <1>1, <1>3 DEF c, R!Next

LEMMA leaderReportRefines ==
    ASSUME IInv, IInv', NEW ts \in Timestamp, NEW m \in MemberArg, NEW pw \in Password,
           leaderReport(m, ts, pw), request' = MemberCall("report", m, ts, pw)
    PROVE  R!Next
<1> DEFINE c == MemberCall("report", m, ts, pw)
           asked == /\ Authenticated(m, pw) /\ members[m].isleader
                    /\ ~isFrozen(members[m].timestamp, ts)
<1>1. /\ c \in R!Personal /\ c.fn = "report"
      /\ c.member = m /\ c.ts = ts /\ c.password = pw
  BY DEF MemberCall, R!Personal
<1> HIDE DEF c
<1>2. m \in Id /\ Roles(m) /\ Call(ts) /\ TypeOK
  BY RolesAreTables DEF RolesHold, Id, leaderReport, IInv
<1>3. R!MayAct(c) <=> Admitted(m, ts, pw)
  BY <1>1, MayActIsAdmitted
<1>4. (roleOf[m] = "member" /\ personOf[m].leader /\ R!MayAct(c)) <=> asked
  <2>1. CASE m \in DOMAIN members
    <3>1. personOf[m].leader = members[m].isleader
      BY <1>2, <2>1, PersonIsRow
    <3> QED BY <1>2, <1>3, <2>1, <3>1 DEF Roles, Admitted, Joins, Authenticated
  <2>2. CASE m \notin DOMAIN members
    BY <1>2, <2>2 DEF Roles, Authenticated
  <2> QED BY <2>1, <2>2
<1>5. CASE Reject /\ ~asked
  <2>1. R!Settle(c, FALSE)
    BY <1>1, <1>2, <1>5, RefusalSettles
  <2>2. R!AskAsLeader(c)
    BY <1>1, <1>4, <1>5, <2>1 DEF R!AskAsLeader, R!Settle
  <2> QED BY <1>1, <2>2 DEF c, R!Next
<1>6. CASE /\ asked /\ members' = [members EXCEPT ![m].timestamp = ts]
           /\ reply' = "OK" /\ UNCHANGED <<projects, actions, votes, takenid>>
  <2>1. members' = MembersAfter(m, ts, pw)
    BY <1>6 DEF MembersAfter, Authenticated
  <2>2. R!Seen(c)
    BY <1>1, <2>1, SeenIsWritten
  <2>3. roleOf' = roleOf
    <3>1. DOMAIN members' = DOMAIN members /\ Authorities' = Authorities
      BY <1>6 DEF Authorities
    <3>2. \A i \in Id : roleOf'[i] = roleOf[i]
      BY <1>6, <3>1, SameRole
    <3> QED BY <3>2 DEF roleOf
  <2>4. actionOf' = actionOf /\ ballotOf' = ballotOf /\ projects' = projects
    BY <1>6 DEF actionOf, ballotOf, BallotRow
  <2>5. R!Settle(c, TRUE)
    BY <1>1, <1>2, <1>6, SuccessSettles
  <2>6. R!AskAsLeader(c)
    BY <1>1, <1>4, <1>6, <2>2, <2>3, <2>4, <2>5 DEF R!AskAsLeader, R!Settle
  <2> QED BY <1>1, <2>6 DEF c, R!Next
<1> QED BY <1>5, <1>6 DEF leaderReport

LEMMA voteRefines ==
    ASSUME IInv, IInv', NEW ts \in Timestamp, NEW m \in MemberArg, NEW pw \in Password,
           NEW type \in VoteType, NEW a \in ActionArg,
           vote(m, ts, pw, type, a), request' = VoteCall(type, m, ts, pw, a)
    PROVE  R!Next
<1> DEFINE c == VoteCall(type, m, ts, pw, a)
           voted == Admitted(m, ts, pw) /\ a \in DOMAIN actions /\ ~HasVoted(a, m)
<1>1. /\ c \in R!Voting /\ c.fn = type /\ c.action = a
      /\ c.member = m /\ c.ts = ts /\ c.password = pw
  BY DEF VoteCall, R!Voting, VoteType, R!VoteType
<1> HIDE DEF c
<1>2. m \in Id /\ a \in Id /\ Roles(m) /\ Roles(a) /\ Roles(m)' /\ Call(ts) /\ TypeOK
  BY RolesAreTables, RolesAreTablesNext DEF RolesHold, Id, vote, IInv
<1>3. R!MayAct(c) <=> Admitted(m, ts, pw)
  BY <1>1, MayActIsAdmitted
<1>4. Admitted(m, ts, pw) => m \notin DOMAIN projects \cup DOMAIN actions \cup Authorities
  BY AdmittedIsMemberOnly DEF IInv
<1>5. (R!MayAct(c) /\ roleOf[a] = "action" /\ a # m /\ <<m, a>> \notin DOMAIN ballotOf) <=> voted
  BY <1>2, <1>3, <1>4, BallotsAreKept DEF Roles
<1>6. CASE Reject /\ ~voted
  <2>1. R!Settle(c, FALSE)
    BY <1>1, <1>2, <1>6, RefusalSettles
  <2>2. R!CastBallot(c)
    BY <1>1, <1>5, <1>6, <2>1 DEF R!CastBallot, R!Settle
  <2> QED BY <1>1, <2>2 DEF c, R!Next
<1>7. CASE /\ voted /\ members' = MembersAfter(m, ts, pw)
           /\ votes' = Append(votes, [actionid |-> a, memberid |-> m, type |-> type])
           /\ actions' = Tallied(type, a) /\ reply' = "OK" /\ UNCHANGED projects
  <2>1. R!Seen(c)
    BY <1>1, <1>7, SeenIsWritten
  <2>2. DOMAIN members' = DOMAIN members \cup {m}
    BY <1>7 DEF MembersAfter, Insert
  <2>3. /\ DOMAIN actions' = DOMAIN actions /\ Authorities' = Authorities
        /\ \A b \in DOMAIN actions :
              /\ actions'[b].memberid = actions[b].memberid
              /\ actions'[b].projectid = actions[b].projectid
              /\ actions'[b].type = actions[b].type
    <3>1. \A b \in DOMAIN actions : actions[b] \in ActionRow
      BY <1>2 DEF TypeOK
    <3>2. Authorities' = Authorities
      BY <1>7 DEF Authorities
    <3> QED BY <1>7, <3>1, <3>2 DEF Tallied, ActionRow
  <2>4. R!Grant({<<m, "member">>})
    <3>1. roleOf'[m] = "member"
      BY <1>2, <2>2 DEF Roles
    <3>2. ASSUME NEW i \in Id, i # m PROVE roleOf'[i] = roleOf[i]
      BY <1>7, <2>2, <2>3, <3>2, SameRole
    <3> QED BY <3>1, <3>2, Granted DEF R!Role
  <2>5. actionOf' = actionOf
    BY <2>3 DEF actionOf
  <2>6. ballotOf' = R!Extend(ballotOf, <<m, a>>, type)
    BY <1>7, BallotIsAdded
  <2>7. R!Settle(c, TRUE)
    BY <1>1, <1>2, <1>7, SuccessSettles
  <2>8. R!CastBallot(c)
    BY <1>1, <1>5, <1>7, <2>1, <2>4, <2>5, <2>6, <2>7 DEF R!CastBallot, R!Settle
  <2> QED BY <1>1, <2>8 DEF c, R!Next
<1> QED BY <1>6, <1>7 DEF vote

\* The action that createAction inserts, in the words of the registry.
LEMMA ActionIsAdded ==
    ASSUME TypeOK, NEW m, NEW type, NEW a, NEW p, NEW auth, a \notin DOMAIN actions,
           actions' = Insert(actions, a, NewAction(m, type, p, auth))
    PROVE  actionOf' = R!Extend(actionOf, a, [by |-> m, on |-> p, type |-> type])
<1> DEFINE new == [by |-> m, on |-> p, type |-> type]
<1>1. /\ DOMAIN actions' = DOMAIN actions \cup {a}
      /\ \A b \in DOMAIN actions : actions'[b] = actions[b]
      /\ actions'[a] = NewAction(m, type, p, auth)
  BY DEF Insert
<1>2. [by |-> actions'[a].memberid, on |-> actions'[a].projectid, type |-> actions'[a].type] = new
  BY <1>1 DEF NewAction
<1> HIDE DEF new
<1>3. actionOf' = [b \in DOMAIN actions \cup {a} |-> IF b = a THEN new ELSE actionOf[b]]
  BY <1>1, <1>2 DEF actionOf
<1>4. DOMAIN actionOf = DOMAIN actions
  BY DEF actionOf
<1>5. actionOf' = R!Extend(actionOf, a, new)
  BY <1>3, <1>4 DEF R!Extend
<1> QED BY <1>5 DEF new

\* support or protest on a project that is there.
LEMMA OnProjectRefines ==
    ASSUME IInv, IInv', NEW ts \in Timestamp, NEW m \in MemberArg, NEW pw \in Password,
           NEW type \in ActionType, NEW a \in ActionArg, NEW p \in ProjectArg,
           NEW c, c.fn = type, c.member = m, c.ts = ts, c.password = pw,
           c.action = a, c.project = p, Call(ts),
           p \in DOMAIN projects,
           \/ ~Admitted(m, ts, pw) /\ Reject
           \/ Admitted(m, ts, pw) /\ ActionOnProject(m, ts, pw, type, a, p)
    PROVE  R!Propose(c)
<1> DEFINE claims == {<<m, "member">>, <<a, "action">>, <<p, "project">>} \cup {}
           free == Admitted(m, ts, pw) /\ a \notin TakenAfter(m)
<1>1. /\ m \in Id /\ a \in Id /\ p \in Id /\ TypeOK
      /\ Roles(m) /\ Roles(a) /\ Roles(p) /\ Roles(m)' /\ Roles(a)' /\ Roles(p)'
  BY RolesAreTables, RolesAreTablesNext DEF RolesHold, Id, IInv
<1>2. R!MayAct(c) <=> Admitted(m, ts, pw)
  BY MayActIsAdmitted
<1>3. roleOf[p] = "project" /\ p \in takenid
  BY <1>1 DEF Roles, IInv, TakenIsExact
<1>4. Admitted(m, ts, pw) => /\ m \notin DOMAIN projects \cup DOMAIN actions \cup Authorities
                             /\ TakenAfter(m) = takenid \cup {m}
  BY AdmittedIsMemberOnly DEF IInv
<1>5. (R!MayAct(c) /\ roleOf[a] = "free" /\ R!Grantable(claims)) <=> free
  <2>1. ASSUME R!MayAct(c), roleOf[a] = "free", R!Grantable(claims) PROVE free
    <3>1. <<m, "member">> \in claims /\ <<a, "action">> \in claims
      OBVIOUS
    <3>2. a # m
      BY <2>1, <3>1 DEF R!Grantable
    <3> QED BY <1>1, <1>2, <1>4, <2>1, <3>2 DEF Roles
  <2>2. ASSUME free PROVE R!MayAct(c) /\ roleOf[a] = "free" /\ R!Grantable(claims)
    <3>1. a \notin takenid /\ a # m /\ m # p /\ a # p
      BY <1>3, <1>4, <2>2
    <3>2. roleOf[a] = "free" /\ roleOf[m] \in {"free", "member"}
      BY <1>1, <2>2, <3>1 DEF Roles, Admitted, Joins, Authenticated
    <3> QED BY <1>2, <1>3, <2>2, <3>1, <3>2 DEF R!Grantable
  <2> QED BY <2>1, <2>2
<1>6. CASE Reject /\ ~free
  <2>1. R!Settle(c, FALSE)
    BY <1>6, RefusalSettles
  <2>2. ~(R!MayAct(c) /\ roleOf[a] = "free" /\ R!Grantable(claims))
    BY <1>5, <1>6
  <2> QED BY <1>3, <2>1, <2>2 DEF R!Propose, R!Settle
<1>7. CASE /\ free /\ members' = MembersAfter(m, ts, pw)
           /\ actions' = Insert(actions, a, NewAction(m, type, p, projects[p]))
           /\ reply' = "OK" /\ UNCHANGED <<projects, votes>>
  <2>1. R!Seen(c)
    BY <1>7, SeenIsWritten
  <2>2. /\ DOMAIN members' = DOMAIN members \cup {m}
        /\ DOMAIN actions' = DOMAIN actions \cup {a} /\ a \notin DOMAIN actions
        /\ Authorities' = Authorities /\ a # m /\ a # p /\ m # p
    BY <1>3, <1>4, <1>7 DEF MembersAfter, Insert, Authorities, IInv, TakenIsExact
  <2>3. R!Grant(claims)
    <3>1. roleOf'[m] = "member" /\ roleOf'[a] = "action" /\ roleOf'[p] = "project"
      BY <1>1, <1>7, <2>2 DEF Roles
    <3>2. ASSUME NEW i \in Id, i # m, i # a PROVE roleOf'[i] = roleOf[i]
      BY <1>7, <2>2, <3>2, SameRole
    <3> QED BY <3>1, <3>2, Granted DEF R!Role
  <2>4. actionOf' = R!Extend(actionOf, a, [by |-> m, on |-> p, type |-> type])
    BY <1>1, <1>7, <2>2, ActionIsAdded
  <2>5. ballotOf' = ballotOf /\ projects' = projects
    BY <1>7 DEF ballotOf, BallotRow
  <2>6. R!Settle(c, TRUE)
    BY <1>7, SuccessSettles
  <2>7. R!MayAct(c) /\ roleOf[a] = "free" /\ R!Grantable(claims)
    BY <1>5, <1>7
  <2> QED BY <1>3, <2>1, <2>3, <2>4, <2>5, <2>6, <2>7 DEF R!Propose, R!Settle
<1> QED BY <1>6, <1>7 DEF ActionOnProject

\* What createAction tests of four identifiers, in SELECTs and one condition,
\* is what it takes to grant them their four roles.
LEMMA ClashTestsAreGrants ==
    ASSUME IInv, NEW ts \in Timestamp, NEW m \in MemberArg, NEW pw \in Password,
           NEW a \in ActionArg, NEW p \in ProjectArg, NEW auth \in AuthorityArg,
           Admitted(m, ts, pw), p \notin DOMAIN projects
    PROVE  (/\ roleOf[a] = "free"
            /\ R!Grantable({<<m, "member">>, <<a, "action">>, <<p, "project">>}
                               \cup {<<auth, "authority">>}))
             <=> ~IdsRejected(m, a, p, auth) /\ ~InsertedTwice(a, auth)
<1> DEFINE claims == {<<m, "member">>, <<a, "action">>, <<p, "project">>}
                        \cup {<<auth, "authority">>}
<1>1. /\ m \in Id /\ a \in Id /\ p \in Id /\ auth \in Id
      /\ Roles(m) /\ Roles(a) /\ Roles(p) /\ Roles(auth)
  BY RolesAreTables DEF RolesHold, Id
<1>2. /\ m \notin DOMAIN projects \cup DOMAIN actions \cup Authorities
      /\ TakenAfter(m) = takenid \cup {m}
  BY AdmittedIsMemberOnly DEF IInv
<1>3. auth \in Authorities => auth \in takenid /\ auth # m
  BY <1>2 DEF IInv, TakenIsExact
<1>4. ASSUME roleOf[a] = "free", R!Grantable(claims)
      PROVE  ~IdsRejected(m, a, p, auth) /\ ~InsertedTwice(a, auth)
  <2>1. /\ <<m, "member">> \in claims /\ <<a, "action">> \in claims
        /\ <<p, "project">> \in claims /\ <<auth, "authority">> \in claims
    OBVIOUS
  <2>2. /\ roleOf[p] \in {"free", "project"} /\ roleOf[auth] \in {"free", "authority"}
        /\ m # a /\ m # p /\ m # auth /\ a # p /\ a # auth /\ p # auth
    BY <1>4, <2>1 DEF R!Grantable
  <2>3. a \notin takenid /\ p \notin takenid /\ (auth \notin Authorities => auth \notin takenid)
    BY <1>1, <1>4, <2>2 DEF Roles
  <2> QED BY <1>2, <2>2, <2>3 DEF IdsRejected, InsertedTwice, Checked
<1>5. ASSUME ~IdsRejected(m, a, p, auth), ~InsertedTwice(a, auth)
      PROVE  roleOf[a] = "free" /\ R!Grantable(claims)
  <2>1. /\ a \notin takenid /\ p \notin takenid /\ a # m /\ p # m /\ a # p /\ p # auth
        /\ auth \notin Authorities => auth \notin takenid /\ auth # m /\ auth # a
    BY <1>2, <1>5 DEF IdsRejected, InsertedTwice, Checked
  <2>2. auth # m /\ auth # a
    BY <1>3, <2>1
  <2>3. /\ roleOf[a] = "free" /\ roleOf[p] = "free" /\ roleOf[auth] \in {"free", "authority"}
        /\ roleOf[m] \in {"free", "member"}
    BY <1>1, <2>1 DEF Roles, Admitted, Joins, Authenticated
  <2> QED BY <2>1, <2>2, <2>3 DEF R!Grantable
<1> QED BY <1>4, <1>5

\* support or protest on a project that is not there yet.
LEMMA OnNewProjectRefines ==
    ASSUME IInv, IInv', NEW ts \in Timestamp, NEW m \in MemberArg, NEW pw \in Password,
           NEW type \in ActionType, NEW a \in ActionArg, NEW p \in ProjectArg,
           NEW auth \in AuthorityArg \cup {Absent},
           NEW c, c.fn = type, c.member = m, c.ts = ts, c.password = pw,
           c.action = a, c.project = p, c.authority = auth, Call(ts),
           p \notin DOMAIN projects,
           \/ ~Admitted(m, ts, pw) /\ Reject
           \/ Admitted(m, ts, pw) /\ ActionOnNewProject(m, ts, pw, type, a, p, auth)
    PROVE  R!Propose(c)
<1> DEFINE claims == {<<m, "member">>, <<a, "action">>, <<p, "project">>}
                        \cup {<<auth, "authority">>}
           allowed == /\ R!MayAct(c) /\ auth # Absent
                      /\ roleOf[a] = "free" /\ R!Grantable(claims)
           free == /\ Admitted(m, ts, pw) /\ auth # Absent
                   /\ ~IdsRejected(m, a, p, auth) /\ ~InsertedTwice(a, auth)
<1>1. /\ m \in Id /\ a \in Id /\ p \in Id /\ TypeOK
      /\ Roles(m) /\ Roles(p) /\ Roles(m)' /\ Roles(a)' /\ Roles(p)'
  BY RolesAreTables, RolesAreTablesNext DEF RolesHold, Id, IInv
<1>2. roleOf[p] # "project"
  BY <1>1 DEF Roles
<1>3. allowed <=> free
  <2>1. R!MayAct(c) <=> Admitted(m, ts, pw)
    BY MayActIsAdmitted
  <2>2. CASE Admitted(m, ts, pw) /\ auth # Absent
    <3>1. (roleOf[a] = "free" /\ R!Grantable(claims))
            <=> ~IdsRejected(m, a, p, auth) /\ ~InsertedTwice(a, auth)
      BY <2>2, ClashTestsAreGrants
    <3> QED BY <2>1, <2>2, <3>1
  <2>3. CASE ~(Admitted(m, ts, pw) /\ auth # Absent)
    BY <2>1, <2>3
  <2> QED BY <2>2, <2>3
<1>4. CASE (Reject \/ Terminate) /\ ~free
  <2>1. R!Settle(c, FALSE)
    BY <1>4, RefusalSettles
  <2>2. ~allowed
    BY <1>3, <1>4
  <2> QED BY <1>2, <2>1, <2>2 DEF R!Propose, R!Settle
<1>5. CASE /\ free /\ members' = MembersAfter(m, ts, pw)
           /\ projects' = Insert(projects, p, auth)
           /\ actions' = Insert(actions, a, NewAction(m, type, p, auth))
           /\ reply' = "OK" /\ UNCHANGED votes
  <2>1. R!Seen(c)
    BY <1>5, SeenIsWritten
  <2>2. auth \in Id /\ Roles(auth)'
    BY <1>5, RolesAreTablesNext DEF RolesHold, Id
  <2>3. a \notin DOMAIN actions
    <3>1. a \notin TakenAfter(m) /\ takenid \subseteq TakenAfter(m)
      BY <1>5 DEF IdsRejected, Checked, TakenAfter
    <3> QED BY <3>1 DEF IInv, TakenIsExact
  <2>4. /\ DOMAIN members' = DOMAIN members \cup {m}
        /\ DOMAIN projects' = DOMAIN projects \cup {p}
        /\ DOMAIN actions' = DOMAIN actions \cup {a}
        /\ Authorities' = Authorities \cup {auth}
    BY <1>5, InsertedAuthorities DEF MembersAfter, Insert
  <2>5. R!Grant(claims)
    <3>1. /\ roleOf'[m] = "member" /\ roleOf'[a] = "action"
          /\ roleOf'[p] = "project" /\ roleOf'[auth] = "authority"
      BY <1>1, <2>2, <2>4 DEF Roles
    <3>2. ASSUME NEW i \in Id, i # m, i # a, i # p, i # auth PROVE roleOf'[i] = roleOf[i]
      BY <2>4, <3>2, SameRole
    <3> QED BY <3>1, <3>2, Granted DEF R!Role
  <2>6. actionOf' = R!Extend(actionOf, a, [by |-> m, on |-> p, type |-> type])
    BY <1>1, <1>5, <2>3, ActionIsAdded
  <2>7. projects' = R!Extend(projects, p, auth)
    BY <1>5 DEF Insert, R!Extend
  <2>8. ballotOf' = ballotOf
    BY <1>5 DEF ballotOf, BallotRow
  <2>9. R!Settle(c, TRUE)
    BY <1>5, SuccessSettles
  <2>10. allowed
    BY <1>3, <1>5
  <2> QED BY <1>2, <2>1, <2>5, <2>6, <2>7, <2>8, <2>9, <2>10 DEF R!Propose, R!Settle
<1> QED BY <1>4, <1>5 DEF ActionOnNewProject

LEMMA createActionRefines ==
    ASSUME IInv, IInv', NEW ts \in Timestamp, NEW m \in MemberArg, NEW pw \in Password,
           NEW type \in ActionType, NEW a \in ActionArg, NEW p \in ProjectArg,
           NEW auth \in AuthorityArg \cup {Absent},
           createAction(m, ts, pw, type, a, p, auth),
           request' = ActionCall(type, m, ts, pw, a, p, auth)
    PROVE  R!Next
<1> DEFINE c == ActionCall(type, m, ts, pw, a, p, auth)
<1>1. /\ c \in R!Proposal /\ c.fn = type /\ c.action = a /\ c.project = p /\ c.authority = auth
      /\ c.member = m /\ c.ts = ts /\ c.password = pw
  BY DEF ActionCall, R!Proposal, ActionType, R!ActionType
<1> HIDE DEF c
<1>2. CASE p \in DOMAIN projects
  <2>1. R!Propose(c)
    BY <1>1, <1>2, OnProjectRefines DEF createAction
  <2> QED BY <1>1, <2>1 DEF c, R!Next
<1>3. CASE p \notin DOMAIN projects
  <2>1. R!Propose(c)
    BY <1>1, <1>3, OnNewProjectRefines DEF createAction
  <2> QED BY <1>1, <2>1 DEF c, R!Next
<1> QED BY <1>2, <1>3

-----------------------------------------------------------------------------
(* The specification *)

LEMMA InitRefines == CallsInit => R!Init
<1> SUFFICES ASSUME CallsInit PROVE R!Init
  OBVIOUS
<1>1. /\ members = EmptyTable /\ projects = EmptyTable /\ actions = EmptyTable /\ votes = <<>>
      /\ clock \in Timestamp /\ reply = "none" /\ request = [fn |-> "none"]
  BY DEF CallsInit, Init, NoCall
<1>2. Authorities = {}
  BY <1>1 DEF Authorities, EmptyTable
<1>3. roleOf = [i \in Id |-> "free"]
  BY <1>1, <1>2 DEF roleOf, EmptyTable
<1>4. personOf = EmptyTable /\ actionOf = EmptyTable
  BY <1>1 DEF personOf, actionOf, EmptyTable
<1>5. ballotOf = EmptyTable
  BY <1>1 DEF ballotOf, EmptyTable
<1>6. outcomeOf = "none"
  BY <1>1 DEF outcomeOf
<1> QED BY <1>1, <1>3, <1>4, <1>5, <1>6 DEF R!Init, R!Nothing, EmptyTable, R!Id, Id

LEMMA StepRefines == IInv /\ IInv' /\ [CallsNext]_callsVars => [R!Next]_(R!vars)
<1> SUFFICES ASSUME IInv, IInv', [CallsNext]_callsVars PROVE [R!Next]_(R!vars)
  OBVIOUS
<1>1. CASE UNCHANGED callsVars
  <2>1. UNCHANGED tables /\ clock' = clock /\ reply' = reply /\ request' = request
    BY <1>1 DEF callsVars, vars, tables
  <2>2. UNCHANGED R!contents /\ outcomeOf' = outcomeOf
    BY <2>1, TablesDetermine DEF outcomeOf
  <2> QED BY <2>1, <2>2 DEF R!vars, R!contents
<1>2. CASE CallsNext
  <2>1. PICK ts \in Timestamp :
          \/ request' = TrollsCall(ts) /\ trolls(ts)
          \/ \E m \in MemberArg, pw \in Password :
              \/ request' = MemberCall("leader", m, ts, pw) /\ leader(m, ts, pw)
              \/ request' = MemberCall("report", m, ts, pw) /\ leaderReport(m, ts, pw)
              \/ \E type \in VoteType, a \in ActionArg :
                     request' = VoteCall(type, m, ts, pw, a) /\ vote(m, ts, pw, type, a)
              \/ \E type \in ActionType, a \in ActionArg, p \in ProjectArg,
                    auth \in AuthorityArg \cup {Absent} :
                     /\ request' = ActionCall(type, m, ts, pw, a, p, auth)
                     /\ createAction(m, ts, pw, type, a, p, auth)
    BY <1>2 DEF CallsNext
  <2> QED BY <2>1, trollsRefines, leaderRefines, leaderReportRefines, voteRefines,
             createActionRefines
<1> QED BY <1>1, <1>2

LEMMA CallsKeep == IInv /\ [CallsNext]_callsVars => IInv'
<1> SUFFICES ASSUME IInv, [CallsNext]_callsVars PROVE IInv'
  OBVIOUS
<1>1. CASE UNCHANGED callsVars
  BY <1>1, NextKeeps DEF callsVars
<1>2. CASE CallsNext
  <2>1. Next
    BY <1>2 DEF CallsNext, Next
  <2> QED BY <2>1, NextKeeps
<1> QED BY <1>1, <1>2

\* Each call of the API is granted or refused as its arguments and the past
\* demand, whatever identifiers, passwords and moments it names, and has just
\* the effect that the registry promises: the handlers of DatabaseFunctions
\* implement it.
THEOREM HandlersImplementRegistry == CallsSpec => ImplementsRegistry
<1>1. CallsInit => IInv
  BY InitEstablishes DEF CallsInit
<1>2. IInv /\ [CallsNext]_callsVars => IInv'
  BY CallsKeep
<1>3. CallsInit => R!Init
  BY InitRefines
<1>4. IInv /\ IInv' /\ [CallsNext]_callsVars => [R!Next]_(R!vars)
  BY StepRefines
<1> QED BY <1>1, <1>2, <1>3, <1>4, PTL DEF CallsSpec, ImplementsRegistry, R!Spec

-----------------------------------------------------------------------------
(* Activity: what the timestamp of a member has to do with the latest call. *)

ActivityInv ==
    /\ DOMAIN lastCall = DOMAIN members
    /\ \A m \in DOMAIN members :
           /\ lastCall[m] \in Int
           /\ members[m].timestamp <= lastCall[m] /\ lastCall[m] <= clock

-----------------------------------------------------------------------------
(* The two clocks *)

LEMMA Typed ==
    ASSUME TypeOK
    PROVE  clock \in Int /\ \A m \in DOMAIN members : members[m].timestamp \in Int
  BY DEF TypeOK, MemberRow

\* Who is frozen by the history is frozen by the column.
LEMMA FrozenByBoth ==
    ASSUME TypeOK, ActivityInv, NEW m \in DOMAIN members, NEW ts \in Int,
           isFrozen(lastCall[m], ts)
    PROVE  isFrozen(members[m].timestamp, ts)
<1>1. /\ lastCall[m] \in Int /\ members[m].timestamp \in Int
      /\ members[m].timestamp <= lastCall[m]
  BY Typed DEF ActivityInv
<1>2. \A i, j \in Int : j <= i /\ ts - i > FreezeAfter => ts - j > FreezeAfter
  BY FreezeAssumption
<1> QED BY <1>1, <1>2 DEF isFrozen

\* A member's row as it was, and either the same latest call or one at ts.
LEMMA RowStays ==
    ASSUME TypeOK, ActivityInv, NEW ts \in Timestamp, Call(ts), NEW n \in DOMAIN members,
           n \in DOMAIN members', members'[n] = members[n], lastCall'[n] \in {ts, lastCall[n]}
    PROVE  /\ lastCall'[n] \in Int
           /\ members'[n].timestamp <= lastCall'[n] /\ lastCall'[n] <= clock'
<1>1. /\ members[n].timestamp \in Int /\ lastCall[n] \in Int /\ clock \in Int /\ ts \in Int
      /\ members[n].timestamp <= lastCall[n] /\ lastCall[n] <= clock
      /\ clock' = ts /\ ts >= clock
  BY Typed, TimestampAssumption DEF ActivityInv, Call
<1> QED BY <1>1

\* A member's row with the timestamp of this call.
LEMMA RowWritten ==
    ASSUME NEW ts \in Timestamp, Call(ts), NEW n, members'[n].timestamp = ts, lastCall'[n] = ts
    PROVE  /\ lastCall'[n] \in Int
           /\ members'[n].timestamp <= lastCall'[n] /\ lastCall'[n] <= clock'
<1>1. ts \in Int /\ clock' = ts
  BY TimestampAssumption DEF Call
<1> QED BY <1>1

-----------------------------------------------------------------------------
(* What the handlers do to them *)

\* A call that leaves members as they are, whether it counts or not.
LEMMA WithoutEffect ==
    ASSUME TypeOK, ActivityInv, NEW ts \in Timestamp, Call(ts), members' = members,
           NEW m, NEW pw, Called(m, ts, pw) \/ lastCall' = lastCall
    PROVE  ActivityInv'
<1>1. DOMAIN lastCall' = DOMAIN members'
  BY DEF Called, ActivityInv
<1>2. ASSUME NEW n \in DOMAIN members'
      PROVE  lastCall'[n] \in {ts, lastCall[n]}
  BY DEF Called
<1>3. ASSUME NEW n \in DOMAIN members'
      PROVE  /\ lastCall'[n] \in Int
             /\ members'[n].timestamp <= lastCall'[n] /\ lastCall'[n] <= clock'
  BY <1>2, RowStays
<1> QED BY <1>1, <1>3 DEF ActivityInv

\* A call that is carried out, of a member who is created or not frozen.
LEMMA CarriedOut ==
    ASSUME TypeOK, ActivityInv, NEW ts \in Timestamp, Call(ts),
           NEW m, NEW pw, Admitted(m, ts, pw), members' = MembersAfter(m, ts, pw),
           Called(m, ts, pw)
    PROVE  ActivityInv'
<1>1. DOMAIN members' = DOMAIN members \cup {m} /\ DOMAIN lastCall' = DOMAIN members'
  BY DEF MembersAfter, Insert, Called
<1>2. members'[m].timestamp = ts /\ members'[m].password = crypt(pw)
  <2>1. CASE m \in DOMAIN members
    <3>1. members[m].password = crypt(pw) /\ members[m] \in MemberRow
      BY <2>1 DEF Admitted, Joins, Authenticated, TypeOK
    <3>2. members'[m] = [members[m] EXCEPT !.timestamp = ts]
      BY <2>1 DEF MembersAfter
    <3> QED BY <3>1, <3>2 DEF MemberRow
  <2>2. CASE m \notin DOMAIN members
    BY <2>2 DEF MembersAfter, Insert
  <2> QED BY <2>1, <2>2
<1>3. m \in DOMAIN lastCall => ~isFrozen(lastCall[m], ts)
  <2> SUFFICES ASSUME m \in DOMAIN lastCall PROVE ~isFrozen(lastCall[m], ts)
    OBVIOUS
  <2>1. m \in DOMAIN members /\ ~isFrozen(members[m].timestamp, ts) /\ ts \in Int
    BY TimestampAssumption DEF ActivityInv, Admitted, Joins
  <2> QED BY <2>1, FrozenByBoth
<1>4. lastCall'[m] = ts
  BY <1>1, <1>2, <1>3 DEF Called
<1>5. ASSUME NEW n \in DOMAIN members'
      PROVE  /\ lastCall'[n] \in Int
             /\ members'[n].timestamp <= lastCall'[n] /\ lastCall'[n] <= clock'
  <2>1. CASE n = m
    BY <1>2, <1>4, <2>1, RowWritten
  <2>2. CASE n # m
    <3>1. n \in DOMAIN members /\ members'[n] = members[n] /\ lastCall'[n] = lastCall[n]
      BY <1>1, <2>2, OthersKeepTheirRow DEF Called
    <3> QED BY <1>1, <3>1, RowStays
  <2> QED BY <2>1, <2>2
<1> QED BY <1>1, <1>5 DEF ActivityInv

\* leader: a new account, whose silence begins now, or nothing.
LEMMA AppointmentKeeps ==
    ASSUME IInv, ActivityInv, NEW ts \in Timestamp, NEW m, NEW pw,
           leader(m, ts, pw), Appointed(ts)
    PROVE  ActivityInv'
<1>1. TypeOK /\ Call(ts)
  BY DEF IInv, leader
<1>2. CASE members' = members
  <2>1. lastCall' = [n \in DOMAIN members |-> lastCall[n]]
    BY <1>2 DEF Appointed, ActivityInv
  <2>2. ASSUME NEW n \in DOMAIN members'
        PROVE  /\ lastCall'[n] \in Int
               /\ members'[n].timestamp <= lastCall'[n] /\ lastCall'[n] <= clock'
    BY <1>1, <1>2, <2>1, RowStays
  <2> QED BY <1>2, <2>1, <2>2 DEF ActivityInv
<1>3. CASE members' # members
  <2>1. /\ m \notin DOMAIN members
        /\ members' = Insert(members, m, [password |-> crypt(pw), timestamp |-> ts, isleader |-> TRUE])
    BY <1>3 DEF leader, Reject, tables, IInv, TakenIsExact
  <2>2. DOMAIN members' = DOMAIN members \cup {m} /\ DOMAIN lastCall' = DOMAIN members'
    BY <2>1 DEF Insert, Appointed
  <2>3. ASSUME NEW n \in DOMAIN members'
        PROVE  /\ lastCall'[n] \in Int
               /\ members'[n].timestamp <= lastCall'[n] /\ lastCall'[n] <= clock'
    <3>1. CASE n = m
      <4>1. members'[n].timestamp = ts /\ lastCall'[n] = ts
        BY <2>1, <2>2, <3>1 DEF Insert, Appointed, ActivityInv
      <4> QED BY <1>1, <4>1, RowWritten
    <3>2. CASE n # m
      <4>1. n \in DOMAIN members /\ members'[n] = members[n] /\ lastCall'[n] = lastCall[n]
        BY <2>1, <2>2, <3>2 DEF Insert, Appointed, ActivityInv
      <4> QED BY <1>1, <4>1, RowStays
    <3> QED BY <3>1, <3>2
  <2> QED BY <2>2, <2>3 DEF ActivityInv
<1> QED BY <1>2, <1>3

LEMMA ReportKeeps ==
    ASSUME IInv, ActivityInv, NEW ts \in Timestamp, NEW m, NEW pw,
           leaderReport(m, ts, pw), Called(m, ts, pw)
    PROVE  ActivityInv'
<1>1. TypeOK /\ Call(ts)
  BY DEF IInv, leaderReport
<1>2. CASE members' = members
  BY <1>1, <1>2, WithoutEffect
<1>3. CASE members' # members
  <2>1. Admitted(m, ts, pw) /\ members' = MembersAfter(m, ts, pw)
    BY <1>3 DEF leaderReport, Reject, tables, Admitted, Authenticated, MembersAfter
  <2> QED BY <1>1, <2>1, CarriedOut
<1> QED BY <1>2, <1>3

LEMMA VoteKeeps ==
    ASSUME IInv, ActivityInv, NEW ts \in Timestamp, NEW m, NEW pw, NEW type, NEW a,
           vote(m, ts, pw, type, a), Called(m, ts, pw)
    PROVE  ActivityInv'
<1>1. TypeOK /\ Call(ts)
  BY DEF IInv, vote
<1>2. CASE members' = members
  BY <1>1, <1>2, WithoutEffect
<1>3. CASE members' # members
  <2>1. Admitted(m, ts, pw) /\ members' = MembersAfter(m, ts, pw)
    BY <1>3 DEF vote, Reject, tables
  <2> QED BY <1>1, <2>1, CarriedOut
<1> QED BY <1>2, <1>3

LEMMA CreateKeeps ==
    ASSUME IInv, ActivityInv, NEW ts \in Timestamp, NEW m, NEW pw, NEW type, NEW a, NEW p, NEW auth,
           createAction(m, ts, pw, type, a, p, auth), Called(m, ts, pw)
    PROVE  ActivityInv'
<1>1. TypeOK /\ Call(ts)
  BY DEF IInv, createAction
<1>2. CASE members' = members
  BY <1>1, <1>2, WithoutEffect
<1>3. CASE members' # members
  <2>1. Admitted(m, ts, pw) /\ members' = MembersAfter(m, ts, pw)
    BY <1>3 DEF createAction, ActionOnProject, ActionOnNewProject, Reject, Terminate, tables
  <2> QED BY <1>1, <2>1, CarriedOut
<1> QED BY <1>2, <1>3

-----------------------------------------------------------------------------
(* The specification *)

LEMMA ActivityInitially == ActivityInit => IInv /\ ActivityInv
<1> SUFFICES ASSUME ActivityInit PROVE IInv /\ ActivityInv
  OBVIOUS
<1>1. IInv
  BY InitEstablishes DEF ActivityInit
<1>2. ActivityInv
  BY DEF ActivityInit, ActivityInv, Init, EmptyTable
<1> QED BY <1>1, <1>2

LEMMA ActivityStep == IInv /\ ActivityInv /\ [ActivityNext]_activityVars => IInv' /\ ActivityInv'
<1> SUFFICES ASSUME IInv, ActivityInv, [ActivityNext]_activityVars
             PROVE  IInv' /\ ActivityInv'
  OBVIOUS
<1>1. CASE UNCHANGED activityVars
  <2>1. UNCHANGED vars /\ lastCall' = lastCall
    BY <1>1 DEF activityVars
  <2>2. members' = members /\ clock' = clock
    BY <2>1 DEF vars
  <2>3. IInv'
    BY <2>1, NextKeeps
  <2>4. ActivityInv'
    BY <2>1, <2>2 DEF ActivityInv
  <2> QED BY <2>3, <2>4
<1>2. CASE ActivityNext
  <2>1. PICK ts \in Timestamp :
          \/ trolls(ts) /\ UNCHANGED lastCall
          \/ \E m \in MemberArg, pw \in Password :
              \/ leader(m, ts, pw) /\ Appointed(ts)
              \/ leaderReport(m, ts, pw) /\ Called(m, ts, pw)
              \/ \E type \in VoteType, a \in ActionArg :
                     vote(m, ts, pw, type, a) /\ Called(m, ts, pw)
              \/ \E type \in ActionType, a \in ActionArg, p \in ProjectArg,
                    auth \in AuthorityArg \cup {Absent} :
                     createAction(m, ts, pw, type, a, p, auth) /\ Called(m, ts, pw)
    BY <1>2 DEF ActivityNext
  <2>2. Next
    BY <2>1 DEF Next
  <2>3. IInv'
    BY <2>2, NextKeeps
  <2>4. CASE trolls(ts) /\ UNCHANGED lastCall
    <3>1. TypeOK /\ Call(ts) /\ members' = members
      BY <2>4 DEF trolls, tables, IInv
    <3> QED BY <2>3, <2>4, <3>1, WithoutEffect
  <2>5. ASSUME NEW m \in MemberArg, NEW pw \in Password, leader(m, ts, pw), Appointed(ts)
        PROVE  ActivityInv'
    BY <2>5, AppointmentKeeps
  <2>6. ASSUME NEW m \in MemberArg, NEW pw \in Password, leaderReport(m, ts, pw), Called(m, ts, pw)
        PROVE  ActivityInv'
    BY <2>6, ReportKeeps
  <2>7. ASSUME NEW m \in MemberArg, NEW pw \in Password, NEW type \in VoteType, NEW a \in ActionArg,
               vote(m, ts, pw, type, a), Called(m, ts, pw)
        PROVE  ActivityInv'
    BY <2>7, VoteKeeps
  <2>8. ASSUME NEW m \in MemberArg, NEW pw \in Password, NEW type \in ActionType,
               NEW a \in ActionArg, NEW p \in ProjectArg, NEW auth \in AuthorityArg \cup {Absent},
               createAction(m, ts, pw, type, a, p, auth), Called(m, ts, pw)
        PROVE  ActivityInv'
    BY <2>8, CreateKeeps
  <2> QED BY <2>1, <2>3, <2>4, <2>5, <2>6, <2>7, <2>8
<1> QED BY <1>1, <1>2

\* Whoever has not called for longer than the limit is frozen, although the
\* program keeps no history: isFrozen reads a column that follows it.
THEOREM SilenceAlwaysFreezes == ActivitySpec => []SilenceFreezes
<1>1. IInv /\ ActivityInv => SilenceFreezes
  <2> SUFFICES ASSUME IInv, ActivityInv, NEW m \in DOMAIN members, isFrozen(lastCall[m], clock)
               PROVE  isFrozen(members[m].timestamp, clock)
    BY DEF SilenceFreezes
  <2>1. TypeOK /\ clock \in Int
    BY Typed DEF IInv
  <2> QED BY <2>1, FrozenByBoth
<1>2. ActivityInit => IInv /\ ActivityInv
  BY ActivityInitially
<1>3. IInv /\ ActivityInv /\ [ActivityNext]_activityVars => (IInv /\ ActivityInv)'
  BY ActivityStep
<1> QED BY <1>1, <1>2, <1>3, PTL DEF ActivitySpec

-----------------------------------------------------------------------------
(* Reports *)

LEMMA OptionalGiven ==
    ASSUME NEW x, NEW g \in Id
    PROVE  Matches(Absent, x) /\ (Matches(g, x) <=> g = x)
  BY AbsentAssumption DEF Matches

\* The report of actions narrowed to an authority shows just the actions on the
\* projects that the report of projects shows for that authority.
THEOREM AuthorityReportsAlwaysAgree == Spec => []AuthorityReportsAgree
<1>1. TypeOK /\ References => AuthorityReportsAgree
  <2> SUFFICES ASSUME TypeOK, References, NEW g \in AuthorityArg
               PROVE  actionsRows(Absent, Absent, g) =
                          UNION {actionsRows(Absent, row.id, Absent) : row \in projectsRows(g)}
    BY DEF AuthorityReportsAgree
  <2> DEFINE Row(a) == [id |-> a, type |-> actions[a].type, projectid |-> actions[a].projectid,
                        authorityid |-> actions[a].authorityid,
                        upvotes |-> actions[a].upvotes, downvotes |-> actions[a].downvotes]
             Of(p) == {a \in DOMAIN actions : actions[a].projectid = p}
             Led == {p \in DOMAIN projects : projects[p] = g}
  <2>1. actionsRows(Absent, Absent, g) = {Row(a) : a \in {b \in DOMAIN actions : actions[b].authorityid = g}}
    BY OptionalGiven DEF actionsRows, References, Id
  <2>2. \A p \in DOMAIN projects : actionsRows(Absent, p, Absent) = {Row(a) : a \in Of(p)}
    BY OptionalGiven DEF actionsRows, References, TypeOK
  <2>3. {row.id : row \in projectsRows(g)} = Led
    <3> DEFINE Shown(p) == [id |-> p, authorityid |-> projects[p]]
    <3>1. projectsRows(g) = {Shown(p) : p \in Led}
      BY OptionalGiven DEF projectsRows, Id
    <3>2. \A p : Shown(p).id = p
      OBVIOUS
    <3> HIDE DEF Shown, Led
    <3> QED BY <3>1, <3>2
  <2>4. \A a \in DOMAIN actions : actions[a].authorityid = g <=> actions[a].projectid \in Led
    BY DEF References
  <2> HIDE DEF Row
  <2>5. UNION {actionsRows(Absent, row.id, Absent) : row \in projectsRows(g)}
          = UNION {{Row(a) : a \in Of(p)} : p \in Led}
    <3>1. UNION {actionsRows(Absent, row.id, Absent) : row \in projectsRows(g)}
            = UNION {actionsRows(Absent, p, Absent) : p \in {row.id : row \in projectsRows(g)}}
      OBVIOUS
    <3> QED BY <2>2, <2>3, <3>1
  <2>6. UNION {{Row(a) : a \in Of(p)} : p \in Led}
          = {Row(a) : a \in {b \in DOMAIN actions : actions[b].projectid \in Led}}
    OBVIOUS
  <2>7. {b \in DOMAIN actions : actions[b].authorityid = g}
          = {b \in DOMAIN actions : actions[b].projectid \in Led}
    BY <2>4
  <2> HIDE DEF Of, Led
  <2> QED BY <2>1, <2>5, <2>6, <2>7
<1>2. IInv => TypeOK /\ References
  BY DEF IInv
<1> QED BY <1>1, <1>2, Inductive, PTL

-----------------------------------------------------------------------------
(* Sums over finite sets.  Induction is on a set of numbers, as the theorem *)
(* of the library takes its predicate as a parameter.                       *)

LEMMA Less == \A x, y : <<y, x>> \in OpToRel(<, Nat) <=> x \in Nat /\ y \in Nat /\ y < x
  BY DEF OpToRel

\* Induction: a set with 0 and the successors of its numbers has all numbers.
LEMMA SetInduction ==
    ASSUME NEW S, 0 \in S, \A n \in Nat : n \in S => n + 1 \in S
    PROVE  Nat \subseteq S
<1> SUFFICES ASSUME Nat \ S # {} PROVE FALSE
  OBVIOUS
<1>1. IsWellFoundedOn(OpToRel(<, Nat), Nat)
  BY NatLessThanWellFounded
<1>2. PICK x \in Nat \ S : \A y \in Nat \ S : ~ (<<y, x>> \in OpToRel(<, Nat))
  BY <1>1, WFMin
<1>3. x - 1 \in Nat /\ x - 1 < x /\ (x - 1) + 1 = x
  <2>1. x # 0
    BY <1>2
  <2> QED BY <2>1
<1>4. x - 1 \in S
  BY <1>2, <1>3, Less
<1> QED BY <1>2, <1>3, <1>4

\* What the local recursive function of MapThenFoldSet returns.
Adds(iter, fun, S) ==
    iter = [s \in SUBSET S |->
              IF s = {} THEN 0
              ELSE LET x == CHOOSE x \in s : TRUE IN fun[x] + iter[s \ {x}]]

LEMMA OneLess ==
    ASSUME NEW s, s # {}, IsFiniteSet(s), NEW x \in s
    PROVE  /\ IsFiniteSet(s \ {x}) /\ Cardinality(s \ {x}) \in Nat
           /\ Cardinality(s) = Cardinality(s \ {x}) + 1
<1>1. IsFiniteSet(s \ {x}) /\ Cardinality(s \ {x}) = Cardinality(s) - 1
  BY FS_RemoveElement
<1>2. Cardinality(s) \in Nat /\ Cardinality(s \ {x}) \in Nat
  BY <1>1, FS_CardinalityType
<1> QED BY <1>1, <1>2

LEMMA ChosenIn == \A s : s # {} => (CHOOSE x \in s : TRUE) \in s
  OBVIOUS

\* A recursive function on finite sets exists.
LEMMA AddsExists ==
    ASSUME NEW S, IsFiniteSet(S), NEW fun
    PROVE  \E iter : Adds(iter, fun, S)
<1> DEFINE Small(n) == {s \in SUBSET S : Cardinality(s) <= n}
           Value(g, s) == IF s = {} THEN 0
                         ELSE LET x == CHOOSE x \in s : TRUE IN fun[x] + g[s \ {x}]
           Good(g, n) == g = [s \in Small(n) |-> Value(g, s)]
           Reached == {n \in Nat : \E g : Good(g, n)}
<1>1. \A s \in SUBSET S : IsFiniteSet(s) /\ Cardinality(s) \in Nat
  BY FS_Subset, FS_CardinalityType
<1>2. 0 \in Reached
  <2> DEFINE g == [s \in Small(0) |-> 0]
  <2>1. \A s \in Small(0) : s = {}
    BY <1>1, FS_EmptySet
  <2>2. Good(g, 0)
    BY <2>1
  <2> HIDE DEF g, Good
  <2> QED BY <2>2
<1>3. ASSUME NEW n \in Nat, n \in Reached PROVE n + 1 \in Reached
  <2>1. PICK g : Good(g, n)
    BY <1>3
  <2> DEFINE h == [s \in Small(n + 1) |-> Value(g, s)]
  <2>2. ASSUME NEW s \in Small(n + 1) PROVE Value(g, s) = Value(h, s)
    <3>1. CASE s = {}
      BY <3>1
    <3>2. CASE s # {}
      <4> DEFINE x == CHOOSE x \in s : TRUE
      <4>1. x \in s
        BY <3>2, ChosenIn
      <4>2. s \ {x} \in SUBSET S /\ Cardinality(s) <= n + 1
        OBVIOUS
      <4>3. Cardinality(s \ {x}) \in Nat /\ Cardinality(s) = Cardinality(s \ {x}) + 1
        BY <1>1, <3>2, <4>1, OneLess
      <4>4. s \ {x} \in Small(n) /\ s \ {x} \in Small(n + 1)
        BY <4>2, <4>3
      <4> HIDE DEF Small
      <4>5. g[s \ {x}] = h[s \ {x}]
        <5>1. g[s \ {x}] = Value(g, s \ {x})
          BY <2>1, <4>4
        <5>2. h[s \ {x}] = Value(g, s \ {x})
          BY <4>4
        <5> QED BY <5>1, <5>2
      <4> HIDE DEF h
      <4> QED BY <3>2, <4>5
    <3> QED BY <3>1, <3>2
  <2>3. Good(h, n + 1)
    <3> HIDE DEF Value, Small
    <3> QED BY <2>2
  <2> HIDE DEF h, Good
  <2> QED BY <2>3
<1>4. Nat \subseteq Reached
  <2> HIDE DEF Reached
  <2> QED BY <1>2, <1>3, SetInduction
<1>5. Cardinality(S) \in Reached
  BY <1>4, FS_CardinalityType
<1>6. PICK iter : Good(iter, Cardinality(S))
  BY <1>5
<1>7. Small(Cardinality(S)) = SUBSET S
  BY FS_Subset
<1>8. Adds(iter, fun, S)
  BY <1>6, <1>7 DEF Adds
<1> QED BY <1>8

\* SumFunctionOnSet is computed by such a function.
LEMMA SumIsAdded ==
    ASSUME NEW S, IsFiniteSet(S), NEW fun
    PROVE  \E iter : Adds(iter, fun, S) /\ SumFunctionOnSet(fun, S) = iter[S]
<1> DEFINE it == CHOOSE iter : Adds(iter, fun, S)
<1>1. Adds(it, fun, S)
  BY AddsExists
<1>2. SumFunctionOnSet(fun, S) = it[S]
  BY DEF SumFunctionOnSet, FoldFunctionOnSet, MapThenFoldSet, Adds
<1> HIDE DEF it
<1> QED BY <1>1, <1>2


\* The subsets of S are reached from {} by giving each back its chosen element.
LEMMA ChosenInduction ==
    ASSUME NEW S, IsFiniteSet(S), NEW Q, {} \in Q,
           \A T \in SUBSET S : T # {} /\ T \ {CHOOSE x \in T : TRUE} \in Q => T \in Q
    PROVE  SUBSET S \subseteq Q
<1> DEFINE Reached == {n \in Nat : \A T \in SUBSET S : Cardinality(T) = n => T \in Q}
<1>1. \A T \in SUBSET S : IsFiniteSet(T) /\ Cardinality(T) \in Nat
  BY FS_Subset, FS_CardinalityType
<1>2. 0 \in Reached
  BY <1>1, FS_EmptySet
<1>3. ASSUME NEW n \in Nat, n \in Reached PROVE n + 1 \in Reached
  <2>1. ASSUME NEW T \in SUBSET S, Cardinality(T) = n + 1 PROVE T \in Q
    <3> DEFINE x == CHOOSE x \in T : TRUE
    <3>1. T # {}
      BY <2>1, FS_EmptySet
    <3>2. x \in T
      BY <3>1, ChosenIn
    <3>3. Cardinality(T \ {x}) \in Nat /\ n + 1 = Cardinality(T \ {x}) + 1
      BY <1>1, <2>1, <3>1, <3>2, OneLess
    <3>4. Cardinality(T \ {x}) = n /\ T \ {x} \in SUBSET S
      BY <3>3
    <3>5. T \ {x} \in Q
      BY <1>3, <3>4
    <3> QED BY <3>1, <3>5
  <2> QED BY <2>1
<1>4. Nat \subseteq Reached
  <2> HIDE DEF Reached
  <2> QED BY <1>2, <1>3, SetInduction
<1> QED BY <1>1, <1>4

\* Two such functions agree where both are defined.
LEMMA AddsAgree ==
    ASSUME NEW S, IsFiniteSet(S), NEW T \in SUBSET S, NEW fun,
           NEW f, NEW g, Adds(f, fun, S), Adds(g, fun, T)
    PROVE  f[T] = g[T]
<1> DEFINE Q == {u \in SUBSET T : f[u] = g[u]}
<1>1. IsFiniteSet(T) /\ SUBSET T \subseteq SUBSET S
  BY FS_Subset
<1>2. {} \in Q
  BY DEF Adds
<1>3. ASSUME NEW u \in SUBSET T, u # {}, u \ {CHOOSE x \in u : TRUE} \in Q
      PROVE  u \in Q
  <2>1. f[u] = fun[CHOOSE x \in u : TRUE] + f[u \ {CHOOSE x \in u : TRUE}]
    BY <1>1, <1>3 DEF Adds
  <2>2. g[u] = fun[CHOOSE x \in u : TRUE] + g[u \ {CHOOSE x \in u : TRUE}]
    BY <1>3 DEF Adds
  <2> QED BY <1>3, <2>1, <2>2
<1>4. SUBSET T \subseteq Q
  <2> HIDE DEF Q
  <2> QED BY <1>1, <1>2, <1>3, ChosenInduction
<1> QED BY <1>4

LEMMA SumOfNothing == \A fun : SumFunctionOnSet(fun, {}) = 0
<1> TAKE fun
<1>1. PICK iter : Adds(iter, fun, {}) /\ SumFunctionOnSet(fun, {}) = iter[{}]
  BY SumIsAdded, FS_EmptySet
<1> QED BY <1>1 DEF Adds

\* A sum is the chosen element's value and the sum of the rest.
LEMMA SumOfMore ==
    ASSUME NEW S, IsFiniteSet(S), NEW fun, S # {}
    PROVE  LET x == CHOOSE x \in S : TRUE
           IN  SumFunctionOnSet(fun, S) = fun[x] + SumFunctionOnSet(fun, S \ {x})
<1> DEFINE x == CHOOSE x \in S : TRUE
<1>1. IsFiniteSet(S \ {x}) /\ S \ {x} \in SUBSET S
  BY FS_Subset
<1>2. PICK f : Adds(f, fun, S) /\ SumFunctionOnSet(fun, S) = f[S]
  BY SumIsAdded
<1>3. PICK g : Adds(g, fun, S \ {x}) /\ SumFunctionOnSet(fun, S \ {x}) = g[S \ {x}]
  BY <1>1, SumIsAdded
<1>4. f[S \ {x}] = g[S \ {x}]
  BY <1>1, <1>2, <1>3, AddsAgree
<1>5. f[S] = fun[x] + f[S \ {x}]
  BY <1>2 DEF Adds
<1> QED BY <1>2, <1>3, <1>4, <1>5

\* fun gives the sizes of disjoint parts of All.
Sizes(S, fun, part, All) ==
    /\ \A x \in S : part[x] \subseteq All /\ fun[x] = Cardinality(part[x])
    /\ \A x, y \in S : x # y => part[x] \cap part[y] = {}

\* The sum of the sizes of disjoint sets is the size of their union.
LEMMA SumOfSizes ==
    ASSUME NEW S, IsFiniteSet(S), NEW fun, NEW part, NEW All, IsFiniteSet(All),
           Sizes(S, fun, part, All)
    PROVE  SumFunctionOnSet(fun, S) = Cardinality(UNION {part[x] : x \in S})
<1> DEFINE Q == {T \in SUBSET S :
                    SumFunctionOnSet(fun, T) = Cardinality(UNION {part[x] : x \in T})}
<1> USE DEF Sizes
<1>1. {} \in Q
  BY SumOfNothing, FS_EmptySet
<1>2. ASSUME NEW T \in SUBSET S, T # {}, T \ {CHOOSE x \in T : TRUE} \in Q
      PROVE  T \in Q
  <2> DEFINE c == CHOOSE x \in T : TRUE
             Rest == UNION {part[x] : x \in T \ {c}}
  <2>1. c \in T /\ c \in S
    BY <1>2, ChosenIn
  <2>2. IsFiniteSet(part[c]) /\ IsFiniteSet(Rest)
    BY <2>1, FS_Subset
  <2>3. part[c] \cap Rest = {}
    BY <2>1
  <2>4. UNION {part[x] : x \in T} = part[c] \cup Rest
    BY <2>1
  <2>5. Cardinality(part[c] \cup Rest) = Cardinality(part[c]) + Cardinality(Rest)
    <3>1. Cardinality(part[c] \cup Rest)
            = Cardinality(part[c]) + Cardinality(Rest) - Cardinality(part[c] \cap Rest)
      BY <2>2, FS_Union
    <3>2. Cardinality(part[c]) \in Nat /\ Cardinality(Rest) \in Nat
      BY <2>2, FS_CardinalityType
    <3>3. Cardinality(part[c] \cap Rest) = 0
      BY <2>3, FS_EmptySet
    <3> HIDE DEF Rest, c
    <3> QED BY <3>1, <3>2, <3>3
  <2>6. IsFiniteSet(T)
    BY FS_Subset
  <2>7. SumFunctionOnSet(fun, T) = fun[c] + SumFunctionOnSet(fun, T \ {c})
    BY <1>2, <2>6, SumOfMore
  <2>8. SumFunctionOnSet(fun, T \ {c}) = Cardinality(Rest)
    BY <1>2
  <2>9. fun[c] = Cardinality(part[c])
    BY <2>1
  <2> HIDE DEF c, Rest
  <2>10. SumFunctionOnSet(fun, T) = Cardinality(UNION {part[x] : x \in T})
    BY <2>4, <2>5, <2>7, <2>8, <2>9
  <2> QED BY <2>10
<1>3. SUBSET S \subseteq Q
  <2> HIDE DEF Q
  <2> QED BY <1>1, <1>2, ChosenInduction
<1> QED BY <1>3

\* The image of a set under an injective function is as large as the set.
LEMMA ImageSize ==
    ASSUME NEW S, IsFiniteSet(S), NEW f, f = [x \in S |-> f[x]],
           \A x, y \in S : f[x] = f[y] => x = y
    PROVE  /\ IsFiniteSet({f[x] : x \in S})
           /\ Cardinality({f[x] : x \in S}) = Cardinality(S)
<1> DEFINE T == {f[x] : x \in S}
<1>1. f \in [S -> T]
  OBVIOUS
<1>2. f \in Bijection(S, T)
  BY <1>1 DEF Bijection, Injection, IsInjective, Surjection
<1>3. ExistsBijection(S, T)
  BY <1>2 DEF ExistsBijection
<1> HIDE DEF T
<1>4. IsFiniteSet(T) /\ Cardinality(T) = Cardinality(S)
  BY <1>3, FS_Bijection
<1> QED BY <1>4 DEF T

-----------------------------------------------------------------------------
(* The ballots *)

\* The rows of votes that the ballots report counts, and those of a member.
Picked(type, p, a) ==
    {i \in DOMAIN votes :
        /\ votes[i].type = type
        /\ p = Absent \/ (votes[i].actionid \in DOMAIN actions /\ actions[votes[i].actionid].projectid = p)
        /\ Matches(a, votes[i].actionid)}

PickedOf(m, type, p, a) == {i \in Picked(type, p, a) : votes[i].memberid = m}

LEMMA VotesAreFinite == TypeOK => IsFiniteSet(DOMAIN votes)
<1> SUFFICES ASSUME TypeOK PROVE IsFiniteSet(DOMAIN votes)
  OBVIOUS
<1>1. Len(votes) \in Nat /\ DOMAIN votes = 1..Len(votes)
  BY DEF TypeOK
<1> QED BY <1>1, FS_Interval

\* One row for each member.
LEMMA BallotRows ==
    ASSUME TypeOK, References, IsFiniteSet(DOMAIN members), NEW p, NEW a
    PROVE  LET row(m) == [id |-> m, upvotes |-> Cardinality(PickedOf(m, "upvote", p, a)),
                          downvotes |-> Cardinality(PickedOf(m, "downvote", p, a))]
           IN  /\ votesRows(p, a) = {row(m) : m \in DOMAIN members}
               /\ IsFiniteSet(votesRows(p, a))
               /\ Cardinality(votesRows(p, a)) = Cardinality(DOMAIN members)
<1> DEFINE row(m) == [id |-> m, upvotes |-> Cardinality(PickedOf(m, "upvote", p, a)),
                      downvotes |-> Cardinality(PickedOf(m, "downvote", p, a))]
           f == [m \in DOMAIN members |-> row(m)]
<1>1. \A m, type : Counted(m, type, p, a) = Cardinality(PickedOf(m, type, p, a))
  <2> TAKE m, type
  <2>1. PickedOf(m, type, p, a) =
          {i \in DOMAIN votes :
              /\ votes[i].memberid = m /\ votes[i].type = type
              /\ p = Absent \/ (votes[i].actionid \in DOMAIN actions /\ actions[votes[i].actionid].projectid = p)
              /\ Matches(a, votes[i].actionid)}
    BY DEF PickedOf, Picked
  <2> QED BY <2>1 DEF Counted
<1>2. DOMAIN members \cup {votes[i].memberid : i \in DOMAIN votes} = DOMAIN members
  BY DEF References
<1>3. votesRows(p, a) = {row(m) : m \in DOMAIN members}
  BY <1>1, <1>2 DEF votesRows
<1>4. \A m, n \in DOMAIN members : f[m] = f[n] => m = n
  <2> SUFFICES ASSUME NEW m \in DOMAIN members, NEW n \in DOMAIN members, row(m) = row(n)
               PROVE  m = n
    OBVIOUS
  <2>1. row(m).id = m /\ row(n).id = n
    OBVIOUS
  <2> QED BY <2>1
<1>5. f = [m \in DOMAIN members |-> f[m]] /\ votesRows(p, a) = {f[m] : m \in DOMAIN members}
  BY <1>3
<1> HIDE DEF f
<1>6. /\ IsFiniteSet({f[m] : m \in DOMAIN members})
      /\ Cardinality({f[m] : m \in DOMAIN members}) = Cardinality(DOMAIN members)
  BY <1>4, <1>5, ImageSize
<1> QED BY <1>3, <1>5, <1>6

\* A column of the ballots report adds up to the ballots that it is about.
LEMMA BallotColumn ==
    ASSUME TypeOK, References, IsFiniteSet(DOMAIN members), NEW p, NEW a, NEW type, NEW column,
           \A row \in votesRows(p, a) : column[row] = Cardinality(PickedOf(row.id, type, p, a))
    PROVE  SumFunctionOnSet(column, votesRows(p, a)) = Cardinality(Picked(type, p, a))
<1> DEFINE T == votesRows(p, a)
           part == [row \in T |-> PickedOf(row.id, type, p, a)]
           row(m) == [id |-> m, upvotes |-> Cardinality(PickedOf(m, "upvote", p, a)),
                      downvotes |-> Cardinality(PickedOf(m, "downvote", p, a))]
<1>1. IsFiniteSet(T) /\ T = {row(m) : m \in DOMAIN members}
  BY BallotRows
<1>2. \A m : row(m).id = m
  OBVIOUS
<1> HIDE DEF row
<1>3. \A r, s \in T : r # s => r.id # s.id
  BY <1>1, <1>2
<1>4. \A m \in DOMAIN members : \E r \in T : r.id = m
  BY <1>1, <1>2
<1> HIDE DEF T
<1>5. \A r \in T : part[r] \subseteq DOMAIN votes /\ column[r] = Cardinality(part[r])
  BY DEF PickedOf, Picked, T
<1>6. \A r, s \in T : r # s => part[r] \cap part[s] = {}
  BY <1>3 DEF PickedOf
<1>7. UNION {part[r] : r \in T} = Picked(type, p, a)
  <2>1. \A i \in Picked(type, p, a) : \E r \in T : r.id = votes[i].memberid
    BY <1>4 DEF References, Picked
  <2>2. \A r \in T : part[r] = {i \in Picked(type, p, a) : votes[i].memberid = r.id}
    BY DEF PickedOf
  <2> HIDE DEF part
  <2> QED BY <2>1, <2>2
<1> HIDE DEF part
<1>8. IsFiniteSet(DOMAIN votes)
  BY VotesAreFinite
<1>9. SumFunctionOnSet(column, T) = Cardinality(UNION {part[r] : r \in T})
  <2>1. Sizes(T, column, part, DOMAIN votes)
    BY <1>5, <1>6 DEF Sizes
  <2> QED BY <1>1, <1>8, <2>1, SumOfSizes
<1> QED BY <1>7, <1>9 DEF T

-----------------------------------------------------------------------------
(* The counters *)

\* The actions that a report narrowed to p and a is about.
Shown(p, a) == {b \in DOMAIN actions : Matches(p, actions[b].projectid) /\ Matches(a, b)}

ShownRows(p, a) == {row \in actionsRows(Absent, p, Absent) : Matches(a, row.id)}

LEMMA ShownOnce ==
    ASSUME TypeOK, References, IsFiniteSet(DOMAIN actions), NEW p, NEW a
    PROVE  /\ IsFiniteSet(ShownRows(p, a))
           /\ {row.id : row \in ShownRows(p, a)} = Shown(p, a)
           /\ \A r, s \in ShownRows(p, a) : r # s => r.id # s.id
           /\ \A row \in ShownRows(p, a) : /\ row.upvotes = actions[row.id].upvotes
                                           /\ row.downvotes = actions[row.id].downvotes
<1> DEFINE row(b) == [id |-> b, type |-> actions[b].type, projectid |-> actions[b].projectid,
                      authorityid |-> actions[b].authorityid,
                      upvotes |-> actions[b].upvotes, downvotes |-> actions[b].downvotes]
           f == [b \in Shown(p, a) |-> row(b)]
<1>1. \A b : /\ row(b).id = b /\ row(b).upvotes = actions[b].upvotes
             /\ row(b).downvotes = actions[b].downvotes
  OBVIOUS
<1>2. actionsRows(Absent, p, Absent) =
        {row(b) : b \in {c \in DOMAIN actions : Matches(p, actions[c].projectid)}}
  <2>1. {b \in DOMAIN actions :
            /\ actions[b].memberid \in DOMAIN members
            /\ Matches(Absent, actions[b].type) /\ Matches(p, actions[b].projectid)
            /\ Matches(Absent, actions[b].authorityid)}
          = {c \in DOMAIN actions : Matches(p, actions[c].projectid)}
    BY DEF References, Matches
  <2> QED BY <2>1 DEF actionsRows
<1> HIDE DEF row
<1>3. ShownRows(p, a) = {row(b) : b \in Shown(p, a)}
  BY <1>1, <1>2 DEF ShownRows, Shown
<1>4. IsFiniteSet(Shown(p, a))
  BY FS_Subset DEF Shown
<1>5. \A b, c \in Shown(p, a) : f[b] = f[c] => b = c
  BY <1>1
<1>6. f = [b \in Shown(p, a) |-> f[b]] /\ ShownRows(p, a) = {f[b] : b \in Shown(p, a)}
  BY <1>3
<1> HIDE DEF f
<1>7. IsFiniteSet({f[b] : b \in Shown(p, a)})
  BY <1>4, <1>5, <1>6, ImageSize
<1>8. IsFiniteSet(ShownRows(p, a))
  BY <1>6, <1>7
<1>9. {r.id : r \in ShownRows(p, a)} = Shown(p, a)
  BY <1>1, <1>3
<1>10. \A r, s \in ShownRows(p, a) : r # s => r.id # s.id
  BY <1>1, <1>3
<1>11. \A r \in ShownRows(p, a) : /\ r.upvotes = actions[r.id].upvotes
                                 /\ r.downvotes = actions[r.id].downvotes
  BY <1>1, <1>3
<1> QED BY <1>8, <1>9, <1>10, <1>11

\* A column of the actions report adds up to the same ballots.
LEMMA ActionColumn ==
    ASSUME TypeOK, References, IsFiniteSet(DOMAIN actions), NEW p \in Id \cup {Absent}, NEW a, NEW type,
           NEW column,
           \A row \in ShownRows(p, a) : column[row] = Cardinality(VotesOn(row.id, type))
    PROVE  SumFunctionOnSet(column, ShownRows(p, a)) = Cardinality(Picked(type, p, a))
<1> DEFINE T == ShownRows(p, a)
           part == [row \in T |-> VotesOn(row.id, type)]
<1>1. /\ IsFiniteSet(T) /\ {row.id : row \in T} = Shown(p, a)
      /\ \A r, s \in T : r # s => r.id # s.id
  BY ShownOnce
<1> HIDE DEF T
<1>2. \A r \in T : part[r] \subseteq DOMAIN votes /\ column[r] = Cardinality(part[r])
  BY DEF VotesOn, T
<1>3. \A r, s \in T : r # s => part[r] \cap part[s] = {}
  BY <1>1 DEF VotesOn
<1>4. UNION {part[r] : r \in T} = Picked(type, p, a)
  <2>1. \A i \in DOMAIN votes : i \in Picked(type, p, a) <=>
             votes[i].type = type /\ votes[i].actionid \in Shown(p, a)
    BY DEF Picked, Shown, Matches, References
  <2>2. \A i \in DOMAIN votes : votes[i].actionid \in Shown(p, a) <=> \E r \in T : votes[i].actionid = r.id
    BY <1>1
  <2>3. \A r \in T : part[r] = {i \in DOMAIN votes : votes[i].actionid = r.id /\ votes[i].type = type}
    BY DEF VotesOn
  <2>4. Picked(type, p, a) \subseteq DOMAIN votes
    BY DEF Picked
  <2> HIDE DEF part
  <2> QED BY <2>1, <2>2, <2>3, <2>4
<1> HIDE DEF part
<1>5. IsFiniteSet(DOMAIN votes)
  BY VotesAreFinite
<1>6. SumFunctionOnSet(column, T) = Cardinality(UNION {part[r] : r \in T})
  <2>1. Sizes(T, column, part, DOMAIN votes)
    BY <1>2, <1>3 DEF Sizes
  <2> QED BY <1>1, <1>5, <2>1, SumOfSizes
<1> QED BY <1>4, <1>6 DEF T

-----------------------------------------------------------------------------
(* What the reports can count, and how late a timestamp can be *)

Measured ==
    /\ IsFiniteSet(DOMAIN members) /\ IsFiniteSet(DOMAIN actions)
    /\ \A m \in DOMAIN members : members[m].timestamp <= clock

LEMMA EmptyIsMeasured == Init => Measured
  BY FS_EmptySet DEF Init, EmptyTable, Measured

\* A call touches one member, whose timestamp becomes its own, and one action.
LEMMA OneRowKeepsMeasured ==
    ASSUME TypeOK, Measured, NEW ts \in Timestamp, Call(ts), NEW m, NEW a,
           DOMAIN members' \subseteq DOMAIN members \cup {m},
           DOMAIN actions' \subseteq DOMAIN actions \cup {a},
           \A n \in DOMAIN members' :
               \/ members'[n].timestamp = ts
               \/ n \in DOMAIN members /\ members'[n] = members[n]
    PROVE  Measured'
<1>1. IsFiniteSet(DOMAIN members \cup {m}) /\ IsFiniteSet(DOMAIN actions \cup {a})
  BY FS_AddElement DEF Measured
<1>2. IsFiniteSet(DOMAIN members') /\ IsFiniteSet(DOMAIN actions')
  BY <1>1, FS_Subset
<1>3. clock' = ts /\ clock <= ts /\ clock \in Int /\ ts \in Int
  BY Typed, TimestampAssumption DEF Call
<1>4. ASSUME NEW n \in DOMAIN members' PROVE members'[n].timestamp <= clock'
  <2>1. CASE members'[n].timestamp = ts
    BY <1>3, <2>1
  <2>2. CASE n \in DOMAIN members /\ members'[n] = members[n]
    BY <1>3, <2>2, Typed DEF Measured
  <2> QED BY <2>1, <2>2
<1> QED BY <1>2, <1>4 DEF Measured

LEMMA EnteringTouchesOne ==
    ASSUME TypeOK, NEW m, NEW ts, NEW pw, members' = MembersAfter(m, ts, pw)
    PROVE  /\ DOMAIN members' \subseteq DOMAIN members \cup {m}
           /\ \A n \in DOMAIN members' :
                  \/ members'[n].timestamp = ts
                  \/ n \in DOMAIN members /\ members'[n] = members[n]
<1>1. CASE m \in DOMAIN members
  <2>1. members' = [members EXCEPT ![m].timestamp = ts] /\ members[m] \in MemberRow
    BY <1>1 DEF MembersAfter, TypeOK
  <2>2. members'[m] = [members[m] EXCEPT !.timestamp = ts]
    BY <1>1, <2>1
  <2>3. members'[m].timestamp = ts
    BY <2>1, <2>2 DEF MemberRow
  <2> QED BY <1>1, <2>1, <2>3
<1>2. CASE m \notin DOMAIN members
  BY <1>2 DEF MembersAfter, Insert
<1> QED BY <1>1, <1>2

LEMMA StepKeepsMeasured == TypeOK /\ Measured /\ [Next]_vars => Measured'
<1> SUFFICES ASSUME TypeOK, Measured, [Next]_vars PROVE Measured'
  OBVIOUS
<1>1. CASE UNCHANGED vars
  BY <1>1 DEF vars, Measured
<1>2. ASSUME NEW ts \in Timestamp, Call(ts), UNCHANGED tables PROVE Measured'
  <2>1. members' = members /\ actions' = actions
    BY <1>2 DEF tables
  <2> QED BY <1>2, <2>1, OneRowKeepsMeasured
<1>3. ASSUME NEW ts \in Timestamp, trolls(ts) PROVE Measured'
  BY <1>2, <1>3 DEF trolls
<1>4. ASSUME NEW ts \in Timestamp, NEW m, NEW pw, leader(m, ts, pw) PROVE Measured'
  <2>1. Call(ts)
    BY <1>4 DEF leader
  <2>2. CASE Reject
    BY <1>2, <2>1, <2>2 DEF Reject
  <2>3. CASE members' = Insert(members, m,
                 [password |-> crypt(pw), timestamp |-> ts, isleader |-> TRUE]) /\ actions' = actions
    <3>1. DOMAIN members' \subseteq DOMAIN members \cup {m}
      BY <2>3 DEF Insert
    <3>2. \A n \in DOMAIN members' :
              \/ members'[n].timestamp = ts
              \/ n \in DOMAIN members /\ members'[n] = members[n]
      BY <2>3 DEF Insert
    <3> QED BY <2>1, <2>3, <3>1, <3>2, OneRowKeepsMeasured
  <2> QED BY <1>4, <2>2, <2>3 DEF leader
<1>5. ASSUME NEW ts \in Timestamp, NEW m, NEW pw, leaderReport(m, ts, pw) PROVE Measured'
  <2>1. Call(ts)
    BY <1>5 DEF leaderReport
  <2>2. CASE Reject
    BY <1>2, <2>1, <2>2 DEF Reject
  <2>3. CASE m \in DOMAIN members /\ members' = [members EXCEPT ![m].timestamp = ts] /\ actions' = actions
    <3>1. members' = MembersAfter(m, ts, pw)
      BY <2>3 DEF MembersAfter
    <3> QED BY <2>1, <2>3, <3>1, EnteringTouchesOne, OneRowKeepsMeasured
  <2> QED BY <1>5, <2>2, <2>3 DEF leaderReport, Authenticated
<1>6. ASSUME NEW ts \in Timestamp, NEW m, NEW pw, NEW type \in VoteType, NEW a, vote(m, ts, pw, type, a)
      PROVE  Measured'
  <2>1. Call(ts)
    BY <1>6 DEF vote
  <2>2. CASE Reject
    BY <1>2, <2>1, <2>2 DEF Reject
  <2>3. CASE members' = MembersAfter(m, ts, pw) /\ actions' = Tallied(type, a)
    <3>1. DOMAIN actions' = DOMAIN actions
      BY <2>3 DEF Tallied
    <3> QED BY <2>1, <2>3, <3>1, EnteringTouchesOne, OneRowKeepsMeasured
  <2> QED BY <1>6, <2>2, <2>3 DEF vote
<1>7. ASSUME NEW ts \in Timestamp, NEW m, NEW pw, NEW type, NEW a, NEW p, NEW auth,
             createAction(m, ts, pw, type, a, p, auth)
      PROVE  Measured'
  <2>1. Call(ts)
    BY <1>7 DEF createAction
  <2>2. CASE Reject \/ Terminate
    BY <1>2, <2>1, <2>2 DEF Reject, Terminate
  <2>3. CASE members' = MembersAfter(m, ts, pw) /\ \E row : actions' = Insert(actions, a, row)
    <3>1. DOMAIN actions' \subseteq DOMAIN actions \cup {a}
      BY <2>3 DEF Insert
    <3> QED BY <2>1, <2>3, <3>1, EnteringTouchesOne, OneRowKeepsMeasured
  <2> QED BY <1>7, <2>2, <2>3 DEF createAction, ActionOnProject, ActionOnNewProject
<1> QED BY <1>1, <1>3, <1>4, <1>5, <1>6, <1>7 DEF Next

LEMMA AlwaysMeasured == Spec => [](IInv /\ Measured)
<1>1. Init => IInv /\ Measured
  BY InitEstablishes, EmptyIsMeasured
<1>2. IInv /\ Measured /\ [Next]_vars => (IInv /\ Measured)'
  BY NextKeeps, StepKeepsMeasured DEF IInv
<1> QED BY <1>1, <1>2, PTL DEF Spec

\* The ballots report lists each member once and adds up to what the actions
\* report shows: two reports over tables that only vote keeps in step.
THEOREM ReportsAlwaysAddUp == Spec => []ReportsAddUp
<1>1. IInv /\ Measured => ReportsAddUp
  <2> SUFFICES ASSUME IInv, Measured, NEW p \in ProjectArg \cup {Absent}, NEW a \in ActionArg \cup {Absent}
               PROVE  /\ {row.id : row \in votesRows(p, a)} = DOMAIN members
                      /\ Cardinality(votesRows(p, a)) = Cardinality(DOMAIN members)
                      /\ SumFunction([row \in votesRows(p, a) |-> row.upvotes])
                           = SumFunction([row \in ShownRows(p, a) |-> row.upvotes])
                      /\ SumFunction([row \in votesRows(p, a) |-> row.downvotes])
                           = SumFunction([row \in ShownRows(p, a) |-> row.downvotes])
    BY DEF ReportsAddUp, ShownRows
  <2>1. /\ TypeOK /\ References /\ CountersMatchVotes
        /\ IsFiniteSet(DOMAIN members) /\ IsFiniteSet(DOMAIN actions) /\ p \in Id \cup {Absent}
    BY DEF IInv, Measured, Id
  <2> DEFINE row(m) == [id |-> m, upvotes |-> Cardinality(PickedOf(m, "upvote", p, a)),
                        downvotes |-> Cardinality(PickedOf(m, "downvote", p, a))]
  <2>2. /\ votesRows(p, a) = {row(m) : m \in DOMAIN members}
        /\ Cardinality(votesRows(p, a)) = Cardinality(DOMAIN members)
    BY <2>1, BallotRows
  <2>3. \A m : /\ row(m).id = m
               /\ row(m).upvotes = Cardinality(PickedOf(m, "upvote", p, a))
               /\ row(m).downvotes = Cardinality(PickedOf(m, "downvote", p, a))
    OBVIOUS
  <2> HIDE DEF row
  <2>4. {r.id : r \in votesRows(p, a)} = DOMAIN members
    <3>1. \A r \in votesRows(p, a) : r.id \in DOMAIN members
      BY <2>2, <2>3
    <3>2. \A m \in DOMAIN members : \E r \in votesRows(p, a) : r.id = m
      BY <2>2, <2>3
    <3> QED BY <3>1, <3>2
  <2>5. \A r \in ShownRows(p, a) : /\ r.id \in DOMAIN actions
                                   /\ r.upvotes = Cardinality(VotesOn(r.id, "upvote"))
                                   /\ r.downvotes = Cardinality(VotesOn(r.id, "downvote"))
    BY <2>1, ShownOnce DEF CountersMatchVotes, Shown
  <2>6. SumFunction([r \in votesRows(p, a) |-> r.upvotes]) = Cardinality(Picked("upvote", p, a))
    <3> DEFINE column == [r \in votesRows(p, a) |-> r.upvotes]
    <3>1. \A r \in votesRows(p, a) : column[r] = Cardinality(PickedOf(r.id, "upvote", p, a))
      BY <2>2, <2>3
    <3>2. DOMAIN column = votesRows(p, a)
      OBVIOUS
    <3> HIDE DEF column
    <3>3. SumFunctionOnSet(column, votesRows(p, a)) = Cardinality(Picked("upvote", p, a))
      BY <2>1, <3>1, BallotColumn
    <3> QED BY <3>2, <3>3 DEF SumFunction, column
  <2>7. SumFunction([r \in votesRows(p, a) |-> r.downvotes]) = Cardinality(Picked("downvote", p, a))
    <3> DEFINE column == [r \in votesRows(p, a) |-> r.downvotes]
    <3>1. \A r \in votesRows(p, a) : column[r] = Cardinality(PickedOf(r.id, "downvote", p, a))
      BY <2>2, <2>3
    <3>2. DOMAIN column = votesRows(p, a)
      OBVIOUS
    <3> HIDE DEF column
    <3>3. SumFunctionOnSet(column, votesRows(p, a)) = Cardinality(Picked("downvote", p, a))
      BY <2>1, <3>1, BallotColumn
    <3> QED BY <3>2, <3>3 DEF SumFunction, column
  <2>8. SumFunction([r \in ShownRows(p, a) |-> r.upvotes]) = Cardinality(Picked("upvote", p, a))
    <3> DEFINE column == [r \in ShownRows(p, a) |-> r.upvotes]
    <3>1. \A r \in ShownRows(p, a) : column[r] = Cardinality(VotesOn(r.id, "upvote"))
      BY <2>5
    <3>2. DOMAIN column = ShownRows(p, a)
      OBVIOUS
    <3> HIDE DEF column
    <3>3. SumFunctionOnSet(column, ShownRows(p, a)) = Cardinality(Picked("upvote", p, a))
      BY <2>1, <3>1, ActionColumn
    <3> QED BY <3>2, <3>3 DEF SumFunction, column
  <2>9. SumFunction([r \in ShownRows(p, a) |-> r.downvotes]) = Cardinality(Picked("downvote", p, a))
    <3> DEFINE column == [r \in ShownRows(p, a) |-> r.downvotes]
    <3>1. \A r \in ShownRows(p, a) : column[r] = Cardinality(VotesOn(r.id, "downvote"))
      BY <2>5
    <3>2. DOMAIN column = ShownRows(p, a)
      OBVIOUS
    <3> HIDE DEF column
    <3>3. SumFunctionOnSet(column, ShownRows(p, a)) = Cardinality(Picked("downvote", p, a))
      BY <2>1, <3>1, ActionColumn
    <3> QED BY <3>2, <3>3 DEF SumFunction, column
  <2> QED BY <2>2, <2>4, <2>6, <2>7, <2>8, <2>9
<1> QED BY <1>1, AlwaysMeasured, PTL

-----------------------------------------------------------------------------
(* trolls *)

CastOn(m, type) == {i \in DOMAIN votes : votes[i].type = type /\ votes[i].actionid \in ActionsBy(m)}

\* The sum of a counter over the actions of a member is a number of ballots.
LEMMA CounterColumn ==
    ASSUME TypeOK, IsFiniteSet(DOMAIN actions), NEW m, NEW type, NEW column,
           \A a \in ActionsBy(m) : column[a] = Cardinality(VotesOn(a, type))
    PROVE  SumFunctionOnSet(column, ActionsBy(m)) = Cardinality(CastOn(m, type))
<1> DEFINE part == [a \in ActionsBy(m) |-> VotesOn(a, type)]
<1>1. IsFiniteSet(ActionsBy(m)) /\ IsFiniteSet(DOMAIN votes)
  BY FS_Subset, VotesAreFinite DEF ActionsBy
<1>2. UNION {part[a] : a \in ActionsBy(m)} = CastOn(m, type)
  BY DEF VotesOn, CastOn
<1>3. Sizes(ActionsBy(m), column, part, DOMAIN votes)
  BY DEF Sizes, VotesOn
<1> HIDE DEF part
<1> QED BY <1>1, <1>2, <1>3, SumOfSizes

\* From the latest call on, trolls lists those whose actions drew more ballots
\* against than for, and calls active those that the handlers would admit.
THEOREM TrollsAreAlwaysRight == Spec => []TrollsAreRight
<1>1. IInv /\ Measured => TrollsAreRight
  <2> DEFINE found(m, ts) == [memberid |-> m, upvotes |-> Cardinality(CastOn(m, "upvote")),
                              downvotes |-> Cardinality(CastOn(m, "downvote")),
                              active |-> ~isFrozen(members[m].timestamp, ts)]
             against(m) == Cardinality(CastOn(m, "upvote")) < Cardinality(CastOn(m, "downvote"))
  <2> SUFFICES ASSUME IInv, Measured, NEW ts \in Timestamp, ts >= clock
               PROVE  trollsRows(ts) = {found(m, ts) : m \in {k \in DOMAIN members : against(k)}}
    BY DEF TrollsAreRight, CastOn
  <2>1. TypeOK /\ CountersMatchVotes /\ IsFiniteSet(DOMAIN actions)
    BY DEF IInv, Measured
  <2>2. \A m : /\ SumFunction([a \in ActionsBy(m) |-> actions[a].upvotes]) = Cardinality(CastOn(m, "upvote"))
               /\ SumFunction([a \in ActionsBy(m) |-> actions[a].downvotes]) = Cardinality(CastOn(m, "downvote"))
    <3> TAKE m
    <3> DEFINE up == [a \in ActionsBy(m) |-> actions[a].upvotes]
               down == [a \in ActionsBy(m) |-> actions[a].downvotes]
    <3>1. /\ \A a \in ActionsBy(m) : up[a] = Cardinality(VotesOn(a, "upvote"))
          /\ \A a \in ActionsBy(m) : down[a] = Cardinality(VotesOn(a, "downvote"))
      BY <2>1 DEF CountersMatchVotes, ActionsBy
    <3>2. DOMAIN up = ActionsBy(m) /\ DOMAIN down = ActionsBy(m)
      OBVIOUS
    <3> HIDE DEF up, down
    <3>3. SumFunctionOnSet(up, ActionsBy(m)) = Cardinality(CastOn(m, "upvote"))
      BY <2>1, <3>1, CounterColumn
    <3>4. SumFunctionOnSet(down, ActionsBy(m)) = Cardinality(CastOn(m, "downvote"))
      BY <2>1, <3>1, CounterColumn
    <3> QED BY <3>2, <3>3, <3>4 DEF SumFunction, up, down
  <2>3. \A m \in DOMAIN members : (members[m].timestamp <= ts /\ ts <= members[m].timestamp + FreezeAfter)
                                    = ~isFrozen(members[m].timestamp, ts)
    <3> TAKE m \in DOMAIN members
    <3>1. members[m].timestamp \in Int /\ clock \in Int /\ ts \in Int /\ members[m].timestamp <= clock
      BY <2>1, Typed, TimestampAssumption DEF Measured
    <3> QED BY <3>1, FreezeAssumption DEF isFrozen
  <2>4. \A m \in DOMAIN members : trollsRow(m, ts) = found(m, ts)
    BY <2>2, <2>3 DEF trollsRow
  <2>5. \A m : ActionsBy(m) = {} => ~against(m)
    <3> TAKE m
    <3> HAVE ActionsBy(m) = {}
    <3>1. CastOn(m, "upvote") = {} /\ CastOn(m, "downvote") = {}
      BY DEF CastOn
    <3> QED BY <3>1, FS_EmptySet
  <2>6. \A m : found(m, ts).upvotes < found(m, ts).downvotes <=> against(m)
    OBVIOUS
  <2> HIDE DEF found, against
  <2>7. trollsRows(ts) = {row \in {found(m, ts) : m \in {k \in DOMAIN members : ActionsBy(k) # {}}} :
                            row.upvotes < row.downvotes}
    BY <2>4 DEF trollsRows
  <2> QED BY <2>5, <2>6, <2>7
<1> QED BY <1>1, AlwaysMeasured, PTL

-----------------------------------------------------------------------------
(* The runs of the program *)

\* What the opens in progress and the server agree on.
SetUp ==
    /\ DOMAIN run = Process /\ DOMAIN step = Process
    /\ DOMAIN sql = Process /\ DOMAIN db_name = Process
    /\ \A p \in Process : step[p] # "idle" => run[p] = "init" /\ db_name[p] \in Database
    \* The user app belongs to one transaction at a time, or to the server.
    /\ \A p \in Process : HoldsUser(p) => ~app
    /\ \A p, q \in Process : HoldsUser(p) /\ HoldsUser(q) => p = q
    \* An open about to answer OK has been committed.
    /\ \A p \in Process : step[p] = "print" /\ sql[p] => db_name[p] \in schema
    /\ IF app THEN (schema = {} /\ blind) \/ \E d \in Database : schema = {d}
              ELSE schema = {}
    /\ confirmed \subseteq schema

LEMMA SetUpInitially == ProgramInit => SetUp
  BY DEF ProgramInit, SetUp, HoldsUser

\* A step that gives no process a statement to hold anything or to answer for
\* and leaves what is kept alone.
LEMMA SetUpUndisturbed ==
  ASSUME SetUp, UNCHANGED <<schema, app, blind, confirmed>>,
         DOMAIN run' = Process, DOMAIN step' = Process,
         DOMAIN sql' = Process, DOMAIN db_name' = Process,
         \A q \in Process : step'[q] # "idle" => run'[q] = "init" /\ db_name'[q] \in Database,
         \A q \in Process : step'[q] \in {"grants", "commit"} => HoldsUser(q),
         \A q \in Process : step'[q] = "print" =>
            step[q] = "print" /\ sql'[q] = sql[q] /\ db_name'[q] = db_name[q]
  PROVE  SetUp'
  BY DEF SetUp, HoldsUser

\* A process that ends holds nothing.
LEMMA SetUpEnds ==
  ASSUME SetUp, NEW p \in Process, End(p), UNCHANGED <<schema, app, blind, confirmed>>
  PROVE  SetUp'
<1>1. /\ DOMAIN run' = Process /\ DOMAIN step' = Process
      /\ DOMAIN sql' = Process /\ DOMAIN db_name' = Process
  BY DEF End, SetUp
<1>2. \A q \in Process \ {p} : /\ run'[q] = run[q] /\ step'[q] = step[q]
                              /\ sql'[q] = sql[q] /\ db_name'[q] = db_name[q]
  BY DEF End, SetUp
<1>3. step'[p] = "idle"
  BY DEF End, SetUp
<1> QED BY <1>1, <1>2, <1>3, SetUpUndisturbed DEF SetUp, HoldsUser

\* One step of a process.
LEMMA SetUpByProcess ==
  ASSUME SetUp, NEW p \in Process,
         \/ startInit(p) \/ startApp(p) \/ startWrong(p)
         \/ \E d \in Database, valid \in BOOLEAN : openInit(p, d, valid) \/ openApp(p, d, valid)
         \/ createTables(p) \/ createUser(p) \/ grant(p) \/ commit(p) \/ print(p) \/ fail(p)
         \/ apiCall(p)
         \/ stop(p)
  PROVE  SetUp'
<1>1. CASE Uncaught(p)
  BY <1>1, SetUpEnds DEF Uncaught, server, history
<1>2. CASE startInit(p) \/ startApp(p) \/ startWrong(p)
  <2>1. CASE startInit(p)
    BY <2>1, SetUpUndisturbed DEF startInit, SetUp, HoldsUser, server, history
  <2>2. CASE startApp(p)
    BY <1>1, <2>2, SetUpUndisturbed DEF startApp, SetUp, HoldsUser, server, history
  <2>3. CASE startWrong(p)
    BY <2>3, SetUpUndisturbed DEF startWrong, SetUp, HoldsUser, server, history
  <2> QED BY <1>2, <2>1, <2>2, <2>3
<1>3. ASSUME NEW d \in Database, NEW valid \in BOOLEAN, openInit(p, d, valid) \/ openApp(p, d, valid)
      PROVE  SetUp'
  <2>1. CASE openInit(p, d, valid)
    <3>1. CASE ~valid
      BY <2>1, <3>1, SetUpUndisturbed DEF openInit, SetUp, HoldsUser, server, history
    <3>2. CASE valid
      <4>1. /\ DOMAIN step' = Process /\ step[p] = "idle" /\ step'[p] = "tables"
            /\ \A q \in Process \ {p} : step'[q] = step[q]
        BY <2>1, <3>2 DEF openInit, Proceeds, SetUp
      <4>2. /\ DOMAIN sql' = Process /\ DOMAIN db_name' = Process /\ db_name'[p] = d
            /\ \A q \in Process \ {p} : sql'[q] = sql[q] /\ db_name'[q] = db_name[q]
        BY <2>1, <3>2 DEF openInit, SetUp
      <4>3. UNCHANGED <<schema, app, blind, confirmed, run>>
        BY <2>1, <3>2 DEF openInit, server, history
      <4>4. /\ DOMAIN run' = Process
            /\ \A q \in Process : step'[q] # "idle" => run'[q] = "init" /\ db_name'[q] \in Database
        BY <2>1, <4>1, <4>2, <4>3 DEF openInit, SetUp
      <4>5. \A q \in Process : step'[q] \in {"grants", "commit"} => HoldsUser(q)
        BY <4>1 DEF HoldsUser
      <4>6. \A q \in Process : step'[q] = "print" =>
               step[q] = "print" /\ sql'[q] = sql[q] /\ db_name'[q] = db_name[q]
        BY <4>1, <4>2
      <4> QED BY <4>1, <4>2, <4>3, <4>4, <4>5, <4>6, SetUpUndisturbed
    <3> QED BY <3>1, <3>2
  <2>2. CASE openApp(p, d, valid)
    BY <2>2, SetUpUndisturbed DEF openApp, SetUp, HoldsUser, server, history
  <2> QED BY <1>3, <2>1, <2>2
<1>4. CASE createTables(p)
  BY <1>1, <1>4, SetUpUndisturbed DEF createTables, Proceeds, SetUp, HoldsUser, server, history
<1>5. CASE createUser(p) \* nobody else holds the user, nor does the server
  <2>1. CASE ~app /\ (\A q \in Others(p) : ~HoldsUser(q)) /\ Proceeds(p, "user", "grants")
             /\ UNCHANGED <<server, run, sql, db_name, history>>
    <3>1. DOMAIN step' = Process /\ \A q \in Others(p) : step'[q] = step[q]
      BY <2>1 DEF Proceeds, SetUp, Others
    <3>2. step[p] = "user" /\ step'[p] = "grants"
      BY <2>1 DEF Proceeds, SetUp
    <3>3. \A q \in Process : HoldsUser(q)' => q = p
      BY <2>1, <3>1, <3>2 DEF HoldsUser, Others
    <3>4. \A q \in Process : step'[q] # "idle" => run'[q] = "init" /\ db_name'[q] \in Database
      BY <2>1, <3>1, <3>2 DEF SetUp, Others
    <3>5. \A q \in Process : step'[q] = "print" => step[q] = "print"
      BY <3>1, <3>2 DEF Others
    <3> QED BY <2>1, <3>1, <3>3, <3>4, <3>5 DEF SetUp, server, history
  <2> QED BY <1>1, <1>5, <2>1 DEF createUser
<1>6. CASE grant(p)
  BY <1>6, SetUpUndisturbed DEF grant, Proceeds, SetUp, HoldsUser, server, history
<1>7. CASE commit(p) \* the one holder of the user: there are no tables yet
  <2>1. ~app /\ schema = {} /\ confirmed = {}
    BY <1>7 DEF commit, Proceeds, SetUp, HoldsUser
  <2>2. DOMAIN step' = Process /\ \A q \in Process \ {p} : step'[q] = step[q]
    BY <1>7 DEF commit, Proceeds, SetUp
  <2>3. step'[p] = "print" /\ db_name[p] \in Database /\ HoldsUser(p)
    BY <1>7 DEF commit, Proceeds, SetUp, HoldsUser
  <2>4. \A q \in Process : ~HoldsUser(q)'
    BY <2>2, <2>3 DEF SetUp, HoldsUser
  <2>5. app' /\ ((schema' = {} /\ blind') \/ \E d \in Database : schema' = {d})
    BY <1>7, <2>1, <2>3 DEF commit
  <2>6. \A q \in Process : step'[q] = "print" /\ sql'[q] => db_name'[q] \in schema'
    BY <1>7, <2>1, <2>2, <2>3 DEF commit, SetUp
  <2>7. \A q \in Process : step'[q] # "idle" => run'[q] = "init" /\ db_name'[q] \in Database
    BY <1>7, <2>2, <2>3 DEF commit, SetUp, HoldsUser
  <2> QED BY <1>7, <2>1, <2>2, <2>4, <2>5, <2>6, <2>7 DEF commit, SetUp
<1>8. CASE print(p)
  <2>1. DOMAIN step' = Process /\ step'[p] = "idle" /\ \A q \in Process \ {p} : step'[q] = step[q]
    BY <1>8 DEF print, Proceeds, SetUp
  <2>2. confirmed' \subseteq schema
    BY <1>8 DEF print, Proceeds, SetUp
  <2> QED BY <1>8, <2>1, <2>2 DEF print, SetUp, HoldsUser, server
<1>9. CASE fail(p) \/ stop(p)
  BY <1>1, <1>9, SetUpEnds DEF fail, stop, server, history
<1>10. CASE apiCall(p)
  BY <1>1, <1>10, SetUpUndisturbed DEF apiCall, SetUp, HoldsUser, history
<1> QED BY <1>2, <1>3, <1>4, <1>5, <1>6, <1>7, <1>8, <1>9, <1>10

LEMMA SetUpStep == SetUp /\ [ProgramNext]_programVars => SetUp'
<1>1. ASSUME SetUp, UNCHANGED programVars
      PROVE  SetUp'
  BY <1>1 DEF SetUp, HoldsUser, programVars, server, history
<1> QED BY <1>1, SetUpByProcess DEF ProgramNext

LEMMA SetUpIsOne == SetUp => OneRegistry
<1>1. Cardinality({}) = 0
  BY FS_EmptySet
<1>2. \A d \in Database : Cardinality({d}) = 1
  BY FS_Singleton
<1> QED BY <1>1, <1>2 DEF SetUp, OneRegistry

\* However many processes open however many databases at once, wherever they are
\* stopped: the server holds one registry, complete with its user, or none, and
\* what was answered OK for is there (except by an open without dbinit.sql).
THEOREM OneRegistryForAll == ProgramSpec => []OneRegistry
<1>1. ProgramInit => SetUp
  BY SetUpInitially
<1>2. SetUp /\ [ProgramNext]_programVars => SetUp'
  BY SetUpStep
<1>3. SetUp => OneRegistry
  BY SetUpIsOne
<1> QED BY <1>1, <1>2, <1>3, PTL DEF ProgramSpec
=============================================================================
