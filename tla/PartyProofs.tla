---------------------------- MODULE PartyProofs ----------------------------
(***************************************************************************)
(* Proofs about Party, for every value of its constants: IInv is an        *)
(* inductive invariant.  Its conjuncts lean on one another.  The clash     *)
(* tests of createAction consult takenid only, so GlobalUniqueness needs   *)
(* TakenIsExact; a new action starts without votes only because votes      *)
(* refer to known actions (References); the counters are numbers of rows   *)
(* only while vote appends one row at a time.                              *)
(***************************************************************************)
EXTENDS Party, FiniteSetTheorems, TLAPS

IInv ==
    /\ TypeOK
    /\ TakenIsExact
    /\ GlobalUniqueness
    /\ References
    /\ CountersMatchVotes
    /\ OneVotePerMember

-----------------------------------------------------------------------------
(* What the helpers return *)

LEMMA InsertedAuthorities ==
    ASSUME NEW p, NEW auth, p \notin DOMAIN projects, projects' = Insert(projects, p, auth)
    PROVE  Authorities' = Authorities \cup {auth}
  BY DEF Insert, Authorities

LEMMA MembersAfterIsTyped ==
    ASSUME TypeOK, NEW m \in Id, NEW ts \in Int, NEW pw \in Password
    PROVE  /\ MembersAfter(m, ts, pw) \in [DOMAIN members \cup {m} -> MemberRow]
           /\ DOMAIN MembersAfter(m, ts, pw) = DOMAIN members \cup {m}
<1>1. CASE m \in DOMAIN members
  BY <1>1 DEF MembersAfter, TypeOK, MemberRow
<1>2. CASE m \notin DOMAIN members
  <2> DEFINE row == [password |-> crypt(pw), timestamp |-> ts, isleader |-> FALSE]
  <2>1. row \in MemberRow
    BY DEF MemberRow
  <2>2. members \in [DOMAIN members -> MemberRow]
    BY DEF TypeOK
  <2>3. MembersAfter(m, ts, pw) = Insert(members, m, row)
    BY <1>2 DEF MembersAfter
  <2> HIDE DEF row
  <2>4. /\ Insert(members, m, row) \in [DOMAIN members \cup {m} -> MemberRow]
        /\ DOMAIN Insert(members, m, row) = DOMAIN members \cup {m}
    BY <2>1, <2>2 DEF Insert
  <2> QED BY <2>3, <2>4
<1> QED BY <1>1, <1>2

\* Whose call can be stored: a member, or somebody new.
Enters(m) == m \in DOMAIN members \/ Joins(m)

LEMMA AdmittedEnters ==
    ASSUME NEW m, NEW ts, NEW pw, Admitted(m, ts, pw)
    PROVE  Enters(m)
  BY DEF Admitted, Authenticated, Enters

\* A member that enters is not in use as anything else.
LEMMA EnteringIsMemberOnly ==
    ASSUME TakenIsExact, GlobalUniqueness, NEW m, Enters(m)
    PROVE  /\ m \notin DOMAIN projects \cup DOMAIN actions \cup Authorities
           /\ TakenAfter(m) = takenid \cup {m}
  BY DEF Enters, Joins, TakenAfter, TakenIsExact, GlobalUniqueness

LEMMA AdmittedIsMemberOnly ==
    ASSUME TakenIsExact, GlobalUniqueness,
           NEW m, NEW ts, NEW pw, Admitted(m, ts, pw)
    PROVE  /\ m \notin DOMAIN projects \cup DOMAIN actions \cup Authorities
           /\ TakenAfter(m) = takenid \cup {m}
  BY AdmittedEnters, EnteringIsMemberOnly

\* The votes on an action that is not there.
LEMMA NoVotesOnUnknown ==
    ASSUME References, NEW a, a \notin DOMAIN actions, NEW type
    PROVE  VotesOn(a, type) = {}
  BY DEF References, VotesOn

-----------------------------------------------------------------------------
(* A handler that rolls back, reports or prints nothing *)

LEMMA UnchangedTables ==
    ASSUME IInv, UNCHANGED tables, clock' \in Int, reply' \in Reply
    PROVE  IInv'
<1>1. /\ members' = members /\ projects' = projects /\ actions' = actions
      /\ votes' = votes /\ takenid' = takenid
  BY DEF tables
<1>2. TypeOK'
  BY <1>1 DEF IInv, TypeOK
<1>3. Authorities' = Authorities
  BY <1>1 DEF Authorities
<1>4. TakenIsExact' /\ GlobalUniqueness'
  BY <1>1, <1>3 DEF IInv, TakenIsExact, GlobalUniqueness
<1>5. References' /\ OneVotePerMember'
  BY <1>1 DEF IInv, References, OneVotePerMember
<1>6. CountersMatchVotes'
  BY <1>1 DEF IInv, CountersMatchVotes, VotesOn
<1> QED BY <1>2, <1>4, <1>5, <1>6 DEF IInv

LEMMA CallIsTyped ==
    ASSUME NEW ts \in Timestamp, Call(ts)
    PROVE  ts \in Int /\ clock' \in Int
  BY TimestampAssumption DEF Call

-----------------------------------------------------------------------------
(* leader *)

LEMMA NewLeaderKeeps ==
    ASSUME IInv, clock' \in Int, NEW ts \in Int, NEW m \in MemberArg, NEW pw \in Password,
           m \notin takenid, takenid' = takenid \cup {m},
           members' = Insert(members, m,
               [password |-> crypt(pw), timestamp |-> ts, isleader |-> TRUE]),
           reply' = "OK", UNCHANGED <<projects, actions, votes>>
    PROVE  IInv'
<1> DEFINE row == [password |-> crypt(pw), timestamp |-> ts, isleader |-> TRUE]
<1>1. /\ members' = Insert(members, m, row)
      /\ projects' = projects /\ actions' = actions /\ votes' = votes
  OBVIOUS
<1>2. row \in MemberRow
  BY DEF MemberRow
<1> HIDE DEF row
<1>3. DOMAIN members' = DOMAIN members \cup {m}
  BY <1>1 DEF Insert
<1>4. Authorities' = Authorities
  BY <1>1 DEF Authorities
<1>5. TypeOK'
  <2>1. members' \in [DOMAIN members' -> MemberRow]
    BY <1>1, <1>2, <1>3 DEF IInv, TypeOK, Insert
  <2> QED BY <1>1, <1>3, <2>1 DEF IInv, TypeOK, Reply, Id
<1>6. TakenIsExact' /\ GlobalUniqueness'
  BY <1>1, <1>3, <1>4 DEF IInv, TakenIsExact, GlobalUniqueness
<1>7. References' /\ OneVotePerMember'
  BY <1>1, <1>3 DEF IInv, References, OneVotePerMember
<1>8. CountersMatchVotes'
  BY <1>1 DEF IInv, CountersMatchVotes, VotesOn
<1> QED BY <1>5, <1>6, <1>7, <1>8 DEF IInv

LEMMA leaderKeeps ==
    ASSUME IInv, NEW ts \in Timestamp, NEW m \in MemberArg, NEW pw \in Password,
           leader(m, ts, pw)
    PROVE  IInv'
<1>1. ts \in Int /\ clock' \in Int
  BY CallIsTyped DEF leader
<1>2. CASE m \in takenid /\ Reject
  BY <1>1, <1>2, UnchangedTables DEF Reject, Reply
<1>3. CASE ~(m \in takenid /\ Reject)
  BY <1>1, <1>3, NewLeaderKeeps DEF leader
<1> QED BY <1>2, <1>3

-----------------------------------------------------------------------------
(* actions, projects and votes *)

LEMMA ActivityKeeps ==
    ASSUME IInv, clock' \in Int, NEW ts \in Int, NEW m \in DOMAIN members,
           members' = [members EXCEPT ![m].timestamp = ts], reply' = "OK",
           UNCHANGED <<projects, actions, votes, takenid>>
    PROVE  IInv'
<1>1. /\ DOMAIN members' = DOMAIN members
      /\ projects' = projects /\ actions' = actions /\ votes' = votes /\ takenid' = takenid
  OBVIOUS
<1>2. Authorities' = Authorities
  BY <1>1 DEF Authorities
<1>3. TypeOK'
  <2>1. members' \in [DOMAIN members' -> MemberRow]
    BY <1>1 DEF IInv, TypeOK, MemberRow
  <2> QED BY <1>1, <2>1 DEF IInv, TypeOK, Reply
<1>4. TakenIsExact' /\ GlobalUniqueness'
  BY <1>1, <1>2 DEF IInv, TakenIsExact, GlobalUniqueness
<1>5. References' /\ OneVotePerMember'
  BY <1>1 DEF IInv, References, OneVotePerMember
<1>6. CountersMatchVotes'
  BY <1>1 DEF IInv, CountersMatchVotes, VotesOn
<1> QED BY <1>3, <1>4, <1>5, <1>6 DEF IInv

LEMMA leaderReportKeeps ==
    ASSUME IInv, NEW ts \in Timestamp, NEW m \in MemberArg, NEW pw \in Password,
           leaderReport(m, ts, pw)
    PROVE  IInv'
<1>1. ts \in Int /\ clock' \in Int
  BY CallIsTyped DEF leaderReport
<1>2. CASE Reject
  BY <1>1, <1>2, UnchangedTables DEF Reject, Reply
<1>3. CASE ~Reject
  BY <1>1, <1>3, ActivityKeeps DEF leaderReport, Authenticated
<1> QED BY <1>2, <1>3

-----------------------------------------------------------------------------
(* createAction *)

\* A new action starts without votes, and so do its counters.
LEMMA NewActionHasNoVotes ==
    ASSUME IInv, NEW a, a \notin DOMAIN actions, NEW m, NEW type, NEW p, NEW auth,
           actions' = Insert(actions, a, NewAction(m, type, p, auth)), votes' = votes
    PROVE  CountersMatchVotes' /\ OneVotePerMember'
<1>1. VotesOn(a, "upvote") = {} /\ VotesOn(a, "downvote") = {}
  BY NoVotesOnUnknown DEF IInv
<1>2. Cardinality({}) = 0
  BY FS_EmptySet
<1>3. actions'[a].upvotes = 0 /\ actions'[a].downvotes = 0
  <2>1. actions'[a] = NewAction(m, type, p, auth)
    BY DEF Insert
  <2> QED BY <2>1 DEF NewAction
<1>4. /\ DOMAIN actions' = DOMAIN actions \cup {a}
      /\ \A b \in DOMAIN actions : actions'[b] = actions[b]
  BY DEF Insert
<1>5. CountersMatchVotes'
  <2>1. SUFFICES ASSUME NEW b \in DOMAIN actions'
                 PROVE  /\ actions'[b].upvotes = Cardinality(VotesOn(b, "upvote"))
                        /\ actions'[b].downvotes = Cardinality(VotesOn(b, "downvote"))
    BY DEF CountersMatchVotes, VotesOn
  <2>2. CASE b = a
    BY <1>1, <1>2, <1>3, <2>2
  <2>3. CASE b # a
    BY <1>4, <2>1, <2>3 DEF IInv, CountersMatchVotes
  <2> QED BY <2>2, <2>3
<1>6. OneVotePerMember'
  BY DEF IInv, OneVotePerMember
<1> QED BY <1>5, <1>6

LEMMA ActionOnProjectKeeps ==
    ASSUME IInv, clock' \in Int, NEW ts \in Int, NEW m \in MemberArg, NEW pw \in Password,
           NEW type \in ActionType, NEW a \in ActionArg, NEW p \in DOMAIN projects,
           Enters(m), ActionOnProject(m, ts, pw, type, a, p)
    PROVE  IInv'
<1>1. CASE Reject
  BY <1>1, UnchangedTables DEF Reject, Reply
<1>2. CASE ~Reject
  <2> DEFINE row == NewAction(m, type, p, projects[p])
  <2>1. /\ m \notin DOMAIN projects \cup DOMAIN actions \cup Authorities
        /\ TakenAfter(m) = takenid \cup {m}
    BY EnteringIsMemberOnly DEF IInv
  <2>2. /\ a \notin takenid \cup {m}
        /\ members' = MembersAfter(m, ts, pw)
        /\ actions' = Insert(actions, a, row)
        /\ takenid' = takenid \cup {m, a}
        /\ reply' = "OK"
        /\ projects' = projects /\ votes' = votes
    BY <1>2, <2>1 DEF ActionOnProject
  <2>3. /\ members' \in [DOMAIN members' -> MemberRow]
        /\ DOMAIN members' = DOMAIN members \cup {m}
    BY <2>2, MembersAfterIsTyped DEF IInv, Id
  <2>4. /\ DOMAIN actions' = DOMAIN actions \cup {a}
        /\ actions'[a] = row
        /\ \A b \in DOMAIN actions : b # a => actions'[b] = actions[b]
    BY <2>2 DEF Insert
  <2>5. Authorities' = Authorities /\ projects[p] \in Authorities
    BY <2>2 DEF Authorities
  <2>6. a \notin DOMAIN actions
    BY <2>2 DEF IInv, TakenIsExact
  <2>7. TypeOK'
    <3>1. row \in ActionRow
      <4>1. projects[p] \in Id /\ p \in Id /\ m \in Id
        BY DEF Id, IInv, TypeOK
      <4> QED BY <4>1 DEF NewAction, ActionRow
    <3>2. actions' \in [DOMAIN actions' -> ActionRow]
      BY <2>2, <2>4, <3>1 DEF IInv, TypeOK, Insert
    <3> HIDE DEF row
    <3> QED BY <2>2, <2>3, <2>4, <3>2 DEF IInv, TypeOK, Reply, Id
  <2>8. TakenIsExact' /\ GlobalUniqueness'
    BY <2>1, <2>2, <2>3, <2>4, <2>5 DEF IInv, TakenIsExact, GlobalUniqueness
  <2>9. References'
    BY <2>2, <2>3, <2>4, <2>6 DEF IInv, References, NewAction
  <2>10. CountersMatchVotes' /\ OneVotePerMember'
    BY <2>2, <2>6, NewActionHasNoVotes
  <2> QED BY <2>7, <2>8, <2>9, <2>10 DEF IInv
<1> QED BY <1>1, <1>2

LEMMA ActionOnNewProjectKeeps ==
    ASSUME IInv, clock' \in Int, NEW ts \in Int, NEW m \in MemberArg, NEW pw \in Password,
           NEW type \in ActionType, NEW a \in ActionArg, NEW p \in ProjectArg,
           p \notin DOMAIN projects, NEW auth \in AuthorityArg \cup {Absent},
           Enters(m), ActionOnNewProject(m, ts, pw, type, a, p, auth)
    PROVE  IInv'
<1>1. CASE Reject \/ Terminate
  BY <1>1, UnchangedTables DEF Reject, Terminate, Reply
<1>2. CASE ~(Reject \/ Terminate)
  <2> DEFINE row == NewAction(m, type, p, auth)
  <2>1. /\ m \notin DOMAIN projects \cup DOMAIN actions \cup Authorities
        /\ TakenAfter(m) = takenid \cup {m}
    BY EnteringIsMemberOnly DEF IInv
  <2>2. /\ auth # Absent /\ ~IdsRejected(m, a, p, auth) /\ ~InsertedTwice(a, auth)
        /\ members' = MembersAfter(m, ts, pw)
        /\ projects' = Insert(projects, p, auth)
        /\ actions' = Insert(actions, a, row)
        /\ takenid' = TakenAfter(m) \cup {p, a} \cup Checked(a, p, auth)
        /\ reply' = "OK"
        /\ votes' = votes
    BY <1>2 DEF ActionOnNewProject
  <2>3. /\ members' \in [DOMAIN members' -> MemberRow]
        /\ DOMAIN members' = DOMAIN members \cup {m}
    BY <2>2, MembersAfterIsTyped DEF IInv, Id
  <2>4. /\ DOMAIN actions' = DOMAIN actions \cup {a}
        /\ actions'[a] = row
        /\ \A b \in DOMAIN actions : b # a => actions'[b] = actions[b]
    BY <2>2 DEF Insert
  <2>5. /\ DOMAIN projects' = DOMAIN projects \cup {p}
        /\ projects'[p] = auth
        /\ \A q \in DOMAIN projects : projects'[q] = projects[q]
    BY <2>2 DEF Insert
  <2>6. Authorities' = Authorities \cup {auth}
    BY <2>2, InsertedAuthorities
  \* Three different identifiers, new or (the authority) already an authority.
  <2>7. /\ a \notin takenid \cup {m} /\ p \notin takenid \cup {m}
        /\ a # p /\ p # auth /\ a # auth
        /\ auth \in Authorities \/ auth \notin takenid \cup {m}
    BY <2>1, <2>2 DEF IdsRejected, Checked, InsertedTwice, IInv, TakenIsExact
  <2>8. takenid' = takenid \cup {m, a, p, auth}
    BY <2>1, <2>2 DEF Checked, IInv, TakenIsExact
  <2>9. a \notin DOMAIN actions
    BY <2>7 DEF IInv, TakenIsExact
  <2>10. TypeOK'
    <3>1. auth \in Id /\ p \in Id /\ m \in Id /\ a \in Id
      BY <2>2 DEF Id
    <3>2. row \in ActionRow
      BY <3>1 DEF NewAction, ActionRow
    <3>3. actions' \in [DOMAIN actions' -> ActionRow]
      BY <2>2, <2>4, <3>2 DEF IInv, TypeOK, Insert
    <3>4. projects' \in [DOMAIN projects' -> Id]
      BY <2>2, <2>5, <3>1 DEF IInv, TypeOK, Insert
    <3> HIDE DEF row
    <3>5. /\ DOMAIN members' \subseteq Id /\ DOMAIN projects' \subseteq Id
          /\ DOMAIN actions' \subseteq Id /\ takenid' \subseteq Id
      BY <2>3, <2>4, <2>5, <2>8, <3>1 DEF IInv, TypeOK
    <3> QED BY <2>2, <2>3, <3>3, <3>4, <3>5 DEF IInv, TypeOK, Reply
  <2> HIDE DEF row
  <2>11. TakenIsExact'
    BY <2>3, <2>4, <2>5, <2>6, <2>8 DEF IInv, TakenIsExact
  <2>12. GlobalUniqueness'
    BY <2>1, <2>3, <2>4, <2>5, <2>6, <2>7 DEF IInv, TakenIsExact, GlobalUniqueness
  <2>13. References'
    <3>1. row.memberid = m /\ row.projectid = p /\ row.authorityid = auth
      BY DEF row, NewAction
    <3> QED BY <2>2, <2>3, <2>4, <2>5, <2>9, <3>1 DEF IInv, References
  <2>14. CountersMatchVotes' /\ OneVotePerMember'
    BY <2>2, <2>9, NewActionHasNoVotes DEF row
  <2> QED BY <2>10, <2>11, <2>12, <2>13, <2>14 DEF IInv
<1> QED BY <1>1, <1>2

LEMMA createActionKeeps ==
    ASSUME IInv, NEW ts \in Timestamp, NEW m \in MemberArg, NEW pw \in Password,
           NEW type \in ActionType, NEW a \in ActionArg, NEW p \in ProjectArg,
           NEW auth \in AuthorityArg \cup {Absent},
           createAction(m, ts, pw, type, a, p, auth)
    PROVE  IInv'
<1>1. ts \in Int /\ clock' \in Int
  BY CallIsTyped DEF createAction
<1>2. CASE ~Admitted(m, ts, pw) /\ Reject
  BY <1>1, <1>2, UnchangedTables DEF Reject, Reply
<1>3. CASE Admitted(m, ts, pw) /\ p \in DOMAIN projects /\ ActionOnProject(m, ts, pw, type, a, p)
  BY <1>1, <1>3, AdmittedEnters, ActionOnProjectKeeps
<1>4. CASE /\ Admitted(m, ts, pw) /\ p \notin DOMAIN projects
           /\ ActionOnNewProject(m, ts, pw, type, a, p, auth)
  BY <1>1, <1>4, AdmittedEnters, ActionOnNewProjectKeeps
<1> QED BY <1>2, <1>3, <1>4 DEF createAction

-----------------------------------------------------------------------------
(* vote *)

LEMMA VotesOnIsFinite ==
    ASSUME TypeOK, NEW a, NEW type
    PROVE  IsFiniteSet(VotesOn(a, type)) /\ Cardinality(VotesOn(a, type)) \in Nat
<1>1. Len(votes) \in Nat /\ VotesOn(a, type) \subseteq 1 .. Len(votes)
  BY DEF TypeOK, VotesOn
<1>2. IsFiniteSet(1 .. Len(votes))
  BY <1>1, FS_Interval
<1>3. IsFiniteSet(VotesOn(a, type))
  BY <1>1, <1>2, FS_Subset
<1> QED BY <1>3, FS_CardinalityType

\* What appending a row does to the votes on an action.
LEMMA AppendedVote ==
    ASSUME TypeOK, NEW row \in VoteRow, votes' = Append(votes, row)
    PROVE  /\ votes' \in Seq(VoteRow)
           /\ DOMAIN votes' = DOMAIN votes \cup {Len(votes) + 1}
           /\ Len(votes) + 1 \notin DOMAIN votes
           /\ votes'[Len(votes) + 1] = row
           /\ \A i \in DOMAIN votes : votes'[i] = votes[i]
  BY DEF TypeOK

LEMMA OneMoreVote ==
    ASSUME TypeOK, NEW row \in VoteRow, votes' = Append(votes, row), NEW a, NEW type
    PROVE  Cardinality(VotesOn(a, type))' =
               IF row.actionid = a /\ row.type = type
               THEN Cardinality(VotesOn(a, type)) + 1
               ELSE Cardinality(VotesOn(a, type))
<1>1. /\ DOMAIN votes' = DOMAIN votes \cup {Len(votes) + 1}
      /\ Len(votes) + 1 \notin DOMAIN votes
      /\ votes'[Len(votes) + 1] = row
      /\ \A i \in DOMAIN votes : votes'[i] = votes[i]
  BY AppendedVote
<1>2. CASE row.actionid = a /\ row.type = type
  <2>1. VotesOn(a, type)' = VotesOn(a, type) \cup {Len(votes) + 1}
    BY <1>1, <1>2 DEF VotesOn
  <2>2. Len(votes) + 1 \notin VotesOn(a, type)
    BY <1>1 DEF VotesOn
  <2>3. IsFiniteSet(VotesOn(a, type))
    BY VotesOnIsFinite
  <2>4. Cardinality(VotesOn(a, type) \cup {Len(votes) + 1}) = Cardinality(VotesOn(a, type)) + 1
    <3> DEFINE S == VotesOn(a, type)
               n == Len(votes) + 1
    <3>1. IsFiniteSet(S) /\ n \notin S
      BY <2>2, <2>3
    <3> HIDE DEF S, n
    <3>2. Cardinality(S \cup {n}) = Cardinality(S) + 1
      BY <3>1, FS_AddElement
    <3> QED BY <3>2 DEF S, n
  <2>5. Cardinality(VotesOn(a, type))' = Cardinality(VotesOn(a, type)) + 1
    BY <2>1, <2>4
  <2> QED BY <1>2, <2>5
<1>3. CASE ~(row.actionid = a /\ row.type = type)
  <2>1. VotesOn(a, type)' = VotesOn(a, type)
    BY <1>1, <1>3 DEF VotesOn
  <2> QED BY <1>3, <2>1
<1> QED BY <1>2, <1>3

LEMMA CountingIsTyped ==
    ASSUME NEW r \in ActionRow
    PROVE  /\ [r EXCEPT !.upvotes = @ + 1] \in ActionRow
           /\ [r EXCEPT !.downvotes = @ + 1] \in ActionRow
  BY DEF ActionRow

LEMMA CountedVoteKeeps ==
    ASSUME IInv, clock' \in Int, NEW ts \in Int, NEW m \in MemberArg, NEW pw \in Password,
           NEW type \in VoteType, NEW a \in DOMAIN actions, Enters(m), ~HasVoted(a, m),
           members' = MembersAfter(m, ts, pw), takenid' = TakenAfter(m),
           votes' = Append(votes, [actionid |-> a, memberid |-> m, type |-> type]),
           actions' = Tallied(type, a), reply' = "OK", UNCHANGED projects
    PROVE  IInv'
<1> DEFINE row == [actionid |-> a, memberid |-> m, type |-> type]
<1>1. /\ Enters(m) /\ a \in DOMAIN actions /\ ~HasVoted(a, m)
      /\ members' = MembersAfter(m, ts, pw)
      /\ takenid' = TakenAfter(m)
      /\ votes' = Append(votes, row)
      /\ actions' = IF type = "upvote"
                    THEN [actions EXCEPT ![a].upvotes = @ + 1]
                    ELSE [actions EXCEPT ![a].downvotes = @ + 1]
      /\ reply' = "OK"
      /\ projects' = projects
  BY DEF Tallied
<1>2. /\ m \notin DOMAIN projects \cup DOMAIN actions \cup Authorities
      /\ takenid' = takenid \cup {m}
  BY <1>1, EnteringIsMemberOnly DEF IInv
<1>3. /\ members' \in [DOMAIN members' -> MemberRow]
      /\ DOMAIN members' = DOMAIN members \cup {m}
  <2>1. TypeOK /\ m \in Id /\ members' = MembersAfter(m, ts, pw)
    BY DEF IInv, Id
  <2>2. /\ MembersAfter(m, ts, pw) \in [DOMAIN members \cup {m} -> MemberRow]
        /\ DOMAIN MembersAfter(m, ts, pw) = DOMAIN members \cup {m}
    BY <2>1, MembersAfterIsTyped
  <2> QED BY <2>1, <2>2
<1>4. row \in VoteRow
  <2>1. a \in Id /\ m \in Id
    BY DEF Id, IInv, TypeOK
  <2> QED BY <2>1 DEF VoteRow
<1>5. /\ votes' \in Seq(VoteRow)
      /\ DOMAIN votes' = DOMAIN votes \cup {Len(votes) + 1}
      /\ votes'[Len(votes) + 1] = row
      /\ \A i \in DOMAIN votes : votes'[i] = votes[i]
  BY <1>1, <1>4, AppendedVote DEF IInv
<1>6. actions \in [DOMAIN actions -> ActionRow]
  BY DEF IInv, TypeOK
<1>7. /\ actions' \in [DOMAIN actions -> ActionRow]
      /\ \A b \in DOMAIN actions :
           /\ actions'[b].memberid = actions[b].memberid
           /\ actions'[b].projectid = actions[b].projectid
           /\ actions'[b].authorityid = actions[b].authorityid
           /\ actions'[b].upvotes =
                IF b = a /\ type = "upvote" THEN actions[b].upvotes + 1 ELSE actions[b].upvotes
           /\ actions'[b].downvotes =
                IF b = a /\ type = "downvote" THEN actions[b].downvotes + 1 ELSE actions[b].downvotes
  <2>1. CASE type = "upvote"
    <3> DEFINE counted == [actions[a] EXCEPT !.upvotes = @ + 1]
    <3>1. actions' = [b \in DOMAIN actions |-> IF b = a THEN counted ELSE actions[b]]
      BY <1>1, <1>6, <2>1
    <3>2. actions[a] \in ActionRow
      BY <1>1, <1>6
    <3>3. counted \in ActionRow
      BY <3>2, CountingIsTyped
    <3>4. /\ counted.upvotes = actions[a].upvotes + 1
          /\ counted.downvotes = actions[a].downvotes
          /\ counted.memberid = actions[a].memberid
          /\ counted.projectid = actions[a].projectid
          /\ counted.authorityid = actions[a].authorityid
      BY <3>2 DEF ActionRow
    <3> HIDE DEF counted
    <3> QED BY <1>1, <1>6, <2>1, <3>1, <3>3, <3>4
  <2>2. CASE type = "downvote"
    <3> DEFINE counted == [actions[a] EXCEPT !.downvotes = @ + 1]
    <3>1. actions' = [b \in DOMAIN actions |-> IF b = a THEN counted ELSE actions[b]]
      BY <1>1, <1>6, <2>2
    <3>2. actions[a] \in ActionRow
      BY <1>1, <1>6
    <3>3. counted \in ActionRow
      BY <3>2, CountingIsTyped
    <3>4. /\ counted.downvotes = actions[a].downvotes + 1
          /\ counted.upvotes = actions[a].upvotes
          /\ counted.memberid = actions[a].memberid
          /\ counted.projectid = actions[a].projectid
          /\ counted.authorityid = actions[a].authorityid
      BY <3>2 DEF ActionRow
    <3> HIDE DEF counted
    <3> QED BY <1>1, <1>6, <2>2, <3>1, <3>3, <3>4
  <2> QED BY <2>1, <2>2 DEF VoteType
<1>8. Authorities' = Authorities
  BY <1>1 DEF Authorities
<1>9. TypeOK'
  <2>1. DOMAIN members' \subseteq Id /\ takenid' \subseteq Id /\ DOMAIN actions' \subseteq Id
    BY <1>2, <1>3, <1>7 DEF IInv, TypeOK, Id
  <2> QED BY <1>1, <1>3, <1>5, <1>7, <2>1 DEF IInv, TypeOK, Reply
<1>10. TakenIsExact' /\ GlobalUniqueness'
  BY <1>1, <1>2, <1>3, <1>7, <1>8 DEF IInv, TakenIsExact, GlobalUniqueness
<1>11. References'
  BY <1>1, <1>3, <1>5, <1>7 DEF IInv, References
<1>12. CountersMatchVotes'
  <2>1. SUFFICES ASSUME NEW b \in DOMAIN actions
                 PROVE  /\ actions'[b].upvotes = Cardinality(VotesOn(b, "upvote"))'
                        /\ actions'[b].downvotes = Cardinality(VotesOn(b, "downvote"))'
    BY <1>7 DEF CountersMatchVotes
  <2>2. /\ actions[b].upvotes = Cardinality(VotesOn(b, "upvote"))
        /\ actions[b].downvotes = Cardinality(VotesOn(b, "downvote"))
    BY DEF IInv, CountersMatchVotes
  <2>3. row.actionid = a /\ row.type = type
    OBVIOUS
  <2> HIDE DEF row
  <2>4. Cardinality(VotesOn(b, "upvote"))' =
           IF row.actionid = b /\ row.type = "upvote"
           THEN Cardinality(VotesOn(b, "upvote")) + 1 ELSE Cardinality(VotesOn(b, "upvote"))
    BY <1>1, <1>4, OneMoreVote DEF IInv
  <2>5. Cardinality(VotesOn(b, "downvote"))' =
           IF row.actionid = b /\ row.type = "downvote"
           THEN Cardinality(VotesOn(b, "downvote")) + 1 ELSE Cardinality(VotesOn(b, "downvote"))
    BY <1>1, <1>4, OneMoreVote DEF IInv
  <2> QED BY <1>7, <2>2, <2>3, <2>4, <2>5
<1>13. OneVotePerMember'
  BY <1>1, <1>5 DEF IInv, OneVotePerMember, HasVoted
<1> QED BY <1>9, <1>10, <1>11, <1>12, <1>13 DEF IInv

LEMMA voteKeeps ==
    ASSUME IInv, NEW ts \in Timestamp, NEW m \in MemberArg, NEW pw \in Password,
           NEW type \in VoteType, NEW a \in ActionArg, vote(m, ts, pw, type, a)
    PROVE  IInv'
<1>1. ts \in Int /\ clock' \in Int
  BY CallIsTyped DEF vote
<1>2. CASE Reject
  BY <1>1, <1>2, UnchangedTables DEF Reject, Reply
<1>3. CASE ~Reject
  BY <1>1, <1>3, AdmittedEnters, CountedVoteKeeps DEF vote
<1> QED BY <1>2, <1>3

-----------------------------------------------------------------------------
(* The specification *)

LEMMA InitEstablishes == Init => IInv
<1> SUFFICES ASSUME Init PROVE IInv
  OBVIOUS
<1>1. Authorities = {}
  BY DEF Init, EmptyTable, Authorities
<1>2. TypeOK
  BY TimestampAssumption DEF Init, EmptyTable, TypeOK, Reply
<1>3. TakenIsExact /\ GlobalUniqueness
  BY <1>1 DEF Init, EmptyTable, TakenIsExact, GlobalUniqueness
<1>4. References /\ CountersMatchVotes /\ OneVotePerMember
  BY DEF Init, EmptyTable, References, CountersMatchVotes, OneVotePerMember
<1> QED BY <1>2, <1>3, <1>4 DEF IInv

LEMMA NextKeeps == IInv /\ [Next]_vars => IInv'
<1> SUFFICES ASSUME IInv, [Next]_vars PROVE IInv'
  OBVIOUS
<1>1. CASE UNCHANGED vars
  <2>1. UNCHANGED tables /\ clock' \in Int /\ reply' \in Reply
    BY <1>1 DEF vars, tables, IInv, TypeOK
  <2> QED BY <2>1, UnchangedTables
<1>2. CASE Next
  <2>1. PICK ts \in Timestamp :
          \/ trolls(ts)
          \/ \E m \in MemberArg, pw \in Password :
              \/ leader(m, ts, pw)
              \/ leaderReport(m, ts, pw)
              \/ \E type \in VoteType, a \in ActionArg : vote(m, ts, pw, type, a)
              \/ \E type \in ActionType, a \in ActionArg, p \in ProjectArg,
                    auth \in AuthorityArg \cup {Absent} :
                     createAction(m, ts, pw, type, a, p, auth)
    BY <1>2 DEF Next
  <2>2. CASE trolls(ts)
    <3>1. UNCHANGED tables /\ clock' \in Int /\ reply' \in Reply
      BY <2>2, CallIsTyped DEF trolls, Reply
    <3> QED BY <3>1, UnchangedTables
  <2>3. ASSUME NEW m \in MemberArg, NEW pw \in Password, leader(m, ts, pw) PROVE IInv'
    BY <2>3, leaderKeeps
  <2>4. ASSUME NEW m \in MemberArg, NEW pw \in Password, leaderReport(m, ts, pw) PROVE IInv'
    BY <2>4, leaderReportKeeps
  <2>5. ASSUME NEW m \in MemberArg, NEW pw \in Password,
               NEW type \in VoteType, NEW a \in ActionArg, vote(m, ts, pw, type, a)
        PROVE  IInv'
    BY <2>5, voteKeeps
  <2>6. ASSUME NEW m \in MemberArg, NEW pw \in Password,
               NEW type \in ActionType, NEW a \in ActionArg, NEW p \in ProjectArg,
               NEW auth \in AuthorityArg \cup {Absent},
               createAction(m, ts, pw, type, a, p, auth)
        PROVE  IInv'
    BY <2>6, createActionKeeps
  <2> QED BY <2>1, <2>2, <2>3, <2>4, <2>5, <2>6
<1> QED BY <1>1, <1>2

\* The handlers of DatabaseFunctions keep IInv, whatever calls are made.
THEOREM Inductive == Spec => []IInv
<1> QED BY InitEstablishes, NextKeeps, PTL DEF Spec

\* The tables hold rows of the types dbinit.sql gives them.
THEOREM TypeCorrect == Spec => []TypeOK
<1>1. IInv => TypeOK
  BY DEF IInv
<1> QED BY <1>1, Inductive, PTL

\* The identifiers in takenid, which the handlers fill by INSERTs of their own,
\* are those of the members, projects, actions and authorities.
THEOREM TakenStaysExact == Spec => []TakenIsExact
<1>1. IInv => TakenIsExact
  BY DEF IInv
<1> QED BY <1>1, Inductive, PTL

\* No identifier ever stands for two kinds of things.
THEOREM IdentifiersAreUnique == Spec => []GlobalUniqueness
<1>1. IInv => GlobalUniqueness
  BY DEF IInv
<1> QED BY <1>1, Inductive, PTL

\* Actions and votes refer to rows that exist, and an action carries the
\* authority of its project.
THEOREM ReferencesHold == Spec => []References
<1>1. IInv => References
  BY DEF IInv
<1> QED BY <1>1, Inductive, PTL

\* The counters of an action are the numbers of its votes.
THEOREM CountersAreRight == Spec => []CountersMatchVotes
<1>1. IInv => CountersMatchVotes
  BY DEF IInv
<1> QED BY <1>1, Inductive, PTL

\* No member has two votes on one action.
THEOREM VotesAreSingle == Spec => []OneVotePerMember
<1>1. IInv => OneVotePerMember
  BY DEF IInv
<1> QED BY <1>1, Inductive, PTL

-----------------------------------------------------------------------------
(* Freezing *)

\* What FrozenForever says of one member and one step.
LeftAlone(m) ==
    /\ m \in DOMAIN members' /\ members'[m] = members[m]
    /\ \A a \in DOMAIN actions' \ DOMAIN actions : actions'[a].memberid # m
    /\ \A i \in DOMAIN votes' \ DOMAIN votes : votes'[i].memberid # m

LEMMA UnchangedLeavesAlone ==
    ASSUME NEW m \in DOMAIN members, UNCHANGED tables
    PROVE  LeftAlone(m)
  BY DEF tables, LeftAlone

\* Time only adds to the distance.
LEMMA FrozenStaysFrozen ==
    ASSUME TypeOK, NEW m \in DOMAIN members, NEW ts \in Timestamp, Call(ts),
           isFrozen(members[m].timestamp, clock)
    PROVE  isFrozen(members[m].timestamp, ts)
<1>1. members[m].timestamp \in Int /\ clock \in Int /\ ts \in Int /\ ts >= clock
  BY TimestampAssumption DEF TypeOK, MemberRow, Call
<1> QED BY <1>1, FreezeAssumption DEF isFrozen

LEMMA FrozenIsNotAdmitted ==
    ASSUME NEW m \in DOMAIN members, NEW ts, isFrozen(members[m].timestamp, ts), NEW pw
    PROVE  ~Admitted(m, ts, pw)
  BY DEF Admitted, Joins

\* The row of one member is not touched on behalf of another.
LEMMA OthersKeepTheirRow ==
    ASSUME NEW m \in DOMAIN members, NEW n, n # m, NEW ts, NEW pw
    PROVE  /\ m \in DOMAIN MembersAfter(n, ts, pw)
           /\ MembersAfter(n, ts, pw)[m] = members[m]
  BY DEF MembersAfter, Insert

LEMMA EveryHandlerIsACall ==
    ASSUME NEW ts, NEW m, NEW pw
    PROVE  /\ trolls(ts) => Call(ts)
           /\ leader(m, ts, pw) => Call(ts)
           /\ leaderReport(m, ts, pw) => Call(ts)
           /\ \A type, a : vote(m, ts, pw, type, a) => Call(ts)
           /\ \A type, a, p, auth : createAction(m, ts, pw, type, a, p, auth) => Call(ts)
<1>1. trolls(ts) => Call(ts)
  BY DEF trolls
<1>2. leader(m, ts, pw) => Call(ts)
  BY DEF leader
<1>3. leaderReport(m, ts, pw) => Call(ts)
  BY DEF leaderReport
<1>4. \A type, a : vote(m, ts, pw, type, a) => Call(ts)
  BY DEF vote
<1>5. \A type, a, p, auth : createAction(m, ts, pw, type, a, p, auth) => Call(ts)
  BY DEF createAction
<1> QED BY <1>1, <1>2, <1>3, <1>4, <1>5

LEMMA FrozenIsLeftAlone ==
    ASSUME IInv, Next, NEW m \in DOMAIN members, isFrozen(members[m].timestamp, clock)
    PROVE  LeftAlone(m)
<1>1. PICK ts \in Timestamp :
        \/ trolls(ts)
        \/ \E n \in MemberArg, pw \in Password :
            \/ leader(n, ts, pw)
            \/ leaderReport(n, ts, pw)
            \/ \E type \in VoteType, a \in ActionArg : vote(n, ts, pw, type, a)
            \/ \E type \in ActionType, a \in ActionArg, p \in ProjectArg,
                  auth \in AuthorityArg \cup {Absent} :
                   createAction(n, ts, pw, type, a, p, auth)
  BY DEF Next
<1>2. Call(ts)
  BY <1>1, EveryHandlerIsACall
<1>3. isFrozen(members[m].timestamp, ts)
  BY <1>2, FrozenStaysFrozen DEF IInv
<1>4. \A pw : ~Admitted(m, ts, pw)
  BY <1>3, FrozenIsNotAdmitted
<1>5. CASE UNCHANGED tables
  BY <1>5, UnchangedLeavesAlone
<1>6. CASE ~UNCHANGED tables
  <2>1. ~trolls(ts) /\ ~Reject /\ ~Terminate
    BY <1>6 DEF trolls, Reject, Terminate
  <2>2. ASSUME NEW n \in MemberArg, NEW pw \in Password, leader(n, ts, pw) PROVE LeftAlone(m)
    <3>1. n \notin takenid /\ UNCHANGED <<actions, votes>>
          /\ members' = Insert(members, n,
                 [password |-> crypt(pw), timestamp |-> ts, isleader |-> TRUE])
      BY <2>1, <2>2 DEF leader
    <3>2. n # m
      BY <3>1 DEF IInv, TakenIsExact
    <3> QED BY <3>1, <3>2 DEF LeftAlone, Insert
  <2>3. ASSUME NEW n \in MemberArg, NEW pw \in Password, leaderReport(n, ts, pw)
        PROVE  LeftAlone(m)
    <3>1. /\ n # m /\ n \in DOMAIN members
          /\ members' = [members EXCEPT ![n].timestamp = ts]
          /\ UNCHANGED <<actions, votes>>
      BY <1>3, <2>1, <2>3 DEF leaderReport, Authenticated
    <3> QED BY <3>1 DEF LeftAlone
  <2>4. ASSUME NEW n \in MemberArg, NEW pw \in Password, NEW type \in VoteType,
               NEW a \in ActionArg, vote(n, ts, pw, type, a)
        PROVE  LeftAlone(m)
    <3>1. /\ Admitted(n, ts, pw) /\ members' = MembersAfter(n, ts, pw)
          /\ votes' = Append(votes, [actionid |-> a, memberid |-> n, type |-> type])
          /\ DOMAIN actions' = DOMAIN actions
      BY <2>1, <2>4 DEF vote, Tallied
    <3>2. n # m
      BY <1>4, <3>1
    <3>3. \A i \in DOMAIN votes' \ DOMAIN votes : votes'[i].memberid = n
      BY <3>1 DEF IInv, TypeOK
    <3> QED BY <3>1, <3>2, <3>3, OthersKeepTheirRow DEF LeftAlone
  <2>5. ASSUME NEW n \in MemberArg, NEW pw \in Password, NEW type \in ActionType,
               NEW a \in ActionArg, NEW p \in ProjectArg, NEW auth \in AuthorityArg \cup {Absent},
               createAction(n, ts, pw, type, a, p, auth)
        PROVE  LeftAlone(m)
    <3>1. /\ Admitted(n, ts, pw) /\ members' = MembersAfter(n, ts, pw) /\ votes' = votes
          /\ \E g : actions' = Insert(actions, a, NewAction(n, type, p, g))
      BY <2>1, <2>5 DEF createAction, ActionOnProject, ActionOnNewProject
    <3>2. n # m
      BY <1>4, <3>1
    <3>3. \A b \in DOMAIN actions' \ DOMAIN actions : actions'[b].memberid = n
      BY <3>1 DEF Insert, NewAction
    <3> QED BY <3>1, <3>2, <3>3, OthersKeepTheirRow DEF LeftAlone
  <2> QED BY <1>1, <2>1, <2>2, <2>3, <2>4, <2>5
<1> QED BY <1>5, <1>6

\* A frozen account stays frozen and as it is: none of the handlers lets it act
\* again, whatever credentials and timestamps come.
THEOREM FreezingIsPermanent == Spec => FrozenForever
<1>1. IInv /\ [Next]_vars =>
        [\A m \in DOMAIN members :
           isFrozen(members[m].timestamp, clock) =>
               /\ m \in DOMAIN members' /\ members'[m] = members[m]
               /\ \A a \in DOMAIN actions' \ DOMAIN actions : actions'[a].memberid # m
               /\ \A i \in DOMAIN votes' \ DOMAIN votes : votes'[i].memberid # m]_vars
  BY FrozenIsLeftAlone DEF LeftAlone
<1> QED BY <1>1, Inductive, PTL DEF Spec, FrozenForever
=============================================================================
