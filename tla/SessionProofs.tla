--------------------------- MODULE SessionProofs ---------------------------
(***************************************************************************)
(* Proofs about Sessions, for any number of programs, any calls and every  *)
(* way their statements interleave.  The invariant says where a handler    *)
(* stands: at each statement, what its transaction has written so far is   *)
(* a function of its call, of what it has found out and of the committed   *)
(* tables (Progress), and no two transactions have written the same row    *)
(* (Apart).  What a transaction relies on stays true while others commit,  *)
(* because it holds its rows.  So W.commit() changes the tables as the     *)
(* handler of Party does in one step, and Party's invariant carries over.  *)
(***************************************************************************)
EXTENDS Sessions, PartyProofs

Joining == {"memberTaken", "memberRow"}
Admitting == {"password", "frozen", "touch"}
Starting == {"idle", "leader", "report", "trolls", "member", "memberTaken?", "memberTaken",
             "confirmation"} \cup Admitting
Ending == {"error", "rollback"}
Creating == {"project", "authority", "idsTaken?", "actionTaken?", "projectRow", "actionRow",
             "projectTaken", "actionTaken", "authorityTaken"}
Voting == {"action", "voted?", "voteRow", "count"}
Reporting == {"query", "commitReport"}
Label == Starting \cup {"memberRow", "commit"} \cup Ending \cup Creating \cup Voting \cup Reporting

\* The member row is written.
Inside == Creating \cup Voting \cup Reporting \cup {"commit"}

CommitsAction(s) == pc[s] = "commit" /\ call[s].fn \in ActionType
CommitsVote(s) == pc[s] = "commit" /\ call[s].fn \in VoteType

-----------------------------------------------------------------------------
(* What a transaction has written *)

\* The row of its member.
Version(s) ==
    LET c == call[s]
    IN  IF c.member \in DOMAIN members THEN [members[c.member] EXCEPT !.timestamp = c.ts]
        ELSE NewMember(c)

Joined(s) == IF call[s].member \in DOMAIN members THEN {} ELSE {call[s].member}

AuthorityFound(s) == IF known[s] THEN projects[call[s].project] ELSE call[s].authority

MembersWritten(s) ==
    IF pc[s] \in Inside THEN Row(call[s].member, Version(s)) ELSE EmptyTable

HasProject(s) ==
    /\ pc[s] \in {"actionRow", "projectTaken", "actionTaken", "authorityTaken"} \/ CommitsAction(s)
    /\ ~known[s]

ProjectsWritten(s) ==
    IF HasProject(s) THEN Row(call[s].project, call[s].authority) ELSE EmptyTable

HasAction(s) == pc[s] \in {"projectTaken", "actionTaken", "authorityTaken"} \/ CommitsAction(s)

ActionsWritten(s) ==
    LET c == call[s]
    IN  IF HasAction(s)
        THEN Row(c.action, NewAction(c.member, c.fn, c.project, AuthorityFound(s)))
        ELSE IF CommitsVote(s) THEN Row(c.action, Counted(actions[c.action], c.fn))
        ELSE EmptyTable

VotesWritten(s) == IF pc[s] = "count" \/ CommitsVote(s) THEN <<Ballot(call[s])>> ELSE <<>>

ProjectTaken(s) == (pc[s] \in {"actionTaken", "authorityTaken"} \/ CommitsAction(s)) /\ ~known[s]
ActionTaken(s) == pc[s] = "authorityTaken" \/ CommitsAction(s)
AuthorityTaken(s) == CommitsAction(s) /\ ~known[s] /\ ~listed[s]

IdsWritten(s) ==
    (IF pc[s] = "memberRow" THEN {call[s].member} ELSE {})
    \cup (IF pc[s] \in Inside THEN Joined(s) ELSE {})
    \cup (IF ProjectTaken(s) THEN {call[s].project} ELSE {})
    \cup (IF ActionTaken(s) THEN {call[s].action} ELSE {})
    \cup (IF AuthorityTaken(s) THEN {call[s].authority} ELSE {})

Written(s) ==
    Rows(MembersWritten(s), ProjectsWritten(s), ActionsWritten(s), VotesWritten(s), IdsWritten(s))

Progress(s) == pc[s] \in Ending \/ writes[s] = Written(s)

-----------------------------------------------------------------------------
(* What a handler knows at each statement *)

RightFunction(s) ==
    LET fn == call[s].fn
    IN  /\ pc[s] = "leader" => fn = "leader"
        /\ pc[s] = "trolls" => fn = "trolls"
        /\ pc[s] \in {"report"} \cup Reporting => fn = "report"
        /\ pc[s] \in {"member", "memberTaken?", "password"} => fn \in ActionType \cup VoteType
        /\ pc[s] \in Joining => fn \in {"leader"} \cup ActionType \cup VoteType
        /\ pc[s] \in {"frozen", "touch"} => fn \in {"report"} \cup ActionType \cup VoteType
        /\ pc[s] \in Creating => fn \in ActionType
        /\ pc[s] \in Voting => fn \in VoteType
        /\ pc[s] \in {"commit", "confirmation"} => fn \in {"leader"} \cup ActionType \cup VoteType

MemberKnown(s) ==
    LET c == call[s]
    IN  /\ pc[s] \in Admitting \cup Reporting => c.member \in DOMAIN members
        /\ pc[s] = "commit" /\ c.fn = "leader" => c.member \notin DOMAIN members

ProjectKnown(s) ==
    LET c == call[s]
    IN  /\ pc[s] = "actionTaken?" => known[s]
        /\ pc[s] \in {"authority", "idsTaken?", "projectRow", "projectTaken", "authorityTaken"} => ~known[s]
        /\ pc[s] = "authorityTaken" => ~listed[s]
        /\ (pc[s] \in {"actionTaken?", "actionRow", "actionTaken"} \/ CommitsAction(s)) /\ known[s]
               => c.project \in DOMAIN projects
        /\ (pc[s] \in {"idsTaken?", "projectRow"} \/ HasProject(s)) /\ ~known[s]
               => c.authority # Absent /\ (listed[s] => c.authority \in Authorities)

ActionKnown(s) ==
    LET c == call[s]
    IN  /\ pc[s] \in {"voted?", "voteRow", "count"} \/ CommitsVote(s) => c.action \in DOMAIN actions
        /\ pc[s] \in {"voteRow", "count"} \/ CommitsVote(s) => ~HasVoted(c.action, c.member)

\* The identifiers it has inserted are new, and different.
IdsAreNew(s) ==
    LET c == call[s]
    IN  /\ pc[s] \notin Ending => IdsWritten(s) \cap takenid = {}
        /\ HasProject(s) => c.project \notin DOMAIN projects
        /\ HasAction(s) => c.action \notin DOMAIN actions
        /\ ProjectTaken(s) => c.project \notin Joined(s)
        /\ ActionTaken(s) => c.action \notin Joined(s) /\ (~known[s] => c.action # c.project)
        /\ AuthorityTaken(s) => c.authority \notin Joined(s) \cup {c.project, c.action}

Known(s) ==
    RightFunction(s) /\ MemberKnown(s) /\ ProjectKnown(s) /\ ActionKnown(s) /\ IdsAreNew(s)

-----------------------------------------------------------------------------

Shape ==
    /\ pc \in [Prog -> Label]
    /\ known \in [Prog -> BOOLEAN] /\ listed \in [Prog -> BOOLEAN]
    /\ DOMAIN call = Prog /\ DOMAIN writes = Prog
    /\ \A s \in Prog : call[s].ts \in Int /\ (pc[s] # "idle" => call[s] \in Input)

\* Row locks: no two open transactions have written the same row.
Apart == \A s, t \in Prog : s # t => ~Clash(writes[s], writes[t])

SInv ==
    /\ IInv
    /\ Shape
    /\ Apart
    /\ \A s \in Prog : Progress(s) /\ Known(s)

-----------------------------------------------------------------------------
(* Rows over tables *)

LEMMA RowIs == \A k, r : DOMAIN Row(k, r) = {k} /\ Row(k, r)[k] = r
  BY DEF Row

LEMMA OverEmpty ==
    ASSUME NEW f, NEW R, f \in [DOMAIN f -> R]
    PROVE  Over(EmptyTable, f) = f
<1>1. DOMAIN EmptyTable = {}
  BY DEF EmptyTable
<1>2. Over(EmptyTable, f) = [k \in DOMAIN f |-> f[k]]
  BY <1>1 DEF Over
<1>3. f = [k \in DOMAIN f |-> f[k]]
  OBVIOUS
<1> QED BY <1>2, <1>3

LEMMA OverNothing == ASSUME NEW k, NEW r PROVE Over(Row(k, r), EmptyTable) = Row(k, r)
<1>1. DOMAIN EmptyTable = {}
  BY DEF EmptyTable
<1> QED BY <1>1, RowIs DEF Over, Row

LEMMA OverBothEmpty == Over(EmptyTable, EmptyTable) = EmptyTable
  BY DEF Over, EmptyTable

LEMMA OverRow == ASSUME NEW k, NEW r, NEW f PROVE Over(Row(k, r), f) = Insert(f, k, r)
  BY DEF Over, Row, Insert

LEMMA OverIs ==
    ASSUME NEW f, NEW g
    PROVE  /\ DOMAIN Over(f, g) = DOMAIN f \cup DOMAIN g
           /\ \A k \in DOMAIN f : Over(f, g)[k] = f[k]
           /\ \A k \in DOMAIN g \ DOMAIN f : Over(f, g)[k] = g[k]
  BY DEF Over

\* At the first statements, and after the end, nothing is written.
LEMMA NothingWritten == ASSUME NEW s, pc[s] \in Starting PROVE Written(s) = NoWrites
<1>1. /\ pc[s] \notin Inside /\ pc[s] # "memberRow" /\ pc[s] # "commit" /\ pc[s] # "count"
      /\ pc[s] \notin Creating
  BY DEF Starting, Admitting, Inside, Creating, Voting, Reporting
<1>2. ~CommitsAction(s) /\ ~CommitsVote(s) /\ ~HasProject(s) /\ ~HasAction(s)
      /\ ~ProjectTaken(s) /\ ~ActionTaken(s) /\ ~AuthorityTaken(s)
  BY <1>1 DEF CommitsAction, CommitsVote, HasProject, HasAction, ProjectTaken, ActionTaken,
              AuthorityTaken, Creating
<1>3. /\ MembersWritten(s) = EmptyTable /\ ProjectsWritten(s) = EmptyTable
      /\ ActionsWritten(s) = EmptyTable /\ VotesWritten(s) = <<>> /\ IdsWritten(s) = {}
  BY <1>1, <1>2 DEF MembersWritten, ProjectsWritten, ActionsWritten, VotesWritten, IdsWritten
<1> QED BY <1>3 DEF Written, NoWrites

LEMMA NothingYet ==
    ASSUME NEW s, pc'[s] \in Starting, writes'[s] = NoWrites
    PROVE  Progress(s)'
<1>1. /\ pc'[s] \notin Inside /\ pc'[s] # "memberRow" /\ pc'[s] # "commit" /\ pc'[s] # "count"
      /\ pc'[s] \notin Creating
  BY DEF Starting, Admitting, Inside, Creating, Voting, Reporting
<1>2. ~CommitsAction(s)' /\ ~CommitsVote(s)' /\ ~HasProject(s)' /\ ~HasAction(s)'
      /\ ~ProjectTaken(s)' /\ ~ActionTaken(s)' /\ ~AuthorityTaken(s)'
  BY <1>1 DEF CommitsAction, CommitsVote, HasProject, HasAction, ProjectTaken, ActionTaken,
              AuthorityTaken, Creating
<1>3. /\ MembersWritten(s)' = EmptyTable /\ ProjectsWritten(s)' = EmptyTable
      /\ ActionsWritten(s)' = EmptyTable /\ VotesWritten(s)' = <<>> /\ IdsWritten(s)' = {}
  BY <1>1, <1>2 DEF MembersWritten, ProjectsWritten, ActionsWritten, VotesWritten, IdsWritten
<1> QED BY <1>3 DEF Progress, Written, NoWrites

LEMMA KnownAtTheStart ==
    ASSUME NEW s, pc'[s] \in Starting, RightFunction(s)',
           pc'[s] \in Admitting => call'[s].member \in DOMAIN members'
    PROVE  Known(s)'
<1>1. /\ pc'[s] \notin Inside /\ pc'[s] # "memberRow" /\ pc'[s] # "commit" /\ pc'[s] # "count"
      /\ pc'[s] \notin Creating /\ pc'[s] \notin Voting /\ pc'[s] \notin Reporting
  BY DEF Starting, Admitting, Inside, Creating, Voting, Reporting
<1>2. ~CommitsAction(s)' /\ ~CommitsVote(s)' /\ ~HasProject(s)' /\ ~HasAction(s)'
      /\ ~ProjectTaken(s)' /\ ~ActionTaken(s)' /\ ~AuthorityTaken(s)'
  BY <1>1 DEF CommitsAction, CommitsVote, HasProject, HasAction, ProjectTaken, ActionTaken,
              AuthorityTaken, Creating
<1>3. MemberKnown(s)'
  BY <1>1 DEF MemberKnown
<1>4. ProjectKnown(s)' /\ ActionKnown(s)'
  BY <1>1, <1>2 DEF ProjectKnown, ActionKnown, Creating, Voting
<1>5. IdsAreNew(s)'
  BY <1>1, <1>2 DEF IdsAreNew, IdsWritten
<1> QED BY <1>3, <1>4, <1>5 DEF Known

LEMMA KnownAtTheEnd ==
    ASSUME NEW s, pc'[s] \in Ending
    PROVE  Progress(s)' /\ Known(s)'
<1>1. Progress(s)'
  BY DEF Progress
<1>2. ~CommitsAction(s)' /\ ~CommitsVote(s)' /\ ~HasProject(s)' /\ ~HasAction(s)'
      /\ ~ProjectTaken(s)' /\ ~ActionTaken(s)' /\ ~AuthorityTaken(s)'
  BY DEF CommitsAction, CommitsVote, HasProject, HasAction, ProjectTaken, ActionTaken,
         AuthorityTaken, Ending
<1>3. RightFunction(s)' /\ MemberKnown(s)'
  BY DEF RightFunction, MemberKnown, Ending, Reporting, Joining, Admitting, Creating, Voting
<1>4. ProjectKnown(s)' /\ ActionKnown(s)'
  BY <1>2 DEF ProjectKnown, ActionKnown, Ending
<1>5. IdsAreNew(s)'
  BY <1>2 DEF IdsAreNew
<1> QED BY <1>1, <1>3, <1>4, <1>5 DEF Known

\* A program at which nothing changes, while the tables stay as they are.
Same(t) ==
    /\ pc'[t] = pc[t] /\ call'[t] = call[t] /\ known'[t] = known[t]
    /\ listed'[t] = listed[t] /\ writes'[t] = writes[t]

LEMMA SameStays ==
    ASSUME NEW t, Same(t), UNCHANGED tables, Progress(t), Known(t)
    PROVE  Progress(t)' /\ Known(t)'
<1>0. /\ members' = members /\ projects' = projects /\ actions' = actions
      /\ votes' = votes /\ takenid' = takenid
  BY DEF tables
<1>1. /\ CommitsAction(t)' = CommitsAction(t) /\ CommitsVote(t)' = CommitsVote(t)
      /\ Version(t)' = Version(t) /\ Joined(t)' = Joined(t)
      /\ AuthorityFound(t)' = AuthorityFound(t)
  BY <1>0 DEF Same, CommitsAction, CommitsVote, Version, Joined, AuthorityFound, NewMember
<1>2. /\ HasProject(t)' = HasProject(t) /\ HasAction(t)' = HasAction(t)
      /\ ProjectTaken(t)' = ProjectTaken(t) /\ ActionTaken(t)' = ActionTaken(t)
      /\ AuthorityTaken(t)' = AuthorityTaken(t)
  BY <1>1 DEF Same, HasProject, HasAction, ProjectTaken, ActionTaken, AuthorityTaken
<1>3. /\ MembersWritten(t)' = MembersWritten(t) /\ ProjectsWritten(t)' = ProjectsWritten(t)
      /\ ActionsWritten(t)' = ActionsWritten(t) /\ VotesWritten(t)' = VotesWritten(t)
      /\ IdsWritten(t)' = IdsWritten(t)
  BY <1>0, <1>1, <1>2
     DEF Same, MembersWritten, ProjectsWritten, ActionsWritten, VotesWritten, IdsWritten, Ballot
<1>4. Progress(t)'
  BY <1>3 DEF Same, Progress, Written
<1>5. RightFunction(t)' /\ MemberKnown(t)'
  BY <1>0 DEF Same, Known, RightFunction, MemberKnown
<1>6. ProjectKnown(t)' /\ ActionKnown(t)'
  BY <1>0, <1>1, <1>2 DEF Same, Known, ProjectKnown, ActionKnown, Authorities, HasVoted
<1>7. IdsAreNew(t)'
  BY <1>0, <1>1, <1>2, <1>3 DEF Same, Known, IdsAreNew
<1> QED BY <1>4, <1>5, <1>6, <1>7 DEF Known

LEMMA ClashIsMutual == \A v, w : Clash(v, w) <=> Clash(w, v)
  BY DEF Clash

\* A step of s that commits nothing.
LEMMA LocalStep ==
    ASSUME SInv, NEW s \in Prog, UNCHANGED tables, clock' \in Int, reply' \in Reply, Shape',
           \A t \in Prog : t # s => Same(t),
           \A t \in Prog : t # s => ~Clash(writes'[s], writes[t]),
           Progress(s)', Known(s)'
    PROVE  SInv'
<1>1. IInv'
  BY UnchangedTables DEF SInv
<1>2. Apart'
  BY ClashIsMutual DEF SInv, Apart, Same
<1>3. \A t \in Prog : Progress(t)' /\ Known(t)'
  BY SameStays DEF SInv
<1> QED BY <1>1, <1>2, <1>3 DEF SInv

\* A SELECT, or another step that writes nothing.
LEMMA MoveStep ==
    ASSUME SInv, NEW s \in Prog, NEW next \in Label, pc[s] # "idle", Goto(s, next),
           UNCHANGED <<tables, call, writes>>, clock' \in Int, reply' \in Reply,
           known' \in [Prog -> BOOLEAN], listed' \in [Prog -> BOOLEAN],
           \A t \in Prog : t # s => known'[t] = known[t] /\ listed'[t] = listed[t],
           Progress(s)', Known(s)'
    PROVE  SInv'
<1>1. Shape'
  BY DEF SInv, Shape, Goto
<1>2. \A t \in Prog : t # s => Same(t) /\ ~Clash(writes'[s], writes[t])
  BY DEF SInv, Shape, Goto, Same, Apart
<1> QED BY <1>1, <1>2, LocalStep

\* The transaction is gone; the program reads on, or a new run begins.
LEMMA LeaveStep ==
    ASSUME SInv, NEW s \in Prog, Goto(s, "idle"),
           DOMAIN writes' = Prog, writes'[s] = NoWrites,
           \A t \in Prog : t # s => writes'[t] = writes[t],
           UNCHANGED <<tables, call, known, listed>>, clock' \in Int, reply' \in Reply
    PROVE  SInv'
<1>1. pc'[s] = "idle" /\ writes'[s] = NoWrites
  BY DEF SInv, Shape, Goto
<1>2. Shape'
  BY DEF SInv, Shape, Goto, Label, Starting
<1>3. \A t \in Prog : t # s => Same(t)
  BY DEF SInv, Shape, Goto, Same
<1>4. \A w : ~Clash(NoWrites, w)
  BY DEF Clash, NoWrites, Rows, EmptyTable
<1>5. Progress(s)'
  BY <1>1, NothingYet DEF Starting
<1>6. Known(s)'
  <2>1. RightFunction(s)'
    BY <1>1 DEF RightFunction, Reporting, Joining, Creating, Voting
  <2> QED BY <1>1, <2>1, KnownAtTheStart DEF Starting, Admitting
<1> QED BY <1>1, <1>2, <1>3, <1>4, <1>5, <1>6, LocalStep

LEMMA DiscardIs ==
    ASSUME SInv, NEW s \in Prog, Discard(s)
    PROVE  /\ DOMAIN writes' = Prog /\ writes'[s] = NoWrites
           /\ \A t \in Prog : t # s => writes'[t] = writes[t]
  BY DEF SInv, Shape, Discard

LEMMA ThrowStep == ASSUME SInv, NEW s \in Prog, Throw(s) PROVE SInv'
<1>1. clock' \in Int /\ reply' \in Reply
  BY DEF Throw, Settle, SInv, Shape, Reply
<1> QED BY <1>1, LeaveStep, DiscardIs DEF Throw

LEMMA MergedClash ==
    ASSUME NEW v, NEW w, NEW x
    PROVE  /\ Clash(Merged(v, w), x) <=> Clash(v, x) \/ Clash(w, x)
           /\ Clash(x, Merged(v, w)) <=> Clash(x, v) \/ Clash(x, w)
<1>1. /\ DOMAIN Merged(v, w).members = DOMAIN v.members \cup DOMAIN w.members
      /\ DOMAIN Merged(v, w).projects = DOMAIN v.projects \cup DOMAIN w.projects
      /\ DOMAIN Merged(v, w).actions = DOMAIN v.actions \cup DOMAIN w.actions
      /\ Merged(v, w).takenid = v.takenid \cup w.takenid
  BY DEF Merged, Rows, Over
<1> QED BY <1>1 DEF Clash

LEMMA UpdateStep ==
    ASSUME SInv, NEW s \in Prog, NEW label, label # "idle", NEW next \in Label,
           Update(s, label, next), Progress(s)', Known(s)'
    PROVE  SInv'
<1>1. clock' \in Int /\ reply' \in Reply /\ UNCHANGED tables
  BY DEF Update, callsVars, vars, tables, SInv, IInv, TypeOK
<1>2. Shape'
  BY DEF SInv, Shape, Goto, Update
<1>3. \A t \in Prog : t # s => Same(t)
  BY DEF SInv, Shape, Goto, Update, Same
<1>4. ASSUME NEW t \in Prog, t # s PROVE ~Clash(writes'[s], writes[t])
  <2>1. ~Clash(Pending(s), writes[t]) /\ ~Clash(writes[s], writes[t])
    BY <1>4 DEF Update, Waits, SInv, Apart
  <2>2. writes'[s] = Merged(Pending(s), writes[s])
    BY DEF Update, SInv, Shape
  <2> QED BY <2>1, <2>2, MergedClash
<1> QED BY <1>1, <1>2, <1>3, <1>4, LocalStep

\* EmptyTable or one row.
Small(table) == Over(EmptyTable, table) = table

LEMMA SmallTables == Small(EmptyTable) /\ \A k, r : Small(Row(k, r))
<1>1. ASSUME NEW k, NEW r PROVE Over(EmptyTable, Row(k, r)) = Row(k, r)
  <2>1. DOMAIN EmptyTable = {}
    BY DEF EmptyTable
  <2> QED BY <2>1 DEF Over, Row
<1> QED BY <1>1, OverBothEmpty DEF Small

\* What one more row makes of the rows that a handler has written.
LEMMA OneMoreMember ==
    ASSUME NEW k, NEW r, NEW P, NEW A, NEW T, Small(P), Small(A)
    PROVE  Merged(InMembers(k, r), Rows(EmptyTable, P, A, <<>>, T)) = Rows(Row(k, r), P, A, <<>>, T)
<1>1. Merged(InMembers(k, r), Rows(EmptyTable, P, A, <<>>, T)) =
          Rows(Over(Row(k, r), EmptyTable), Over(EmptyTable, P), Over(EmptyTable, A),
               <<>> \o <<>>, {} \cup T)
  BY DEF InMembers, Merged, Rows
<1> QED BY <1>1, OverNothing DEF Small

LEMMA OneMoreProject ==
    ASSUME NEW k, NEW r, NEW M, NEW A, NEW T, Small(M), Small(A)
    PROVE  Merged(InProjects(k, r), Rows(M, EmptyTable, A, <<>>, T)) = Rows(M, Row(k, r), A, <<>>, T)
<1>1. Merged(InProjects(k, r), Rows(M, EmptyTable, A, <<>>, T)) =
          Rows(Over(EmptyTable, M), Over(Row(k, r), EmptyTable), Over(EmptyTable, A),
               <<>> \o <<>>, {} \cup T)
  BY DEF InProjects, Merged, Rows
<1> QED BY <1>1, OverNothing DEF Small

LEMMA OneMoreAction ==
    ASSUME NEW k, NEW r, NEW M, NEW P, NEW V, NEW T, Small(M), Small(P), V \o <<>> = V
    PROVE  Merged(InActions(k, r), Rows(M, P, EmptyTable, V, T)) = Rows(M, P, Row(k, r), V, T)
<1>1. Merged(InActions(k, r), Rows(M, P, EmptyTable, V, T)) =
          Rows(Over(EmptyTable, M), Over(EmptyTable, P), Over(Row(k, r), EmptyTable),
               V \o <<>>, {} \cup T)
  BY DEF InActions, Merged, Rows
<1>2. {} \cup T = T
  OBVIOUS
<1>3. Over(EmptyTable, M) = M /\ Over(EmptyTable, P) = P /\ Over(Row(k, r), EmptyTable) = Row(k, r)
  BY OverNothing DEF Small
<1> QED BY <1>1, <1>2, <1>3, Zenon

LEMMA OneMoreBallot ==
    ASSUME NEW r, NEW M, NEW P, NEW A, NEW T, Small(M), Small(P), Small(A)
    PROVE  Merged(InVotes(r), Rows(M, P, A, <<>>, T)) = Rows(M, P, A, <<r>>, T)
<1>1. Merged(InVotes(r), Rows(M, P, A, <<>>, T)) =
          Rows(Over(EmptyTable, M), Over(EmptyTable, P), Over(EmptyTable, A),
               <<>> \o <<r>>, {} \cup T)
  BY DEF InVotes, Merged, Rows
<1> QED BY <1>1 DEF Small

LEMMA OneMoreId ==
    ASSUME NEW k, NEW M, NEW P, NEW A, NEW T, Small(M), Small(P), Small(A)
    PROVE  Merged(InTaken(k), Rows(M, P, A, <<>>, T)) = Rows(M, P, A, <<>>, {k} \cup T)
<1>1. Merged(InTaken(k), Rows(M, P, A, <<>>, T)) =
          Rows(Over(EmptyTable, M), Over(EmptyTable, P), Over(EmptyTable, A),
               <<>> \o <<>>, {k} \cup T)
  BY DEF InTaken, Merged, Rows
<1> QED BY <1>1 DEF Small

-----------------------------------------------------------------------------
(* The SELECTs *)

\* What a step tells about the program that takes it.
LEMMA SelectIs ==
    ASSUME SInv, NEW s \in Prog, NEW label, NEW next, Select(s, label, next)
    PROVE  /\ pc[s] = label /\ pc'[s] = next
           /\ call'[s] = call[s] /\ known'[s] = known[s] /\ listed'[s] = listed[s]
           /\ writes'[s] = writes[s] /\ Progress(s) /\ Known(s)
           /\ members' = members /\ projects' = projects /\ actions' = actions
           /\ votes' = votes /\ takenid' = takenid
  BY DEF Select, Goto, SInv, Shape, callsVars, vars

LEMMA SelectStep ==
    ASSUME SInv, NEW s \in Prog, NEW label, label # "idle", NEW next \in Label,
           Select(s, label, next), Progress(s)', Known(s)'
    PROVE  SInv'
<1>1. clock' \in Int /\ reply' \in Reply /\ UNCHANGED <<tables, call, known, listed, writes>>
  BY DEF Select, callsVars, vars, tables, SInv, IInv, TypeOK
<1>2. /\ known' \in [Prog -> BOOLEAN] /\ listed' \in [Prog -> BOOLEAN]
      /\ \A t \in Prog : t # s => known'[t] = known[t] /\ listed'[t] = listed[t]
  BY <1>1 DEF SInv, Shape
<1>3. pc[s] # "idle" /\ Goto(s, next)
  BY DEF Select
<1> QED BY <1>1, <1>2, <1>3, MoveStep

\* The answer of a SELECT refuses the call.
LEMMA SelectRefuses ==
    ASSUME SInv, NEW s \in Prog, NEW label, label # "idle", Select(s, label, "error")
    PROVE  SInv'
<1>1. pc'[s] = "error"
  BY SelectIs
<1> QED BY <1>1, SelectStep, KnownAtTheEnd DEF Label, Ending

\* A SELECT before anything is written.
LEMMA SelectEarly ==
    ASSUME SInv, NEW s \in Prog, NEW label \in Starting, label # "idle", NEW next \in Starting,
           Select(s, label, next), RightFunction(s)',
           next \in Admitting => call[s].member \in DOMAIN members
    PROVE  SInv'
<1>1. pc[s] = label /\ pc'[s] = next /\ call'[s] = call[s] /\ members' = members
  BY SelectIs
<1>2. writes'[s] = NoWrites
  BY <1>1, SelectIs, NothingWritten DEF Progress, Starting, Ending, Admitting
<1>3. Progress(s)' /\ Known(s)'
  BY <1>1, <1>2, NothingYet, KnownAtTheStart
<1> QED BY <1>3, SelectStep DEF Label

LEMMA leaderStatementKeeps == ASSUME SInv, NEW s \in Prog, leaderStatement(s) PROVE SInv'
<1>1. CASE Select(s, "leader", "error")
  BY <1>1, SelectRefuses
<1>2. CASE Select(s, "leader", "memberTaken")
  <2>1. RightFunction(s)'
    BY <1>2, SelectIs DEF Known, RightFunction, Reporting, Joining, Creating, Voting
  <2> QED BY <1>2, <2>1, SelectEarly DEF Starting, Admitting
<1> QED BY <1>1, <1>2 DEF leaderStatement

LEMMA memberSelectKeeps ==
    ASSUME SInv, NEW s \in Prog,
           \/ \E next \in {"password", "memberTaken?"} :
                 /\ Select(s, "member", next)
                 /\ next = "password" => call[s].member \in DOMAIN members
           \/ Select(s, "memberTaken?", "memberTaken")
           \/ Select(s, "password", "frozen")
           \/ Select(s, "frozen", "touch")
           \/ Select(s, "report", "frozen") /\ call[s].member \in DOMAIN members
    PROVE  SInv'
<1> USE DEF Known, RightFunction, MemberKnown, Reporting, Joining, Creating, Voting, Admitting, Starting
<1>1. ASSUME NEW next \in {"password", "memberTaken?"}, Select(s, "member", next),
             next = "password" => call[s].member \in DOMAIN members
      PROVE  SInv'
  <2>1. RightFunction(s)'
    BY <1>1, SelectIs, SMTT(40)
  <2> QED BY <1>1, <2>1, SelectEarly
<1>2. CASE Select(s, "memberTaken?", "memberTaken")
  <2>1. RightFunction(s)'
    BY <1>2, SelectIs, SMTT(40)
  <2> QED BY <1>2, <2>1, SelectEarly
<1>3. CASE Select(s, "password", "frozen")
  <2>1. RightFunction(s)' /\ call[s].member \in DOMAIN members
    BY <1>3, SelectIs, SMTT(40)
  <2> QED BY <1>3, <2>1, SelectEarly
<1>4. CASE Select(s, "frozen", "touch")
  <2>1. RightFunction(s)' /\ call[s].member \in DOMAIN members
    BY <1>4, SelectIs, SMTT(40)
  <2> QED BY <1>4, <2>1, SelectEarly
<1>5. CASE Select(s, "report", "frozen") /\ call[s].member \in DOMAIN members
  <2>1. RightFunction(s)'
    BY <1>5, SelectIs
  <2> QED BY <1>5, <2>1, SelectEarly
<1> QED BY <1>1, <1>2, <1>3, <1>4, <1>5, SMTT(40)

LEMMA ViewIs ==
    ASSUME NEW s
    PROVE  /\ View(s).members = Over(writes[s].members, members)
           /\ View(s).projects = Over(writes[s].projects, projects)
           /\ View(s).actions = Over(writes[s].actions, actions)
           /\ View(s).votes = votes \o writes[s].votes
           /\ View(s).takenid = writes[s].takenid \cup takenid
  BY DEF View, Merged, Committed, Rows

\* The statements at which the handler has admitted its member, and no more.
OnlyJoined(s) ==
    \/ pc[s] \in {"project", "authority", "idsTaken?", "actionTaken?", "projectRow"} \cup Reporting
    \/ pc[s] \in {"action", "voted?", "voteRow"}
    \/ pc[s] = "actionRow" /\ known[s]
    \/ pc[s] = "commit" /\ call[s].fn \notin ActionType \cup VoteType

Entered(s) ==
    Rows(Row(call[s].member, Version(s)), EmptyTable, EmptyTable, <<>>, Joined(s))

LEMMA OnlyJoinedIs ==
    ASSUME NEW s, OnlyJoined(s)
    PROVE  Written(s) = Entered(s)
<1>1. pc[s] \in Inside /\ pc[s] # "memberRow" /\ pc[s] # "count"
  BY DEF OnlyJoined, Inside, Creating, Voting, Reporting
<1>2. ~CommitsAction(s) /\ ~CommitsVote(s) /\ ~HasProject(s) /\ ~HasAction(s)
      /\ ~ProjectTaken(s) /\ ~ActionTaken(s) /\ ~AuthorityTaken(s)
  BY DEF OnlyJoined, Reporting, CommitsAction, CommitsVote, HasProject, HasAction,
         ProjectTaken, ActionTaken, AuthorityTaken
<1> QED BY <1>1, <1>2 DEF Written, Entered, MembersWritten, ProjectsWritten, ActionsWritten,
                          VotesWritten, IdsWritten

LEMMA OnlyJoinedNext ==
    ASSUME NEW s, OnlyJoined(s)', members' = members, call'[s] = call[s], writes'[s] = Entered(s)
    PROVE  Progress(s)'
<1>1. pc'[s] \in Inside /\ pc'[s] # "memberRow" /\ pc'[s] # "count"
  BY DEF OnlyJoined, Inside, Creating, Voting, Reporting
<1>2. ~CommitsAction(s)' /\ ~CommitsVote(s)' /\ ~HasProject(s)' /\ ~HasAction(s)'
      /\ ~ProjectTaken(s)' /\ ~ActionTaken(s)' /\ ~AuthorityTaken(s)'
  BY DEF OnlyJoined, Reporting, CommitsAction, CommitsVote, HasProject, HasAction,
         ProjectTaken, ActionTaken, AuthorityTaken
<1>3. Version(s)' = Version(s) /\ Joined(s)' = Joined(s)
  BY DEF Version, Joined, NewMember
<1>4. /\ MembersWritten(s)' = Row(call[s].member, Version(s)) /\ ProjectsWritten(s)' = EmptyTable
      /\ ActionsWritten(s)' = EmptyTable /\ VotesWritten(s)' = <<>> /\ IdsWritten(s)' = Joined(s)
  BY <1>1, <1>2, <1>3 DEF MembersWritten, ProjectsWritten, ActionsWritten, VotesWritten, IdsWritten
<1> QED BY <1>4 DEF Progress, Written, Entered

\* What is known there: nothing but the kind of the call, the member, and
\* what the SELECTs have found out.
LEMMA KnownWhenJoined ==
    ASSUME NEW s, OnlyJoined(s)', RightFunction(s)', MemberKnown(s)', ProjectKnown(s)', ActionKnown(s)',
           members' = members, takenid' = takenid, call'[s] = call[s], Joined(s) \cap takenid = {}
    PROVE  Known(s)'
<1>1. pc'[s] \in Inside /\ pc'[s] # "memberRow" /\ pc'[s] # "count"
  BY DEF OnlyJoined, Inside, Creating, Voting, Reporting
<1>2. ~HasProject(s)' /\ ~HasAction(s)' /\ ~ProjectTaken(s)' /\ ~ActionTaken(s)' /\ ~AuthorityTaken(s)'
  BY DEF OnlyJoined, Reporting, CommitsAction, CommitsVote, HasProject, HasAction,
         ProjectTaken, ActionTaken, AuthorityTaken
<1>3. Joined(s)' = Joined(s)
  BY DEF Joined
<1>4. IdsWritten(s)' = Joined(s)
  BY <1>1, <1>2, <1>3 DEF IdsWritten
<1> QED BY <1>2, <1>4 DEF Known, IdsAreNew

\* A SELECT of a handler that has written nothing but its member.
LEMMA SelectJoined ==
    ASSUME SInv, NEW s \in Prog, OnlyJoined(s), OnlyJoined(s)',
           pc'[s] \in Label, Goto(s, pc'[s]), UNCHANGED <<tables, call, writes>>,
           clock' \in Int, reply' \in Reply,
           known' \in [Prog -> BOOLEAN], listed' \in [Prog -> BOOLEAN],
           \A t \in Prog : t # s => known'[t] = known[t] /\ listed'[t] = listed[t],
           RightFunction(s)', MemberKnown(s)', ProjectKnown(s)', ActionKnown(s)'
    PROVE  SInv'
<1>1. Progress(s) /\ Known(s) /\ pc[s] \notin Ending /\ pc[s] # "idle"
  BY DEF SInv, OnlyJoined, Ending, Reporting
<1>2. writes'[s] = Entered(s) /\ members' = members /\ takenid' = takenid /\ call'[s] = call[s]
  BY <1>1, OnlyJoinedIs DEF Progress, tables
<1>3. Joined(s) \cap takenid = {}
  <2>1. pc[s] \in Inside
    BY DEF OnlyJoined, Inside, Creating, Voting, Reporting
  <2>2. Joined(s) \subseteq IdsWritten(s)
    BY <2>1 DEF IdsWritten
  <2> QED BY <1>1, <2>2 DEF Known, IdsAreNew
<1>4. Progress(s)' /\ Known(s)'
  BY <1>2, <1>3, OnlyJoinedNext, KnownWhenJoined
<1> QED BY <1>1, <1>4, MoveStep

LEMMA JoinedView ==
    ASSUME SInv, NEW s \in Prog, OnlyJoined(s)
    PROVE  /\ View(s).projects = projects /\ View(s).actions = actions /\ View(s).votes = votes
           /\ View(s).takenid = Joined(s) \cup takenid
<1>1. writes[s] = Entered(s)
  BY OnlyJoinedIs DEF SInv, Progress, OnlyJoined, Ending, Reporting
<1>2. /\ projects \in [DOMAIN projects -> Id] /\ actions \in [DOMAIN actions -> ActionRow]
      /\ votes \in Seq(VoteRow)
  BY DEF SInv, IInv, TypeOK
<1>3. votes \o <<>> = votes
  BY <1>2
<1>4. Over(EmptyTable, projects) = projects /\ Over(EmptyTable, actions) = actions
  BY <1>2, OverEmpty
<1>5. /\ writes[s].projects = EmptyTable /\ writes[s].actions = EmptyTable
      /\ writes[s].votes = <<>> /\ writes[s].takenid = Joined(s)
  BY <1>1 DEF Entered, Rows
<1>6. View(s).projects = projects /\ View(s).actions = actions
  BY <1>4, <1>5, ViewIs
<1>7. View(s).votes = votes /\ View(s).takenid = Joined(s) \cup takenid
  BY <1>3, <1>5, ViewIs
<1> QED BY <1>6, <1>7

LEMMA StatusIsTyped == ASSUME SInv, UNCHANGED callsVars PROVE
    UNCHANGED tables /\ clock' \in Int /\ reply' \in Reply
  BY DEF callsVars, vars, tables, SInv, IInv, TypeOK

LEMMA projectStatementKeeps == ASSUME SInv, NEW s \in Prog, projectStatement(s) PROVE SInv'
<1>1. /\ pc[s] = "project" /\ UNCHANGED <<callsVars, call, listed, writes>>
      /\ known' = [known EXCEPT ![s] = call[s].project \in DOMAIN View(s).projects]
      /\ Goto(s, IF call[s].project \in DOMAIN View(s).projects THEN "actionTaken?" ELSE "authority")
  BY DEF projectStatement
<1>2. OnlyJoined(s)
  BY <1>1 DEF OnlyJoined
<1>3. View(s).projects = projects /\ projects' = projects
  BY <1>1, <1>2, JoinedView DEF callsVars, vars
<1>4. /\ pc'[s] = IF known'[s] THEN "actionTaken?" ELSE "authority"
      /\ known'[s] <=> call[s].project \in DOMAIN projects
      /\ Goto(s, pc'[s]) /\ call'[s] = call[s]
      /\ known' \in [Prog -> BOOLEAN] /\ listed' \in [Prog -> BOOLEAN]
      /\ \A t \in Prog : t # s => known'[t] = known[t] /\ listed'[t] = listed[t]
  <2> DEFINE exists == call[s].project \in DOMAIN View(s).projects
  <2>1. /\ known' = [known EXCEPT ![s] = exists] /\ exists \in BOOLEAN
        /\ pc' = [pc EXCEPT ![s] = IF exists THEN "actionTaken?" ELSE "authority"]
        /\ exists <=> call[s].project \in DOMAIN projects
    BY <1>1, <1>3 DEF Goto
  <2> HIDE DEF exists
  <2> QED BY <1>1, <2>1 DEF Goto, SInv, Shape
<1>5. OnlyJoined(s)' /\ pc'[s] \in Label
  BY <1>4 DEF OnlyJoined, Label, Creating
<1>6. RightFunction(s)'
  BY <1>1, <1>4 DEF SInv, Known, RightFunction, Reporting, Joining, Creating, Voting
<1>7. MemberKnown(s)' /\ ActionKnown(s)'
  BY <1>4 DEF MemberKnown, ActionKnown, CommitsVote, Admitting, Reporting
<1>8. ProjectKnown(s)'
  BY <1>3, <1>4 DEF ProjectKnown, CommitsAction, HasProject
<1> QED BY <1>1, <1>2, <1>4, <1>5, <1>6, <1>7, <1>8, SelectJoined, StatusIsTyped

LEMMA authorityStatementKeeps == ASSUME SInv, NEW s \in Prog, authorityStatement(s) PROVE SInv'
<1>1. pc[s] = "authority"
  BY DEF authorityStatement
<1>2. CASE call[s].authority = Absent
  BY <1>2, ThrowStep DEF authorityStatement
<1>3. CASE call[s].authority # Absent
  <2>1. /\ UNCHANGED <<callsVars, call, known, writes>>
        /\ listed' = [listed EXCEPT ![s] =
               \E p \in DOMAIN View(s).projects : View(s).projects[p] = call[s].authority]
        /\ Goto(s, "idsTaken?")
    BY <1>3 DEF authorityStatement
  <2>2. OnlyJoined(s)
    BY <1>1 DEF OnlyJoined
  <2>3. View(s).projects = projects /\ projects' = projects
    BY <2>1, <2>2, JoinedView DEF callsVars, vars
  <2>4. /\ pc'[s] = "idsTaken?" /\ known'[s] = known[s] /\ call'[s] = call[s]
        /\ listed'[s] => call[s].authority \in Authorities
        /\ Goto(s, pc'[s])
        /\ known' \in [Prog -> BOOLEAN] /\ listed' \in [Prog -> BOOLEAN]
        /\ \A t \in Prog : t # s => known'[t] = known[t] /\ listed'[t] = listed[t]
    BY <2>1, <2>3 DEF Goto, SInv, Shape, Authorities
  <2>5. OnlyJoined(s)' /\ pc'[s] \in Label
    BY <2>4 DEF OnlyJoined, Label, Creating
  <2>6. RightFunction(s)'
    BY <1>1, <2>4 DEF SInv, Known, RightFunction, Reporting, Joining, Creating, Voting
  <2>7. MemberKnown(s)' /\ ActionKnown(s)'
    BY <2>4 DEF MemberKnown, ActionKnown, CommitsVote, Admitting, Reporting
  <2>8. ~known[s] /\ Authorities' = Authorities
    BY <1>1, <2>3 DEF SInv, Known, ProjectKnown, Authorities
  <2>9. ProjectKnown(s)'
    BY <1>3, <2>4, <2>8 DEF ProjectKnown, CommitsAction, HasProject
  <2> QED BY <2>1, <2>2, <2>4, <2>5, <2>6, <2>7, <2>9, SelectJoined, StatusIsTyped
<1> QED BY <1>2, <1>3

\* SelectJoined for a step that changes the program counter only.
LEMMA SelectInside ==
    ASSUME SInv, NEW s \in Prog, NEW label, NEW next \in Label, Select(s, label, next),
           OnlyJoined(s), OnlyJoined(s)',
           RightFunction(s)', MemberKnown(s)', ProjectKnown(s)', ActionKnown(s)'
    PROVE  SInv'
<1>1. /\ UNCHANGED <<callsVars, call, known, listed, writes>> /\ pc'[s] = next /\ Goto(s, next)
  BY SelectIs DEF Select
<1>2. /\ known' \in [Prog -> BOOLEAN] /\ listed' \in [Prog -> BOOLEAN]
      /\ \A t \in Prog : t # s => known'[t] = known[t] /\ listed'[t] = listed[t]
  BY <1>1 DEF SInv, Shape
<1> QED BY <1>1, <1>2, SelectJoined, StatusIsTyped

LEMMA actionSelectKeeps ==
    ASSUME SInv, NEW s \in Prog,
           Select(s, "actionTaken?", "actionRow") \/ Select(s, "idsTaken?", "projectRow")
    PROVE  SInv'
<1>1. CASE Select(s, "actionTaken?", "actionRow")
  <2>1. /\ pc[s] = "actionTaken?" /\ pc'[s] = "actionRow" /\ known[s] /\ known'[s]
        /\ call'[s] = call[s] /\ projects' = projects /\ Known(s)
    BY <1>1, SelectIs DEF Known, ProjectKnown
  <2>2. OnlyJoined(s) /\ OnlyJoined(s)'
    BY <2>1 DEF OnlyJoined
  <2>3. RightFunction(s)'
    BY <2>1 DEF Known, RightFunction, Reporting, Joining, Creating, Voting
  <2>4. MemberKnown(s)' /\ ActionKnown(s)'
    BY <2>1 DEF MemberKnown, ActionKnown, CommitsVote, Admitting, Reporting
  <2>5. ProjectKnown(s)'
    BY <2>1 DEF Known, ProjectKnown, CommitsAction, HasProject
  <2> QED BY <1>1, <2>2, <2>3, <2>4, <2>5, SelectInside DEF Label, Creating
<1>2. CASE Select(s, "idsTaken?", "projectRow")
  <2>1. /\ pc[s] = "idsTaken?" /\ pc'[s] = "projectRow" /\ known'[s] = known[s]
        /\ listed'[s] = listed[s] /\ call'[s] = call[s] /\ projects' = projects /\ Known(s)
    BY <1>2, SelectIs
  <2>2. OnlyJoined(s) /\ OnlyJoined(s)'
    BY <2>1 DEF OnlyJoined
  <2>3. RightFunction(s)'
    BY <2>1 DEF Known, RightFunction, Reporting, Joining, Creating, Voting
  <2>4. MemberKnown(s)' /\ ActionKnown(s)'
    BY <2>1 DEF MemberKnown, ActionKnown, CommitsVote, Admitting, Reporting
  <2>5. ProjectKnown(s)'
    BY <2>1 DEF Known, ProjectKnown, CommitsAction, HasProject, Authorities
  <2> QED BY <1>2, <2>2, <2>3, <2>4, <2>5, SelectInside DEF Label, Creating
<1> QED BY <1>1, <1>2

LEMMA voteSelectKeeps ==
    ASSUME SInv, NEW s \in Prog,
           \/ Select(s, "action", "voted?") /\ call[s].action \in DOMAIN actions
           \/ Select(s, "voted?", "voteRow") /\ ~HasVoted(call[s].action, call[s].member)
    PROVE  SInv'
<1>1. PICK next \in {"voted?", "voteRow"} :
        /\ Select(s, IF next = "voted?" THEN "action" ELSE "voted?", next)
        /\ call[s].action \in DOMAIN actions
        /\ next = "voteRow" => ~HasVoted(call[s].action, call[s].member)
  <2>1. Select(s, "voted?", "voteRow") => call[s].action \in DOMAIN actions
    BY DEF Select, SInv, Known, ActionKnown
  <2> QED BY <2>1
<1>2. /\ pc[s] \in {"action", "voted?"} /\ pc'[s] = next /\ call'[s] = call[s] /\ Known(s)
      /\ actions' = actions /\ votes' = votes
  BY <1>1, SelectIs
<1>3. OnlyJoined(s) /\ OnlyJoined(s)'
  BY <1>2 DEF OnlyJoined
<1>4. RightFunction(s)'
  BY <1>2 DEF Known, RightFunction, Reporting, Joining, Creating, Voting
<1>5. MemberKnown(s)' /\ ProjectKnown(s)'
  BY <1>2 DEF MemberKnown, ProjectKnown, HasProject, CommitsAction, Admitting, Reporting
<1>6. HasVoted(call[s].action, call[s].member)' <=> HasVoted(call[s].action, call[s].member)
  BY <1>2 DEF HasVoted
<1>7. ActionKnown(s)'
  BY <1>1, <1>2, <1>6 DEF ActionKnown, CommitsVote, HasVoted
<1> QED BY <1>1, <1>3, <1>4, <1>5, <1>7, SelectInside DEF Label, Voting

\* The rows of a report are printed, and nothing else happens.
LEMMA printReportKeeps == ASSUME SInv, NEW s \in Prog, printReport(s) PROVE SInv'
<1>1. /\ pc[s] = "query" /\ Goto(s, "commitReport") /\ UNCHANGED <<callsVars, call, known, listed, writes>>
  BY DEF printReport
<1>2. pc'[s] = "commitReport" /\ call'[s] = call[s] /\ members' = members /\ Known(s)
  BY <1>1 DEF SInv, Shape, Goto, callsVars, vars
<1>3. OnlyJoined(s) /\ OnlyJoined(s)' /\ pc'[s] \in Label
  BY <1>1, <1>2 DEF OnlyJoined, Reporting, Label
<1>4. RightFunction(s)'
  BY <1>1, <1>2 DEF Known, RightFunction, Reporting, Joining, Creating, Voting
<1>5. MemberKnown(s)'
  BY <1>1, <1>2 DEF Known, MemberKnown, Reporting, Admitting
<1>6. ProjectKnown(s)' /\ ActionKnown(s)'
  BY <1>2 DEF ProjectKnown, ActionKnown, HasProject, CommitsAction, CommitsVote
<1>7. /\ known' \in [Prog -> BOOLEAN] /\ listed' \in [Prog -> BOOLEAN]
      /\ \A t \in Prog : t # s => known'[t] = known[t] /\ listed'[t] = listed[t]
  BY <1>1 DEF SInv, Shape
<1> QED BY <1>1, <1>2, <1>3, <1>4, <1>5, <1>6, <1>7, SelectJoined, StatusIsTyped

-----------------------------------------------------------------------------
(* The INSERTs and UPDATEs *)

LEMMA UpdateIs ==
    ASSUME SInv, NEW s \in Prog, NEW label, NEW next, Update(s, label, next)
    PROVE  /\ pc[s] = label /\ pc'[s] = next
           /\ call'[s] = call[s] /\ known'[s] = known[s] /\ listed'[s] = listed[s]
           /\ writes'[s] = Merged(Pending(s), writes[s]) /\ Progress(s) /\ Known(s)
           /\ members' = members /\ projects' = projects /\ actions' = actions
           /\ votes' = votes /\ takenid' = takenid
  BY DEF Update, Goto, SInv, Shape, callsVars, vars

LEMMA InsertIs ==
    ASSUME NEW s, NEW label, NEW next, InsertRow(s, label, next)
    PROVE  Throw(s) \/ (Update(s, label, next) /\ ~Duplicate(s))
  BY DEF InsertRow

LEMMA NotThere ==
    ASSUME NEW s, ~Duplicate(s)
    PROVE  ~Clash(Pending(s), writes[s]) /\ ~Clash(Pending(s), Committed)
  BY MergedClash DEF Duplicate, View

\* INSERT INTO takenid of a new member
LEMMA memberTakenKeeps ==
    ASSUME SInv, NEW s \in Prog, Update(s, "memberTaken", "memberRow"), ~Duplicate(s)
    PROVE  SInv'
<1> DEFINE m == call[s].member
<1>1. /\ pc[s] = "memberTaken" /\ pc'[s] = "memberRow" /\ call'[s] = call[s] /\ Known(s)
      /\ writes'[s] = Merged(Pending(s), writes[s]) /\ takenid' = takenid /\ Progress(s)
  BY UpdateIs
<1>2. Pending(s) = InTaken(m)
  BY <1>1 DEF Pending
<1>3. writes[s] = NoWrites
  BY <1>1, NothingWritten DEF Progress, Starting, Ending
<1>4. Merged(InTaken(m), NoWrites) = Rows(EmptyTable, EmptyTable, EmptyTable, <<>>, {m} \cup {})
  BY OneMoreId, SmallTables DEF NoWrites
<1>5. writes'[s] = Rows(EmptyTable, EmptyTable, EmptyTable, <<>>, {m})
  BY <1>1, <1>2, <1>3, <1>4
<1>6. ~CommitsAction(s)' /\ ~CommitsVote(s)' /\ ~HasProject(s)' /\ ~HasAction(s)'
      /\ ~ProjectTaken(s)' /\ ~ActionTaken(s)' /\ ~AuthorityTaken(s)' /\ pc'[s] \notin Inside
  BY <1>1 DEF CommitsAction, CommitsVote, HasProject, HasAction, ProjectTaken, ActionTaken,
              AuthorityTaken, Inside, Creating, Voting, Reporting
<1>7. /\ MembersWritten(s)' = EmptyTable /\ ProjectsWritten(s)' = EmptyTable
      /\ ActionsWritten(s)' = EmptyTable /\ VotesWritten(s)' = <<>> /\ IdsWritten(s)' = {m}
  BY <1>1, <1>6 DEF MembersWritten, ProjectsWritten, ActionsWritten, VotesWritten, IdsWritten
<1>8. Progress(s)'
  BY <1>5, <1>7 DEF Progress, Written
<1>9. m \notin takenid
  BY <1>2, NotThere DEF Clash, InTaken, Committed, Rows
<1>10. Known(s)'
  <2>1. RightFunction(s)'
    BY <1>1 DEF Known, RightFunction, Reporting, Joining, Creating, Voting
  <2>2. MemberKnown(s)' /\ ProjectKnown(s)' /\ ActionKnown(s)'
    BY <1>1, <1>6 DEF MemberKnown, ProjectKnown, ActionKnown, Admitting, Reporting
  <2>3. IdsAreNew(s)'
    BY <1>1, <1>6, <1>7, <1>9 DEF IdsAreNew
  <2> QED BY <2>1, <2>2, <2>3 DEF Known
<1>11. "memberRow" \in Label
  BY DEF Label
<1> QED BY <1>8, <1>10, <1>11, UpdateStep

\* The member is admitted: its row is written, new or with a new timestamp.
LEMMA AdmittedNext ==
    ASSUME SInv, NEW s \in Prog, NEW label \in {"memberRow", "touch"}, NEW next,
           Update(s, label, next), next = "query" \/ label = "touch" => call[s].fn # "leader",
           next = IF call[s].fn = "report" THEN "query" ELSE
                  IF call[s].fn = "leader" THEN "commit" ELSE
                  IF call[s].fn \in VoteType THEN "action" ELSE "project",
           writes'[s] = Entered(s), Joined(s) \cap takenid = {},
           label = "touch" => call[s].member \in DOMAIN members,
           label = "memberRow" => call[s].member \notin DOMAIN members
    PROVE  SInv'
<1>1. /\ pc[s] = label /\ pc'[s] = next /\ call'[s] = call[s] /\ Known(s)
      /\ members' = members /\ takenid' = takenid
  BY UpdateIs
<1>2. call[s].fn \in {"leader", "report"} \cup ActionType \cup VoteType
  BY <1>1 DEF Known, RightFunction, Joining
<1>3. OnlyJoined(s)' /\ next \in Label
  BY <1>1 DEF OnlyJoined, Reporting, Label, Creating, Voting, ActionType, VoteType
<1>4. RightFunction(s)'
  BY <1>1, <1>2 DEF RightFunction, Reporting, Joining, Creating, Voting, ActionType, VoteType
<1>5. label = "memberRow" => call[s].fn # "report"
  BY <1>1 DEF Known, RightFunction, Joining, ActionType, VoteType
<1>6. MemberKnown(s)'
  BY <1>1, <1>2, <1>5 DEF MemberKnown, Reporting, Admitting
<1>7. ProjectKnown(s)' /\ ActionKnown(s)'
  BY <1>1 DEF ProjectKnown, ActionKnown, HasProject, CommitsAction, CommitsVote, ActionType, VoteType
<1>8. Progress(s)' /\ Known(s)'
  BY <1>1, <1>3, <1>4, <1>6, <1>7, OnlyJoinedNext, KnownWhenJoined
<1> QED BY <1>3, <1>8, UpdateStep

LEMMA memberRowKeeps ==
    ASSUME SInv, NEW s \in Prog, ~Duplicate(s),
           Update(s, "memberRow", IF call[s].fn = "leader" THEN "commit" ELSE
                                  IF call[s].fn \in VoteType THEN "action" ELSE "project")
    PROVE  SInv'
<1> DEFINE m == call[s].member
<1>1. /\ pc[s] = "memberRow" /\ call'[s] = call[s] /\ Progress(s) /\ Known(s)
      /\ writes'[s] = Merged(Pending(s), writes[s])
  BY UpdateIs
<1>2. Pending(s) = InMembers(m, NewMember(call[s]))
  BY <1>1 DEF Pending
<1>3. ~CommitsAction(s) /\ ~CommitsVote(s) /\ ~HasProject(s) /\ ~HasAction(s)
      /\ ~ProjectTaken(s) /\ ~ActionTaken(s) /\ ~AuthorityTaken(s) /\ pc[s] \notin Inside
  BY <1>1 DEF CommitsAction, CommitsVote, HasProject, HasAction, ProjectTaken, ActionTaken,
              AuthorityTaken, Inside, Creating, Voting, Reporting
<1>4. /\ MembersWritten(s) = EmptyTable /\ ProjectsWritten(s) = EmptyTable
      /\ ActionsWritten(s) = EmptyTable /\ VotesWritten(s) = <<>> /\ IdsWritten(s) = {m}
  BY <1>1, <1>3 DEF MembersWritten, ProjectsWritten, ActionsWritten, VotesWritten, IdsWritten
<1>5. writes[s] = Rows(EmptyTable, EmptyTable, EmptyTable, <<>>, {m})
  BY <1>1, <1>4 DEF Progress, Written, Ending
<1>6. Merged(InMembers(m, NewMember(call[s])), Rows(EmptyTable, EmptyTable, EmptyTable, <<>>, {m}))
         = Rows(Row(m, NewMember(call[s])), EmptyTable, EmptyTable, <<>>, {m})
  BY OneMoreMember, SmallTables
<1>7. m \notin DOMAIN members
  <2>1. ~Clash(InMembers(m, NewMember(call[s])), Committed)
    BY <1>2, NotThere
  <2>2. DOMAIN InMembers(m, NewMember(call[s])).members = {m} /\ Committed.members = members
    BY RowIs DEF InMembers, Committed, Rows
  <2> QED BY <2>1, <2>2 DEF Clash
<1>8. Version(s) = NewMember(call[s]) /\ Joined(s) = {m}
  BY <1>7 DEF Version, Joined
<1>9. writes'[s] = Entered(s)
  BY <1>1, <1>2, <1>5, <1>6, <1>8 DEF Entered
<1>10. Joined(s) \cap takenid = {}
  BY <1>1, <1>4, <1>8 DEF Known, IdsAreNew, Ending
<1>11. call[s].fn # "report"
  BY <1>1 DEF Known, RightFunction, Joining, ActionType, VoteType
<1> QED BY <1>7, <1>9, <1>10, <1>11, AdmittedNext

LEMMA touchKeeps ==
    ASSUME SInv, NEW s \in Prog,
           Update(s, "touch", IF call[s].fn = "report" THEN "query" ELSE
                              IF call[s].fn = "leader" THEN "commit" ELSE
                              IF call[s].fn \in VoteType THEN "action" ELSE "project")
    PROVE  SInv'
<1> DEFINE m == call[s].member
           row == [members[m] EXCEPT !.timestamp = call[s].ts]
<1>1. /\ pc[s] = "touch" /\ call'[s] = call[s] /\ Progress(s) /\ Known(s)
      /\ writes'[s] = Merged(Pending(s), writes[s])
  BY UpdateIs
<1>2. writes[s] = NoWrites
  BY <1>1, NothingWritten DEF Progress, Starting, Admitting, Ending
<1>3. View(s).members = members
  <2>1. writes[s].members = EmptyTable /\ members \in [DOMAIN members -> MemberRow]
    BY <1>2 DEF NoWrites, Rows, SInv, IInv, TypeOK
  <2> QED BY <2>1, ViewIs, OverEmpty
<1>4. Pending(s) = InMembers(m, row)
  BY <1>1, <1>3 DEF Pending
<1>5. m \in DOMAIN members
  BY <1>1 DEF Known, MemberKnown, Admitting
<1>6. Version(s) = row /\ Joined(s) = {}
  BY <1>5 DEF Version, Joined
<1> HIDE DEF row
<1>7. Merged(InMembers(m, row), Rows(EmptyTable, EmptyTable, EmptyTable, <<>>, {}))
         = Rows(Row(m, row), EmptyTable, EmptyTable, <<>>, {})
  BY OneMoreMember, SmallTables
<1>8. writes'[s] = Entered(s)
  BY <1>1, <1>2, <1>4, <1>6, <1>7 DEF Entered, NoWrites
<1>9. call[s].fn # "leader"
  BY <1>1 DEF Known, RightFunction, ActionType, VoteType
<1> QED BY <1>5, <1>6, <1>8, <1>9, AdmittedNext

LEMMA InsideSteady ==
    ASSUME NEW s, members' = members, projects' = projects, actions' = actions,
           call'[s] = call[s], known'[s] = known[s]
    PROVE  /\ Version(s)' = Version(s) /\ Joined(s)' = Joined(s)
           /\ AuthorityFound(s)' = AuthorityFound(s)
  BY DEF Version, Joined, AuthorityFound, NewMember

\* The statements of createAction that write.
WritingAction == {"projectRow", "actionRow", "projectTaken", "actionTaken", "authorityTaken"}

\* What each conjunct of Known says there, and what is left to show after it.
LEMMA ActionWritingIs ==
    ASSUME SInv, NEW s \in Prog, NEW label \in WritingAction, NEW next,
           next \in WritingAction \cup {"commit"}, Update(s, label, next)
    PROVE  /\ RightFunction(s)' /\ MemberKnown(s)' /\ ActionKnown(s)'
           /\ call[s].fn \in ActionType /\ Joined(s) \cap takenid = {}
           /\ MembersWritten(s) = Row(call[s].member, Version(s))
           /\ MembersWritten(s)' = Row(call[s].member, Version(s))
           /\ VotesWritten(s) = <<>> /\ VotesWritten(s)' = <<>>
           /\ writes[s] = Rows(Row(call[s].member, Version(s)), ProjectsWritten(s),
                               ActionsWritten(s), <<>>, IdsWritten(s))
<1>1. /\ pc[s] = label /\ pc'[s] = next /\ call'[s] = call[s] /\ Known(s) /\ Progress(s)
      /\ members' = members /\ projects' = projects /\ actions' = actions /\ known'[s] = known[s]
  BY UpdateIs
<1>2. call[s].fn \in ActionType /\ call[s].fn \notin VoteType /\ call[s].fn # "leader"
  BY <1>1 DEF Known, RightFunction, WritingAction, Creating, ActionType, VoteType
<1>3. /\ label \in Inside /\ next \in Inside /\ label \notin Ending
      /\ label # "count" /\ next # "count" /\ next \notin Voting /\ next \notin Reporting
      /\ next \notin Admitting /\ next \notin Joining
  BY DEF WritingAction, Inside, Creating, Voting, Reporting, Admitting, Joining, Ending
<1>4. ~CommitsVote(s) /\ ~CommitsVote(s)'
  BY <1>1, <1>2 DEF CommitsVote
<1>5. RightFunction(s)' /\ MemberKnown(s)' /\ ActionKnown(s)'
  BY <1>1, <1>2, <1>3, <1>4
     DEF RightFunction, MemberKnown, ActionKnown, WritingAction, Voting, Joining, Reporting
<1>6. Version(s)' = Version(s) /\ Joined(s)' = Joined(s)
  BY <1>1, InsideSteady
<1>7. /\ MembersWritten(s) = Row(call[s].member, Version(s))
      /\ MembersWritten(s)' = Row(call[s].member, Version(s))
      /\ VotesWritten(s) = <<>> /\ VotesWritten(s)' = <<>>
  BY <1>1, <1>3, <1>4, <1>6 DEF MembersWritten, VotesWritten
<1>8. Joined(s) \cap takenid = {}
  <2>1. Joined(s) \subseteq IdsWritten(s)
    BY <1>1, <1>3 DEF IdsWritten
  <2> QED BY <1>1, <1>3, <2>1 DEF Known, IdsAreNew
<1>9. writes[s] = Rows(Row(call[s].member, Version(s)), ProjectsWritten(s),
                       ActionsWritten(s), <<>>, IdsWritten(s))
  BY <1>1, <1>3, <1>7 DEF Progress, Written
<1> QED BY <1>2, <1>5, <1>7, <1>8, <1>9

LEMMA ActionWritten ==
    ASSUME SInv, NEW s \in Prog, NEW label \in WritingAction, NEW next,
           next \in WritingAction \cup {"commit"}, Update(s, label, next),
           writes'[s] = Rows(Row(call[s].member, Version(s)), ProjectsWritten(s)',
                             ActionsWritten(s)', <<>>, IdsWritten(s)'),
           ProjectKnown(s)', IdsAreNew(s)'
    PROVE  SInv'
<1>1. Progress(s)'
  BY ActionWritingIs DEF Progress, Written
<1>2. Known(s)'
  BY ActionWritingIs DEF Known
<1>3. label # "idle" /\ next \in Label
  BY DEF WritingAction, Label, Creating
<1> QED BY <1>1, <1>2, <1>3, UpdateStep

LEMMA projectRowKeeps ==
    ASSUME SInv, NEW s \in Prog, Update(s, "projectRow", "actionRow"), ~Duplicate(s)
    PROVE  SInv'
<1> DEFINE c == call[s]
           M == Row(c.member, Version(s))
<1>1. /\ pc[s] = "projectRow" /\ pc'[s] = "actionRow" /\ call'[s] = call[s] /\ Known(s)
      /\ writes'[s] = Merged(Pending(s), writes[s])
      /\ known'[s] = known[s] /\ listed'[s] = listed[s]
      /\ projects' = projects /\ takenid' = takenid /\ actions' = actions /\ members' = members
  BY UpdateIs
<1>2. /\ call[s].fn \in ActionType /\ Joined(s) \cap takenid = {}
      /\ writes[s] = Rows(M, ProjectsWritten(s), ActionsWritten(s), <<>>, IdsWritten(s))
  BY ActionWritingIs DEF WritingAction
<1>3. ~known[s] /\ c.authority # Absent /\ (listed[s] => c.authority \in Authorities)
  BY <1>1 DEF Known, ProjectKnown
<1>4. Pending(s) = InProjects(c.project, c.authority)
  BY <1>1 DEF Pending
<1>5. /\ ~HasProject(s) /\ ~HasAction(s) /\ ~CommitsVote(s) /\ ~ProjectTaken(s) /\ ~ActionTaken(s)
      /\ ~AuthorityTaken(s)
      /\ HasProject(s)' /\ ~HasAction(s)' /\ ~CommitsVote(s)' /\ ~ProjectTaken(s)'
      /\ ~ActionTaken(s)' /\ ~AuthorityTaken(s)'
  BY <1>1, <1>3 DEF HasProject, HasAction, CommitsAction, CommitsVote, ProjectTaken, ActionTaken,
                    AuthorityTaken
<1>6. Joined(s)' = Joined(s)
  BY <1>1, InsideSteady
<1>7. /\ ProjectsWritten(s) = EmptyTable /\ ActionsWritten(s) = EmptyTable
      /\ IdsWritten(s) = Joined(s)
      /\ ProjectsWritten(s)' = Row(c.project, c.authority) /\ ActionsWritten(s)' = EmptyTable
      /\ IdsWritten(s)' = Joined(s)
  BY <1>1, <1>5, <1>6 DEF ProjectsWritten, ActionsWritten, IdsWritten, Inside, Creating
<1>8. writes'[s] = Rows(M, Row(c.project, c.authority), EmptyTable, <<>>, Joined(s))
  BY <1>1, <1>2, <1>4, <1>7, OneMoreProject, SmallTables
<1>9. c.project \notin DOMAIN projects
  <2>1. ~Clash(InProjects(c.project, c.authority), Committed)
    BY <1>4, NotThere
  <2>2. /\ DOMAIN InProjects(c.project, c.authority).projects = {c.project}
        /\ Committed.projects = projects
    BY RowIs DEF InProjects, Committed, Rows
  <2> QED BY <2>1, <2>2 DEF Clash
<1>10. ProjectKnown(s)'
  BY <1>1, <1>3 DEF ProjectKnown, HasProject, CommitsAction, Authorities
<1>11. IdsAreNew(s)'
  BY <1>1, <1>2, <1>5, <1>7, <1>9 DEF IdsAreNew
<1> QED BY <1>7, <1>8, <1>10, <1>11, ActionWritten DEF WritingAction

LEMMA actionRowKeeps ==
    ASSUME SInv, NEW s \in Prog, ~Duplicate(s),
           Update(s, "actionRow", IF known[s] THEN "actionTaken" ELSE "projectTaken")
    PROVE  SInv'
<1> DEFINE c == call[s]
           M == Row(c.member, Version(s))
           P == IF known[s] THEN EmptyTable ELSE Row(c.project, c.authority)
           row == NewAction(c.member, c.fn, c.project, AuthorityFound(s))
           next == IF known[s] THEN "actionTaken" ELSE "projectTaken"
<1>1. /\ pc[s] = "actionRow" /\ pc'[s] = next /\ call'[s] = call[s] /\ Known(s)
      /\ writes'[s] = Merged(Pending(s), writes[s])
      /\ known'[s] = known[s] /\ listed'[s] = listed[s]
      /\ projects' = projects /\ takenid' = takenid /\ actions' = actions /\ members' = members
  BY UpdateIs
<1>2. next \in {"actionTaken", "projectTaken"} /\ Update(s, "actionRow", next)
  OBVIOUS
<1>3. /\ call[s].fn \in ActionType /\ Joined(s) \cap takenid = {}
      /\ writes[s] = Rows(M, ProjectsWritten(s), ActionsWritten(s), <<>>, IdsWritten(s))
  BY <1>2, ActionWritingIs DEF WritingAction
<1>4. AuthorityOf(s) = AuthorityFound(s)
  <2>1. CASE known[s]
    BY <1>1, <2>1, JoinedView DEF AuthorityOf, AuthorityFound, OnlyJoined
  <2>2. CASE ~known[s]
    BY <2>2 DEF AuthorityOf, AuthorityFound
  <2> QED BY <2>1, <2>2
<1>5. Pending(s) = InActions(c.action, row)
  BY <1>1, <1>4 DEF Pending
<1>6. /\ HasProject(s) <=> ~known[s]
      /\ HasProject(s)' <=> (pc'[s] = "actionTaken" \/ pc'[s] = "projectTaken") /\ ~known[s]
      /\ ~HasAction(s) /\ ~CommitsVote(s) /\ ~ProjectTaken(s) /\ ~ActionTaken(s) /\ ~AuthorityTaken(s)
      /\ HasAction(s)' /\ ~CommitsVote(s)' /\ ~ProjectTaken(s)'
      /\ ~ActionTaken(s)' /\ ~AuthorityTaken(s)'
  BY <1>1 DEF HasProject, HasAction, CommitsAction, CommitsVote, ProjectTaken, ActionTaken,
              AuthorityTaken
<1>7. Joined(s)' = Joined(s) /\ AuthorityFound(s)' = AuthorityFound(s)
  BY <1>1, InsideSteady
<1>8. ProjectsWritten(s) = P /\ ActionsWritten(s) = EmptyTable /\ IdsWritten(s) = Joined(s)
  BY <1>1, <1>6 DEF ProjectsWritten, ActionsWritten, IdsWritten, Inside, Creating
<1>9. ProjectsWritten(s)' = P /\ ActionsWritten(s)' = Row(c.action, row) /\ IdsWritten(s)' = Joined(s)
  BY <1>1, <1>2, <1>6, <1>7 DEF ProjectsWritten, ActionsWritten, IdsWritten, Inside, Creating
<1>10. Small(P) /\ Small(M)
  BY SmallTables
<1> HIDE DEF row, P, M
<1>11. writes'[s] = Rows(M, P, Row(c.action, row), <<>>, Joined(s))
  <2>1. <<>> \o <<>> = <<>>
    OBVIOUS
  <2> QED BY <1>1, <1>3, <1>5, <1>8, <1>10, <2>1, OneMoreAction
<1>12. c.action \notin DOMAIN actions
  <2>1. ~Clash(InActions(c.action, row), Committed)
    BY <1>5, NotThere
  <2>2. DOMAIN InActions(c.action, row).actions = {c.action} /\ Committed.actions = actions
    BY RowIs DEF InActions, Committed, Rows
  <2> QED BY <2>1, <2>2 DEF Clash
<1>13. ProjectKnown(s)'
  BY <1>1, <1>2 DEF Known, ProjectKnown, HasProject, CommitsAction, Authorities
<1>14. IdsAreNew(s)'
  BY <1>1, <1>3, <1>6, <1>9, <1>12 DEF Known, IdsAreNew
<1> QED BY <1>2, <1>9, <1>11, <1>13, <1>14, ActionWritten DEF WritingAction, M

\* INSERT INTO takenid of the project, the action and the authority, once
\* the row of the action is written.
LEMMA IdTakenIs ==
    ASSUME SInv, NEW s \in Prog, NEW label \in {"projectTaken", "actionTaken", "authorityTaken"},
           NEW next \in {"actionTaken", "authorityTaken", "commit"}, NEW id,
           Update(s, label, next), ~Duplicate(s), Pending(s) = InTaken(id)
    PROVE  /\ writes'[s] = Rows(Row(call[s].member, Version(s)), ProjectsWritten(s)',
                                ActionsWritten(s)', <<>>, {id} \cup IdsWritten(s))
           /\ HasProject(s)' = HasProject(s) /\ HasProject(s) = ~known[s]
           /\ HasAction(s)' /\ HasAction(s) /\ Joined(s)' = Joined(s)
           /\ id \notin takenid /\ id \notin IdsWritten(s)
           /\ call[s].fn \in ActionType /\ IdsWritten(s) \cap takenid = {}
<1> DEFINE M == Row(call[s].member, Version(s))
<1>1. /\ pc[s] = label /\ pc'[s] = next /\ call'[s] = call[s] /\ Known(s)
      /\ writes'[s] = Merged(Pending(s), writes[s]) /\ known'[s] = known[s]
      /\ projects' = projects /\ actions' = actions /\ members' = members
  BY UpdateIs
<1>2. label \in WritingAction /\ next \in WritingAction \cup {"commit"}
  BY DEF WritingAction
<1>3. /\ call[s].fn \in ActionType
      /\ writes[s] = Rows(M, ProjectsWritten(s), ActionsWritten(s), <<>>, IdsWritten(s))
  BY <1>2, ActionWritingIs
<1>4. known[s] \in BOOLEAN
  BY DEF SInv, Shape
<1>5. /\ HasProject(s)' = HasProject(s) /\ HasProject(s) = ~known[s] /\ HasAction(s)' /\ HasAction(s)
  BY <1>1, <1>3, <1>4 DEF HasProject, HasAction, CommitsAction
<1>6. Joined(s)' = Joined(s) /\ AuthorityFound(s)' = AuthorityFound(s)
  BY <1>1, InsideSteady
<1>7. /\ ProjectsWritten(s)' = ProjectsWritten(s) /\ ActionsWritten(s)' = ActionsWritten(s)
      /\ Small(ProjectsWritten(s)) /\ Small(ActionsWritten(s)) /\ Small(M)
  BY <1>1, <1>5, <1>6, SmallTables DEF ProjectsWritten, ActionsWritten
<1>8. Merged(InTaken(id), Rows(M, ProjectsWritten(s), ActionsWritten(s), <<>>, IdsWritten(s)))
         = Rows(M, ProjectsWritten(s), ActionsWritten(s), <<>>, {id} \cup IdsWritten(s))
  BY <1>7, OneMoreId
<1>9. id \notin takenid /\ id \notin IdsWritten(s)
  <2>1. ~Clash(InTaken(id), writes[s]) /\ ~Clash(InTaken(id), Committed)
    BY NotThere
  <2>2. /\ InTaken(id).takenid = {id} /\ Committed.takenid = takenid
        /\ writes[s].takenid = IdsWritten(s)
    BY <1>3 DEF InTaken, Committed, Rows
  <2> QED BY <2>1, <2>2 DEF Clash
<1>10. IdsWritten(s) \cap takenid = {}
  BY <1>1 DEF Known, IdsAreNew, Ending
<1> QED BY <1>1, <1>3, <1>5, <1>6, <1>7, <1>8, <1>9, <1>10

LEMMA projectTakenKeeps ==
    ASSUME SInv, NEW s \in Prog, Update(s, "projectTaken", "actionTaken"), ~Duplicate(s)
    PROVE  SInv'
<1> DEFINE c == call[s]
<1>1. /\ pc[s] = "projectTaken" /\ pc'[s] = "actionTaken" /\ call'[s] = call[s] /\ Known(s)
      /\ known'[s] = known[s] /\ listed'[s] = listed[s]
      /\ projects' = projects /\ takenid' = takenid /\ actions' = actions /\ members' = members
  BY UpdateIs
<1>2. Pending(s) = InTaken(c.project)
  BY <1>1 DEF Pending
<1>3. ~known[s]
  BY <1>1 DEF Known, ProjectKnown
<1>4. /\ writes'[s] = Rows(Row(c.member, Version(s)), ProjectsWritten(s)',
                           ActionsWritten(s)', <<>>, {c.project} \cup IdsWritten(s))
      /\ HasProject(s) /\ HasAction(s) /\ Joined(s)' = Joined(s)
      /\ c.project \notin takenid /\ c.project \notin IdsWritten(s)
      /\ IdsWritten(s) \cap takenid = {}
  BY <1>2, <1>3, IdTakenIs
<1>5. /\ ~ProjectTaken(s) /\ ~ActionTaken(s) /\ ~AuthorityTaken(s)
      /\ ProjectTaken(s)' /\ ~ActionTaken(s)' /\ ~AuthorityTaken(s)'
  BY <1>1, <1>3 DEF CommitsAction, ProjectTaken, ActionTaken, AuthorityTaken
<1>6. IdsWritten(s) = Joined(s) /\ IdsWritten(s)' = {c.project} \cup Joined(s)
  BY <1>1, <1>4, <1>5 DEF IdsWritten, Inside, Creating
<1>7. ProjectKnown(s)'
  BY <1>1, <1>3, <1>4 DEF Known, ProjectKnown, CommitsAction, Authorities
<1>8. IdsAreNew(s)'
  BY <1>1, <1>4, <1>5, <1>6 DEF Known, IdsAreNew
<1> QED BY <1>4, <1>6, <1>7, <1>8, ActionWritten DEF WritingAction

LEMMA actionTakenKeeps ==
    ASSUME SInv, NEW s \in Prog, ~Duplicate(s),
           Update(s, "actionTaken", IF known[s] \/ listed[s] THEN "commit" ELSE "authorityTaken")
    PROVE  SInv'
<1> DEFINE c == call[s]
<1> DEFINE next == IF known[s] \/ listed[s] THEN "commit" ELSE "authorityTaken"
<1>1. /\ pc[s] = "actionTaken" /\ pc'[s] = next /\ call'[s] = call[s] /\ Known(s)
      /\ known'[s] = known[s] /\ listed'[s] = listed[s]
      /\ projects' = projects /\ takenid' = takenid /\ actions' = actions /\ members' = members
  BY UpdateIs
<1>2. Pending(s) = InTaken(c.action)
  BY <1>1 DEF Pending
<1>3. next \in {"authorityTaken", "commit"} /\ Update(s, "actionTaken", next)
  OBVIOUS
<1>4. /\ writes'[s] = Rows(Row(c.member, Version(s)), ProjectsWritten(s)',
                           ActionsWritten(s)', <<>>, {c.action} \cup IdsWritten(s))
      /\ HasProject(s) = ~known[s] /\ HasProject(s)' = ~known[s]
      /\ HasAction(s) /\ Joined(s)' = Joined(s)
      /\ c.action \notin takenid /\ c.action \notin IdsWritten(s)
      /\ IdsWritten(s) \cap takenid = {} /\ c.fn \in ActionType
  BY <1>2, <1>3, IdTakenIs
<1>5. /\ (ProjectTaken(s) <=> ~known[s]) /\ ~ActionTaken(s) /\ ~AuthorityTaken(s)
      /\ (ProjectTaken(s)' <=> ~known[s]) /\ ActionTaken(s)' /\ ~AuthorityTaken(s)'
  BY <1>1, <1>3, <1>4 DEF CommitsAction, ProjectTaken, ActionTaken, AuthorityTaken
<1>6. /\ IdsWritten(s) = Joined(s) \cup (IF known[s] THEN {} ELSE {c.project})
      /\ IdsWritten(s)' = {c.action} \cup IdsWritten(s)
  BY <1>1, <1>3, <1>4, <1>5 DEF IdsWritten, Inside, Creating
<1>7. ProjectKnown(s)'
  BY <1>1, <1>4 DEF Known, ProjectKnown, CommitsAction, Authorities
<1>8. IdsAreNew(s)'
  BY <1>1, <1>4, <1>5, <1>6 DEF Known, IdsAreNew
<1> QED BY <1>3, <1>4, <1>6, <1>7, <1>8, ActionWritten DEF WritingAction

LEMMA authorityTakenKeeps ==
    ASSUME SInv, NEW s \in Prog, Update(s, "authorityTaken", "commit"), ~Duplicate(s)
    PROVE  SInv'
<1> DEFINE c == call[s]
<1>1. /\ pc[s] = "authorityTaken" /\ pc'[s] = "commit" /\ call'[s] = call[s] /\ Known(s)
      /\ known'[s] = known[s] /\ listed'[s] = listed[s]
      /\ projects' = projects /\ takenid' = takenid /\ actions' = actions /\ members' = members
  BY UpdateIs
<1>2. Pending(s) = InTaken(c.authority)
  BY <1>1 DEF Pending
<1>3. ~known[s] /\ ~listed[s]
  BY <1>1 DEF Known, ProjectKnown
<1>4. /\ writes'[s] = Rows(Row(c.member, Version(s)), ProjectsWritten(s)',
                           ActionsWritten(s)', <<>>, {c.authority} \cup IdsWritten(s))
      /\ HasProject(s) /\ HasAction(s) /\ Joined(s)' = Joined(s)
      /\ c.authority \notin takenid /\ c.authority \notin IdsWritten(s)
      /\ IdsWritten(s) \cap takenid = {} /\ c.fn \in ActionType
  BY <1>2, <1>3, IdTakenIs
<1>5. /\ ProjectTaken(s) /\ ActionTaken(s) /\ ~AuthorityTaken(s)
      /\ ProjectTaken(s)' /\ ActionTaken(s)' /\ AuthorityTaken(s)'
  BY <1>1, <1>3, <1>4 DEF CommitsAction, ProjectTaken, ActionTaken, AuthorityTaken
<1>6. /\ IdsWritten(s) = Joined(s) \cup {c.project, c.action}
      /\ IdsWritten(s)' = {c.authority} \cup IdsWritten(s)
  BY <1>1, <1>4, <1>5 DEF IdsWritten, Inside, Creating
<1>7. ProjectKnown(s)'
  BY <1>1, <1>3, <1>4 DEF Known, ProjectKnown, CommitsAction, Authorities
<1>8. IdsAreNew(s)'
  BY <1>1, <1>4, <1>5, <1>6 DEF Known, IdsAreNew
<1> QED BY <1>4, <1>6, <1>7, <1>8, ActionWritten DEF WritingAction

\* A vote, and the counter of its action.
Voted(s, table) ==
    Rows(Row(call[s].member, Version(s)), EmptyTable, table, <<Ballot(call[s])>>, Joined(s))

LEMMA VotedNext ==
    ASSUME SInv, NEW s \in Prog, NEW label \in {"voteRow", "count"}, NEW next,
           next = IF label = "voteRow" THEN "count" ELSE "commit", Update(s, label, next),
           writes'[s] = Voted(s, IF label = "voteRow" THEN EmptyTable
                                 ELSE Row(call[s].action, Counted(actions[call[s].action], call[s].fn)))
    PROVE  SInv'
<1> DEFINE c == call[s]
<1>1. /\ pc[s] = label /\ pc'[s] = next /\ call'[s] = call[s] /\ Known(s)
      /\ known'[s] = known[s] /\ votes' = votes
      /\ projects' = projects /\ takenid' = takenid /\ actions' = actions /\ members' = members
  BY UpdateIs
<1>2. c.fn \in VoteType /\ c.fn \notin ActionType /\ c.fn # "leader"
  BY <1>1 DEF Known, RightFunction, Voting, ActionType, VoteType
<1>3. Version(s)' = Version(s) /\ Joined(s)' = Joined(s)
  BY <1>1, InsideSteady
<1>4. ~CommitsAction(s)' /\ (CommitsVote(s)' <=> next = "commit") /\ ~HasProject(s)'
      /\ ~HasAction(s)' /\ ~ProjectTaken(s)' /\ ~ActionTaken(s)' /\ ~AuthorityTaken(s)'
  BY <1>1, <1>2 DEF CommitsAction, CommitsVote, HasProject, HasAction, ProjectTaken, ActionTaken,
                    AuthorityTaken
<1>5. next \in Inside /\ next # "memberRow" /\ next \in Label
  BY DEF Inside, Voting, Label
<1>6. /\ MembersWritten(s)' = Row(c.member, Version(s)) /\ ProjectsWritten(s)' = EmptyTable
      /\ VotesWritten(s)' = <<Ballot(c)>> /\ IdsWritten(s)' = Joined(s)
  BY <1>1, <1>3, <1>4, <1>5 DEF MembersWritten, ProjectsWritten, VotesWritten, IdsWritten
<1>7. ActionsWritten(s)' = IF label = "voteRow" THEN EmptyTable
                           ELSE Row(c.action, Counted(actions[c.action], c.fn))
  BY <1>1, <1>4 DEF ActionsWritten
<1>8. Progress(s)'
  BY <1>6, <1>7 DEF Progress, Written, Voted
<1>9. RightFunction(s)' /\ MemberKnown(s)'
  BY <1>1, <1>2
     DEF RightFunction, MemberKnown, Reporting, Joining, Creating, Voting, Admitting
<1>10. ProjectKnown(s)'
  BY <1>1, <1>4 DEF ProjectKnown
<1>11. ActionKnown(s)'
  BY <1>1, <1>2 DEF Known, ActionKnown, CommitsVote, HasVoted
<1>12. Joined(s) \cap takenid = {}
  <2>1. Joined(s) \subseteq IdsWritten(s)
    BY <1>1 DEF IdsWritten, Inside, Voting
  <2> QED BY <1>1, <2>1 DEF Known, IdsAreNew, Ending
<1>13. IdsAreNew(s)'
  BY <1>1, <1>4, <1>6, <1>12 DEF IdsAreNew
<1>14. Known(s)' /\ label # "idle"
  BY <1>9, <1>10, <1>11, <1>13 DEF Known
<1> QED BY <1>5, <1>8, <1>14, UpdateStep

LEMMA voteRowKeeps == ASSUME SInv, NEW s \in Prog, Update(s, "voteRow", "count") PROVE SInv'
<1> DEFINE M == Row(call[s].member, Version(s))
<1>1. /\ pc[s] = "voteRow" /\ Progress(s) /\ writes'[s] = Merged(Pending(s), writes[s])
  BY UpdateIs
<1>2. Pending(s) = InVotes(Ballot(call[s]))
  BY <1>1 DEF Pending
<1>3. writes[s] = Rows(M, EmptyTable, EmptyTable, <<>>, Joined(s))
  BY <1>1, OnlyJoinedIs DEF Progress, OnlyJoined, Ending, Entered
<1>4. Merged(InVotes(Ballot(call[s])), Rows(M, EmptyTable, EmptyTable, <<>>, Joined(s)))
         = Rows(M, EmptyTable, EmptyTable, <<Ballot(call[s])>>, Joined(s))
  BY OneMoreBallot, SmallTables
<1>5. writes'[s] = Voted(s, EmptyTable)
  BY <1>1, <1>2, <1>3, <1>4 DEF Voted
<1> QED BY <1>5, VotedNext

LEMMA countKeeps == ASSUME SInv, NEW s \in Prog, Update(s, "count", "commit") PROVE SInv'
<1> DEFINE c == call[s]
           M == Row(c.member, Version(s))
           row == Counted(actions[c.action], c.fn)
           V == <<Ballot(c)>>
<1>1. /\ pc[s] = "count" /\ Progress(s) /\ writes'[s] = Merged(Pending(s), writes[s])
  BY UpdateIs
<1>2. /\ ~CommitsAction(s) /\ ~CommitsVote(s) /\ ~HasProject(s) /\ ~HasAction(s)
      /\ ~ProjectTaken(s) /\ ~ActionTaken(s) /\ ~AuthorityTaken(s) /\ pc[s] \in Inside
  BY <1>1 DEF CommitsAction, CommitsVote, HasProject, HasAction, ProjectTaken, ActionTaken,
              AuthorityTaken, Inside, Voting
<1>3. writes[s] = Rows(M, EmptyTable, EmptyTable, V, Joined(s))
  BY <1>1, <1>2 DEF Progress, Written, Ending, MembersWritten, ProjectsWritten, ActionsWritten,
                    VotesWritten, IdsWritten
<1>4. View(s).actions = actions
  <2>1. writes[s].actions = EmptyTable
    BY <1>3 DEF Rows
  <2>2. actions \in [DOMAIN actions -> ActionRow]
    BY DEF SInv, IInv, TypeOK
  <2> QED BY <2>1, <2>2, ViewIs, OverEmpty
<1>5. Pending(s) = InActions(c.action, row)
  BY <1>1, <1>4 DEF Pending
<1>6. V \o <<>> = V
  OBVIOUS
<1>7. Small(M) /\ Small(EmptyTable)
  BY SmallTables
<1> HIDE DEF row, M, V
<1>8. Merged(InActions(c.action, row), Rows(M, EmptyTable, EmptyTable, V, Joined(s)))
         = Rows(M, EmptyTable, Row(c.action, row), V, Joined(s))
  BY <1>6, <1>7, OneMoreAction
<1>9. writes'[s] = Voted(s, Row(c.action, row))
  BY <1>1, <1>3, <1>5, <1>8 DEF Voted, M, V
<1> QED BY <1>9, VotedNext DEF row

-----------------------------------------------------------------------------
(* The statements of each handler *)

LEMMA EarlyView ==
    ASSUME SInv, NEW s \in Prog, pc[s] \in Starting
    PROVE  View(s).members = members /\ View(s).takenid = takenid
<1>1. writes[s] = NoWrites
  BY NothingWritten DEF SInv, Progress, Starting, Admitting, Ending
<1>2. writes[s].members = EmptyTable /\ writes[s].takenid = {}
  BY <1>1 DEF NoWrites, Rows
<1>3. members \in [DOMAIN members -> MemberRow]
  BY DEF SInv, IInv, TypeOK
<1>4. View(s).members = members
  BY <1>2, <1>3, ViewIs, OverEmpty
<1>5. View(s).takenid = takenid
  BY <1>2, ViewIs
<1> QED BY <1>4, <1>5

LEMMA memberStatementKeeps == ASSUME SInv, NEW s \in Prog, memberStatement(s) PROVE SInv'
<1> DEFINE c == call[s]
           admitted == IF c.fn = "leader" THEN "commit" ELSE
                       IF c.fn \in VoteType THEN "action" ELSE "project"
<1>1. CASE Select(s, "member", IF c.member \in DOMAIN View(s).members
                               THEN "password" ELSE "memberTaken?")
  <2>1. View(s).members = members
    BY <1>1, EarlyView DEF Select, Starting
  <2>2. PICK next \in {"password", "memberTaken?"} :
            Select(s, "member", next) /\ (next = "password" => c.member \in DOMAIN members)
    BY <1>1, <2>1
  <2> QED BY <2>2, memberSelectKeeps
<1>2. CASE Select(s, "memberTaken?", IF c.member \in View(s).takenid THEN "error" ELSE "memberTaken")
  <2>1. Select(s, "memberTaken?", "error") \/ Select(s, "memberTaken?", "memberTaken")
    BY <1>2
  <2> QED BY <2>1, SelectRefuses, memberSelectKeeps
<1>3. CASE InsertRow(s, "memberTaken", "memberRow")
  BY <1>3, InsertIs, ThrowStep, memberTakenKeeps
<1>4. CASE InsertRow(s, "memberRow", admitted)
  BY <1>4, InsertIs, ThrowStep, memberRowKeeps
<1>5. CASE Select(s, "password", IF View(s).members[c.member].password = crypt(c.password)
                                 THEN "frozen" ELSE "error")
  <2>1. Select(s, "password", "error") \/ Select(s, "password", "frozen")
    BY <1>5
  <2> QED BY <2>1, SelectRefuses, memberSelectKeeps
<1>6. CASE Select(s, "frozen", UnlessFrozen(s))
  <2>1. Select(s, "frozen", "error") \/ Select(s, "frozen", "touch")
    BY <1>6 DEF UnlessFrozen
  <2> QED BY <2>1, SelectRefuses, memberSelectKeeps
<1>7. CASE Update(s, "touch", IF c.fn = "report" THEN "query" ELSE admitted)
  BY <1>7, touchKeeps
<1>8. memberStatement(s) =>
        \/ Select(s, "member", IF c.member \in DOMAIN View(s).members
                               THEN "password" ELSE "memberTaken?")
        \/ Select(s, "memberTaken?", IF c.member \in View(s).takenid THEN "error" ELSE "memberTaken")
        \/ InsertRow(s, "memberTaken", "memberRow")
        \/ InsertRow(s, "memberRow", admitted)
        \/ Select(s, "password", IF View(s).members[c.member].password = crypt(c.password)
                                 THEN "frozen" ELSE "error")
        \/ Select(s, "frozen", UnlessFrozen(s))
        \/ Update(s, "touch", IF c.fn = "report" THEN "query" ELSE admitted)
  BY DEF memberStatement
<1> QED BY <1>1, <1>2, <1>3, <1>4, <1>5, <1>6, <1>7, <1>8

LEMMA actionStatementKeeps == ASSUME SInv, NEW s \in Prog, actionStatement(s) PROVE SInv'
<1>1. CASE \/ Select(s, "actionTaken?", "error") \/ Select(s, "actionTaken?", "actionRow")
           \/ Select(s, "idsTaken?", "error") \/ Select(s, "idsTaken?", "projectRow")
  BY <1>1, SelectRefuses, actionSelectKeeps
<1>2. CASE \/ InsertRow(s, "projectRow", "actionRow")
           \/ InsertRow(s, "actionRow", IF known[s] THEN "actionTaken" ELSE "projectTaken")
  BY <1>2, InsertIs, ThrowStep, projectRowKeeps, actionRowKeeps
<1>3. CASE \/ InsertRow(s, "projectTaken", "actionTaken")
           \/ InsertRow(s, "actionTaken", IF known[s] \/ listed[s] THEN "commit" ELSE "authorityTaken")
           \/ InsertRow(s, "authorityTaken", "commit")
  BY <1>3, InsertIs, ThrowStep, projectTakenKeeps, actionTakenKeeps, authorityTakenKeeps
<1> QED BY <1>1, <1>2, <1>3 DEF actionStatement

LEMMA voteStatementKeeps == ASSUME SInv, NEW s \in Prog, voteStatement(s) PROVE SInv'
<1> DEFINE c == call[s]
           db == View(s)
           voted == \E i \in DOMAIN db.votes :
                        db.votes[i].actionid = c.action /\ db.votes[i].memberid = c.member
<1>1. CASE Select(s, "action", IF c.action \in DOMAIN db.actions THEN "voted?" ELSE "error")
  <2>1. db.actions = actions
    BY <1>1, JoinedView DEF Select, OnlyJoined
  <2>2. Select(s, "action", "error") \/ (Select(s, "action", "voted?") /\ c.action \in DOMAIN actions)
    BY <1>1, <2>1
  <2> QED BY <2>2, SelectRefuses, voteSelectKeeps
<1>2. CASE Select(s, "voted?", IF voted THEN "error" ELSE "voteRow")
  <2>1. db.votes = votes
    BY <1>2, JoinedView DEF Select, OnlyJoined
  <2>2. voted <=> HasVoted(c.action, c.member)
    BY <2>1 DEF HasVoted
  <2> HIDE DEF voted
  <2>3. \/ Select(s, "voted?", "error")
        \/ Select(s, "voted?", "voteRow") /\ ~HasVoted(c.action, c.member)
    BY <1>2, <2>2
  <2> QED BY <2>3, SelectRefuses, voteSelectKeeps
<1>3. CASE InsertRow(s, "voteRow", "count")
  BY <1>3, InsertIs, ThrowStep, voteRowKeeps
<1>4. CASE Update(s, "count", "commit")
  BY <1>4, countKeeps
<1> QED BY <1>1, <1>2, <1>3, <1>4 DEF voteStatement

LEMMA reportStatementKeeps == ASSUME SInv, NEW s \in Prog, reportStatement(s) PROVE SInv'
<1>1. View(s).members = members
  BY EarlyView DEF reportStatement, Select, Starting
<1>2. \/ Select(s, "report", "error")
      \/ Select(s, "report", "frozen") /\ call[s].member \in DOMAIN members
  BY <1>1 DEF reportStatement
<1> QED BY <1>2, SelectRefuses, memberSelectKeeps

\* The answer is printed and the transaction is left open: trolls, and the
\* refusals.
LEMMA AnsweredKeeps ==
    ASSUME SInv, NEW s \in Prog, trollsStatement(s) \/ printNegation(s)
    PROVE  SInv'
<1>1. /\ pc[s] \in {"trolls", "error"} /\ Goto(s, "rollback") /\ clock' = call[s].ts
      /\ reply' \in {"OK", "ERROR"} /\ UNCHANGED <<tables, call, known, listed, writes>>
  BY DEF trollsStatement, printNegation, Settle
<1>2. clock' \in Int /\ reply' \in Reply
  BY <1>1 DEF SInv, Shape, Reply
<1>3. pc'[s] \in Ending /\ pc[s] # "idle"
  BY <1>1 DEF SInv, Shape, Goto, Ending
<1>4. /\ known' \in [Prog -> BOOLEAN] /\ listed' \in [Prog -> BOOLEAN]
      /\ \A t \in Prog : t # s => known'[t] = known[t] /\ listed'[t] = listed[t]
  BY <1>1 DEF SInv, Shape
<1> QED BY <1>1, <1>2, <1>3, <1>4, KnownAtTheEnd, MoveStep DEF Label, Ending

LEMMA LeavingKeeps ==
    ASSUME SInv, NEW s \in Prog,
           printConfirmation(s) \/ rollback(s) \/ crash(s) \/ deadlockDetected(s)
    PROVE  SInv'
<1>1. CASE deadlockDetected(s)
  BY <1>1, ThrowStep DEF deadlockDetected
<1>2. CASE rollback(s) \/ crash(s)
  BY <1>2, LeaveStep, DiscardIs, StatusIsTyped DEF rollback, crash
<1>3. CASE printConfirmation(s)
  <2>1. writes[s] = NoWrites
    BY <1>3, NothingWritten DEF printConfirmation, SInv, Progress, Starting, Ending
  <2>2. writes' = writes /\ DOMAIN writes = Prog
    BY <1>3 DEF printConfirmation, SInv, Shape
  <2> QED BY <1>3, <2>1, <2>2, LeaveStep, StatusIsTyped DEF printConfirmation
<1> QED BY <1>1, <1>2, <1>3

-----------------------------------------------------------------------------
(* Reading a call *)

\* The arguments that a call carries.
LEMMA InputIs ==
    ASSUME NEW c \in Input
    PROVE  /\ c.ts \in Int
           /\ c.fn \in {"trolls", "leader", "report"} \cup ActionType \cup VoteType
           /\ c.fn # "trolls" => c.member \in MemberArg /\ c.password \in Password
           /\ c.fn \in ActionType \cup VoteType => c.action \in ActionArg
           /\ c.fn \in ActionType => c.project \in ProjectArg /\ c.authority \in AuthorityArg \cup {Absent}
<1>1. CASE c \in {TrollsCall(ts) : ts \in Timestamp}
  <2>1. PICK ts \in Timestamp : c = [fn |-> "trolls", ts |-> ts]
    BY <1>1 DEF TrollsCall
  <2>2. c.fn = "trolls" /\ c.ts = ts
    BY <2>1
  <2> QED BY <2>2, TimestampAssumption DEF ActionType, VoteType
<1>2. CASE c \in {MemberCall(fn, m, ts, pw) :
                     fn \in {"leader", "report"}, m \in MemberArg, ts \in Timestamp, pw \in Password}
  <2>1. PICK fn \in {"leader", "report"}, m \in MemberArg, ts \in Timestamp, pw \in Password :
          c = [fn |-> fn, member |-> m, ts |-> ts, password |-> pw]
    BY <1>2 DEF MemberCall
  <2>2. c.fn = fn /\ c.ts = ts /\ c.member = m /\ c.password = pw
    BY <2>1
  <2> QED BY <2>2, TimestampAssumption DEF ActionType, VoteType
<1>3. CASE c \in {VoteCall(fn, m, ts, pw, a) : fn \in VoteType, m \in MemberArg,
                     ts \in Timestamp, pw \in Password, a \in ActionArg}
  <2>1. PICK fn \in VoteType, m \in MemberArg, ts \in Timestamp, pw \in Password, a \in ActionArg :
          c = [fn |-> fn, member |-> m, ts |-> ts, password |-> pw, action |-> a]
    BY <1>3 DEF VoteCall
  <2>2. c.fn = fn /\ c.ts = ts /\ c.member = m /\ c.password = pw /\ c.action = a
    BY <2>1
  <2> QED BY <2>2, TimestampAssumption DEF ActionType, VoteType
<1>4. CASE c \in {ActionCall(fn, m, ts, pw, a, p, auth) :
                     fn \in ActionType, m \in MemberArg, ts \in Timestamp, pw \in Password,
                     a \in ActionArg, p \in ProjectArg, auth \in AuthorityArg \cup {Absent}}
  <2>1. PICK fn \in ActionType, m \in MemberArg, ts \in Timestamp, pw \in Password,
             a \in ActionArg, p \in ProjectArg, auth \in AuthorityArg \cup {Absent} :
          c = [fn |-> fn, member |-> m, ts |-> ts, password |-> pw, action |-> a,
               project |-> p, authority |-> auth]
    BY <1>4 DEF ActionCall
  <2>2. /\ c.fn = fn /\ c.ts = ts /\ c.member = m /\ c.password = pw /\ c.action = a
        /\ c.project = p /\ c.authority = auth
    BY <2>1
  <2> QED BY <2>2, TimestampAssumption DEF ActionType, VoteType
<1> QED BY <1>1, <1>2, <1>3, <1>4, InputAssumption

LEMMA readKeeps == ASSUME SInv, NEW s \in Prog, read(s) PROVE SInv'
<1>1. PICK c \in Input : call' = [call EXCEPT ![s] = c] /\ Goto(s, Entry(c.fn))
  BY DEF read
<1>2. pc[s] = "idle" /\ UNCHANGED <<callsVars, known, listed, writes>>
  BY DEF read
<1>3. c.ts \in Int /\ c.fn \in {"trolls", "leader", "report"} \cup ActionType \cup VoteType
  BY InputIs
<1>4. /\ Entry(c.fn) = IF c.fn \in {"leader", "report", "trolls"} THEN c.fn ELSE "member"
      /\ c.fn \in {"leader", "report", "trolls"} => c.fn \notin ActionType \cup VoteType
  BY <1>3 DEF Entry, ActionType, VoteType
<1>5. pc'[s] = Entry(c.fn) /\ call'[s] = c
  BY <1>1 DEF SInv, Shape, Goto
<1>6. pc'[s] \in {"leader", "report", "trolls", "member"} /\ pc'[s] \in Starting /\ pc'[s] \in Label
  BY <1>4, <1>5 DEF Starting, Label
<1>7. RightFunction(s)'
  BY <1>3, <1>4, <1>5, <1>6
     DEF RightFunction, Reporting, Joining, Creating, Voting, ActionType, VoteType
<1>8. Known(s)'
  BY <1>6, <1>7, KnownAtTheStart DEF Admitting
<1>9. writes[s] = NoWrites
  BY <1>2, NothingWritten DEF SInv, Progress, Starting, Ending
<1>10. Progress(s)'
  BY <1>2, <1>6, <1>9, NothingYet
<1>11. \A t \in Prog : t # s => Same(t)
  BY <1>1, <1>2 DEF SInv, Shape, Goto, Same
<1>12. Shape'
  <2>1. pc' \in [Prog -> Label] /\ DOMAIN call' = Prog /\ DOMAIN writes' = Prog
    BY <1>1, <1>2, <1>5, <1>6 DEF SInv, Shape, Goto
  <2>2. known' \in [Prog -> BOOLEAN] /\ listed' \in [Prog -> BOOLEAN]
    BY <1>2 DEF SInv, Shape
  <2>3. \A t \in Prog : call'[t].ts \in Int /\ (pc'[t] # "idle" => call'[t] \in Input)
    BY <1>3, <1>5, <1>11 DEF SInv, Shape, Same
  <2> QED BY <2>1, <2>2, <2>3 DEF Shape
<1>13. \A t \in Prog : t # s => ~Clash(writes'[s], writes[t])
  BY <1>2 DEF SInv, Apart
<1> QED BY <1>2, <1>8, <1>10, <1>11, <1>12, <1>13, LocalStep, StatusIsTyped

-----------------------------------------------------------------------------
(* W.commit() *)

Committing(s) == pc[s] \in {"commit", "commitReport"}

LEMMA RowsWritten ==
    ASSUME NEW s
    PROVE  /\ DOMAIN ProjectsWritten(s) = IF HasProject(s) THEN {call[s].project} ELSE {}
           /\ DOMAIN ActionsWritten(s) = IF HasAction(s) \/ CommitsVote(s) THEN {call[s].action} ELSE {}
<1>1. DOMAIN EmptyTable = {}
  BY DEF EmptyTable
<1>2. \A k, r : DOMAIN Row(k, r) = {k}
  BY RowIs
<1>3. DOMAIN ProjectsWritten(s) = IF HasProject(s) THEN {call[s].project} ELSE {}
  BY <1>1, <1>2 DEF ProjectsWritten
<1>4. DOMAIN ActionsWritten(s) = IF HasAction(s) \/ CommitsVote(s) THEN {call[s].action} ELSE {}
  BY <1>1, <1>2 DEF ActionsWritten
<1> QED BY <1>3, <1>4

LEMMA CommittedRows ==
    ASSUME SInv, NEW s \in Prog, Committing(s)
    PROVE  /\ writes[s] = Written(s)
           /\ MembersWritten(s) = Row(call[s].member, Version(s))
           /\ Joined(s) \cap takenid = {} /\ Joined(s) \subseteq IdsWritten(s)
           /\ HasProject(s) <=> CommitsAction(s) /\ ~known[s]
           /\ HasAction(s) <=> CommitsAction(s)
           /\ VotesWritten(s) = IF CommitsVote(s) THEN <<Ballot(call[s])>> ELSE <<>>
<1>1. pc[s] \in Inside /\ pc[s] \notin Ending /\ Progress(s) /\ Known(s)
  BY DEF Committing, Inside, Reporting, Ending, SInv
<1>2. /\ pc[s] # "count"
      /\ pc[s] \notin {"actionRow", "projectTaken", "actionTaken", "authorityTaken"}
  BY DEF Committing
<1>3. Joined(s) \subseteq IdsWritten(s)
  BY <1>1 DEF IdsWritten
<1> QED BY <1>1, <1>2, <1>3
           DEF Progress, MembersWritten, Known, IdsAreNew, HasProject, HasAction, VotesWritten

\* What a commit makes of the tables.
LEMMA StoreIs ==
    ASSUME SInv, NEW s \in Prog, Committing(s), Store(s)
    PROVE  /\ members' = Insert(members, call[s].member, Version(s))
           /\ projects' = Over(ProjectsWritten(s), projects)
           /\ actions' = Over(ActionsWritten(s), actions)
           /\ votes' = IF CommitsVote(s) THEN Append(votes, Ballot(call[s])) ELSE votes
           /\ takenid' = IdsWritten(s) \cup takenid
           /\ DOMAIN projects' = DOMAIN ProjectsWritten(s) \cup DOMAIN projects
           /\ \A p \in DOMAIN projects \ DOMAIN ProjectsWritten(s) : projects'[p] = projects[p]
           /\ DOMAIN actions' = DOMAIN ActionsWritten(s) \cup DOMAIN actions
           /\ \A a \in DOMAIN actions \ DOMAIN ActionsWritten(s) : actions'[a] = actions[a]
<1>1. /\ members' = View(s).members /\ projects' = View(s).projects /\ actions' = View(s).actions
      /\ votes' = View(s).votes /\ takenid' = View(s).takenid
  BY DEF Store
<1>2. /\ writes[s].members = Row(call[s].member, Version(s))
      /\ writes[s].projects = ProjectsWritten(s) /\ writes[s].actions = ActionsWritten(s)
      /\ writes[s].votes = IF CommitsVote(s) THEN <<Ballot(call[s])>> ELSE <<>>
      /\ writes[s].takenid = IdsWritten(s)
  <2>1. /\ writes[s] = Rows(MembersWritten(s), ProjectsWritten(s), ActionsWritten(s),
                            VotesWritten(s), IdsWritten(s))
        /\ MembersWritten(s) = Row(call[s].member, Version(s))
        /\ VotesWritten(s) = IF CommitsVote(s) THEN <<Ballot(call[s])>> ELSE <<>>
    BY CommittedRows DEF Written
  <2>2. \A M, P, A, V, T : LET r == Rows(M, P, A, V, T)
                           IN  r.members = M /\ r.projects = P /\ r.actions = A /\ r.votes = V /\ r.takenid = T
    BY DEF Rows
  <2> QED BY <2>1, <2>2
<1>3. members' = Insert(members, call[s].member, Version(s))
  BY <1>1, <1>2, ViewIs, OverRow
<1>4. /\ projects' = Over(ProjectsWritten(s), projects) /\ actions' = Over(ActionsWritten(s), actions)
      /\ takenid' = IdsWritten(s) \cup takenid
  BY <1>1, <1>2, ViewIs
<1>5. votes' = votes \o writes[s].votes
  BY <1>1, ViewIs
<1>6. votes \in Seq(VoteRow)
  BY DEF SInv, IInv, TypeOK
<1>7. votes' = IF CommitsVote(s) THEN Append(votes, Ballot(call[s])) ELSE votes
  <2>1. CASE CommitsVote(s)
    <3>1. votes \o <<Ballot(call[s])>> = Append(votes, Ballot(call[s]))
      BY <1>6
    <3> QED BY <1>2, <1>5, <2>1, <3>1
  <2>2. CASE ~CommitsVote(s)
    <3>1. votes \o <<>> = votes
      BY <1>6
    <3> QED BY <1>2, <1>5, <2>2, <3>1
  <2> QED BY <2>1, <2>2
<1>8. /\ DOMAIN projects' = DOMAIN ProjectsWritten(s) \cup DOMAIN projects
      /\ \A p \in DOMAIN projects \ DOMAIN ProjectsWritten(s) : projects'[p] = projects[p]
  <2>1. projects' = Over(ProjectsWritten(s), projects)
    BY <1>4
  <2>2. /\ DOMAIN Over(ProjectsWritten(s), projects) = DOMAIN ProjectsWritten(s) \cup DOMAIN projects
        /\ \A p \in DOMAIN projects \ DOMAIN ProjectsWritten(s) : Over(ProjectsWritten(s), projects)[p] = projects[p]
    BY OverIs
  <2> QED BY <2>1, <2>2
<1>9. /\ DOMAIN actions' = DOMAIN ActionsWritten(s) \cup DOMAIN actions
      /\ \A a \in DOMAIN actions \ DOMAIN ActionsWritten(s) : actions'[a] = actions[a]
  <2>1. actions' = Over(ActionsWritten(s), actions)
    BY <1>4
  <2>2. /\ DOMAIN Over(ActionsWritten(s), actions) = DOMAIN ActionsWritten(s) \cup DOMAIN actions
        /\ \A a \in DOMAIN actions \ DOMAIN ActionsWritten(s) : Over(ActionsWritten(s), actions)[a] = actions[a]
    BY OverIs
  <2> QED BY <2>1, <2>2
<1> QED BY <1>3, <1>4, <1>7, <1>8, <1>9

LEMMA StoreGrows ==
    ASSUME SInv, NEW s \in Prog, Committing(s), Store(s)
    PROVE  /\ DOMAIN members \subseteq DOMAIN members'
           /\ DOMAIN projects \subseteq DOMAIN projects'
           /\ \A p \in DOMAIN projects : projects'[p] = projects[p]
           /\ DOMAIN actions \subseteq DOMAIN actions'
           /\ Authorities \subseteq Authorities'
<1>1. DOMAIN members \subseteq DOMAIN members'
  BY StoreIs DEF Insert
<1>2. DOMAIN actions \subseteq DOMAIN actions' /\ DOMAIN projects \subseteq DOMAIN projects'
  BY StoreIs
<1>3. DOMAIN ProjectsWritten(s) \cap DOMAIN projects = {}
  BY RowsWritten DEF SInv, Known, IdsAreNew
<1>4. \A p \in DOMAIN projects : projects'[p] = projects[p]
  BY <1>3, StoreIs
<1>5. Authorities \subseteq Authorities'
  BY <1>2, <1>4 DEF Authorities
<1> QED BY <1>1, <1>2, <1>4, <1>5

\* The rows of t are not those that s commits.
LEMMA HeldRowsStay ==
    ASSUME SInv, NEW s \in Prog, Committing(s), Store(s), NEW t \in Prog, t # s, Same(t),
           pc[t] \in Inside
    PROVE  /\ call[t].member # call[s].member
           /\ call[t].member \in DOMAIN members' <=> call[t].member \in DOMAIN members
           /\ Version(t)' = Version(t) /\ Joined(t)' = Joined(t)
           /\ IdsWritten(t) \cap IdsWritten(s) = {}
           /\ DOMAIN ProjectsWritten(t) \cap DOMAIN ProjectsWritten(s) = {}
           /\ DOMAIN ActionsWritten(t) \cap DOMAIN ActionsWritten(s) = {}
<1>1. /\ writes[s] = Written(s) /\ MembersWritten(s) = Row(call[s].member, Version(s))
  BY CommittedRows
<1>2. /\ writes[t] = Written(t) /\ MembersWritten(t) = Row(call[t].member, Version(t))
  BY DEF SInv, Progress, MembersWritten, Inside, Ending, Creating, Voting, Reporting
<1>3. ~Clash(Written(t), Written(s))
  BY <1>1, <1>2 DEF SInv, Apart
<1>4. /\ DOMAIN MembersWritten(t) \cap DOMAIN MembersWritten(s) = {}
      /\ DOMAIN ProjectsWritten(t) \cap DOMAIN ProjectsWritten(s) = {}
      /\ DOMAIN ActionsWritten(t) \cap DOMAIN ActionsWritten(s) = {}
      /\ IdsWritten(t) \cap IdsWritten(s) = {}
  BY <1>3 DEF Clash, Written, Rows
<1>5. call[t].member # call[s].member
  <2>1. call[t].member \in DOMAIN MembersWritten(t) /\ call[s].member \in DOMAIN MembersWritten(s)
    <3>1. \A k, r : k \in DOMAIN Row(k, r)
      BY RowIs
    <3> QED BY <1>1, <1>2, <3>1
  <2> QED BY <1>4, <2>1
<1>6. /\ call[t].member \in DOMAIN members' <=> call[t].member \in DOMAIN members
      /\ call[t].member \in DOMAIN members => members'[call[t].member] = members[call[t].member]
  <2>1. members' = Insert(members, call[s].member, Version(s))
    BY StoreIs
  <2> QED BY <1>5, <2>1 DEF Insert
<1>7. Version(t)' = Version(t) /\ Joined(t)' = Joined(t)
  BY <1>6 DEF Same, Version, Joined, NewMember
<1> QED BY <1>4, <1>5, <1>6, <1>7

LEMMA OthersStayInside ==
    ASSUME SInv, NEW s \in Prog, Committing(s), Store(s), NEW t \in Prog, t # s, Same(t),
           pc[t] \in Inside
    PROVE  Progress(t)' /\ Known(t)'
<1> DEFINE c == call[t]
<1>0. Known(t) /\ Progress(t) /\ pc[t] \notin Ending /\ pc[t] # "memberRow"
  BY DEF SInv, Inside, Creating, Voting, Reporting, Ending
<1>1. /\ CommitsAction(t)' = CommitsAction(t) /\ CommitsVote(t)' = CommitsVote(t)
      /\ HasProject(t)' = HasProject(t) /\ HasAction(t)' = HasAction(t)
      /\ ProjectTaken(t)' = ProjectTaken(t) /\ ActionTaken(t)' = ActionTaken(t)
      /\ AuthorityTaken(t)' = AuthorityTaken(t)
  BY DEF Same, CommitsAction, CommitsVote, HasProject, HasAction, ProjectTaken, ActionTaken,
         AuthorityTaken
<1>2. /\ MembersWritten(t)' = MembersWritten(t) /\ ProjectsWritten(t)' = ProjectsWritten(t)
      /\ VotesWritten(t)' = VotesWritten(t) /\ IdsWritten(t)' = IdsWritten(t)
  BY <1>1, HeldRowsStay
     DEF Same, MembersWritten, ProjectsWritten, VotesWritten, IdsWritten, Ballot
<1>3. HasAction(t) => AuthorityFound(t)' = AuthorityFound(t)
  <2>1. HasAction(t) /\ known[t] => c.project \in DOMAIN projects
    BY <1>0 DEF Known, ProjectKnown, HasAction
  <2> QED BY <2>1, StoreGrows DEF AuthorityFound, Same
<1>4. CommitsVote(t) => c.action \in DOMAIN actions /\ actions'[c.action] = actions[c.action]
  <2>1. ASSUME CommitsVote(t)
        PROVE  c.action \in DOMAIN actions /\ DOMAIN ActionsWritten(t) = {c.action}
    BY <1>0, <2>1, RowsWritten DEF Known, ActionKnown
  <2>2. DOMAIN ActionsWritten(t) \cap DOMAIN ActionsWritten(s) = {}
    BY HeldRowsStay
  <2>3. \A a \in DOMAIN actions \ DOMAIN ActionsWritten(s) : actions'[a] = actions[a]
    BY StoreIs
  <2> QED BY <2>1, <2>2, <2>3
<1>5. ActionsWritten(t)' = ActionsWritten(t)
  BY <1>1, <1>3, <1>4 DEF Same, ActionsWritten
<1>6. Progress(t)'
  BY <1>0, <1>2, <1>5 DEF Same, Progress, Written
<1>7. RightFunction(t)'
  BY <1>0 DEF Same, Known, RightFunction
<1>8. MemberKnown(t)'
  BY <1>0, HeldRowsStay, StoreGrows DEF Same, Known, MemberKnown
<1>9. ProjectKnown(t)'
  BY <1>0, <1>1, StoreGrows DEF Same, Known, ProjectKnown
<1>10. HasVoted(c.action, c.member)' => HasVoted(c.action, c.member)
  <2>1. votes' = votes \/ votes' = Append(votes, Ballot(call[s]))
    BY StoreIs
  <2>2. votes \in Seq(VoteRow)
    BY DEF SInv, IInv, TypeOK
  <2>3. Ballot(call[s]).memberid # c.member
    BY HeldRowsStay DEF Ballot
    <2>4. \A i \in DOMAIN votes' : (i \in DOMAIN votes /\ votes'[i] = votes[i]) \/ votes'[i] = Ballot(call[s])
    BY <2>1, <2>2
  <2> QED BY <2>3, <2>4 DEF HasVoted, Same
<1>11. ActionKnown(t)'
  BY <1>0, <1>1, <1>10, StoreGrows DEF Same, Known, ActionKnown
<1>12. IdsAreNew(t)'
  <2>1. IdsWritten(t) \cap takenid' = {}
    <3>1. IdsAreNew(t)
      BY <1>0 DEF Known
    <3>2. IdsWritten(t) \cap takenid = {}
      BY <1>0, <3>1 DEF IdsAreNew
    <3>3. IdsWritten(t) \cap IdsWritten(s) = {}
      BY HeldRowsStay
    <3>4. takenid' = IdsWritten(s) \cup takenid
      BY StoreIs
    <3> QED BY <3>2, <3>3, <3>4
  <2>2. HasProject(t) => c.project \notin DOMAIN projects'
    <3>1. HasProject(t) => DOMAIN ProjectsWritten(t) = {c.project} /\ c.project \notin DOMAIN projects
      BY <1>0, RowsWritten DEF Known, IdsAreNew
    <3>2. /\ DOMAIN ProjectsWritten(t) \cap DOMAIN ProjectsWritten(s) = {}
          /\ DOMAIN projects' = DOMAIN ProjectsWritten(s) \cup DOMAIN projects
      BY HeldRowsStay, StoreIs
    <3> QED BY <3>1, <3>2
  <2>3. HasAction(t) => c.action \notin DOMAIN actions'
    <3>1. HasAction(t) => DOMAIN ActionsWritten(t) = {c.action} /\ c.action \notin DOMAIN actions
      BY <1>0, RowsWritten DEF Known, IdsAreNew
    <3>2. /\ DOMAIN ActionsWritten(t) \cap DOMAIN ActionsWritten(s) = {}
          /\ DOMAIN actions' = DOMAIN ActionsWritten(s) \cup DOMAIN actions
      BY HeldRowsStay, StoreIs
    <3> QED BY <3>1, <3>2
  <2>4. Joined(t)' = Joined(t)
    BY HeldRowsStay
  <2> QED BY <1>0, <1>1, <1>2, <2>1, <2>2, <2>3, <2>4 DEF Known, IdsAreNew, Same
<1> QED BY <1>6, <1>7, <1>8, <1>9, <1>11, <1>12 DEF Known

LEMMA OthersStayAtTheRow ==
    ASSUME SInv, NEW s \in Prog, Committing(s), Store(s), NEW t \in Prog, t # s, Same(t),
           pc[t] = "memberRow"
    PROVE  Progress(t)' /\ Known(t)'
<1>1. Known(t) /\ writes[t] = Written(t)
  BY DEF SInv, Progress, Ending
<1>2. /\ ~CommitsAction(t) /\ ~CommitsVote(t) /\ ~HasProject(t) /\ ~HasAction(t)
      /\ ~ProjectTaken(t) /\ ~ActionTaken(t) /\ ~AuthorityTaken(t) /\ pc[t] \notin Inside
      /\ pc[t] # "commit"
  BY DEF CommitsAction, CommitsVote, HasProject, HasAction, ProjectTaken, ActionTaken,
         AuthorityTaken, Inside, Creating, Voting, Reporting
<1>3. /\ ~CommitsAction(t)' /\ ~CommitsVote(t)' /\ ~HasProject(t)' /\ ~HasAction(t)'
      /\ ~ProjectTaken(t)' /\ ~ActionTaken(t)' /\ ~AuthorityTaken(t)'
  BY <1>2 DEF Same, CommitsAction, CommitsVote, HasProject, HasAction, ProjectTaken, ActionTaken,
              AuthorityTaken
<1>4. /\ MembersWritten(t)' = MembersWritten(t) /\ ProjectsWritten(t)' = ProjectsWritten(t)
      /\ ActionsWritten(t)' = ActionsWritten(t) /\ VotesWritten(t)' = VotesWritten(t)
      /\ IdsWritten(t)' = IdsWritten(t)
  BY <1>2, <1>3
     DEF Same, MembersWritten, ProjectsWritten, ActionsWritten, VotesWritten, IdsWritten
<1>5. Progress(t)'
  BY <1>1, <1>4 DEF Same, Progress, Written
<1>6. RightFunction(t)' /\ MemberKnown(t)' /\ ProjectKnown(t)' /\ ActionKnown(t)'
  BY <1>1, <1>2, <1>3
     DEF Same, Known, RightFunction, MemberKnown, ProjectKnown, ActionKnown, Admitting, Reporting
<1>7. IdsWritten(t) \cap takenid' = {}
  <2>1. ~Clash(Written(t), Written(s))
    BY <1>1, CommittedRows DEF SInv, Apart
  <2>2. IdsWritten(t) \cap IdsWritten(s) = {}
    BY <2>1 DEF Clash, Written, Rows
  <2>3. IdsWritten(t) \cap takenid = {}
    BY <1>1 DEF Known, IdsAreNew, Ending
  <2> QED BY <2>2, <2>3, StoreIs
<1>8. IdsAreNew(t)'
  BY <1>3, <1>4, <1>7 DEF IdsAreNew
<1> QED BY <1>5, <1>6, <1>8 DEF Known

\* What a transaction has written, and what it relies on, stays right while
\* another commits.
LEMMA OthersStay ==
    ASSUME SInv, NEW s \in Prog, Committing(s), Store(s), NEW t \in Prog, t # s, Same(t)
    PROVE  Progress(t)' /\ Known(t)'
<1>1. Known(t) /\ Progress(t) /\ pc[t] \in Label
  BY DEF SInv, Shape
<1>2. RightFunction(t)'
  BY <1>1 DEF Known, RightFunction, Same
<1>3. CASE pc[t] \in Ending
  BY <1>3, KnownAtTheEnd DEF Same
<1>4. CASE pc[t] \in Starting
  <2>1. writes'[t] = NoWrites
    BY <1>1, <1>4, NothingWritten DEF Progress, Same, Starting, Admitting, Ending
  <2>2. pc'[t] \in Admitting => call'[t].member \in DOMAIN members'
    BY <1>1, StoreGrows DEF Known, MemberKnown, Same
  <2> QED BY <1>2, <1>4, <2>1, <2>2, NothingYet, KnownAtTheStart DEF Same
<1>5. CASE pc[t] \in Inside
  BY <1>5, OthersStayInside
<1>6. CASE pc[t] = "memberRow"
  BY <1>6, OthersStayAtTheRow
<1> QED BY <1>1, <1>3, <1>4, <1>5, <1>6 DEF Label, Inside

\* The branch of the handler of Party that carries out the call c.  It lacks
\* one test: the member may have been frozen since the SELECT that looked.
Accepted(c) ==
    LET m == c.member
    IN  /\ clock' = c.ts /\ reply' = "OK"
        /\ \/ /\ c.fn = "leader" /\ m \notin takenid
              /\ takenid' = takenid \cup {m}
              /\ members' = Insert(members, m,
                     [password |-> crypt(c.password), timestamp |-> c.ts, isleader |-> TRUE])
              /\ UNCHANGED <<projects, actions, votes>>
           \/ /\ c.fn = "report" /\ m \in DOMAIN members
              /\ members' = [members EXCEPT ![m].timestamp = c.ts]
              /\ UNCHANGED <<projects, actions, votes, takenid>>
           \/ /\ c.fn \in ActionType /\ Enters(m) /\ c.project \in DOMAIN projects
              /\ ActionOnProject(m, c.ts, c.password, c.fn, c.action, c.project)
           \/ /\ c.fn \in ActionType /\ Enters(m) /\ c.project \notin DOMAIN projects
              /\ ActionOnNewProject(m, c.ts, c.password, c.fn, c.action, c.project, c.authority)
           \/ /\ c.fn \in VoteType /\ Enters(m) /\ c.action \in DOMAIN actions
              /\ ~HasVoted(c.action, m)
              /\ members' = MembersAfter(m, c.ts, c.password) /\ takenid' = TakenAfter(m)
              /\ votes' = Append(votes, Ballot(c)) /\ actions' = Tallied(c.fn, c.action)
              /\ UNCHANGED projects

LEMMA AcceptedKeeps == ASSUME IInv, NEW c \in Input, Accepted(c) PROVE IInv'
<1> DEFINE m == c.member
<1>1. /\ c.ts \in Int /\ clock' \in Int /\ reply' = "OK"
      /\ c.fn # "trolls" => m \in MemberArg /\ c.password \in Password
      /\ c.fn \in ActionType \cup VoteType => c.action \in ActionArg
      /\ c.fn \in ActionType => c.project \in ProjectArg /\ c.authority \in AuthorityArg \cup {Absent}
  BY InputIs DEF Accepted
<1>2. c.fn \in ActionType \cup VoteType => c.fn # "trolls"
  BY DEF ActionType, VoteType
<1>3. CASE /\ c.fn = "leader" /\ m \notin takenid
           /\ takenid' = takenid \cup {m}
           /\ members' = Insert(members, m,
                  [password |-> crypt(c.password), timestamp |-> c.ts, isleader |-> TRUE])
           /\ UNCHANGED <<projects, actions, votes>>
  BY <1>1, <1>3, NewLeaderKeeps
<1>4. CASE /\ c.fn = "report" /\ m \in DOMAIN members
           /\ members' = [members EXCEPT ![m].timestamp = c.ts]
           /\ UNCHANGED <<projects, actions, votes, takenid>>
  BY <1>1, <1>4, ActivityKeeps
<1>5. CASE /\ c.fn \in ActionType /\ Enters(m) /\ c.project \in DOMAIN projects
           /\ ActionOnProject(m, c.ts, c.password, c.fn, c.action, c.project)
  BY <1>1, <1>2, <1>5, ActionOnProjectKeeps
<1>6. CASE /\ c.fn \in ActionType /\ Enters(m) /\ c.project \notin DOMAIN projects
           /\ ActionOnNewProject(m, c.ts, c.password, c.fn, c.action, c.project, c.authority)
  BY <1>1, <1>2, <1>6, ActionOnNewProjectKeeps
<1>7. CASE /\ c.fn \in VoteType /\ Enters(m) /\ c.action \in DOMAIN actions
           /\ ~HasVoted(c.action, m)
           /\ members' = MembersAfter(m, c.ts, c.password) /\ takenid' = TakenAfter(m)
           /\ votes' = Append(votes, Ballot(c)) /\ actions' = Tallied(c.fn, c.action)
           /\ UNCHANGED projects
  BY <1>1, <1>2, <1>7, CountedVoteKeeps DEF Ballot
<1> QED BY <1>3, <1>4, <1>5, <1>6, <1>7 DEF Accepted

\* An UPDATE as a row version.
LEMMA InsertedOver ==
    ASSUME NEW f, NEW R, f \in [DOMAIN f -> R], NEW k \in DOMAIN f, NEW r
    PROVE  Insert(f, k, r) = [f EXCEPT ![k] = r]
  BY DEF Insert

LEMMA VersionIs ==
    ASSUME SInv, NEW s, call[s].fn # "leader"
    PROVE  /\ Insert(members, call[s].member, Version(s)) =
                  MembersAfter(call[s].member, call[s].ts, call[s].password)
           /\ TakenAfter(call[s].member) = Joined(s) \cup takenid
<1> DEFINE c == call[s]
<1>1. CASE c.member \in DOMAIN members
  <2>1. Version(s) = [members[c.member] EXCEPT !.timestamp = c.ts]
    BY <1>1 DEF Version
  <2>2. Insert(members, c.member, Version(s)) = [members EXCEPT ![c.member] = Version(s)]
    BY <1>1, InsertedOver DEF SInv, IInv, TypeOK
  <2> QED BY <1>1, <2>1, <2>2 DEF MembersAfter, TakenAfter, Joined
<1>2. CASE c.member \notin DOMAIN members
  <2>1. Version(s) = [password |-> crypt(c.password), timestamp |-> c.ts, isleader |-> FALSE]
    BY <1>2 DEF Version, NewMember
  <2> QED BY <1>2, <2>1 DEF MembersAfter, TakenAfter, Joined
<1> QED BY <1>1, <1>2

LEMMA IdsCommitted ==
    ASSUME SInv, NEW s \in Prog, Committing(s)
    PROVE  IdsWritten(s) =
               IF ~CommitsAction(s) THEN Joined(s)
               ELSE Joined(s) \cup {call[s].action}
                    \cup (IF known[s] THEN {} ELSE {call[s].project})
                    \cup (IF known[s] \/ listed[s] THEN {} ELSE {call[s].authority})
<1>1. pc[s] \in Inside /\ pc[s] # "memberRow" /\ pc[s] \notin {"actionTaken", "authorityTaken"}
  BY DEF Committing, Inside, Reporting
<1>2. /\ ProjectTaken(s) <=> CommitsAction(s) /\ ~known[s]
      /\ ActionTaken(s) <=> CommitsAction(s)
      /\ AuthorityTaken(s) <=> CommitsAction(s) /\ ~(known[s] \/ listed[s])
  BY <1>1 DEF ProjectTaken, ActionTaken, AuthorityTaken
<1>3. CASE CommitsAction(s)
  BY <1>1, <1>2, <1>3 DEF IdsWritten
<1>4. CASE ~CommitsAction(s)
  BY <1>1, <1>2, <1>4 DEF IdsWritten
<1> QED BY <1>3, <1>4

LEMMA MemberEnters ==
    ASSUME SInv, NEW s \in Prog, Committing(s)
    PROVE  Enters(call[s].member)
  BY CommittedRows DEF Joined, Enters, Joins

LEMMA TablesCommitted ==
    ASSUME SInv, NEW s \in Prog, Committing(s), Store(s)
    PROVE  /\ projects' = IF CommitsAction(s) /\ ~known[s]
                          THEN Insert(projects, call[s].project, call[s].authority) ELSE projects
           /\ CommitsAction(s) => actions' = Insert(actions, call[s].action,
                  NewAction(call[s].member, call[s].fn, call[s].project, AuthorityFound(s)))
           /\ CommitsVote(s) => actions' = Insert(actions, call[s].action,
                  Counted(actions[call[s].action], call[s].fn))
           /\ ~CommitsAction(s) /\ ~CommitsVote(s) => actions' = actions
<1>1. projects' = Over(ProjectsWritten(s), projects) /\ actions' = Over(ActionsWritten(s), actions)
  BY StoreIs
<1>2. /\ HasProject(s) <=> CommitsAction(s) /\ ~known[s]
      /\ HasAction(s) <=> CommitsAction(s)
  BY CommittedRows
<1>3. Over(EmptyTable, projects) = projects /\ Over(EmptyTable, actions) = actions
  BY OverEmpty DEF SInv, IInv, TypeOK
<1>4. \A k, r : /\ Over(Row(k, r), projects) = Insert(projects, k, r)
                /\ Over(Row(k, r), actions) = Insert(actions, k, r)
  BY OverRow
<1>5. CommitsVote(s) => ~CommitsAction(s)
  BY DEF CommitsVote, CommitsAction, ActionType, VoteType
<1>6. projects' = IF CommitsAction(s) /\ ~known[s]
                  THEN Insert(projects, call[s].project, call[s].authority) ELSE projects
  BY <1>1, <1>2, <1>3, <1>4 DEF ProjectsWritten
<1>7. CASE CommitsAction(s)
  BY <1>1, <1>2, <1>4, <1>5, <1>6, <1>7 DEF ActionsWritten
<1>8. CASE CommitsVote(s)
  BY <1>1, <1>2, <1>4, <1>5, <1>6, <1>8 DEF ActionsWritten
<1>9. CASE ~CommitsAction(s) /\ ~CommitsVote(s)
  BY <1>1, <1>2, <1>3, <1>6, <1>9 DEF ActionsWritten
<1> QED BY <1>7, <1>8, <1>9

LEMMA leaderCommits ==
    ASSUME SInv, NEW s \in Prog, pc[s] = "commit", call[s].fn = "leader",
           Store(s), Settle(s, "OK")
    PROVE  Accepted(call[s])
<1> DEFINE c == call[s]
<1>1. c.member \notin DOMAIN members
  BY DEF SInv, Known, MemberKnown
<1>2. Joined(s) = {c.member} /\ Version(s) = NewMember(c)
  BY <1>1 DEF Joined, Version
<1>3. ~CommitsAction(s) /\ ~CommitsVote(s) /\ Committing(s)
  BY DEF CommitsAction, CommitsVote, ActionType, VoteType, Committing
<1>4. IdsWritten(s) = Joined(s) /\ Joined(s) \cap takenid = {}
  BY <1>3, IdsCommitted, CommittedRows
<1>5. UNCHANGED <<projects, actions, votes>>
  BY <1>3, TablesCommitted, StoreIs
<1>6. members' = Insert(members, c.member, NewMember(c)) /\ takenid' = IdsWritten(s) \cup takenid
  BY <1>2, <1>3, StoreIs
<1> QED BY <1>2, <1>4, <1>5, <1>6 DEF Accepted, Settle, NewMember

LEMMA reportCommits ==
    ASSUME SInv, NEW s \in Prog, pc[s] = "commitReport", Store(s), Settle(s, "OK")
    PROVE  Accepted(call[s])
<1> DEFINE c == call[s]
<1>1. c.member \in DOMAIN members /\ c.fn = "report"
  BY DEF SInv, Known, MemberKnown, RightFunction, Reporting
<1>2. Joined(s) = {}
  BY <1>1 DEF Joined
<1>3. ~CommitsAction(s) /\ ~CommitsVote(s) /\ Committing(s)
  BY DEF CommitsAction, CommitsVote, Committing
<1>4. UNCHANGED <<projects, actions, votes>>
  BY <1>3, TablesCommitted, StoreIs
<1>5. takenid' = takenid
  <2>1. IdsWritten(s) = {}
    BY <1>2, <1>3, IdsCommitted
  <2> QED BY <1>3, <2>1, StoreIs
<1>6. members' = MembersAfter(c.member, c.ts, c.password)
  BY <1>1, <1>3, StoreIs, VersionIs
<1>7. members' = [members EXCEPT ![c.member].timestamp = c.ts]
  BY <1>1, <1>6 DEF MembersAfter
<1> QED BY <1>1, <1>4, <1>5, <1>7 DEF Accepted, Settle

LEMMA actionCommits ==
    ASSUME SInv, NEW s \in Prog, CommitsAction(s), Store(s), Settle(s, "OK")
    PROVE  Accepted(call[s])
<1> DEFINE c == call[s]
           m == c.member
<1>1. /\ Committing(s) /\ c.fn \in ActionType /\ c.fn # "leader" /\ Known(s)
      /\ pc[s] = "commit" /\ ~CommitsVote(s)
  BY DEF CommitsAction, CommitsVote, ActionType, VoteType, SInv, Committing
<1>2. Enters(m)
  BY <1>1, MemberEnters
<1>3. /\ members' = MembersAfter(m, c.ts, c.password) /\ TakenAfter(m) = Joined(s) \cup takenid
      /\ votes' = votes /\ takenid' = IdsWritten(s) \cup takenid
  BY <1>1, StoreIs, VersionIs
<1>4. /\ HasProject(s) <=> ~known[s]
      /\ HasAction(s) /\ ActionTaken(s) /\ (ProjectTaken(s) <=> ~known[s])
      /\ AuthorityTaken(s) <=> ~(known[s] \/ listed[s])
  BY <1>1, CommittedRows DEF ActionTaken, ProjectTaken, AuthorityTaken
<1>5. IdsWritten(s) = Joined(s) \cup {c.action}
                      \cup (IF known[s] THEN {} ELSE {c.project})
                      \cup (IF known[s] \/ listed[s] THEN {} ELSE {c.authority})
  BY <1>1, IdsCommitted
<1>6. IdsWritten(s) \cap takenid = {} /\ c.action \notin Joined(s)
  BY <1>1, <1>4 DEF Known, IdsAreNew, Ending
<1>7. c.action \notin TakenAfter(m)
  BY <1>3, <1>5, <1>6
<1>8. actions' = Insert(actions, c.action, NewAction(m, c.fn, c.project, AuthorityFound(s)))
  BY <1>1, TablesCommitted
<1>9. CASE known[s]
  <2>1. c.project \in DOMAIN projects
    BY <1>1, <1>9 DEF Known, ProjectKnown
  <2>2. AuthorityFound(s) = projects[c.project] /\ projects' = projects
    BY <1>1, <1>9, TablesCommitted DEF AuthorityFound
  <2>3. takenid' = TakenAfter(m) \cup {c.action}
    BY <1>3, <1>5, <1>9
  <2>4. ActionOnProject(m, c.ts, c.password, c.fn, c.action, c.project)
    BY <1>3, <1>7, <1>8, <2>2, <2>3 DEF ActionOnProject, Settle
  <2> QED BY <1>1, <1>2, <2>1, <2>4 DEF Accepted, Settle
<1>10. CASE ~known[s]
  <2>1. /\ c.authority # Absent /\ (listed[s] => c.authority \in Authorities)
        /\ c.project \notin DOMAIN projects /\ c.action # c.project /\ c.project \notin Joined(s)
        /\ ~listed[s] => c.authority \notin Joined(s) \cup {c.project, c.action}
    BY <1>1, <1>4, <1>10 DEF Known, ProjectKnown, IdsAreNew
  <2>2. Authorities \subseteq takenid
    BY DEF SInv, IInv, TakenIsExact
  <2>3. c.project \notin takenid
    BY <1>5, <1>6, <1>10
  <2>4. c.authority \in Authorities <=> listed[s]
    BY <1>5, <1>6, <1>10, <2>1, <2>2
  <2>5. Checked(c.action, c.project, c.authority) =
            {c.action, c.project} \cup (IF listed[s] THEN {} ELSE {c.authority})
    BY <2>4 DEF Checked
  <2>6. ~IdsRejected(m, c.action, c.project, c.authority)
    BY <1>3, <1>5, <1>6, <1>10, <2>1, <2>2, <2>3, <2>4, <2>5 DEF IdsRejected
  <2>7. ~InsertedTwice(c.action, c.authority)
    BY <2>1, <2>4 DEF InsertedTwice
  <2>8. projects' = Insert(projects, c.project, c.authority) /\ AuthorityFound(s) = c.authority
    BY <1>1, <1>10, TablesCommitted DEF AuthorityFound
  <2>9. takenid' = TakenAfter(m) \cup {c.project, c.action} \cup Checked(c.action, c.project, c.authority)
    BY <1>3, <1>5, <1>10, <2>5
  <2>10. ActionOnNewProject(m, c.ts, c.password, c.fn, c.action, c.project, c.authority)
    BY <1>3, <1>8, <2>1, <2>6, <2>7, <2>8, <2>9 DEF ActionOnNewProject, Settle
  <2> QED BY <1>1, <1>2, <2>1, <2>10 DEF Accepted, Settle
<1> QED BY <1>9, <1>10

LEMMA voteCommits ==
    ASSUME SInv, NEW s \in Prog, CommitsVote(s), Store(s), Settle(s, "OK")
    PROVE  Accepted(call[s])
<1> DEFINE c == call[s]
           m == c.member
<1>1. /\ Committing(s) /\ c.fn \in VoteType /\ c.fn # "leader" /\ Known(s) /\ ~CommitsAction(s)
  BY DEF CommitsAction, CommitsVote, ActionType, VoteType, SInv, Committing
<1>2. Enters(m)
  BY <1>1, MemberEnters
<1>3. c.action \in DOMAIN actions /\ ~HasVoted(c.action, m)
  BY <1>1 DEF Known, ActionKnown
<1>4. /\ members' = MembersAfter(m, c.ts, c.password) /\ TakenAfter(m) = Joined(s) \cup takenid
      /\ votes' = Append(votes, Ballot(c)) /\ takenid' = IdsWritten(s) \cup takenid
  BY <1>1, StoreIs, VersionIs
<1>5. takenid' = TakenAfter(m)
  BY <1>1, <1>4, IdsCommitted
<1>6. projects' = projects /\ actions' = Insert(actions, c.action, Counted(actions[c.action], c.fn))
  BY <1>1, TablesCommitted
<1>7. Insert(actions, c.action, Counted(actions[c.action], c.fn))
        = [actions EXCEPT ![c.action] = Counted(actions[c.action], c.fn)]
  BY <1>3, InsertedOver DEF SInv, IInv, TypeOK
<1>8. actions' = Tallied(c.fn, c.action)
  BY <1>6, <1>7 DEF Tallied, Counted
<1> QED BY <1>1, <1>2, <1>3, <1>4, <1>5, <1>6, <1>8 DEF Accepted, Settle

\* Whatever other programs have done in between, a commit stores what the
\* handler of Party would for the same call.
LEMMA CommitIsAccepted ==
    ASSUME SInv, NEW s \in Prog, Committing(s), Store(s), Settle(s, "OK")
    PROVE  Accepted(call[s])
<1>1. pc[s] = "commit" => call[s].fn \in {"leader"} \cup ActionType \cup VoteType
  BY DEF SInv, Known, RightFunction
<1> QED BY <1>1, leaderCommits, reportCommits, actionCommits, voteCommits
        DEF Committing, CommitsAction, CommitsVote

LEMMA StoreKeeps ==
    ASSUME SInv, NEW s \in Prog, Committing(s), Store(s), Settle(s, "OK"),
           Goto(s, IF pc[s] = "commit" THEN "confirmation" ELSE "idle"),
           UNCHANGED <<call, known, listed>>
    PROVE  SInv'
<1>1. call[s] \in Input
  BY DEF SInv, Shape, Committing
<1>2. IInv'
  BY <1>1, CommitIsAccepted, AcceptedKeeps DEF SInv
<1>3. DOMAIN writes' = Prog /\ writes'[s] = NoWrites /\ \A t \in Prog : t # s => writes'[t] = writes[t]
  BY DiscardIs DEF Store
<1>4. /\ pc'[s] \in {"confirmation", "idle"} /\ (pc'[s] = "confirmation" => pc[s] = "commit")
      /\ call'[s] = call[s]
  BY DEF SInv, Shape, Goto
<1>5. Shape'
  BY <1>3 DEF SInv, Shape, Goto, Label, Starting
<1>6. \A t \in Prog : t # s => Same(t)
  BY <1>3 DEF SInv, Shape, Goto, Same
<1>7. \A w : ~Clash(NoWrites, w)
  BY DEF Clash, NoWrites, Rows, EmptyTable
<1>8. Apart'
  BY <1>3, <1>7, ClashIsMutual DEF SInv, Apart
<1>9. Progress(s)' /\ Known(s)'
  <2>1. RightFunction(s)'
    BY <1>4 DEF SInv, Known, RightFunction, Reporting, Joining, Creating, Voting
  <2> QED BY <1>3, <1>4, <2>1, NothingYet, KnownAtTheStart DEF Starting, Admitting
<1>10. ASSUME NEW t \in Prog, t # s PROVE Progress(t)' /\ Known(t)'
  BY <1>6, <1>10, OthersStay
<1> QED BY <1>2, <1>5, <1>8, <1>9, <1>10 DEF SInv

-----------------------------------------------------------------------------
(* The invariant *)

LEMMA SessionInitEstablishes == SessionInit => SInv
<1> SUFFICES ASSUME SessionInit PROVE SInv
  OBVIOUS
<1>1. IInv /\ clock \in Int
  BY InitEstablishes, TimestampAssumption DEF SessionInit, CallsInit, Init
<1>2. Shape
  BY <1>1 DEF SessionInit, Shape, Label, Starting
<1>3. \A s \in Prog : pc[s] = "idle" /\ writes[s] = NoWrites
  BY DEF SessionInit
<1>4. Apart
  BY <1>3 DEF Apart, Clash, NoWrites, Rows, EmptyTable
<1>5. ASSUME NEW s \in Prog PROVE Progress(s) /\ Known(s)
  <2>1. Progress(s)
    BY <1>3, NothingWritten DEF Progress, Starting
  <2>2. ~CommitsAction(s) /\ ~CommitsVote(s) /\ ~HasProject(s) /\ ~HasAction(s)
        /\ ~ProjectTaken(s) /\ ~ActionTaken(s) /\ ~AuthorityTaken(s) /\ pc[s] \notin Inside
        /\ pc[s] \notin Admitting /\ pc[s] \notin Joining /\ pc[s] \notin Reporting
        /\ pc[s] \notin Creating /\ pc[s] \notin Voting
    BY <1>3 DEF CommitsAction, CommitsVote, HasProject, HasAction, ProjectTaken, ActionTaken,
                AuthorityTaken, Inside, Admitting, Joining, Creating, Voting, Reporting
  <2>3. RightFunction(s) /\ MemberKnown(s) /\ ProjectKnown(s) /\ ActionKnown(s)
    BY <1>3, <2>2 DEF RightFunction, MemberKnown, ProjectKnown, ActionKnown
  <2>4. IdsAreNew(s)
    BY <1>3, <2>2 DEF IdsAreNew, IdsWritten
  <2> QED BY <2>1, <2>3, <2>4 DEF Known
<1> QED BY <1>1, <1>2, <1>4, <1>5 DEF SInv

LEMMA commitKeeps == ASSUME SInv, NEW s \in Prog, commit(s) \/ commitReport(s) PROVE SInv'
<1>1. /\ Committing(s) /\ Store(s) /\ Settle(s, "OK") /\ UNCHANGED <<call, known, listed>>
      /\ Goto(s, IF pc[s] = "commit" THEN "confirmation" ELSE "idle")
  BY DEF commit, commitReport, Committing
<1> QED BY <1>1, StoreKeeps

LEMMA SessionNextKeeps == SInv /\ [SessionNext]_sessionVars => SInv'
<1> SUFFICES ASSUME SInv, [SessionNext]_sessionVars PROVE SInv'
  OBVIOUS
<1>1. CASE UNCHANGED sessionVars
  <2>1. UNCHANGED <<callsVars, pc, call, known, listed, writes>>
    BY <1>1 DEF sessionVars, local
  <2>2. UNCHANGED tables /\ clock' \in Int /\ reply' \in Reply
    BY <2>1, StatusIsTyped
  <2>3. IInv'
    BY <2>2, UnchangedTables DEF SInv
  <2>4. Shape' /\ Apart'
    BY <2>1 DEF SInv, Shape, Apart
  <2>5. \A t \in Prog : Same(t)
    BY <2>1 DEF Same
  <2>6. \A t \in Prog : Progress(t)' /\ Known(t)'
    BY <2>2, <2>5, SameStays DEF SInv
  <2> QED BY <2>3, <2>4, <2>6 DEF SInv
<1>2. ASSUME NEW s \in Prog, read(s) \/ Statement(s) \/ deadlockDetected(s) \/ crash(s)
      PROVE  SInv'
  <2>1. CASE read(s)
    BY <2>1, readKeeps
  <2>2. CASE leaderStatement(s) \/ memberStatement(s)
    BY <2>2, leaderStatementKeeps, memberStatementKeeps
  <2>3. CASE projectStatement(s) \/ authorityStatement(s) \/ actionStatement(s)
    BY <2>3, projectStatementKeeps, authorityStatementKeeps, actionStatementKeeps
  <2>4. CASE voteStatement(s)
    BY <2>4, voteStatementKeeps
  <2>5. CASE reportStatement(s) \/ printReport(s)
    BY <2>5, reportStatementKeeps, printReportKeeps
  <2>6. CASE commit(s) \/ commitReport(s)
    BY <2>6, commitKeeps
  <2>7. CASE trollsStatement(s) \/ printNegation(s)
    BY <2>7, AnsweredKeeps
  <2>8. CASE printConfirmation(s) \/ rollback(s) \/ crash(s) \/ deadlockDetected(s)
    BY <2>8, LeavingKeeps
  <2> QED BY <1>2, <2>1, <2>2, <2>3, <2>4, <2>5, <2>6, <2>7, <2>8 DEF Statement
<1> QED BY <1>1, <1>2 DEF SessionNext

-----------------------------------------------------------------------------
(* Theorems *)

\* However the statements of the programs interleave, at each of them the open
\* transaction has written what its handler had to write up to there, no two
\* transactions hold one row, and the tables are as Party's invariant says.
THEOREM SessionInductive == SessionSpec => []SInv
<1> QED BY SessionInitEstablishes, SessionNextKeeps, PTL DEF SessionSpec

\* No identifier stands for two kinds of things, although each program looks
\* for it in one statement and inserts it in a later one.
THEOREM SessionIdentifiersAreUnique == SessionSpec => []GlobalUniqueness
<1>1. SInv => GlobalUniqueness
  BY DEF SInv, IInv
<1> QED BY <1>1, SessionInductive, PTL

\* A member has one vote on an action, although votes has no key and the test
\* for an earlier vote is a statement of its own.
THEOREM SessionVotesAreSingle == SessionSpec => []OneVotePerMember
<1>1. SInv => OneVotePerMember
  BY DEF SInv, IInv
<1> QED BY <1>1, SessionInductive, PTL

\* The counters of an action are the numbers of its votes, although the votes
\* of several programs count at the same time.
THEOREM SessionCountersAreRight == SessionSpec => []CountersMatchVotes
<1>1. SInv => CountersMatchVotes
  BY DEF SInv, IInv
<1> QED BY <1>1, SessionInductive, PTL

\* takenid holds the identifiers of the other tables and no others.
THEOREM SessionTakenIsExact == SessionSpec => []TakenIsExact
<1>1. SInv => TakenIsExact
  BY DEF SInv, IInv
<1> QED BY <1>1, SessionInductive, PTL

\* A commit changes the tables as the handler of Party does in one step.
THEOREM CommitsAreHandlers ==
    SessionSpec => [][\A s \in Prog : commit(s) \/ commitReport(s) => Accepted(call[s])]_sessionVars
<1>1. SInv /\ [SessionNext]_sessionVars =>
        [\A s \in Prog : commit(s) \/ commitReport(s) => Accepted(call[s])]_sessionVars
  <2> SUFFICES ASSUME SInv, NEW s \in Prog, commit(s) \/ commitReport(s)
               PROVE  Accepted(call[s])
    OBVIOUS
  <2>1. Committing(s) /\ Store(s) /\ Settle(s, "OK")
    BY DEF commit, commitReport, Committing
  <2> QED BY <2>1, CommitIsAccepted
<1> QED BY <1>1, SessionInductive, PTL DEF SessionSpec

-----------------------------------------------------------------------------
(* What was confirmed is stored. *)

\* What no step of the registry takes back: an action stays its member's, a
\* vote stays, a leader stays a leader.
Lasting ==
    /\ \A a \in DOMAIN actions :
           a \in DOMAIN actions' /\ actions'[a].memberid = actions[a].memberid
    /\ \A i \in DOMAIN votes : i \in DOMAIN votes' /\ votes'[i] = votes[i]
    /\ \A m \in DOMAIN members :
           m \in DOMAIN members' /\ members'[m].isleader = members[m].isleader

LEMMA StoredLasts ==
    ASSUME Lasting, NEW c, c.fn \in {"leader"} \cup ActionType \cup VoteType, Stored(c)
    PROVE  Stored(c)'
  BY DEF Lasting, Stored, HasVoted, ActionType, VoteType

LEMMA MembersLast ==
    ASSUME TypeOK, NEW m, NEW ts, NEW pw, NEW n \in DOMAIN members
    PROVE  /\ n \in DOMAIN MembersAfter(m, ts, pw)
           /\ MembersAfter(m, ts, pw)[n].isleader = members[n].isleader
<1>1. CASE m \in DOMAIN members
  BY <1>1 DEF MembersAfter, TypeOK, MemberRow
<1>2. CASE m \notin DOMAIN members
  BY <1>2 DEF MembersAfter, Insert
<1> QED BY <1>1, <1>2

LEMMA AcceptedLasts == ASSUME IInv, NEW c, Accepted(c) PROVE Lasting
<1> USE DEF Lasting
<1> DEFINE m == c.member
<1>0. TypeOK /\ TakenIsExact
  BY DEF IInv
<1>1. CASE /\ m \notin takenid
           /\ members' = Insert(members, m,
                  [password |-> crypt(c.password), timestamp |-> c.ts, isleader |-> TRUE])
           /\ UNCHANGED <<projects, actions, votes>>
  BY <1>0, <1>1 DEF Insert, TakenIsExact
<1>2. CASE /\ m \in DOMAIN members
           /\ members' = [members EXCEPT ![m].timestamp = c.ts]
           /\ UNCHANGED <<projects, actions, votes, takenid>>
  BY <1>0, <1>2 DEF TypeOK, MemberRow
<1>3. CASE /\ reply' = "OK" /\ c.project \in DOMAIN projects
           /\ ActionOnProject(m, c.ts, c.password, c.fn, c.action, c.project)
  <2>1. /\ c.action \notin TakenAfter(m) /\ members' = MembersAfter(m, c.ts, c.password)
        /\ actions' = Insert(actions, c.action, NewAction(m, c.fn, c.project, projects[c.project]))
        /\ votes' = votes
    BY <1>3 DEF ActionOnProject, Reject
  <2>2. c.action \notin DOMAIN actions
    BY <1>0, <2>1 DEF TakenAfter, TakenIsExact
  <2> QED BY <1>0, <2>1, <2>2, MembersLast DEF Insert
<1>4. CASE /\ reply' = "OK"
           /\ ActionOnNewProject(m, c.ts, c.password, c.fn, c.action, c.project, c.authority)
  <2>1. /\ ~IdsRejected(m, c.action, c.project, c.authority)
        /\ members' = MembersAfter(m, c.ts, c.password)
        /\ actions' = Insert(actions, c.action, NewAction(m, c.fn, c.project, c.authority))
        /\ votes' = votes
    BY <1>4 DEF ActionOnNewProject, Reject, Terminate
  <2>2. c.action \notin DOMAIN actions
    BY <1>0, <2>1 DEF IdsRejected, Checked, TakenAfter, TakenIsExact
  <2> QED BY <1>0, <2>1, <2>2, MembersLast DEF Insert
<1>5. CASE /\ members' = MembersAfter(m, c.ts, c.password)
           /\ votes' = Append(votes, Ballot(c)) /\ actions' = Tallied(c.fn, c.action)
  <2>1. \A a \in DOMAIN actions :
           a \in DOMAIN actions' /\ actions'[a].memberid = actions[a].memberid
    BY <1>0, <1>5 DEF Tallied, TypeOK, ActionRow
  <2>2. \A i \in DOMAIN votes : i \in DOMAIN votes' /\ votes'[i] = votes[i]
    BY <1>0, <1>5 DEF TypeOK
  <2> QED BY <1>0, <1>5, <2>1, <2>2, MembersLast
<1> QED BY <1>1, <1>2, <1>3, <1>4, <1>5 DEF Accepted

LEMMA AcceptedIsStored ==
    ASSUME IInv, NEW c, c.fn \in {"leader"} \cup ActionType \cup VoteType, Accepted(c)
    PROVE  Stored(c)'
<1>1. CASE c.fn = "leader"
  <2>1. members' = Insert(members, c.member,
            [password |-> crypt(c.password), timestamp |-> c.ts, isleader |-> TRUE])
    BY <1>1 DEF Accepted, ActionType, VoteType
  <2>2. c.member \in DOMAIN members' /\ members'[c.member].isleader
    BY <2>1 DEF Insert
  <2> QED BY <1>1, <2>2 DEF Stored, ActionType, VoteType
<1>2. CASE c.fn \in ActionType
  <2>1. \E auth : actions' = Insert(actions, c.action, NewAction(c.member, c.fn, c.project, auth))
    <3>1. reply' = "OK"
      BY DEF Accepted
    <3>2. \/ ActionOnProject(c.member, c.ts, c.password, c.fn, c.action, c.project)
          \/ ActionOnNewProject(c.member, c.ts, c.password, c.fn, c.action, c.project, c.authority)
      BY <1>2 DEF Accepted, ActionType, VoteType
    <3> QED BY <3>1, <3>2 DEF ActionOnProject, ActionOnNewProject, Reject, Terminate
  <2>2. c.action \in DOMAIN actions' /\ actions'[c.action].memberid = c.member
    BY <2>1 DEF Insert, NewAction
  <2>3. Stored(c)' <=> c.action \in DOMAIN actions' /\ actions'[c.action].memberid = c.member
    <3>1. c.fn \notin VoteType /\ c.fn # "leader" /\ c.fn # "report" /\ c.fn # "trolls"
      BY <1>2 DEF ActionType, VoteType
    <3> QED BY <1>2, <3>1 DEF Stored
  <2> QED BY <2>2, <2>3
<1>3. CASE c.fn \in VoteType
  <2>1. /\ c.action \in DOMAIN actions /\ votes' = Append(votes, Ballot(c))
        /\ actions' = Tallied(c.fn, c.action)
    BY <1>3 DEF Accepted, ActionType, VoteType
  <2>2. votes \in Seq(VoteRow)
    BY DEF IInv, TypeOK
  <2>3. Len(votes) + 1 \in DOMAIN votes' /\ votes'[Len(votes) + 1] = Ballot(c)
    BY <2>1, <2>2
  <2>4. HasVoted(c.action, c.member)'
    BY <2>3 DEF HasVoted, Ballot
  <2>5. c.action \in DOMAIN actions'
    BY <2>1 DEF Tallied
  <2>6. c.fn \notin ActionType /\ c.fn # "leader" /\ c.fn # "report" /\ c.fn # "trolls"
    BY <1>3 DEF ActionType, VoteType
  <2>7. Stored(c)' <=> c.action \in DOMAIN actions' /\ HasVoted(c.action, c.member)'
    BY <1>3, <2>6 DEF Stored
  <2> QED BY <2>4, <2>5, <2>7
<1> QED BY <1>1, <1>2, <1>3

Modifying == {"leader"} \cup ActionType \cup VoteType

\* ConfirmedIsStored, and the same for the answers about to be printed.
ConfirmedInv ==
    /\ \A line \in output : line[2] = "OK" /\ line[1].fn \in Modifying => Stored(line[1])
    /\ \A s \in Prog : pc[s] = "confirmation" => Stored(call[s])

\* A step of s that stores and prints nothing.
Quiet(s) ==
    /\ UNCHANGED <<tables, output>>
    /\ \A t \in Prog : pc'[t] = "confirmation" => pc[t] = "confirmation" /\ call'[t] = call[t]

LEMMA QuietKinds ==
    ASSUME SInv, NEW s \in Prog, NEW label, NEW next, next # "confirmation",
           Select(s, label, next) \/ Update(s, label, next) \/ InsertRow(s, label, next) \/ Throw(s)
    PROVE  Quiet(s)
<1>1. CASE Select(s, label, next)
  BY <1>1 DEF Select, callsVars, vars, tables, Quiet, Goto, SInv, Shape
<1>2. CASE Throw(s)
  BY <1>2 DEF Throw, Quiet, Goto, SInv, Shape
<1>3. CASE Update(s, label, next)
  BY <1>3 DEF Update, callsVars, vars, tables, Quiet, Goto, SInv, Shape
<1> QED BY <1>1, <1>2, <1>3 DEF InsertRow

LEMMA QuietSteps ==
    ASSUME SInv, NEW s \in Prog,
           \/ read(s) \/ leaderStatement(s) \/ memberStatement(s) \/ projectStatement(s)
           \/ authorityStatement(s) \/ actionStatement(s) \/ voteStatement(s) \/ reportStatement(s)
           \/ rollback(s) \/ deadlockDetected(s) \/ crash(s)
    PROVE  Quiet(s)
<1>1. CASE read(s)
  <2>1. PICK c \in Input : call' = [call EXCEPT ![s] = c] /\ Goto(s, Entry(c.fn))
    BY <1>1 DEF read
  <2>2. Entry(c.fn) # "confirmation"
    BY InputIs DEF Entry, ActionType, VoteType
  <2>3. UNCHANGED <<tables, output>>
    BY <1>1 DEF read, callsVars, vars, tables
  <2> QED BY <2>1, <2>2, <2>3 DEF Quiet, Goto, SInv, Shape
<1>2. CASE rollback(s) \/ crash(s)
  BY <1>2 DEF rollback, crash, callsVars, vars, tables, Quiet, Goto, SInv, Shape
<1>3. CASE deadlockDetected(s)
  BY <1>3, QuietKinds DEF deadlockDetected
<1>4. CASE projectStatement(s)
  BY <1>4 DEF projectStatement, callsVars, vars, tables, Quiet, Goto, SInv, Shape
<1>5. CASE authorityStatement(s)
  BY <1>5, QuietKinds
     DEF authorityStatement, callsVars, vars, tables, Quiet, Goto, SInv, Shape
<1>6. CASE leaderStatement(s) \/ reportStatement(s)
  <2>1. PICK label, next : Select(s, label, next) /\ next # "confirmation"
    BY <1>6 DEF leaderStatement, reportStatement
  <2> QED BY <2>1, QuietKinds
<1>7. CASE memberStatement(s)
  <2>1. PICK label, next : next # "confirmation" /\
            (Select(s, label, next) \/ Update(s, label, next) \/ InsertRow(s, label, next))
    BY <1>7 DEF memberStatement, UnlessFrozen
  <2> QED BY <2>1, QuietKinds
<1>8. CASE actionStatement(s)
  <2>1. PICK label, next : next # "confirmation" /\
            (Select(s, label, next) \/ Update(s, label, next) \/ InsertRow(s, label, next))
    BY <1>8 DEF actionStatement
  <2> QED BY <2>1, QuietKinds
<1>9. CASE voteStatement(s)
  <2>1. PICK label, next : next # "confirmation" /\
            (Select(s, label, next) \/ Update(s, label, next) \/ InsertRow(s, label, next))
    BY <1>9 DEF voteStatement
  <2> QED BY <2>1, QuietKinds
<1> QED BY <1>1, <1>2, <1>3, <1>4, <1>5, <1>6, <1>7, <1>8, <1>9

LEMMA UnchangedLasts == ASSUME UNCHANGED tables PROVE Lasting
  BY DEF tables, Lasting

LEMMA ConfirmedInvNext ==
    ASSUME \A line \in output' : line[2] = "OK" /\ line[1].fn \in Modifying => Stored(line[1])',
           \A t \in Prog : \A c : pc'[t] = "confirmation" /\ c = call'[t] => Stored(c)'
    PROVE  ConfirmedInv'
<1>1. \A t \in Prog : pc'[t] = "confirmation" => Stored(call[t])'
  BY DEF Stored, HasVoted
<1> QED BY <1>1 DEF ConfirmedInv

LEMMA ConfirmedNext ==
    SInv /\ ConfirmedInv /\ [SessionNext]_sessionVars => ConfirmedInv'
<1> SUFFICES ASSUME SInv, ConfirmedInv, [SessionNext]_sessionVars PROVE ConfirmedInv'
  OBVIOUS
<1>1. \A s \in Prog : pc[s] = "confirmation" => call[s].fn \in Modifying
  BY DEF SInv, Known, RightFunction, Modifying
<1>2. ASSUME NEW s \in Prog, Quiet(s) PROVE ConfirmedInv'
  <2>1. Lasting /\ output' = output
    BY <1>2, UnchangedLasts DEF Quiet
  <2>2. \A line \in output' : line[2] = "OK" /\ line[1].fn \in Modifying => Stored(line[1])'
    BY <2>1, StoredLasts DEF ConfirmedInv, Modifying
  <2>3. \A t \in Prog : \A c : pc'[t] = "confirmation" /\ c = call'[t] => Stored(c)'
    BY <1>1, <1>2, <2>1, StoredLasts DEF ConfirmedInv, Quiet, Modifying
  <2> QED BY <2>2, <2>3, ConfirmedInvNext
<1>3. ASSUME NEW s \in Prog, commit(s) \/ commitReport(s) PROVE ConfirmedInv'
  <2>1. /\ Committing(s) /\ Store(s) /\ Settle(s, "OK") /\ output' = output
        /\ UNCHANGED call /\ (pc'[s] = "confirmation" => pc[s] = "commit")
        /\ \A t \in Prog : t # s => pc'[t] = pc[t]
    BY <1>3 DEF commit, commitReport, Committing, Goto, SInv, Shape
  <2>2. Accepted(call[s]) /\ IInv
    BY <2>1, CommitIsAccepted DEF SInv
  <2>3. Lasting
    BY <2>2, AcceptedLasts
  <2>4. \A line \in output' : line[2] = "OK" /\ line[1].fn \in Modifying => Stored(line[1])'
    BY <2>1, <2>3, StoredLasts DEF ConfirmedInv, Modifying
  <2>5. \A c : pc[s] = "commit" /\ c = call[s] => Stored(c)'
    <3>1. pc[s] = "commit" => call[s].fn \in Modifying
      BY DEF SInv, Known, RightFunction, Modifying
    <3> QED BY <2>2, <3>1, AcceptedIsStored DEF Modifying
  <2>6. \A t \in Prog : \A c : pc[t] = "confirmation" /\ c = call[t] => Stored(c)'
    BY <1>1, <2>3, StoredLasts DEF ConfirmedInv, Modifying
  <2>7. \A t \in Prog : \A c : pc'[t] = "confirmation" /\ c = call'[t] => Stored(c)'
    BY <2>1, <2>5, <2>6
  <2> QED BY <2>4, <2>7, ConfirmedInvNext
<1>4. ASSUME NEW s \in Prog,
             printReport(s) \/ trollsStatement(s) \/ printConfirmation(s) \/ printNegation(s)
      PROVE  ConfirmedInv'
  <2>1. /\ UNCHANGED <<tables, call>> /\ pc'[s] # "confirmation"
        /\ \A t \in Prog : t # s => pc'[t] = pc[t]
    BY <1>4 DEF printReport, trollsStatement, printConfirmation, printNegation, Goto, SInv, Shape,
                callsVars, vars, tables
  <2>2. Lasting
    BY <2>1, UnchangedLasts
  <2>3. PICK answer : /\ output' = output \cup {<<call[s], answer>>}
                      /\ answer = "OK" => call[s].fn \notin Modifying \/ pc[s] = "confirmation"
    <3>1. CASE printReport(s) \/ trollsStatement(s)
      <4>1. output' = output \cup {<<call[s], "OK">>}
        BY <3>1 DEF printReport, trollsStatement, Answer
      <4>2. call[s].fn \notin Modifying
        BY <3>1 DEF printReport, trollsStatement, SInv, Known, RightFunction, Reporting, Modifying,
                    ActionType, VoteType
      <4> QED BY <4>1, <4>2
    <3>2. CASE printConfirmation(s)
      BY <3>2 DEF printConfirmation, Answer
    <3>3. CASE printNegation(s)
      BY <3>3 DEF printNegation, Answer
    <3> QED BY <1>4, <3>1, <3>2, <3>3
  <2>4. \A line \in output : line[2] = "OK" /\ line[1].fn \in Modifying => Stored(line[1])'
    BY <2>2, StoredLasts DEF ConfirmedInv, Modifying
  <2>5. \A t \in Prog : \A c : pc[t] = "confirmation" /\ c = call[t] => Stored(c)'
    BY <1>1, <2>2, StoredLasts DEF ConfirmedInv, Modifying
  <2>6. \A line \in output' : line[2] = "OK" /\ line[1].fn \in Modifying => Stored(line[1])'
    BY <2>3, <2>4, <2>5
  <2>7. \A t \in Prog : \A c : pc'[t] = "confirmation" /\ c = call'[t] => Stored(c)'
    BY <2>1, <2>5
  <2> QED BY <2>6, <2>7, ConfirmedInvNext
<1>5. CASE UNCHANGED sessionVars
  <2>1. UNCHANGED <<tables, output, call, pc>>
    BY <1>5 DEF sessionVars, callsVars, vars, tables, local
  <2>2. Lasting
    BY <2>1, UnchangedLasts
  <2>3. \A line \in output' : line[2] = "OK" /\ line[1].fn \in Modifying => Stored(line[1])'
    BY <2>1, <2>2, StoredLasts DEF ConfirmedInv, Modifying
  <2>4. \A t \in Prog : \A c : pc'[t] = "confirmation" /\ c = call'[t] => Stored(c)'
    BY <1>1, <2>1, <2>2, StoredLasts DEF ConfirmedInv, Modifying
  <2> QED BY <2>3, <2>4, ConfirmedInvNext
<1> QED BY <1>2, <1>3, <1>4, <1>5, QuietSteps DEF SessionNext, Statement

\* A call that modifies the registry and was answered OK is stored, whatever
\* crashes, deadlocks and other programs do.
THEOREM ConfirmedStaysStored == SessionSpec => []ConfirmedIsStored
<1>1. SessionInit => ConfirmedInv
  BY DEF SessionInit, ConfirmedInv
<1>2. ConfirmedInv => ConfirmedIsStored
  BY DEF ConfirmedInv, ConfirmedIsStored, Confirmed, Modifying
<1> QED BY <1>1, <1>2, ConfirmedNext, SessionInductive, PTL DEF SessionSpec

-----------------------------------------------------------------------------
(***************************************************************************)
(* With one program, the statements of Sessions implement the handlers of  *)
(* Party.  While its transaction is open nobody else changes the tables,   *)
(* so what a SELECT has found out still holds when the handler ends: Path  *)
(* says, for each statement, what the handler knows when it gets there.    *)
(* A statement is a stuttering step of Party; the answer, the commit and   *)
(* the exception are the step of the handler.                              *)
(***************************************************************************)

OneProgram == \A s, t \in Prog : s = t

\* Why the handler of Party would answer ERROR.
Refused(c) ==
    LET m == c.member
    IN  \/ c.fn = "leader" /\ m \in takenid
        \/ /\ c.fn = "report"
           /\ \/ ~(Authenticated(m, c.password) /\ members[m].isleader)
              \/ isFrozen(members[m].timestamp, c.ts)
        \/ /\ c.fn \in VoteType
           /\ ~Admitted(m, c.ts, c.password) \/ c.action \notin DOMAIN actions \/ HasVoted(c.action, m)
        \/ /\ c.fn \in ActionType
           /\ \/ ~Admitted(m, c.ts, c.password)
              \/ c.project \in DOMAIN projects /\ c.action \in TakenAfter(m)
              \/ /\ c.project \notin DOMAIN projects /\ c.authority # Absent
                 /\ IdsRejected(m, c.action, c.project, c.authority)

Adding == {"actionRow", "projectTaken", "actionTaken", "authorityTaken"}

\* What a handler with the call c has found out when it is at a statement, and
\* what it holds in the variables exists (known) and auth_exist (listed).
At(label, c, exists, auth) ==
    LET m == c.member
        stores == label = "commit" /\ c.fn \in ActionType
    IN  /\ label \notin {"idle", "rollback", "confirmation"} => c.ts >= clock
        /\ label = "memberTaken?" => m \notin DOMAIN members
        /\ label \in Joining => m \notin takenid
        /\ label \in {"frozen", "touch"} => Authenticated(m, c.password)
        /\ label \in {"frozen", "touch"} \cup Reporting /\ c.fn = "report" =>
               Authenticated(m, c.password) /\ members[m].isleader
        /\ label = "touch" \/ label \in Reporting => ~isFrozen(members[m].timestamp, c.ts)
        /\ label \in Creating \cup Voting \/ (label = "commit" /\ c.fn # "leader") =>
               Admitted(m, c.ts, c.password)
        /\ label \in Creating \ {"project"} \/ stores => (exists <=> c.project \in DOMAIN projects)
        /\ (label \in Adding \cup {"idsTaken?", "projectRow"} \/ stores) /\ ~exists =>
               c.authority # Absent /\ (auth <=> c.authority \in Authorities)
        /\ (label \in Adding \/ stores) /\ exists => c.action \notin TakenAfter(m)
        /\ (label \in Adding \cup {"projectRow"} \/ stores) /\ ~exists =>
               ~IdsRejected(m, c.action, c.project, c.authority)
        /\ label = "error" => Refused(c)

Path(s) == At(pc[s], call[s], known[s], listed[s])

-----------------------------------------------------------------------------
(* A step of the handler *)

\* The call of a handler of Party.
Handled(c) ==
    /\ request' = c
    /\ \/ c.fn = "trolls" /\ trolls(c.ts)
       \/ c.fn = "leader" /\ leader(c.member, c.ts, c.password)
       \/ c.fn = "report" /\ leaderReport(c.member, c.ts, c.password)
       \/ c.fn \in VoteType /\ vote(c.member, c.ts, c.password, c.fn, c.action)
       \/ c.fn \in ActionType
          /\ createAction(c.member, c.ts, c.password, c.fn, c.action, c.project, c.authority)

LEMMA CallForms ==
    ASSUME NEW c \in Input
    PROVE  /\ c.ts \in Timestamp
           /\ c.fn = "trolls" => c = TrollsCall(c.ts)
           /\ c.fn \in {"leader", "report"} => c = MemberCall(c.fn, c.member, c.ts, c.password)
           /\ c.fn \in VoteType => c = VoteCall(c.fn, c.member, c.ts, c.password, c.action)
           /\ c.fn \in ActionType => c = ActionCall(c.fn, c.member, c.ts, c.password, c.action,
                                                   c.project, c.authority)
<1>1. CASE c \in {TrollsCall(ts) : ts \in Timestamp}
  <2>1. PICK ts \in Timestamp : c = [fn |-> "trolls", ts |-> ts]
    BY <1>1 DEF TrollsCall
  <2>2. c.fn = "trolls" /\ c.ts = ts
    BY <2>1
  <2> QED BY <2>1, <2>2 DEF ActionType, VoteType, TrollsCall
<1>2. CASE c \in {MemberCall(fn, m, ts, pw) :
                     fn \in {"leader", "report"}, m \in MemberArg, ts \in Timestamp, pw \in Password}
  <2>1. PICK fn \in {"leader", "report"}, m \in MemberArg, ts \in Timestamp, pw \in Password :
          c = [fn |-> fn, member |-> m, ts |-> ts, password |-> pw]
    BY <1>2 DEF MemberCall
  <2>2. c.fn = fn /\ c.ts = ts /\ c.member = m /\ c.password = pw
    BY <2>1
  <2> QED BY <2>1, <2>2 DEF ActionType, VoteType, MemberCall
<1>3. CASE c \in {VoteCall(fn, m, ts, pw, a) : fn \in VoteType, m \in MemberArg,
                     ts \in Timestamp, pw \in Password, a \in ActionArg}
  <2>1. PICK fn \in VoteType, m \in MemberArg, ts \in Timestamp, pw \in Password, a \in ActionArg :
          c = [fn |-> fn, member |-> m, ts |-> ts, password |-> pw, action |-> a]
    BY <1>3 DEF VoteCall
  <2>2. c.fn = fn /\ c.ts = ts /\ c.member = m /\ c.password = pw /\ c.action = a
    BY <2>1
  <2> QED BY <2>1, <2>2 DEF ActionType, VoteType, VoteCall
<1>4. CASE c \in {ActionCall(fn, m, ts, pw, a, p, auth) :
                     fn \in ActionType, m \in MemberArg, ts \in Timestamp, pw \in Password,
                     a \in ActionArg, p \in ProjectArg, auth \in AuthorityArg \cup {Absent}}
  <2>1. PICK fn \in ActionType, m \in MemberArg, ts \in Timestamp, pw \in Password,
             a \in ActionArg, p \in ProjectArg, auth \in AuthorityArg \cup {Absent} :
          c = [fn |-> fn, member |-> m, ts |-> ts, password |-> pw, action |-> a,
               project |-> p, authority |-> auth]
    BY <1>4 DEF ActionCall
  <2>2. /\ c.fn = fn /\ c.ts = ts /\ c.member = m /\ c.password = pw /\ c.action = a
        /\ c.project = p /\ c.authority = auth
    BY <2>1
  <2> QED BY <2>1, <2>2 DEF ActionType, VoteType, ActionCall
<1> QED BY <1>1, <1>2, <1>3, <1>4, InputAssumption

LEMMA HandledIsNext == ASSUME NEW c \in Input, Handled(c) PROVE CallsNext
<1> DEFINE m == c.member
           ts == c.ts
           pw == c.password
<1>0. /\ ts \in Timestamp /\ request' = c
      /\ c.fn # "trolls" => m \in MemberArg /\ pw \in Password
      /\ c.fn \in ActionType \cup VoteType => c.action \in ActionArg
      /\ c.fn \in ActionType => c.project \in ProjectArg /\ c.authority \in AuthorityArg \cup {Absent}
  BY CallForms, InputIs DEF Handled
<1>1. CASE c.fn = "trolls" /\ trolls(ts)
  <2>1. request' = TrollsCall(ts)
    BY <1>0, <1>1, CallForms
  <2> QED BY <1>0, <1>1, <2>1 DEF CallsNext
<1>2. CASE c.fn = "leader" /\ leader(m, ts, pw)
  <2>1. request' = MemberCall("leader", m, ts, pw)
    BY <1>0, <1>2, CallForms
  <2> QED BY <1>0, <1>2, <2>1 DEF CallsNext
<1>3. CASE c.fn = "report" /\ leaderReport(m, ts, pw)
  <2>1. request' = MemberCall("report", m, ts, pw)
    BY <1>0, <1>3, CallForms
  <2> QED BY <1>0, <1>3, <2>1 DEF CallsNext
<1>4. CASE c.fn \in VoteType /\ vote(m, ts, pw, c.fn, c.action)
  <2>1. request' = VoteCall(c.fn, m, ts, pw, c.action) /\ c.fn # "trolls"
    BY <1>0, <1>4, CallForms, SMTT(40) DEF VoteType
  <2> QED BY <1>0, <1>4, <2>1 DEF CallsNext
<1>5. CASE c.fn \in ActionType
           /\ createAction(m, ts, pw, c.fn, c.action, c.project, c.authority)
  <2>1. request' = ActionCall(c.fn, m, ts, pw, c.action, c.project, c.authority) /\ c.fn # "trolls"
    BY <1>0, <1>5, CallForms DEF ActionType
  <2> QED BY <1>0, <1>5, <2>1 DEF CallsNext
<1> QED BY <1>1, <1>2, <1>3, <1>4, <1>5 DEF Handled

LEMMA RefusedIsHandled ==
    ASSUME NEW c, Refused(c), request' = c, clock' = c.ts, c.ts >= clock,
           reply' = "ERROR", UNCHANGED tables
    PROVE  Handled(c)
<1>1. Call(c.ts) /\ Reject
  BY DEF Call, Reject
<1>2. CASE c.fn = "leader" /\ c.member \in takenid
  BY <1>1, <1>2 DEF Handled, leader
<1>3. CASE /\ c.fn = "report"
           /\ \/ ~(Authenticated(c.member, c.password) /\ members[c.member].isleader)
              \/ isFrozen(members[c.member].timestamp, c.ts)
  BY <1>1, <1>3 DEF Handled, leaderReport
<1>4. CASE /\ c.fn \in VoteType
           /\ \/ ~Admitted(c.member, c.ts, c.password) \/ c.action \notin DOMAIN actions
              \/ HasVoted(c.action, c.member)
  BY <1>1, <1>4 DEF Handled, vote
<1>5. CASE /\ c.fn \in ActionType
           /\ \/ ~Admitted(c.member, c.ts, c.password)
              \/ c.project \in DOMAIN projects /\ c.action \in TakenAfter(c.member)
              \/ /\ c.project \notin DOMAIN projects /\ c.authority # Absent
                 /\ IdsRejected(c.member, c.action, c.project, c.authority)
  BY <1>1, <1>5 DEF Handled, createAction, ActionOnProject, ActionOnNewProject
<1> QED BY <1>2, <1>3, <1>4, <1>5 DEF Refused

-----------------------------------------------------------------------------
(* The steps that decide, or write into the transaction *)

LEMMA PathNext ==
    ASSUME NEW s, UNCHANGED callsVars, At(pc'[s], call'[s], known'[s], listed'[s])
    PROVE  Path(s)'
  BY DEF Path, At, Refused, Admitted, Authenticated, Joins, Authorities, IdsRejected, Checked,
         TakenAfter, HasVoted, callsVars, vars

LEMMA PathGoes ==
    ASSUME SInv, NEW s \in Prog, NEW label, NEW next, Select(s, label, next) \/ Update(s, label, next),
           At(next, call[s], known[s], listed[s])
    PROVE  Path(s)' /\ UNCHANGED callsVars
<1>1. /\ UNCHANGED callsVars /\ pc'[s] = next /\ call'[s] = call[s]
      /\ known'[s] = known[s] /\ listed'[s] = listed[s]
  BY SelectIs, UpdateIs DEF Select, Update
<1>2. At(pc'[s], call'[s], known'[s], listed'[s])
  BY <1>1
<1> QED BY <1>1, <1>2, PathNext

\* A member that is in the table does not join.
LEMMA MembersAreTaken == ASSUME SInv PROVE
    DOMAIN members \cup DOMAIN projects \cup DOMAIN actions \cup Authorities \subseteq takenid
  BY DEF SInv, IInv, TakenIsExact

LEMMA leaderPath ==
    ASSUME SInv, NEW s \in Prog, Path(s), leaderStatement(s)
    PROVE  Path(s)' /\ UNCHANGED callsVars
<1> DEFINE c == call[s]
<1>1. pc[s] = "leader" /\ View(s).takenid = takenid
  BY EarlyView DEF leaderStatement, Select, Starting
<1>2. c.fn = "leader" /\ c.ts >= clock
  BY <1>1 DEF SInv, Known, RightFunction, Path, At
<1>3. CASE c.member \in takenid
  <2>1. At("error", c, known[s], listed[s])
    BY <1>2, <1>3 DEF At, Refused, Joining, Reporting, Creating, Voting, Adding
  <2> QED BY <1>1, <1>3, <2>1, PathGoes DEF leaderStatement
<1>4. CASE c.member \notin takenid
  <2>1. At("memberTaken", c, known[s], listed[s])
    BY <1>2, <1>4 DEF At, Joining, Reporting, Creating, Voting, Adding
  <2> QED BY <1>1, <1>4, <2>1, PathGoes DEF leaderStatement
<1> QED BY <1>3, <1>4

LEMMA ViewDomains ==
    ASSUME NEW s
    PROVE  /\ DOMAIN View(s).members = DOMAIN writes[s].members \cup DOMAIN members
           /\ DOMAIN View(s).projects = DOMAIN writes[s].projects \cup DOMAIN projects
           /\ DOMAIN View(s).actions = DOMAIN writes[s].actions \cup DOMAIN actions
<1>1. \A f, g : DOMAIN Over(f, g) = DOMAIN f \cup DOMAIN g
  BY OverIs
<1> QED BY <1>1, ViewIs

LEMMA DuplicateIdIs ==
    ASSUME NEW s, NEW id, Pending(s) = InTaken(id)
    PROVE  Duplicate(s) <=> id \in writes[s].takenid \cup takenid
<1>1. /\ DOMAIN InTaken(id).members = {} /\ DOMAIN InTaken(id).projects = {}
      /\ DOMAIN InTaken(id).actions = {} /\ InTaken(id).takenid = {id}
  BY DEF InTaken, Rows, EmptyTable
<1> QED BY <1>1, ViewIs DEF Duplicate, Clash

LEMMA DuplicateMemberIs ==
    ASSUME NEW s, NEW m, NEW row, Pending(s) = InMembers(m, row)
    PROVE  Duplicate(s) <=> m \in DOMAIN writes[s].members \cup DOMAIN members
<1>1. /\ DOMAIN InMembers(m, row).members = {m} /\ DOMAIN InMembers(m, row).projects = {}
      /\ DOMAIN InMembers(m, row).actions = {} /\ InMembers(m, row).takenid = {}
  BY RowIs DEF InMembers, Rows, EmptyTable
<1>2. DOMAIN View(s).members = DOMAIN writes[s].members \cup DOMAIN members
  BY ViewDomains
<1> QED BY <1>1, <1>2 DEF Duplicate, Clash

LEMMA DuplicateProjectIs ==
    ASSUME NEW s, NEW p, NEW auth, Pending(s) = InProjects(p, auth)
    PROVE  Duplicate(s) <=> p \in DOMAIN writes[s].projects \cup DOMAIN projects
<1>1. /\ DOMAIN InProjects(p, auth).members = {} /\ DOMAIN InProjects(p, auth).projects = {p}
      /\ DOMAIN InProjects(p, auth).actions = {} /\ InProjects(p, auth).takenid = {}
  BY RowIs DEF InProjects, Rows, EmptyTable
<1>2. DOMAIN View(s).projects = DOMAIN writes[s].projects \cup DOMAIN projects
  BY ViewDomains
<1> QED BY <1>1, <1>2 DEF Duplicate, Clash

LEMMA DuplicateActionIs ==
    ASSUME NEW s, NEW a, NEW row, Pending(s) = InActions(a, row)
    PROVE  Duplicate(s) <=> a \in DOMAIN writes[s].actions \cup DOMAIN actions
<1>1. /\ DOMAIN InActions(a, row).members = {} /\ DOMAIN InActions(a, row).projects = {}
      /\ DOMAIN InActions(a, row).actions = {a} /\ InActions(a, row).takenid = {}
  BY RowIs DEF InActions, Rows, EmptyTable
<1>2. DOMAIN View(s).actions = DOMAIN writes[s].actions \cup DOMAIN actions
  BY ViewDomains
<1> QED BY <1>1, <1>2 DEF Duplicate, Clash

LEMMA memberSelectPath ==
    ASSUME SInv, NEW s \in Prog, Path(s), memberStatement(s),
           pc[s] \in {"member", "memberTaken?", "password", "frozen"}
    PROVE  Path(s)' /\ UNCHANGED callsVars
<1> DEFINE c == call[s]
           m == c.member
<1> USE DEF Joining, Reporting, Creating, Voting, Adding
<1>1. /\ View(s).takenid = takenid /\ View(s).members = members
      /\ DOMAIN members \subseteq takenid
  BY EarlyView, MembersAreTaken DEF Starting, Admitting
<1>2. c.ts >= clock /\ c.fn \in {"report"} \cup ActionType \cup VoteType
  BY DEF SInv, Known, RightFunction, Path, At
<1>3. CASE pc[s] = "member"
  <2>1. Select(s, "member", IF m \in DOMAIN members THEN "password" ELSE "memberTaken?")
    BY <1>1, <1>3 DEF memberStatement, Select, InsertRow, Update
  <2>2. CASE m \in DOMAIN members
    <3>1. At("password", c, known[s], listed[s])
      BY <1>2 DEF At
    <3> QED BY <2>1, <2>2, <3>1, PathGoes
  <2>3. CASE m \notin DOMAIN members
    <3>1. At("memberTaken?", c, known[s], listed[s])
      BY <1>2, <2>3 DEF At
    <3> QED BY <2>1, <2>3, <3>1, PathGoes
  <2> QED BY <2>2, <2>3
<1>4. CASE pc[s] = "memberTaken?"
  <2>1. Select(s, "memberTaken?", IF m \in takenid THEN "error" ELSE "memberTaken")
    BY <1>1, <1>4 DEF memberStatement, Select, InsertRow, Update
  <2>2. CASE m \in takenid
    <3>1. m \notin DOMAIN members /\ c.fn \in ActionType \cup VoteType
      BY <1>4 DEF Path, At, SInv, Known, RightFunction
    <3>2. Refused(c)
      BY <2>2, <3>1 DEF Refused, Admitted, Joins, Authenticated
    <3>3. At("error", c, known[s], listed[s])
      BY <1>2, <3>2 DEF At
    <3> QED BY <2>1, <2>2, <3>3, PathGoes
  <2>3. CASE m \notin takenid
    <3>1. At("memberTaken", c, known[s], listed[s])
      BY <1>2, <2>3 DEF At
    <3> QED BY <2>1, <2>3, <3>1, PathGoes
  <2> QED BY <2>2, <2>3
<1>5. CASE pc[s] = "password"
  <2>1. Select(s, "password", IF members[m].password = crypt(c.password) THEN "frozen" ELSE "error")
    BY <1>1, <1>5 DEF memberStatement, Select, InsertRow, Update
  <2>2. m \in DOMAIN members /\ c.fn \in ActionType \cup VoteType
    BY <1>5 DEF SInv, Known, RightFunction, MemberKnown, Admitting
  <2>3. CASE members[m].password = crypt(c.password)
    <3>1. At("frozen", c, known[s], listed[s])
      BY <1>2, <2>2, <2>3 DEF At, Authenticated, ActionType, VoteType
    <3> QED BY <2>1, <2>3, <3>1, PathGoes
  <2>4. CASE members[m].password # crypt(c.password)
    <3>1. Refused(c)
      BY <2>2, <2>4 DEF Refused, Admitted, Joins, Authenticated
    <3>2. At("error", c, known[s], listed[s])
      BY <1>2, <3>1 DEF At
    <3> QED BY <2>1, <2>4, <3>2, PathGoes
  <2> QED BY <2>3, <2>4
<1>6. CASE pc[s] = "frozen"
  <2>1. Select(s, "frozen", IF isFrozen(members[m].timestamp, c.ts) THEN "error" ELSE "touch")
    BY <1>1, <1>6 DEF memberStatement, UnlessFrozen, Select, InsertRow, Update
  <2>2. /\ m \in DOMAIN members /\ Authenticated(m, c.password)
        /\ c.fn = "report" => members[m].isleader
    BY <1>6 DEF SInv, Known, RightFunction, MemberKnown, Admitting, Path, At
  <2>3. CASE isFrozen(members[m].timestamp, c.ts)
    <3>1. Refused(c)
      BY <1>2, <2>2, <2>3 DEF Refused, Admitted, Joins
    <3>2. At("error", c, known[s], listed[s])
      BY <1>2, <3>1 DEF At
    <3> QED BY <2>1, <2>3, <3>2, PathGoes
  <2>4. CASE ~isFrozen(members[m].timestamp, c.ts)
    <3>1. At("touch", c, known[s], listed[s])
      BY <1>2, <2>2, <2>4 DEF At
    <3> QED BY <2>1, <2>4, <3>1, PathGoes
  <2> QED BY <2>3, <2>4
<1> QED BY <1>3, <1>4, <1>5, <1>6

LEMMA memberInsertPath ==
    ASSUME SInv, NEW s \in Prog, Path(s), memberStatement(s),
           pc[s] \in {"memberTaken", "memberRow", "touch"}
    PROVE  Path(s)' /\ UNCHANGED callsVars
<1> DEFINE c == call[s]
           m == c.member
           admitted == IF c.fn = "leader" THEN "commit" ELSE
                       IF c.fn \in VoteType THEN "action" ELSE "project"
<1> USE DEF Joining, Reporting, Creating, Voting, Adding
<1>1. c.ts >= clock /\ c.fn \in {"leader", "report"} \cup ActionType \cup VoteType /\ Progress(s)
  BY DEF SInv, Known, RightFunction, Path, At
<1>2. DOMAIN members \subseteq takenid
  BY MembersAreTaken
<1>3. CASE pc[s] = "memberTaken"
  <2>1. InsertRow(s, "memberTaken", "memberRow")
    BY <1>3 DEF memberStatement, Select, InsertRow, Update, Throw
  <2>2. m \notin takenid
    BY <1>3 DEF Path, At
  <2>3. writes[s].takenid = {}
    BY <1>1, <1>3, NothingWritten DEF Progress, Starting, Ending, NoWrites, Rows
  <2>4. Pending(s) = InTaken(m)
    BY <1>3 DEF Pending
  <2>5. Update(s, "memberTaken", "memberRow")
    BY <2>1, <2>2, <2>3, <2>4, DuplicateIdIs DEF InsertRow
  <2>6. At("memberRow", c, known[s], listed[s])
    BY <1>1, <2>2 DEF At
  <2> QED BY <2>5, <2>6, PathGoes
<1>4. CASE pc[s] = "memberRow"
  <2>1. InsertRow(s, "memberRow", admitted)
    BY <1>4 DEF memberStatement, Select, InsertRow, Update, Throw
  <2>2. m \notin takenid /\ m \notin DOMAIN members
    BY <1>2, <1>4 DEF Path, At
  <2>3. DOMAIN writes[s].members = {}
    <3>1. writes[s] = Written(s) /\ MembersWritten(s) = EmptyTable
      BY <1>1, <1>4 DEF Progress, Ending, MembersWritten, Inside
    <3> QED BY <3>1 DEF Written, Rows, EmptyTable
  <2>4. Pending(s) = InMembers(m, NewMember(c))
    BY <1>4 DEF Pending
  <2>5. ~Duplicate(s)
    BY <2>2, <2>3, <2>4, DuplicateMemberIs
  <2>6. Update(s, "memberRow", admitted)
    BY <2>1, <2>5 DEF InsertRow
  <2>7. Admitted(m, c.ts, c.password)
    BY <2>2 DEF Admitted, Joins
  <2>8. At(admitted, c, known[s], listed[s])
    BY <1>1, <2>7 DEF At, ActionType
  <2> QED BY <2>6, <2>8, PathGoes
<1>5. CASE pc[s] = "touch"
  <2> DEFINE next == IF c.fn = "report" THEN "query" ELSE admitted
  <2>1. Update(s, "touch", next)
    BY <1>5 DEF memberStatement, Select, InsertRow, Update, Throw
  <2>2. /\ Authenticated(m, c.password) /\ ~isFrozen(members[m].timestamp, c.ts)
        /\ c.fn = "report" => members[m].isleader
        /\ c.fn \in {"report"} \cup ActionType \cup VoteType
    BY <1>5 DEF Path, At, SInv, Known, RightFunction
  <2>3. Admitted(m, c.ts, c.password) /\ c.fn # "leader"
    BY <2>2 DEF Admitted, ActionType, VoteType
  <2>4. At(next, c, known[s], listed[s])
    BY <1>1, <2>2, <2>3 DEF At
  <2> QED BY <2>1, <2>4, PathGoes
<1> QED BY <1>3, <1>4, <1>5

LEMMA reportPath ==
    ASSUME SInv, NEW s \in Prog, Path(s), reportStatement(s)
    PROVE  Path(s)' /\ UNCHANGED callsVars
<1> DEFINE c == call[s]
           m == c.member
           leads == Authenticated(m, c.password) /\ members[m].isleader
<1> USE DEF Joining, Reporting, Creating, Voting, Adding
<1>1. pc[s] = "report" /\ View(s).members = members
  BY EarlyView DEF reportStatement, Select, Starting
<1>2. c.ts >= clock /\ c.fn = "report"
  BY <1>1 DEF SInv, Known, RightFunction, Path, At
<1>3. Select(s, "report", IF leads THEN "frozen" ELSE "error")
  BY <1>1 DEF reportStatement, Authenticated
<1>4. CASE leads
  <2>1. At("frozen", c, known[s], listed[s])
    BY <1>2, <1>4 DEF At
  <2> QED BY <1>3, <1>4, <2>1, PathGoes
<1>5. CASE ~leads
  <2>1. At("error", c, known[s], listed[s])
    BY <1>2, <1>5 DEF At, Refused
  <2> QED BY <1>3, <1>5, <2>1, PathGoes
<1> QED BY <1>4, <1>5

LEMMA projectPath ==
    ASSUME SInv, NEW s \in Prog, Path(s), projectStatement(s)
    PROVE  Path(s)' /\ UNCHANGED callsVars
<1> DEFINE c == call[s]
           exists == c.project \in DOMAIN projects
           next == IF exists THEN "actionTaken?" ELSE "authority"
<1>1. pc[s] = "project"
  BY DEF projectStatement
<1>2. View(s).projects = projects
  BY <1>1, JoinedView DEF OnlyJoined
<1>3. /\ UNCHANGED callsVars /\ call'[s] = call[s] /\ pc'[s] = next
      /\ listed'[s] = listed[s] /\ known'[s] = exists
  <2>1. /\ known' = [known EXCEPT ![s] = exists] /\ pc' = [pc EXCEPT ![s] = next]
        /\ UNCHANGED <<callsVars, call, listed>> /\ exists \in BOOLEAN
    BY <1>2 DEF projectStatement, Goto
  <2> HIDE DEF exists
  <2> QED BY <2>1 DEF SInv, Shape
<1>4. /\ c.ts >= clock /\ Admitted(c.member, c.ts, c.password) /\ c.fn \in ActionType
  BY <1>1 DEF Path, At, Creating, SInv, Known, RightFunction
<1>5. At(next, c, exists, listed[s])
  BY <1>4 DEF At, Joining, Reporting, Creating, Voting, Adding
<1>6. At(pc'[s], call'[s], known'[s], listed'[s])
  BY <1>3, <1>5
<1> QED BY <1>3, <1>6, PathNext

\* An exception at a statement of createAction.
LEMMA ThrowPath ==
    ASSUME SInv, NEW s \in Prog, Throw(s)
    PROVE  Path(s)'
<1>1. pc'[s] = "idle"
  BY DEF Throw, Goto, SInv, Shape
<1> QED BY <1>1 DEF Path, At, Joining, Reporting, Creating, Voting, Adding

LEMMA ThrowIsHandled ==
    ASSUME NEW s, Throw(s), call[s].ts >= clock, call[s].fn \in ActionType,
           Admitted(call[s].member, call[s].ts, call[s].password),
           call[s].project \notin DOMAIN projects,
           \/ call[s].authority = Absent
           \/ /\ ~IdsRejected(call[s].member, call[s].action, call[s].project, call[s].authority)
              /\ InsertedTwice(call[s].action, call[s].authority)
    PROVE  Handled(call[s])
<1> DEFINE c == call[s]
<1>1. Call(c.ts) /\ Terminate /\ request' = c
  BY DEF Throw, Settle, Call, Terminate
<1>2. ActionOnNewProject(c.member, c.ts, c.password, c.fn, c.action, c.project, c.authority)
  BY <1>1 DEF ActionOnNewProject
<1>3. createAction(c.member, c.ts, c.password, c.fn, c.action, c.project, c.authority)
  BY <1>1, <1>2 DEF createAction
<1> QED BY <1>1, <1>3 DEF Handled

LEMMA authorityPath ==
    ASSUME SInv, NEW s \in Prog, Path(s), authorityStatement(s)
    PROVE  Path(s)' /\ (UNCHANGED callsVars \/ Handled(call[s]))
<1> DEFINE c == call[s]
           found == \E p \in DOMAIN View(s).projects : View(s).projects[p] = c.authority
<1>1. pc[s] = "authority"
  BY DEF authorityStatement
<1>2. View(s).projects = projects /\ ~known[s]
  BY <1>1, JoinedView DEF OnlyJoined, SInv, Known, ProjectKnown
<1>3. /\ c.ts >= clock /\ Admitted(c.member, c.ts, c.password) /\ c.fn \in ActionType
      /\ c.project \notin DOMAIN projects
  BY <1>1, <1>2 DEF Path, At, Creating, SInv, Known, RightFunction
<1>4. CASE c.authority = Absent
  <2>1. Throw(s)
    BY <1>4 DEF authorityStatement
  <2> QED BY <1>3, <1>4, <2>1, ThrowPath, ThrowIsHandled
<1>5. CASE c.authority # Absent
  <2>1. /\ UNCHANGED callsVars /\ call'[s] = call[s] /\ pc'[s] = "idsTaken?"
        /\ known'[s] = known[s] /\ listed'[s] = found
    <3>1. /\ listed' = [listed EXCEPT ![s] = found] /\ pc' = [pc EXCEPT ![s] = "idsTaken?"]
          /\ UNCHANGED <<callsVars, call, known>> /\ found \in BOOLEAN
      BY <1>5 DEF authorityStatement, Goto
    <3> HIDE DEF found
    <3> QED BY <3>1 DEF SInv, Shape
  <2>2. found <=> c.authority \in Authorities
    BY <1>2 DEF Authorities
  <2> HIDE DEF found
  <2>3. At("idsTaken?", c, known[s], found)
    BY <1>2, <1>3, <1>5, <2>2 DEF At, Joining, Reporting, Creating, Voting, Adding
  <2>4. At(pc'[s], call'[s], known'[s], listed'[s])
    BY <2>1, <2>3
  <2> QED BY <2>1, <2>4, PathNext
<1> QED BY <1>4, <1>5

LEMMA actionSelectPath ==
    ASSUME SInv, NEW s \in Prog, Path(s), actionStatement(s), pc[s] \in {"actionTaken?", "idsTaken?"}
    PROVE  Path(s)' /\ UNCHANGED callsVars
<1> DEFINE c == call[s]
           m == c.member
<1> USE DEF Joining, Reporting, Creating, Voting, Adding
<1>1. /\ c.ts >= clock /\ Admitted(m, c.ts, c.password) /\ c.fn \in ActionType
      /\ known[s] <=> c.project \in DOMAIN projects
  BY DEF Path, At, SInv, Known, RightFunction
<1>2. View(s).takenid = TakenAfter(m)
  <2>1. c.fn # "leader"
    BY <1>1 DEF ActionType
  <2> QED BY <2>1, JoinedView, VersionIs DEF OnlyJoined
<1>3. CASE pc[s] = "actionTaken?"
  <2>1. Select(s, "actionTaken?", IF c.action \in TakenAfter(m) THEN "error" ELSE "actionRow")
    BY <1>2, <1>3 DEF actionStatement, Select, InsertRow, Update, Throw
  <2>2. known[s] /\ c.project \in DOMAIN projects
    BY <1>1, <1>3 DEF SInv, Known, ProjectKnown
  <2>3. CASE c.action \in TakenAfter(m)
    <3>1. At("error", c, known[s], listed[s])
      BY <1>1, <2>2, <2>3 DEF At, Refused
    <3> QED BY <2>1, <2>3, <3>1, PathGoes
  <2>4. CASE c.action \notin TakenAfter(m)
    <3>1. At("actionRow", c, known[s], listed[s])
      BY <1>1, <2>2, <2>4 DEF At
    <3> QED BY <2>1, <2>4, <3>1, PathGoes
  <2> QED BY <2>3, <2>4
<1>4. CASE pc[s] = "idsTaken?"
  <2>1. ~known[s] /\ c.project \notin DOMAIN projects
    BY <1>1, <1>4 DEF SInv, Known, ProjectKnown
  <2>2. c.authority # Absent /\ (listed[s] <=> c.authority \in Authorities)
    BY <1>4, <2>1 DEF Path, At
  <2> DEFINE rejected == IdsRejected(m, c.action, c.project, c.authority)
  <2>3. Select(s, "idsTaken?", IF rejected THEN "error" ELSE "projectRow")
    BY <1>2, <1>4, <2>2 DEF actionStatement, Select, InsertRow, Update, Throw, IdsRejected, Checked
  <2>4. CASE rejected
    <3>1. At("error", c, known[s], listed[s])
      BY <1>1, <2>1, <2>2, <2>4 DEF At, Refused
    <3> QED BY <2>3, <2>4, <3>1, PathGoes
  <2>5. CASE ~rejected
    <3>1. At("projectRow", c, known[s], listed[s])
      BY <1>1, <2>1, <2>2, <2>5 DEF At
    <3> QED BY <2>3, <2>5, <3>1, PathGoes
  <2> QED BY <2>4, <2>5
<1> QED BY <1>3, <1>4

\* What createAction has found out when it begins to write.
LEMMA ActionFacts ==
    ASSUME SInv, NEW s \in Prog, Path(s), pc[s] \in WritingAction
    PROVE  LET c == call[s]
               ids == Joined(s) \cup takenid
           IN  /\ c.ts >= clock /\ Admitted(c.member, c.ts, c.password) /\ c.fn \in ActionType
               /\ TakenAfter(c.member) = ids /\ c.action \notin ids
               /\ known[s] <=> c.project \in DOMAIN projects
               /\ ~known[s] => /\ c.project \notin ids /\ c.action # c.project
                               /\ ~IdsRejected(c.member, c.action, c.project, c.authority)
                               /\ c.authority # c.project /\ (listed[s] <=> c.authority \in Authorities)
                               /\ ~listed[s] => c.authority \notin ids
<1> DEFINE c == call[s]
           m == c.member
           rejected == IdsRejected(m, c.action, c.project, c.authority)
<1>1. /\ c.ts >= clock /\ Admitted(m, c.ts, c.password) /\ c.fn \in ActionType
      /\ known[s] <=> c.project \in DOMAIN projects
      /\ known[s] => c.action \notin TakenAfter(m)
      /\ ~known[s] => ~rejected /\ (listed[s] <=> c.authority \in Authorities)
  <2>1. pc[s] = "projectRow" => ~known[s]
    BY DEF SInv, Known, ProjectKnown
  <2>2. c.fn \in ActionType
    BY DEF SInv, Known, RightFunction, WritingAction, Creating
  <2> HIDE DEF rejected
  <2> QED BY <2>1, <2>2 DEF Path, At, WritingAction, Creating, Adding, rejected
<1>2. TakenAfter(m) = Joined(s) \cup takenid
  BY <1>1, VersionIs DEF ActionType
<1>3. ASSUME ~known[s]
      PROVE  /\ c.action \notin TakenAfter(m) /\ c.project \notin TakenAfter(m)
             /\ c.action # c.project /\ c.authority # c.project
             /\ ~listed[s] => c.authority \notin TakenAfter(m)
  BY <1>1, <1>3 DEF IdsRejected, Checked
<1> QED BY <1>1, <1>2, <1>3

LEMMA ActionGoes ==
    ASSUME SInv, NEW s \in Prog, Path(s), NEW label \in WritingAction, NEW next \in Adding \cup {"commit"},
           Update(s, label, next)
    PROVE  Path(s)' /\ UNCHANGED callsVars
<1> DEFINE c == call[s]
<1>1. pc[s] = label
  BY UpdateIs
<1>2. /\ c.ts >= clock /\ Admitted(c.member, c.ts, c.password) /\ c.fn \in ActionType
      /\ TakenAfter(c.member) = Joined(s) \cup takenid /\ c.action \notin TakenAfter(c.member)
      /\ known[s] <=> c.project \in DOMAIN projects
      /\ ~known[s] => /\ ~IdsRejected(c.member, c.action, c.project, c.authority)
                      /\ listed[s] <=> c.authority \in Authorities
  BY <1>1, ActionFacts
<1>3. ~known[s] => c.authority # Absent
  BY <1>1 DEF Path, At, WritingAction, Adding
<1>4. At(next, c, known[s], listed[s])
  BY <1>2, <1>3 DEF At, Adding, Creating, Joining, Reporting, Voting
<1> QED BY <1>4, PathGoes

\* The rows it has written, where no row of another step can be.
LEMMA ActionRows ==
    ASSUME SInv, NEW s \in Prog, pc[s] \in WritingAction
    PROVE  /\ writes[s].projects = ProjectsWritten(s) /\ writes[s].actions = ActionsWritten(s)
           /\ writes[s].takenid = IdsWritten(s)
           /\ HasProject(s) <=> pc[s] # "projectRow" /\ ~known[s]
           /\ HasAction(s) <=> pc[s] \notin {"projectRow", "actionRow"}
           /\ IdsWritten(s) =
                  Joined(s)
                  \cup (IF pc[s] \in {"actionTaken", "authorityTaken"} /\ ~known[s]
                        THEN {call[s].project} ELSE {})
                  \cup (IF pc[s] = "authorityTaken" THEN {call[s].action} ELSE {})
<1>1. writes[s] = Written(s)
  BY DEF SInv, Progress, WritingAction, Ending
<1>2. /\ writes[s].projects = ProjectsWritten(s) /\ writes[s].actions = ActionsWritten(s)
      /\ writes[s].takenid = IdsWritten(s)
  BY <1>1 DEF Written, Rows
<1>3. ~CommitsAction(s) /\ ~CommitsVote(s) /\ pc[s] \in Inside /\ pc[s] # "memberRow"
  BY DEF WritingAction, CommitsAction, CommitsVote, Inside, Creating
<1>4. /\ HasProject(s) <=> pc[s] # "projectRow" /\ ~known[s]
      /\ HasAction(s) <=> pc[s] \notin {"projectRow", "actionRow"}
  BY <1>3 DEF WritingAction, HasProject, HasAction
<1>5. /\ ProjectTaken(s) <=> pc[s] \in {"actionTaken", "authorityTaken"} /\ ~known[s]
      /\ ActionTaken(s) <=> pc[s] = "authorityTaken"
      /\ ~AuthorityTaken(s)
  BY <1>3 DEF ProjectTaken, ActionTaken, AuthorityTaken
<1>6. IdsWritten(s) = Joined(s)
                      \cup (IF ProjectTaken(s) THEN {call[s].project} ELSE {})
                      \cup (IF ActionTaken(s) THEN {call[s].action} ELSE {})
  BY <1>3, <1>5 DEF IdsWritten
<1>7. /\ (IF ProjectTaken(s) THEN {call[s].project} ELSE {})
            = (IF pc[s] \in {"actionTaken", "authorityTaken"} /\ ~known[s]
               THEN {call[s].project} ELSE {})
      /\ (IF ActionTaken(s) THEN {call[s].action} ELSE {})
            = (IF pc[s] = "authorityTaken" THEN {call[s].action} ELSE {})
  BY <1>5
<1> QED BY <1>2, <1>4, <1>6, <1>7

LEMMA actionInsertPath ==
    ASSUME SInv, NEW s \in Prog, Path(s), actionStatement(s), pc[s] \in WritingAction
    PROVE  Path(s)' /\ (UNCHANGED callsVars \/ Handled(call[s]))
<1> DEFINE c == call[s]
           m == c.member
           ids == Joined(s) \cup takenid
<1>1. /\ c.ts >= clock /\ Admitted(m, c.ts, c.password) /\ c.fn \in ActionType
      /\ c.action \notin ids /\ (known[s] <=> c.project \in DOMAIN projects)
      /\ ~known[s] => /\ c.project \notin ids /\ c.action # c.project
                      /\ ~IdsRejected(m, c.action, c.project, c.authority)
                      /\ c.authority # c.project /\ (listed[s] <=> c.authority \in Authorities)
                      /\ ~listed[s] => c.authority \notin ids
  BY ActionFacts
<1>2. DOMAIN actions \subseteq takenid
  BY MembersAreTaken
<1>3. CASE pc[s] = "projectRow"
  <2>1. InsertRow(s, "projectRow", "actionRow")
    BY <1>3 DEF actionStatement, Select, InsertRow, Update, Throw
  <2>2. Pending(s) = InProjects(c.project, c.authority)
    BY <1>3 DEF Pending
  <2>3. c.project \notin DOMAIN projects /\ DOMAIN writes[s].projects = {}
    <3>1. ~known[s] /\ ~HasProject(s)
      BY <1>3, ActionRows DEF SInv, Known, ProjectKnown
    <3>2. writes[s].projects = ProjectsWritten(s)
      BY ActionRows
    <3> QED BY <1>1, <3>1, <3>2, RowsWritten
  <2>4. ~Duplicate(s)
    BY <2>2, <2>3, DuplicateProjectIs
  <2> QED BY <2>1, <2>4, InsertIs, ActionGoes DEF InsertRow, WritingAction, Adding
<1>4. CASE pc[s] = "actionRow"
  <2> DEFINE next == IF known[s] THEN "actionTaken" ELSE "projectTaken"
  <2>1. InsertRow(s, "actionRow", next)
    BY <1>4 DEF actionStatement, Select, InsertRow, Update, Throw
  <2>2. Pending(s) = InActions(c.action, NewAction(m, c.fn, c.project, AuthorityOf(s)))
    BY <1>4 DEF Pending
  <2>3. c.action \notin DOMAIN actions /\ DOMAIN writes[s].actions = {}
    <3>1. ~HasAction(s) /\ ~CommitsVote(s)
      BY <1>4, ActionRows DEF CommitsVote
    <3>2. writes[s].actions = ActionsWritten(s)
      BY ActionRows
    <3> QED BY <1>1, <1>2, <3>1, <3>2, RowsWritten
  <2>4. ~Duplicate(s)
    BY <2>2, <2>3, DuplicateActionIs
  <2>5. Update(s, "actionRow", next)
    BY <2>1, <2>4 DEF InsertRow
  <2>6. next \in Adding \cup {"commit"} /\ "actionRow" \in WritingAction
    BY DEF Adding, WritingAction
  <2> HIDE DEF next
  <2> QED BY <2>5, <2>6, ActionGoes
<1>5. CASE pc[s] = "projectTaken"
  <2>1. InsertRow(s, "projectTaken", "actionTaken")
    BY <1>5 DEF actionStatement, Select, InsertRow, Update, Throw
  <2>2. Pending(s) = InTaken(c.project) /\ ~known[s]
    BY <1>5 DEF Pending, SInv, Known, ProjectKnown
  <2>3. writes[s].takenid = Joined(s)
    BY <1>5, ActionRows
  <2>4. ~Duplicate(s)
    BY <1>1, <2>2, <2>3, DuplicateIdIs
  <2>5. Update(s, "projectTaken", "actionTaken")
    BY <2>1, <2>4 DEF InsertRow
  <2> QED BY <2>5, ActionGoes DEF WritingAction, Adding
<1>6. CASE pc[s] = "actionTaken"
  <2> DEFINE next == IF known[s] \/ listed[s] THEN "commit" ELSE "authorityTaken"
  <2>1. InsertRow(s, "actionTaken", next)
    BY <1>6 DEF actionStatement, Select, InsertRow, Update, Throw
  <2>2. Pending(s) = InTaken(c.action)
    BY <1>6 DEF Pending
  <2>3. writes[s].takenid = Joined(s) \cup (IF ~known[s] THEN {c.project} ELSE {})
    BY <1>6, ActionRows
  <2>4. ~Duplicate(s)
    BY <1>1, <2>2, <2>3, DuplicateIdIs
  <2>5. Update(s, "actionTaken", next)
    BY <2>1, <2>4 DEF InsertRow
  <2>6. next \in Adding \cup {"commit"} /\ "actionTaken" \in WritingAction
    BY DEF Adding, WritingAction
  <2> HIDE DEF next
  <2> QED BY <2>5, <2>6, ActionGoes
<1>7. CASE pc[s] = "authorityTaken"
  <2>1. InsertRow(s, "authorityTaken", "commit")
    BY <1>7 DEF actionStatement, Select, InsertRow, Update, Throw
  <2>2. Pending(s) = InTaken(c.authority) /\ ~known[s] /\ ~listed[s]
    BY <1>7 DEF Pending, SInv, Known, ProjectKnown
  <2>3. writes[s].takenid = Joined(s) \cup {c.project, c.action}
    BY <1>7, <2>2, ActionRows
  <2>4. Duplicate(s) => c.authority = c.action
    BY <1>1, <2>2, <2>3, DuplicateIdIs
  <2>5. CASE Throw(s) /\ Duplicate(s)
    <3>1. InsertedTwice(c.action, c.authority)
      BY <1>1, <2>2, <2>4, <2>5 DEF InsertedTwice
    <3> QED BY <1>1, <2>2, <2>5, <3>1, ThrowPath, ThrowIsHandled
  <2>6. CASE Update(s, "authorityTaken", "commit")
    BY <2>6, ActionGoes DEF WritingAction, Adding
  <2> QED BY <2>1, <2>5, <2>6 DEF InsertRow
<1> QED BY <1>3, <1>4, <1>5, <1>6, <1>7 DEF WritingAction

LEMMA votePath ==
    ASSUME SInv, NEW s \in Prog, Path(s), voteStatement(s)
    PROVE  Path(s)' /\ UNCHANGED callsVars
<1> DEFINE c == call[s]
           m == c.member
           voted == HasVoted(c.action, m)
<1> USE DEF Joining, Reporting, Creating, Voting, Adding
<1>1. pc[s] \in {"action", "voted?", "voteRow", "count"}
  BY DEF voteStatement, Select, InsertRow, Update
<1>2. c.ts >= clock /\ Admitted(m, c.ts, c.password) /\ c.fn \in VoteType /\ c.fn \notin ActionType
  BY <1>1 DEF Path, At, SInv, Known, RightFunction, ActionType, VoteType
<1>3. ASSUME NEW next \in {"voted?", "voteRow", "count", "commit"}
      PROVE  At(next, c, known[s], listed[s])
  BY <1>2 DEF At
<1>4. Refused(c) => At("error", c, known[s], listed[s])
  BY <1>2 DEF At
<1>5. CASE pc[s] = "action"
  <2>1. View(s).actions = actions
    BY <1>5, JoinedView DEF OnlyJoined
  <2>2. Select(s, "action", IF c.action \in DOMAIN actions THEN "voted?" ELSE "error")
    BY <1>5, <2>1 DEF voteStatement, Select, InsertRow, Update, Throw
  <2>3. CASE c.action \in DOMAIN actions
    BY <1>3, <2>2, <2>3, PathGoes
  <2>4. CASE c.action \notin DOMAIN actions
    <3>1. Refused(c)
      BY <1>2, <2>4 DEF Refused
    <3> QED BY <1>4, <2>2, <2>4, <3>1, PathGoes
  <2> QED BY <2>3, <2>4
<1>6. CASE pc[s] = "voted?"
  <2>1. View(s).votes = votes
    BY <1>6, JoinedView DEF OnlyJoined
  <2>2. Select(s, "voted?", IF voted THEN "error" ELSE "voteRow")
    BY <1>6, <2>1 DEF voteStatement, Select, InsertRow, Update, Throw, HasVoted
  <2>3. CASE ~voted
    BY <1>3, <2>2, <2>3, PathGoes
  <2>4. CASE voted
    <3>1. Refused(c)
      BY <1>2, <2>4 DEF Refused
    <3> QED BY <1>4, <2>2, <2>4, <3>1, PathGoes
  <2> QED BY <2>3, <2>4
<1>7. CASE pc[s] = "voteRow"
  <2>1. InsertRow(s, "voteRow", "count")
    BY <1>7 DEF voteStatement, Select, InsertRow, Update, Throw
  <2>2. Pending(s) = InVotes(Ballot(c))
    BY <1>7 DEF Pending
  <2>3. ~Duplicate(s)
    BY <2>2 DEF Duplicate, Clash, InVotes, Rows, EmptyTable
  <2>4. Update(s, "voteRow", "count")
    BY <2>1, <2>3 DEF InsertRow
  <2> QED BY <1>3, <2>4, PathGoes
<1>8. CASE pc[s] = "count"
  <2>1. Update(s, "count", "commit")
    BY <1>8 DEF voteStatement, Select, InsertRow, Update, Throw
  <2> QED BY <1>3, <2>1, PathGoes
<1> QED BY <1>1, <1>5, <1>6, <1>7, <1>8

-----------------------------------------------------------------------------
(* How a handler ends *)

LEMMA EndPath ==
    ASSUME NEW s, pc'[s] \in {"idle", "rollback", "confirmation"}
    PROVE  Path(s)'
  BY DEF Path, At, Joining, Reporting, Creating, Voting, Adding

LEMMA printReportPath ==
    ASSUME SInv, NEW s \in Prog, Path(s), printReport(s)
    PROVE  Path(s)' /\ UNCHANGED callsVars
<1>1. /\ pc[s] = "query" /\ pc'[s] = "commitReport" /\ UNCHANGED callsVars
      /\ call'[s] = call[s] /\ known'[s] = known[s] /\ listed'[s] = listed[s]
  BY DEF printReport, Goto, SInv, Shape
<1>2. call[s].fn = "report" /\ call[s].fn \notin ActionType
  BY <1>1 DEF SInv, Known, RightFunction, Reporting, ActionType
<1>3. At("commitReport", call[s], known[s], listed[s])
  BY <1>1, <1>2 DEF Path, At, Joining, Reporting, Creating, Voting, Adding
<1>4. At(pc'[s], call'[s], known'[s], listed'[s])
  BY <1>1, <1>3
<1> QED BY <1>1, <1>4, PathNext

LEMMA AnswerPath ==
    ASSUME SInv, NEW s \in Prog, Path(s), trollsStatement(s) \/ printNegation(s)
    PROVE  Path(s)' /\ Handled(call[s])
<1> DEFINE c == call[s]
<1>1. /\ pc[s] \in {"trolls", "error"} /\ pc'[s] = "rollback" /\ request' = c /\ clock' = c.ts
      /\ UNCHANGED tables
  BY DEF trollsStatement, printNegation, Settle, Goto, SInv, Shape
<1>2. c.ts >= clock
  BY <1>1 DEF Path, At
<1>3. CASE trollsStatement(s)
  <2>1. c.fn = "trolls" /\ reply' = "OK"
    BY <1>3 DEF trollsStatement, Settle, SInv, Known, RightFunction
  <2> QED BY <1>1, <1>2, <2>1, EndPath DEF Handled, trolls, Call
<1>4. CASE printNegation(s)
  <2>1. Refused(c) /\ reply' = "ERROR"
    BY <1>4 DEF printNegation, Settle, Path, At
  <2> QED BY <1>1, <1>2, <2>1, EndPath, RefusedIsHandled
<1> QED BY <1>3, <1>4

\* W.commit() of the one program: nobody has come in between.
LEMMA commitPath ==
    ASSUME SInv, NEW s \in Prog, Path(s), commit(s) \/ commitReport(s)
    PROVE  Path(s)' /\ Handled(call[s])
<1> DEFINE c == call[s]
           m == c.member
<1>1. /\ Committing(s) /\ Store(s) /\ Settle(s, "OK") /\ pc'[s] \in {"confirmation", "idle"}
  BY DEF commit, commitReport, Committing, Goto, SInv, Shape
<1>2. Accepted(c)
  BY <1>1, CommitIsAccepted
<1>3. /\ request' = c /\ reply' = "OK" /\ Call(c.ts)
  BY <1>1 DEF Settle, Call, Committing, Path, At
<1>4. c.fn \in {"leader", "report"} \cup ActionType \cup VoteType
  BY <1>1 DEF Committing, SInv, Known, RightFunction, Reporting
<1>5. CASE c.fn = "leader"
  <2>1. leader(m, c.ts, c.password)
    BY <1>2, <1>3, <1>5 DEF Accepted, leader, ActionType, VoteType
  <2> QED BY <1>1, <1>3, <1>5, <2>1, EndPath DEF Handled
<1>6. CASE c.fn = "report"
  <2>1. pc[s] = "commitReport"
    BY <1>1, <1>6 DEF Committing, SInv, Known, RightFunction, ActionType, VoteType
  <2>2. Authenticated(m, c.password) /\ members[m].isleader /\ ~isFrozen(members[m].timestamp, c.ts)
    BY <1>6, <2>1 DEF Path, At, Reporting
  <2>3. leaderReport(m, c.ts, c.password)
    BY <1>2, <1>3, <1>6, <2>2 DEF Accepted, leaderReport, ActionType, VoteType
  <2> QED BY <1>1, <1>3, <1>6, <2>3, EndPath DEF Handled
<1>7. CASE c.fn \in ActionType \cup VoteType
  <2>1. pc[s] = "commit" /\ c.fn \notin {"leader", "report"}
    BY <1>1, <1>7 DEF Committing, SInv, Known, RightFunction, Reporting, ActionType, VoteType
  <2>2. Admitted(m, c.ts, c.password)
    BY <2>1 DEF Path, At
  <2>3. CASE c.fn \in ActionType
    <3>1. createAction(m, c.ts, c.password, c.fn, c.action, c.project, c.authority)
      BY <1>2, <1>3, <2>1, <2>2, <2>3 DEF Accepted, createAction, ActionType, VoteType
    <3> QED BY <1>1, <1>3, <2>3, <3>1, EndPath DEF Handled
  <2>4. CASE c.fn \in VoteType
    <3>1. vote(m, c.ts, c.password, c.fn, c.action)
      BY <1>2, <1>3, <2>1, <2>2, <2>4 DEF Accepted, vote, Ballot, ActionType, VoteType
    <3> QED BY <1>1, <1>3, <2>4, <3>1, EndPath DEF Handled
  <2> QED BY <1>7, <2>3, <2>4
<1> QED BY <1>4, <1>5, <1>6, <1>7

LEMMA readPath ==
    ASSUME SInv, NEW s \in Prog, read(s)
    PROVE  Path(s)' /\ UNCHANGED callsVars
<1>1. PICK c \in Input : call' = [call EXCEPT ![s] = c] /\ Goto(s, Entry(c.fn)) /\ c.ts >= clock
  BY DEF read
<1>2. UNCHANGED callsVars /\ pc'[s] = Entry(c.fn) /\ call'[s] = c
  BY <1>1 DEF read, Goto, SInv, Shape
<1>3. c.fn \in {"trolls", "leader", "report"} \cup ActionType \cup VoteType
  BY InputIs
<1>4. Entry(c.fn) \in {"leader", "report", "trolls", "member"}
  BY <1>3 DEF Entry, ActionType, VoteType
<1>5. At(Entry(c.fn), c, known'[s], listed'[s])
  BY <1>1, <1>4 DEF At, Joining, Reporting, Creating, Voting, Adding
<1>6. At(pc'[s], call'[s], known'[s], listed'[s])
  BY <1>2, <1>5
<1> QED BY <1>2, <1>6, PathNext

LEMMA LeavingPath ==
    ASSUME SInv, NEW s \in Prog, printConfirmation(s) \/ rollback(s) \/ crash(s)
    PROVE  Path(s)' /\ UNCHANGED callsVars
<1>1. UNCHANGED callsVars /\ pc'[s] = "idle"
  BY DEF printConfirmation, rollback, crash, Goto, SInv, Shape
<1> QED BY <1>1, EndPath

\* One program waits for nobody.
LEMMA NoCircle == ASSUME OneProgram, NEW s \in Prog PROVE ~InCircle(s)
<1> SUFFICES ASSUME NEW n \in 1 .. Cardinality(Prog), NEW way \in [0 .. n -> Prog],
                    \A i \in 1 .. n : Waits(way[i - 1], way[i])
             PROVE  FALSE
  BY DEF InCircle
<1>1. 1 \in 1 .. n /\ 0 \in 0 .. n /\ 1 \in 0 .. n
  <2>1. n \in Int /\ n >= 1
    OBVIOUS
  <2> QED BY <2>1
<1>2. Waits(way[1 - 1], way[1]) /\ way[0] \in Prog /\ way[1] \in Prog
  BY <1>1
<1> QED BY <1>2 DEF Waits, OneProgram

LEMMA OneStep ==
    ASSUME OneProgram, SInv, NEW s \in Prog, Path(s),
           read(s) \/ Statement(s) \/ deadlockDetected(s) \/ crash(s)
    PROVE  Path(s)' /\ (UNCHANGED callsVars \/ (call[s] \in Input /\ Handled(call[s])))
<1>1. pc[s] # "idle" => call[s] \in Input
  BY DEF SInv, Shape
<1>2. CASE read(s) \/ crash(s) \/ printConfirmation(s) \/ rollback(s)
  BY <1>2, readPath, LeavingPath
<1>3. CASE deadlockDetected(s)
  BY <1>3, NoCircle DEF deadlockDetected
<1>4. CASE leaderStatement(s) \/ projectStatement(s) \/ reportStatement(s) \/ printReport(s)
           \/ voteStatement(s)
  BY <1>4, leaderPath, projectPath, reportPath, printReportPath, votePath
<1>5. CASE memberStatement(s)
  <2>1. pc[s] \in {"member", "memberTaken?", "password", "frozen"}
        \/ pc[s] \in {"memberTaken", "memberRow", "touch"}
    BY <1>5 DEF memberStatement, Select, InsertRow, Update
  <2> QED BY <1>5, <2>1, memberSelectPath, memberInsertPath
<1>6. CASE authorityStatement(s)
  BY <1>1, <1>6, authorityPath DEF authorityStatement
<1>7. CASE actionStatement(s)
  <2>1. pc[s] \in {"actionTaken?", "idsTaken?"} \/ (pc[s] \in WritingAction /\ pc[s] # "idle")
    BY <1>7 DEF actionStatement, Select, InsertRow, Update, WritingAction
  <2> QED BY <1>1, <1>7, <2>1, actionSelectPath, actionInsertPath
<1>8. CASE commit(s) \/ commitReport(s) \/ trollsStatement(s) \/ printNegation(s)
  <2>1. pc[s] # "idle"
    BY <1>8 DEF commit, commitReport, trollsStatement, printNegation
  <2> QED BY <1>1, <1>8, <2>1, commitPath, AnswerPath
<1> QED BY <1>2, <1>3, <1>4, <1>5, <1>6, <1>7, <1>8 DEF Statement

-----------------------------------------------------------------------------
(* Theorem *)

\* With one program at the database, what the statements of a handler store,
\* refuse or die of is what the atomic handler of Party does for the same call,
\* and a crash leaves no part of it behind.
THEOREM HandlersAreAtomicAlone == ASSUME OneProgram PROVE SessionSpec => HandlersAreAtomic
<1> DEFINE Paths == \A s \in Prog : Path(s)
<1>1. SessionInit => Paths /\ CallsInit
  <2> SUFFICES ASSUME SessionInit, NEW s \in Prog PROVE Path(s)
    BY DEF SessionInit
  <2>1. pc[s] = "idle"
    BY DEF SessionInit
  <2> QED BY <2>1 DEF Path, At, Joining, Reporting, Creating, Voting, Adding
<1>2. SInv /\ Paths /\ [SessionNext]_sessionVars => Paths' /\ [CallsNext]_callsVars
  <2> SUFFICES ASSUME SInv, Paths, [SessionNext]_sessionVars
               PROVE  Paths' /\ [CallsNext]_callsVars
    OBVIOUS
  <2>1. CASE UNCHANGED sessionVars
    <3>1. UNCHANGED <<callsVars, pc, call, known, listed>>
      BY <2>1 DEF sessionVars, local
    <3>2. ASSUME NEW s \in Prog PROVE Path(s)'
      <4>1. At(pc'[s], call'[s], known'[s], listed'[s])
        BY <3>1 DEF Path
      <4> QED BY <3>1, <4>1, PathNext
    <3> QED BY <3>1, <3>2
  <2>2. CASE \E s \in Prog : read(s) \/ Statement(s) \/ deadlockDetected(s) \/ crash(s)
    <3>1. PICK s \in Prog : read(s) \/ Statement(s) \/ deadlockDetected(s) \/ crash(s)
      BY <2>2
    <3>2. Path(s)' /\ (UNCHANGED callsVars \/ (call[s] \in Input /\ Handled(call[s])))
      BY <3>1, OneStep
    <3>3. \A t \in Prog : t = s
      BY DEF OneProgram
    <3> QED BY <3>2, <3>3, HandledIsNext
  <2> QED BY <2>1, <2>2 DEF SessionNext
<1> QED BY <1>1, <1>2, SessionInductive, PTL DEF SessionSpec, CallsSpec, HandlersAreAtomic
=============================================================================
