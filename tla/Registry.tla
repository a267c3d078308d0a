----------------------------- MODULE Registry -----------------------------
(***************************************************************************)
(* What the party registry promises to a caller of the API: people,        *)
(* projects, actions and authorities under globally unique identifiers,    *)
(* one ballot per member and action, and frozen accounts.  Module Party    *)
(* implements it with SQL tables (module PartyRefinement).                 *)
(*                                                                         *)
(* A call claims roles for the identifiers it carries.  It takes effect as *)
(* a whole when every claim can be granted, and is refused as a whole      *)
(* otherwise.                                                              *)
(***************************************************************************)
EXTENDS Integers

CONSTANTS MemberArg, ActionArg, ProjectArg, AuthorityArg, Password, Timestamp,
          FreezeAfter, Absent

Id == MemberArg \cup ActionArg \cup ProjectArg \cup AuthorityArg

VARIABLES
    role,         \* what each identifier stands for
    person,       \* member -> [secret, lastSeen, leader]
    authorityOf,  \* project -> authority that leads it
    action,       \* action -> [by, on, type]
    ballot,       \* <<member, action>> -> vote
    now,          \* timestamp of the latest call
    request,      \* the latest call
    outcome       \* and what became of it

contents == <<role, person, authorityOf, action, ballot>>
vars == <<role, person, authorityOf, action, ballot, now, request, outcome>>

Role == {"free", "member", "project", "action", "authority"}
ActionType == {"support", "protest"}
VoteType == {"upvote", "downvote"}

Extend(f, key, value) ==
    [k \in DOMAIN f \cup {key} |-> IF k = key THEN value ELSE f[k]]

-----------------------------------------------------------------------------
(* Claims: pairs of an identifier and the role asked for it *)

Grantable(claims) ==
    \A c, d \in claims :
        /\ role[c[1]] \in {"free", c[2]}
        /\ c[1] = d[1] => c[2] = d[2]

Grant(claims) ==
    role' = [i \in Id |-> IF \E r \in Role : <<i, r>> \in claims
                          THEN CHOOSE r \in Role : <<i, r>> \in claims
                          ELSE role[i]]

\* The member of the call is a newcomer, or knows the secret and has not been
\* inactive for too long.
MayAct(c) ==
    \/ role[c.member] = "free"
    \/ /\ role[c.member] = "member"
       /\ person[c.member].secret = c.password
       /\ c.ts - person[c.member].lastSeen <= FreezeAfter

\* The call counts as activity of its member.
Seen(c) ==
    person' = IF role[c.member] = "member"
              THEN [person EXCEPT ![c.member].lastSeen = c.ts]
              ELSE Extend(person, c.member,
                       [secret |-> c.password, lastSeen |-> c.ts, leader |-> FALSE])

-----------------------------------------------------------------------------
(* The calls; what is not allowed is refused and changes nothing *)

Personal == [fn : {"leader", "report"}, member : MemberArg, ts : Timestamp, password : Password]

Voting == [fn : VoteType, member : MemberArg, ts : Timestamp, password : Password,
           action : ActionArg]

Proposal == [fn : ActionType, member : MemberArg, ts : Timestamp, password : Password,
             action : ActionArg, project : ProjectArg, authority : AuthorityArg \cup {Absent}]

Question == [fn : {"trolls"}, ts : Timestamp]

Settle(c, allowed) ==
    /\ c.ts >= now /\ now' = c.ts
    /\ outcome' = IF allowed THEN "done" ELSE "refused"
    /\ ~allowed => UNCHANGED contents

AppointLeader(c) ==
    LET allowed == role[c.member] = "free"
    IN  /\ Settle(c, allowed)
        /\ allowed =>
             /\ Grant({<<c.member, "member">>})
             /\ person' = Extend(person, c.member,
                    [secret |-> c.password, lastSeen |-> c.ts, leader |-> TRUE])
             /\ UNCHANGED <<authorityOf, action, ballot>>

\* A known project keeps its authority, whatever authority the call names.
Propose(c) ==
    LET known   == role[c.project] = "project"
        claims  == {<<c.member, "member">>, <<c.action, "action">>, <<c.project, "project">>}
                      \cup (IF known THEN {} ELSE {<<c.authority, "authority">>})
        allowed == /\ MayAct(c)
                   /\ known \/ c.authority # Absent
                   /\ role[c.action] = "free"
                   /\ Grantable(claims)
    IN  /\ Settle(c, allowed)
        /\ allowed =>
             /\ Grant(claims)
             /\ Seen(c)
             /\ authorityOf' = IF known THEN authorityOf
                               ELSE Extend(authorityOf, c.project, c.authority)
             /\ action' = Extend(action, c.action,
                              [by |-> c.member, on |-> c.project, type |-> c.fn])
             /\ UNCHANGED ballot

CastBallot(c) ==
    LET allowed == /\ MayAct(c)
                   /\ role[c.action] = "action"
                   /\ c.action # c.member
                   /\ <<c.member, c.action>> \notin DOMAIN ballot
    IN  /\ Settle(c, allowed)
        /\ allowed =>
             /\ Grant({<<c.member, "member">>})
             /\ Seen(c)
             /\ ballot' = Extend(ballot, <<c.member, c.action>>, c.fn)
             /\ UNCHANGED <<authorityOf, action>>

AskAsLeader(c) ==
    LET allowed == role[c.member] = "member" /\ person[c.member].leader /\ MayAct(c)
    IN  /\ Settle(c, allowed)
        /\ allowed => Seen(c) /\ UNCHANGED <<role, authorityOf, action, ballot>>

Ask(c) == Settle(c, TRUE) /\ UNCHANGED contents

-----------------------------------------------------------------------------

Nothing == [k \in {} |-> Absent]

Init ==
    /\ role = [i \in Id |-> "free"]
    /\ person = Nothing /\ authorityOf = Nothing /\ action = Nothing /\ ballot = Nothing
    /\ now \in Timestamp
    /\ request = [fn |-> "none"]
    /\ outcome = "none"

\* Which call is made is up to the caller, what becomes of it is not.
Next ==
    \/ request' \in Personal /\ request'.fn = "leader" /\ AppointLeader(request')
    \/ request' \in Personal /\ request'.fn = "report" /\ AskAsLeader(request')
    \/ request' \in Voting /\ CastBallot(request')
    \/ request' \in Proposal /\ Propose(request')
    \/ request' \in Question /\ Ask(request')

Spec == Init /\ [][Next]_vars
=============================================================================
