---------------------------- MODULE MCSessions ----------------------------
(***************************************************************************)
(* Sessions for TLC.  The calls are chosen so that they get into each      *)
(* other's way: the same new member, action, project or authority, votes   *)
(* on one action, and identifiers that clash.                              *)
(***************************************************************************)
EXTENDS Sessions

CONSTANTS m1, m2, a1, a2, r1, g1, p1, p2

\* One program: every way a handler can go.
Alone ==
    {MemberCall("leader", m1, 0, p1), MemberCall("leader", a1, 0, p1),
     MemberCall("report", m1, 0, p1), MemberCall("report", m1, 1, p2),
     MemberCall("report", m1, 2, p1),
     ActionCall("support", m1, 1, p1, a1, r1, g1), ActionCall("support", m2, 1, p1, a1, r1, a1),
     ActionCall("protest", m2, 1, p1, a1, r1, Absent), ActionCall("protest", m2, 2, p1, a2, r1, m2),
     ActionCall("protest", m1, 2, p1, a2, m2, g1),
     VoteCall("upvote", m1, 1, p1, a1), VoteCall("downvote", m2, 1, p1, a1),
     VoteCall("upvote", m2, 2, p2, a1), VoteCall("downvote", m1, 2, p1, a1), TrollsCall(2)}

\* Two programs at a time.
Together ==
    {MemberCall("leader", m1, 0, p1), MemberCall("report", m1, 0, p1),
     ActionCall("support", m1, 0, p1, a1, r1, g1), ActionCall("protest", m2, 0, p1, a1, r1, g1),
     ActionCall("support", m2, 0, p1, m1, r1, g1),
     VoteCall("upvote", m1, 0, p1, a1), VoteCall("downvote", m2, 0, p1, a1)}
=============================================================================
