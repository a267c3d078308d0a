------------------------------- MODULE Calls -------------------------------
(***************************************************************************)
(* Party with the call that each step answers, so that an answer can be    *)
(* judged by the arguments of its own call: a record of the name of the    *)
(* function (report for actions, projects and votes) and its arguments.    *)
(***************************************************************************)
EXTENDS Party

VARIABLE request   \* the call that was answered last

callsVars == <<vars, request>>

NoCall == [fn |-> "none"]

TrollsCall(ts) == [fn |-> "trolls", ts |-> ts]

MemberCall(fn, m, ts, pw) == [fn |-> fn, member |-> m, ts |-> ts, password |-> pw]

VoteCall(fn, m, ts, pw, a) ==
    [fn |-> fn, member |-> m, ts |-> ts, password |-> pw, action |-> a]

ActionCall(fn, m, ts, pw, a, p, auth) ==
    [fn |-> fn, member |-> m, ts |-> ts, password |-> pw, action |-> a,
     project |-> p, authority |-> auth]

CallsInit == Init /\ request = NoCall

CallsNext ==
    \E ts \in Timestamp :
        \/ request' = TrollsCall(ts) /\ trolls(ts)
        \/ \E m \in MemberArg, pw \in Password :
            \/ request' = MemberCall("leader", m, ts, pw) /\ leader(m, ts, pw)
            \/ request' = MemberCall("report", m, ts, pw) /\ leaderReport(m, ts, pw)
            \/ \E type \in VoteType, a \in ActionArg :
                   request' = VoteCall(type, m, ts, pw, a) /\ vote(m, ts, pw, type, a)
            \/ \E type \in ActionType, a \in ActionArg, p \in ProjectArg,
                  auth \in AuthorityArg \cup {Absent} :
                   /\ request' = ActionCall(type, m, ts, pw, a, p, auth)
                   /\ createAction(m, ts, pw, type, a, p, auth)

CallsSpec == CallsInit /\ [][CallsNext]_callsVars
=============================================================================
