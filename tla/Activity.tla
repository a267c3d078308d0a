------------------------------ MODULE Activity ------------------------------
(***************************************************************************)
(* Party with the history that the rule of freezing is about: when each    *)
(* member last called a function with the right password.  The program     *)
(* does not keep it: members.timestamp is written only by calls that are   *)
(* carried out, as a refused one rolls back its UPDATE.                    *)
(***************************************************************************)
EXTENDS Reports

VARIABLE lastCall   \* member -> timestamp of the latest call authorised as the member

activityVars == <<vars, lastCall>>

\* FreezeAfter is the literal 31556900000; a year has 31556900 seconds.
Year == FreezeAfter \div 1000

\* A call of m with password pw, at ts.  A member who has been silent for too
\* long does not come back by calling.
Called(m, ts, pw) ==
    lastCall' = [n \in DOMAIN members' |->
        IF /\ n = m /\ members'[m].password = crypt(pw)
           /\ n \in DOMAIN lastCall => ~isFrozen(lastCall[n], ts)
        THEN ts ELSE lastCall[n]]

\* leader creates an account, it is not a call of one.
Appointed(ts) ==
    lastCall' = [n \in DOMAIN members' |-> IF n \in DOMAIN lastCall THEN lastCall[n] ELSE ts]

ActivityInit == Init /\ lastCall = EmptyTable

ActivityNext ==
    \E ts \in Timestamp :
        \/ trolls(ts) /\ UNCHANGED lastCall
        \/ \E m \in MemberArg, pw \in Password :
            \/ leader(m, ts, pw) /\ Appointed(ts)
            \/ leaderReport(m, ts, pw) /\ Called(m, ts, pw)
            \/ \E type \in VoteType, a \in ActionArg :
                   vote(m, ts, pw, type, a) /\ Called(m, ts, pw)
            \/ \E type \in ActionType, a \in ActionArg, p \in ProjectArg,
                  auth \in AuthorityArg \cup {Absent} :
                   createAction(m, ts, pw, type, a, p, auth) /\ Called(m, ts, pw)

ActivitySpec == ActivityInit /\ [][ActivityNext]_activityVars

-----------------------------------------------------------------------------
(* Properties *)

\* Whoever has made no call for longer than the code's limit is frozen.
SilenceFreezes ==
    \A m \in DOMAIN members :
        isFrozen(lastCall[m], clock) => isFrozen(members[m].timestamp, clock)

\* Nobody acts who has not called for more than a year.
InactiveYearFreezes ==
    [][\A m \in DOMAIN members :
           members'[m].timestamp # members[m].timestamp => clock' - lastCall[m] <= Year]_activityVars
=============================================================================
