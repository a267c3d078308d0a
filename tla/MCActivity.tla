----------------------------- MODULE MCActivity -----------------------------
(***************************************************************************)
(* Activity and Program for TLC.  The calls of a program on its tables and *)
(* the runs of programs around the calls share no state: while one goes on *)
(* the other stands at its beginning.  Identifiers are model values, each  *)
(* kind interchangeable.                                                   *)
(***************************************************************************)
EXTENDS Activity, Program, TLC

CONSTANT p1   \* a password

Symmetry == Permutations(MemberArg) \cup Permutations(ActionArg) \cup Permutations(ProjectArg)
                \cup Permutations(AuthorityArg)

\* Every member's password is p1: nothing compares those of two members, and
\* the other passwords are the wrong ones.
OnePassword == \A m \in DOMAIN members : members[m].password = crypt(p1)
\* Bounds: two rows of every kind while time stands still, or one action and any
\* times.
OneAction == Cardinality(DOMAIN actions) <= 1
AtOneTime == INSTANCE Activity WITH Timestamp <- {0}, Password <- {p1}

MCVars == <<activityVars, programVars>>
MCInit == ActivityInit /\ ProgramInit
MCNext ==
    \/ ProgramInit /\ ((OneAction /\ ActivityNext /\ OneAction') \/ AtOneTime!ActivityNext) /\ OnePassword' /\ UNCHANGED programVars
    \/ ActivityInit /\ ProgramNext /\ UNCHANGED activityVars
MCSpec == MCInit /\ [][MCNext]_MCVars
=============================================================================
