-------------------------- MODULE PartyRefinement --------------------------
(* The tables of Party, read as the registry they represent. *)
EXTENDS Calls

roleOf == [i \in Id |->
    CASE i \in DOMAIN members  -> "member"
      [] i \in DOMAIN projects -> "project"
      [] i \in DOMAIN actions  -> "action"
      [] i \in Authorities     -> "authority"
      [] OTHER                 -> "free"]

personOf == [m \in DOMAIN members |->
    [secret |-> members[m].password.bf, lastSeen |-> members[m].timestamp,
     leader |-> members[m].isleader]]

actionOf == [a \in DOMAIN actions |->
    [by |-> actions[a].memberid, on |-> actions[a].projectid, type |-> actions[a].type]]

\* The vote a member cast on an action is that of the first such row.
BallotRow(v, i) == <<votes[i].memberid, votes[i].actionid>> = v

ballotOf == [v \in {<<votes[i].memberid, votes[i].actionid>> : i \in DOMAIN votes} |->
    votes[CHOOSE i \in DOMAIN votes :
              BallotRow(v, i) /\ \A j \in DOMAIN votes : BallotRow(v, j) => i <= j].type]

\* Whoever calls a handler that ends in an exception gets no effect either.
outcomeOf == CASE reply = "none" -> "none"
               [] reply = "OK"   -> "done"
               [] OTHER          -> "refused"

R == INSTANCE Registry WITH
         role <- roleOf, person <- personOf, authorityOf <- projects,
         action <- actionOf, ballot <- ballotOf, now <- clock,
         request <- request, outcome <- outcomeOf

\* Every behaviour of the handlers is one of the abstract registry: each call is
\* granted or refused as its arguments and the past demand, and has just that
\* effect on identifiers, people, actions and ballots.
ImplementsRegistry == R!Spec
=============================================================================
