------------------------------ MODULE Reports ------------------------------
(***************************************************************************)
(* The rows that actions, projects, votes and trolls print: their queries  *)
(* over the tables of Party, and what the reports have to say to be right. *)
(* The order of the rows (ORDER BY) is left out: a report is a set.        *)
(***************************************************************************)
EXTENDS Party, Functions

\* An optional argument narrows a report only when it is given.
Matches(arg, value) == arg = Absent \/ arg = value

-----------------------------------------------------------------------------
(* The queries *)

\* SELECT ... FROM actions JOIN members ON m.id = actions.memberid WHERE ...
actionsRows(type, p, g) ==
    {[id |-> a, type |-> actions[a].type, projectid |-> actions[a].projectid,
      authorityid |-> actions[a].authorityid,
      upvotes |-> actions[a].upvotes, downvotes |-> actions[a].downvotes] :
        a \in {b \in DOMAIN actions :
                 /\ actions[b].memberid \in DOMAIN members
                 /\ Matches(type, actions[b].type)
                 /\ Matches(p, actions[b].projectid)
                 /\ Matches(g, actions[b].authorityid)}}

projectsRows(g) ==
    {[id |-> p, authorityid |-> projects[p]] : p \in {q \in DOMAIN projects : Matches(g, projects[q])}}

\* Mutant: the condition on the project is missing.
CountedEverywhere(m, type, p, a) ==
    Cardinality({i \in DOMAIN votes :
        votes[i].memberid = m /\ votes[i].type = type /\ Matches(a, votes[i].actionid)})

\* COUNT (v.type) FILTER (WHERE v.type = ... AND a.projectid = p AND v.actionid = a)
\* over votes v FULL OUTER JOIN members m LEFT JOIN actions a GROUP BY m.id
Counted(m, type, p, a) ==
    Cardinality({i \in DOMAIN votes :
        /\ votes[i].memberid = m /\ votes[i].type = type
        /\ p = Absent \/ (votes[i].actionid \in DOMAIN actions /\ actions[votes[i].actionid].projectid = p)
        /\ Matches(a, votes[i].actionid)})

votesRows(p, a) ==
    {[id |-> m, upvotes |-> Counted(m, "upvote", p, a), downvotes |-> Counted(m, "downvote", p, a)] :
        m \in DOMAIN members \cup {votes[i].memberid : i \in DOMAIN votes}}

ActionsBy(m) == {a \in DOMAIN actions : actions[a].memberid = m}

\* Mutant: the last moment of the period is left out.
trollsRowStrict(m, ts) ==
    LET up == [a \in ActionsBy(m) |-> actions[a].upvotes]
        down == [a \in ActionsBy(m) |-> actions[a].downvotes]
    IN  [memberid |-> m, upvotes |-> SumFunction(up), downvotes |-> SumFunction(down),
         active |-> members[m].timestamp <= ts /\ ts < members[m].timestamp + FreezeAfter]

\* SUM(upvotes), SUM(downvotes), ts BETWEEN m.timestamp AND m.timestamp + 31556900000
\* FROM actions JOIN members GROUP BY memberid, m.timestamp
trollsRow(m, ts) ==
    LET up == [a \in ActionsBy(m) |-> actions[a].upvotes]
        down == [a \in ActionsBy(m) |-> actions[a].downvotes]
    IN  [memberid |-> m, upvotes |-> SumFunction(up), downvotes |-> SumFunction(down),
         active |-> members[m].timestamp <= ts /\ ts <= members[m].timestamp + FreezeAfter]

trollsRows(ts) ==
    {row \in {trollsRow(m, ts) : m \in {k \in DOMAIN members : ActionsBy(k) # {}}} :
        row.upvotes < row.downvotes}

-----------------------------------------------------------------------------
(* Properties *)

\* The ballots report lists each member exactly once, voter or not, and, narrowed
\* to an action or to a project, adds up to the counters the actions report shows
\* for that action, or for the actions of that project: tables that only vote
\* keeps in step.
ReportsAddUp ==
    LET up(rows) == SumFunction([row \in rows |-> row.upvotes])
        down(rows) == SumFunction([row \in rows |-> row.downvotes])
    IN  \A p \in ProjectArg \cup {Absent}, a \in ActionArg \cup {Absent} :
            /\ {row.id : row \in votesRows(p, a)} = DOMAIN members
            /\ Cardinality(votesRows(p, a)) = Cardinality(DOMAIN members)
            /\ p = Absent \/ a = Absent =>
                 LET shown == {row \in actionsRows(Absent, p, Absent) : Matches(a, row.id)}
                 IN  /\ up(votesRows(p, a)) = up(shown)
                     /\ down(votesRows(p, a)) = down(shown)

\* The actions an authority is shown with are the actions on the projects the
\* same authority is shown with, although the one report reads the copy in
\* actions and the other reads projects.
AuthorityReportsAgree ==
    \A g \in AuthorityArg :
        actionsRows(Absent, Absent, g) =
            UNION {actionsRows(Absent, row.id, Absent) : row \in projectsRows(g)}

\* From now on trolls lists just the members whose actions drew more ballots
\* against than for, counted from the ballots themselves, and calls active
\* those that createAction and vote would not find frozen at the same moment:
\* the same rule, written once in SQL and once in isFrozen.
TrollsAreRight ==
    LET cast(m, type) == Cardinality({i \in DOMAIN votes :
                             votes[i].type = type /\ votes[i].actionid \in ActionsBy(m)})
    IN  \A ts \in Timestamp : ts >= clock =>
            trollsRows(ts) =
                {[memberid |-> m, upvotes |-> cast(m, "upvote"), downvotes |-> cast(m, "downvote"),
                  active |-> ~isFrozen(members[m].timestamp, ts)] :
                    m \in {k \in DOMAIN members : cast(k, "upvote") < cast(k, "downvote")}}
=============================================================================
