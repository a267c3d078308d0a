------------------------------ MODULE Program ------------------------------
(***************************************************************************)
(* The runs of the program around the calls: which database and which user *)
(* a run works with, and what openInit sets up before, statement by        *)
(* statement.  Any number of processes, started and killed at any time; a  *)
(* database server with several databases, the user init and, once         *)
(* created, the user app.                                                  *)
(***************************************************************************)
EXTENDS Naturals, FiniteSets

CONSTANTS
    Process,   \* processes of the program
    Database,  \* databases of the server
    student,   \* the one named in the connection strings of InputReader
    Unopened   \* no such value yet

ASSUME StudentAssumption == student \in Database
ASSUME UnopenedAssumption == Unopened \notin Database

VARIABLES
    schema,     \* databases in which dbinit.sql has been executed and committed
    app,        \* the user app exists (users belong to the server, not to a database)
    changed,    \* databases with rows in their tables
    run,        \* mode of the process: "none", "init" or "app"
    step,       \* its next statement in openInit; "idle" outside
    sql,        \* its openInit has found dbinit.sql in the working directory
    db_name,    \* the field of DatabaseFunctions
    answer,     \* status it printed last; "terminated": uncaught exception
    \* History, of no influence on what happens.
    confirmed,  \* databases an open with dbinit.sql has answered OK for
    blind       \* an open without dbinit.sql has been committed

server == <<schema, app, changed>>
history == <<confirmed, blind>>
programVars == <<server, run, step, sql, db_name, answer, history>>

-----------------------------------------------------------------------------
(* The process *)

\* The process ends; what it kept in memory goes.
End(p) ==
    /\ run' = [run EXCEPT ![p] = "none"]
    /\ step' = [step EXCEPT ![p] = "idle"]
    /\ sql' = [sql EXCEPT ![p] = FALSE]
    /\ db_name' = [db_name EXCEPT ![p] = Unopened]

Answers(p, status) == answer' = [answer EXCEPT ![p] = status]

\* An exception: pqxx rolls back, main does not catch it.
Uncaught(p) == End(p) /\ Answers(p, "terminated") /\ UNCHANGED <<server, history>>

\* main with --init; the connections are made call by call.
startInit(p) ==
    /\ run[p] = "none" /\ run' = [run EXCEPT ![p] = "init"]
    /\ Answers(p, "none")
    /\ UNCHANGED <<server, step, sql, db_name, history>>

\* main without argument: readApp connects to student as app before it reads.
startApp(p) ==
    /\ run[p] = "none"
    /\ \/ ~app /\ Uncaught(p)
       \/ /\ app /\ run' = [run EXCEPT ![p] = "app"]
          /\ Answers(p, "none")
          /\ UNCHANGED <<server, step, sql, db_name, history>>

\* main with any other argument.
startWrong(p) ==
    /\ run[p] = "none" /\ Answers(p, "wrong arguments")
    /\ UNCHANGED <<server, run, step, sql, db_name, history>>

-----------------------------------------------------------------------------
(* openInit: a transaction of three statements *)

Others(p) == Process \ {p}

\* What open transactions have written and hold until they end.
HoldsTables(p, d) == step[p] \in {"user", "grants", "commit"} /\ sql[p] /\ db_name[p] = d
HoldsUser(p) == step[p] \in {"grants", "commit"}

Proceeds(p, at, to) == step[p] = at /\ step' = [step EXCEPT ![p] = to]

\* The credentials, and with the right ones the connection and the transaction.
openInit(p, d, valid) ==
    /\ run[p] = "init" /\ step[p] = "idle"
    /\ \/ /\ ~valid
          /\ Answers(p, "ERROR")
          /\ UNCHANGED <<server, run, step, sql, db_name, history>>
       \/ /\ valid /\ Proceeds(p, "idle", "tables")
          /\ \E found \in BOOLEAN : sql' = [sql EXCEPT ![p] = found]
          /\ db_name' = [db_name EXCEPT ![p] = d]
          /\ Answers(p, "none")
          /\ UNCHANGED <<server, run, history>>

\* Mutant: the tables are committed before the user is created.
createTablesAtOnce(p) ==
    /\ step[p] = "tables"
    /\ \/ sql[p] /\ db_name[p] \in schema /\ Uncaught(p)
       \/ /\ sql[p] => db_name[p] \notin schema
          /\ Proceeds(p, "tables", "user")
          /\ schema' = IF sql[p] THEN schema \cup {db_name[p]} ELSE schema
          /\ UNCHANGED <<app, changed, run, sql, db_name, answer, history>>

\* The statements of dbinit.sql.  A table that exists makes them fail; one that
\* another open transaction has created makes them wait for its end.  Without
\* the file the query is empty, which is no error.
createTables(p) ==
    /\ step[p] = "tables"
    /\ \/ sql[p] /\ db_name[p] \in schema /\ Uncaught(p)
       \/ /\ sql[p] => /\ db_name[p] \notin schema
                       /\ \A q \in Others(p) : ~HoldsTables(q, db_name[p])
          /\ Proceeds(p, "tables", "user")
          /\ UNCHANGED <<server, run, sql, db_name, answer, history>>

\* CREATE USER: the name is unique in the server.
createUser(p) ==
    /\ step[p] = "user"
    /\ \/ app /\ Uncaught(p)
       \/ /\ ~app /\ \A q \in Others(p) : ~HoldsUser(q)
          /\ Proceeds(p, "user", "grants")
          /\ UNCHANGED <<server, run, sql, db_name, answer, history>>

\* GRANT and ALTER USER.
grant(p) ==
    /\ Proceeds(p, "grants", "commit")
    /\ UNCHANGED <<server, run, sql, db_name, answer, history>>

\* The server commits what the transaction has written.
commit(p) ==
    /\ Proceeds(p, "commit", "print")
    /\ schema' = IF sql[p] THEN schema \cup {db_name[p]} ELSE schema
    /\ app' = TRUE
    /\ blind' = (blind \/ ~sql[p])
    /\ UNCHANGED <<changed, run, sql, db_name, answer, confirmed>>

\* The answer to the commit has arrived.
print(p) ==
    /\ Proceeds(p, "print", "idle")
    /\ Answers(p, "OK")
    /\ confirmed' = IF sql[p] THEN confirmed \cup {db_name[p]} ELSE confirmed
    /\ sql' = [sql EXCEPT ![p] = FALSE]
    /\ UNCHANGED <<server, run, db_name, blind>>

\* A connection that cannot be made or breaks, a statement that fails for
\* another reason, an answer to the commit that is lost.
fail(p) == step[p] # "idle" /\ Uncaught(p)

-----------------------------------------------------------------------------
(* The other lines of the input *)

openApp(p, d, valid) ==
    /\ run[p] = "app"
    /\ db_name' = IF valid THEN [db_name EXCEPT ![p] = d] ELSE db_name
    /\ Answers(p, IF valid THEN "OK" ELSE "ERROR")
    /\ UNCHANGED <<server, run, step, sql, history>>

\* leader in an --init run, any other function in the others: the connection
\* is to student, whatever was opened.  Without the tables a statement fails.
apiCall(p) ==
    /\ run[p] # "none" /\ step[p] = "idle"
    /\ \/ student \notin schema /\ Uncaught(p)
       \/ /\ student \in schema
          /\ \/ Answers(p, "OK") /\ changed' \in {changed, changed \cup {student}}
             \/ Answers(p, "ERROR") /\ UNCHANGED changed
          /\ UNCHANGED <<schema, app, run, step, sql, db_name, history>>

\* The end of the input, or the process is killed.
stop(p) == run[p] # "none" /\ End(p) /\ Answers(p, "none") /\ UNCHANGED <<server, history>>

-----------------------------------------------------------------------------

ProgramInit ==
    /\ schema = {} /\ app = FALSE /\ changed = {}
    /\ run = [p \in Process |-> "none"]
    /\ step = [p \in Process |-> "idle"]
    /\ sql = [p \in Process |-> FALSE]
    /\ db_name = [p \in Process |-> Unopened]
    /\ answer = [p \in Process |-> "none"]
    /\ confirmed = {} /\ blind = FALSE

ProgramNext ==
    \E p \in Process :
        \/ startInit(p) \/ startApp(p) \/ startWrong(p)
        \/ \E d \in Database, valid \in BOOLEAN : openInit(p, d, valid) \/ openApp(p, d, valid)
        \/ createTables(p) \/ createUser(p) \/ grant(p) \/ commit(p) \/ print(p) \/ fail(p)
        \/ apiCall(p)
        \/ stop(p)

ProgramSpec == ProgramInit /\ [][ProgramNext]_programVars

-----------------------------------------------------------------------------
(* Properties *)

\* Whatever stops an open, and whatever another process does between its
\* statements, the server holds at most one registry, never the tables without
\* the user app, and the user without the tables only after an open that did
\* not find dbinit.sql; an open answers OK only for tables that are there.
OneRegistry ==
    /\ Cardinality(schema) <= 1
    /\ schema # {} => app
    /\ app => schema # {} \/ blind
    /\ confirmed \subseteq schema
=============================================================================
