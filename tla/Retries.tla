------------------------------- MODULE Retries -------------------------------
(***************************************************************************)
(* pqxx::perform and the older connection_base::perform, which run a       *)
(* client's transaction again when it has failed, and what they decide by: *)
(* the exception that result::ThrowSQLError makes of an SQLSTATE, its      *)
(* place among the classes of except.hxx, and do_commit of a work, which   *)
(* must tell an unknown outcome from a failure.                            *)
(***************************************************************************)
EXTENDS Client

VARIABLES asked,     \* the function called, and the attempts it was given
          attempts,  \* those that are left
          phase,     \* "idle", "working", "committing" or "over"
          committed, \* how often the server has stored what the callback does
          runs,      \* how often the callback has been started
          told,      \* calls of on_commit, on_abort and on_doubt
          outcome    \* "returned", or the exception that left

retryVars == <<asked, attempts, phase, committed, runs, told, outcome>>

-----------------------------------------------------------------------------
(* An SQLSTATE is its class of two characters and the rest. *)

Named == {<<"23", "001", "restrict_violation">>, <<"23", "502", "not_null_violation">>,
          <<"23", "503", "foreign_key_violation">>, <<"23", "505", "unique_violation">>,
          <<"23", "514", "check_violation">>,
          <<"40", "000", "transaction_rollback">>, <<"40", "001", "serialization_failure">>,
          <<"40", "003", "statement_completion_unknown">>, <<"40", "P01", "deadlock_detected">>,
          <<"42", "501", "insufficient_privilege">>, <<"42", "601", "syntax_error">>,
          <<"42", "703", "undefined_column">>, <<"42", "883", "undefined_function">>,
          <<"42", "P01", "undefined_table">>,
          <<"53", "100", "disk_full">>, <<"53", "200", "out_of_memory">>,
          <<"53", "300", "too_many_connections">>,
          <<"P0", "001", "plpgsql_raise">>, <<"P0", "002", "plpgsql_no_data_found">>,
          <<"P0", "003", "plpgsql_too_many_rows">>}

OfClass == {<<"08", "broken_connection">>, <<"0A", "feature_not_supported">>, <<"22", "data_exception">>,
            <<"23", "integrity_constraint_violation">>, <<"24", "invalid_cursor_state">>,
            <<"26", "invalid_sql_statement_name">>, <<"34", "invalid_cursor_name">>,
            <<"53", "insufficient_resources">>, <<"P0", "plpgsql_error">>}

\* An exact name comes first, then that of the class, then the fallback.
ThrowSQLError(code) ==
    LET exact == {t[3] : t \in {s \in Named : s[1] = code[1] /\ s[2] = code[2]}}
        class == {t[2] : t \in {s \in OfClass : s[1] = code[1]}}
    IN  IF exact # {} THEN CHOOSE e \in exact : TRUE
        ELSE IF class # {} THEN CHOOSE e \in class : TRUE
        ELSE "sql_error"

\* What a class of exceptions is derived from.
Derived == {<<"broken_connection", "failure">>, <<"sql_error", "failure">>, <<"in_doubt_error", "failure">>,
            <<"transaction_rollback", "failure">>, <<"serialization_failure", "transaction_rollback">>,
            <<"statement_completion_unknown", "transaction_rollback">>,
            <<"deadlock_detected", "transaction_rollback">>,
            <<"feature_not_supported", "sql_error">>, <<"data_exception", "sql_error">>,
            <<"integrity_constraint_violation", "sql_error">>,
            <<"restrict_violation", "integrity_constraint_violation">>,
            <<"not_null_violation", "integrity_constraint_violation">>,
            <<"foreign_key_violation", "integrity_constraint_violation">>,
            <<"unique_violation", "integrity_constraint_violation">>,
            <<"check_violation", "integrity_constraint_violation">>,
            <<"invalid_cursor_state", "sql_error">>, <<"invalid_sql_statement_name", "sql_error">>,
            <<"invalid_cursor_name", "sql_error">>, <<"syntax_error", "sql_error">>,
            <<"undefined_column", "syntax_error">>, <<"undefined_function", "syntax_error">>,
            <<"undefined_table", "syntax_error">>, <<"insufficient_privilege", "sql_error">>,
            <<"insufficient_resources", "sql_error">>, <<"disk_full", "insufficient_resources">>,
            <<"out_of_memory", "insufficient_resources">>,
            <<"too_many_connections", "broken_connection">>, <<"plpgsql_error", "sql_error">>,
            <<"plpgsql_raise", "plpgsql_error">>, <<"plpgsql_no_data_found", "plpgsql_error">>,
            <<"plpgsql_too_many_rows", "plpgsql_error">>}

\* Whether catch (const c &) catches e: no class is more than three steps below failure.
Bases(cs) == cs \cup {d[2] : d \in {s \in Derived : s[1] \in cs}}
IsA(e, c) == c \in Bases(Bases(Bases({e})))

\* The failures of a statement, of those an SQLSTATE names, and of a COMMIT: the
\* server may have stored the transaction although it answers with 40003.
Codes == {<<t[1], t[2]>> : t \in Named} \cup {<<t[1], "xxx">> : t \in OfClass} \cup {<<"40", "xxx">>, <<"55", "P03">>}
UnknownCompletion == <<"40", "003">>
Refusals == {<<"23", "503">>, <<"23", "505">>, <<"40", "001">>, <<"40", "P01">>, <<"53", "100">>}

-----------------------------------------------------------------------------
(* Deciding *)

\* The handlers of perform in their order: whether the exception is one to retry.
perform(e) ==
    /\ ~IsA(e, "in_doubt_error") /\ ~IsA(e, "statement_completion_unknown")
    /\ IsA(e, "broken_connection") \/ IsA(e, "transaction_rollback")

\* The handlers of connection_base::perform: the hook they call.
transactor_perform(e) == IF IsA(e, "in_doubt_error") THEN "doubt" ELSE "abort"

Retry(e) == IF asked.fn = "perform" THEN perform(e) ELSE transactor_perform(e) = "abort" /\ e # "unknown"

\* Mutant: a connection that broke meanwhile is not asked about.
do_commitCatchTrusting(e, open) == IF IsA(e, "statement_completion_unknown") THEN "in_doubt_error" ELSE e

\* do_commit's catch, by the exception and whether the connection is still open.
do_commitCatch(e, open) ==
    IF IsA(e, "statement_completion_unknown") \/ ~open THEN "in_doubt_error" ELSE e

-----------------------------------------------------------------------------
(* A call, and the attempts it makes *)

\* The exception e ends an attempt, and the transaction object has rolled back.
AttemptFails(e) ==
    /\ told' = IF asked.fn = "perform" THEN told ELSE [told EXCEPT ![transactor_perform(e)] = @ + 1]
    /\ IF Retry(e) /\ attempts > 1
       THEN phase' = "idle" /\ attempts' = attempts - 1 /\ UNCHANGED outcome
       ELSE phase' = "over" /\ outcome' = e /\ UNCHANGED attempts
    /\ UNCHANGED <<asked, runs>>

Start ==
    /\ phase = "idle"
    /\ IF attempts > 0 THEN phase' = "working" /\ runs' = runs + 1 /\ UNCHANGED outcome
       ELSE phase' = "over" /\ outcome' = (IF asked.fn = "perform" THEN "invalid_argument" ELSE "returned")
            /\ UNCHANGED runs
    /\ UNCHANGED <<asked, attempts, committed, told>>

\* A statement is refused, the link breaks, or the callback throws by itself.
StatementFails ==
    /\ phase = "working"
    /\ \E code \in Codes : AttemptFails(ThrowSQLError(code))
    /\ UNCHANGED committed

LinkBreaks == phase = "working" /\ AttemptFails("broken_connection") /\ UNCHANGED committed

ClientThrows == phase = "working" /\ (\E e \in {"exception", "unknown"} : AttemptFails(e)) /\ UNCHANGED committed

SendCommit == phase = "working" /\ phase' = "committing"
          /\ UNCHANGED <<asked, attempts, committed, runs, told, outcome>>

Commits ==
    /\ phase = "committing" /\ phase' = "over" /\ committed' = committed + 1 /\ outcome' = "returned"
    /\ told' = IF asked.fn = "perform" THEN told ELSE [told EXCEPT !["commit"] = @ + 1]
    /\ UNCHANGED <<asked, attempts, runs>>

CommitFails ==
    /\ phase = "committing"
    /\ \/ \E code \in Refusals : AttemptFails(do_commitCatch(ThrowSQLError(code), TRUE)) /\ UNCHANGED committed
       \/ AttemptFails(do_commitCatch(ThrowSQLError(UnknownCompletion), TRUE)) /\ committed' \in {committed, committed + 1}
       \/ AttemptFails(do_commitCatch("broken_connection", FALSE)) /\ committed' \in {committed, committed + 1}

RetryInit ==
    /\ asked \in [fn : {"perform", "transactor"}, attempts : -1 .. MaxAttempts]
    /\ attempts = asked.attempts /\ phase = "idle"
    /\ committed = 0 /\ runs = 0 /\ outcome = "nothing"
    /\ told = [commit |-> 0, abort |-> 0, doubt |-> 0]

\* The program calls again, with another transaction.
CallAgain ==
    /\ phase = "over" /\ phase' = "idle"
    /\ asked' \in [fn : {"perform", "transactor"}, attempts : -1 .. MaxAttempts]
    /\ attempts' = asked'.attempts
    /\ committed' = 0 /\ runs' = 0 /\ outcome' = "nothing"
    /\ told' = [commit |-> 0, abort |-> 0, doubt |-> 0]

RetryNext == CallAgain \/ Start \/ StatementFails \/ LinkBreaks \/ ClientThrows \/ SendCommit \/ Commits \/ CommitFails

RetrySpec == RetryInit /\ [][RetryNext]_retryVars

-----------------------------------------------------------------------------
\* The server stores what the callback does at most once, however many attempts are
\* made; what ends them says whether it did, in_doubt_error being the only one not to.
AtMostOnce ==
    /\ committed <= 1
    /\ phase # "over" => committed = 0
    /\ outcome \notin {"nothing", "in_doubt_error"} => (committed = 1 <=> outcome = "returned" /\ runs > 0)

\* The hooks of a transactor add up: one for each of its runs, on_commit for the
\* one that is stored, on_doubt just when the outcome is unknown.
HooksAddUp ==
    asked.fn = "transactor" /\ phase = "over" =>
        /\ told.commit + told.abort + told.doubt = runs
        /\ told.commit = 1 <=> outcome = "returned" /\ runs > 0
        /\ told.doubt = 1 <=> outcome = "in_doubt_error"

\* Whatever perform and connection_base::perform try again, the client's transaction
\* is carried out once or not at all, and the client is told which.
OnceAndToldSo == AtMostOnce /\ HooksAddUp
=============================================================================
