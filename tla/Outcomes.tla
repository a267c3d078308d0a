------------------------------ MODULE Outcomes ------------------------------
(***************************************************************************)
(* Sequential code that throws.  An operation is the set of its outcomes:  *)
(* the world it leaves, and "ok" or the kind of exception it ends with.    *)
(***************************************************************************)
Outcome(w, res) == [w |-> w, res |-> res]

Succeeded(outs) == {o \in outs : o.res = "ok"}
Threw(outs) == outs \ Succeeded(outs)

\* One call after another; an exception of the first ends both.
Then(outs, next(_)) == Threw(outs) \cup UNION {next(o.w) : o \in Succeeded(outs)}

\* try outs catch handler
Catch(outs, handler(_)) == Succeeded(outs) \cup UNION {handler(o) : o \in Threw(outs)}

\* try { outs } catch (const std::exception &) { } and what follows
Quietly(outs, next(_)) == UNION {next(o.w) : o \in outs}
=============================================================================
