------------------------------ MODULE Readers ------------------------------
(***************************************************************************)
(* A reader's answer: what it built and where it stands in the input, or   *)
(* the number of the exception it reported (0 if that has none).  A reader *)
(* goes on with the next step only if the last one succeeded.              *)
(***************************************************************************)
Good(v, i) == [ok |-> TRUE, v |-> v, i |-> i]
Fail(code) == [ok |-> FALSE, v |-> code, i |-> 0]
Bind(r, F(_, _)) == IF r.ok THEN F(r.v, r.i) ELSE r
Map(r, F(_))     == IF r.ok THEN Good(F(r.v), r.i) ELSE r
=============================================================================
