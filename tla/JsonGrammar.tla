---------------------------- MODULE JsonGrammar ----------------------------
(***************************************************************************)
(* What a sequence of tokens says by the grammar of JSON (RFC 7159, which  *)
(* json.hpp names): the value it denotes, or that it is cut short, or      *)
(* wrong.  JsonParser shows that class parser accepts just this, and reads *)
(* just this out of it; JsonText relies on that.  What the callback of     *)
(* json::parse refused at some token is left out: kept says what it did    *)
(* not.  A key that is kept a second time takes the place of the first.    *)
(***************************************************************************)
EXTENDS Json

Token(name)        == [token |-> name, value |-> Null]
Literal(name, j)   == [token |-> name, value |-> j]
ValueTokens == {"value_string", "value_unsigned", "value_integer", "value_float",
                "literal_true", "literal_false", "literal_null"}
\* a number that no double holds (out_of_range.406)
IsValue(t) == t.token \in ValueTokens /\ ~Is(t.value, "overflow")
Overflow   == [overflow |-> 0]

More == [st |-> "more"]
Bad  == [st |-> "bad"]
Meant(v, stays, i) == [st |-> "ok", v |-> v, stays |-> stays, i |-> i]
Name(ts, i) == IF i \in DOMAIN ts THEN ts[i].token ELSE "nothing"

RECURSIVE MeantAt(_, _, _), MeantArray(_, _, _, _, _), MeantMembers(_, _, _, _, _)
MeantAt(ts, kept, i) ==
  CASE Name(ts, i) = "nothing"      -> More
    [] Name(ts, i) = "begin_array"  ->
         IF Name(ts, i + 1) = "end_array" THEN Meant(Array(<<>>), {i, i + 1} \subseteq kept, i + 2)
         ELSE MeantArray(ts, kept, i, i + 1, <<>>)
    [] Name(ts, i) = "begin_object" ->
         IF Name(ts, i + 1) = "end_object" THEN Meant(Object(<<>>), {i, i + 1} \subseteq kept, i + 2)
         ELSE MeantMembers(ts, kept, i, i + 1, <<>>)
    [] OTHER -> IF IsValue(ts[i]) THEN Meant(ts[i].value, i \in kept, i + 1) ELSE Bad

\* the array that ts[open] opened, from its next element at i
MeantArray(ts, kept, open, i, sofar) ==
  LET e   == MeantAt(ts, kept, i)
      all == IF e.stays THEN Append(sofar, e.v) ELSE sofar
  IN  IF e.st # "ok" THEN e
      ELSE CASE Name(ts, e.i) = "value_separator" -> MeantArray(ts, kept, open, e.i + 1, all)
             [] Name(ts, e.i) = "end_array" -> Meant(Array(all), {open, e.i} \subseteq kept, e.i + 1)
             [] Name(ts, e.i) = "nothing"   -> More
             [] OTHER -> Bad

MeantMembers(ts, kept, open, i, sofar) ==
  LET e     == MeantAt(ts, kept, i + 2)
      key   == ts[i].value.string
      other == SelectSeq(sofar, LAMBDA m : m.key # key)
      all   == IF i \notin kept THEN sofar ELSE IF e.stays THEN Put(sofar, key, e.v) ELSE other
  IN  IF Name(ts, i) = "nothing" THEN More
      ELSE IF Name(ts, i) # "value_string" THEN Bad
      ELSE IF Name(ts, i + 1) = "nothing" THEN More
      ELSE IF Name(ts, i + 1) # "name_separator" THEN Bad
      ELSE IF e.st # "ok" THEN e
      ELSE CASE Name(ts, e.i) = "value_separator" -> MeantMembers(ts, kept, open, e.i + 1, all)
             [] Name(ts, e.i) = "end_object" -> Meant(Object(all), {open, e.i} \subseteq kept, e.i + 1)
             [] Name(ts, e.i) = "nothing"    -> More
             [] OTHER -> Bad

\* the whole text: one value, and then its end
MeantText(ts, kept) ==
  LET v == MeantAt(ts, kept, 1)
  IN  IF v.st # "ok" THEN v
      ELSE CASE Name(ts, v.i) = "nothing"      -> More
             [] Name(ts, v.i) = "end_of_input" -> v
             [] OTHER -> Bad
=============================================================================
