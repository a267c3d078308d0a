------------------------------- MODULE MCJson -------------------------------
(***************************************************************************)
(* A program parses a text (JsonParser), works with values it has          *)
(* (JsonValue: two of them, two keys, and elements of two kinds), or       *)
(* writes a string (JsonDump: the lead bytes and the bytes after them at   *)
(* the ends of their ranges, and code points begun and broken off wherever *)
(* in the buffer).  None depends on what another has done before, so they  *)
(* are taken apart: while one goes on the others stand at a beginning.     *)
(***************************************************************************)
EXTENDS JsonParser, JsonValue, JsonDump

MCKeys == {<<97>>, <<97, 98>>}
MCElements == {Unsigned(7), String(<<97>>)}
\* Texts of at most 13 tokens with at most two members or elements in each
\* container, such as {k: {k: 7}, k: 7}.
Named(texts) == {<<Key(k), Token("name_separator")>> \o t : k \in MemberKeys, t \in texts}
UpToTwo(parts) == {<<>>} \cup parts \cup {p \o <<Token("value_separator")>> \o q : p, q \in parts}
Containers(texts) ==
  {t \in {<<Token("begin_object")>> \o ms \o <<Token("end_object")>> : ms \in UpToTwo(Named(texts))}
           \cup {<<Token("begin_array")>> \o es \o <<Token("end_array")>> : es \in UpToTwo(texts)} : Len(t) <= 13}
JustANumber == {<<Literal("value_unsigned", Unsigned(0))>>}
LongTexts   == Containers(JustANumber \cup Containers(JustANumber))
MCLongBeginnings == {SubSeq(t, 1, Min({n, Len(t)})) : t \in LongTexts, n \in MaxTokens .. 13}

Symmetry == Permutations(Values)
\* What the next step depends on: no call asks for the latest one.
View == <<parserVars, v, dumpVars>>

vars == <<parserVars, valueVars, dumpVars>>

Boundaries == {\h08, \h1F, Quote, \h7E, \h7F, \h80, \h8F, \h90, \h9F, \hA0, \hBF, \hC1, \hC2, \hDF, \hE0,
               \hE1, \hED, \hEF, \hF0, \hF1, \hF4, \hF5}
Short(n) == UNION {[1 .. m -> Boundaries] : m \in 0 .. n}
FourBytes == {<<\hF0, \h90, \h80, \h80>>, <<\hF4, \h8F, \hBF, \hBF>>, <<\hF0, \h90, \h80>>, <<\hF0, \h90, \hC2>>}
MCDumped == Short(2) \cup {[i \in 1 .. n |-> 97] \o s \o t : n \in 0 .. Buffer + 1, s \in FourBytes,
                                                            t \in FourBytes \cup {<<>>, <<97>>}}

NoText   == consumer = "dom" /\ tokens = <<Token("end_of_input")>> /\ mode = "value"
NoValues == v = [x \in Values |-> Null] /\ last = Quiet
NoString == string = <<>> /\ ~ensure_ascii /\ error_handler = "strict" /\ escape = Scanning

Init == ParserInit /\ ValueInit /\ DumpInit /\ (NoText \/ NoString)
Next == \/ NoValues /\ NoString /\ ParserNext /\ UNCHANGED <<valueVars, dumpVars>>
        \/ NoText /\ NoString /\ ValueNext /\ UNCHANGED <<parserVars, dumpVars>>
        \/ NoText /\ NoValues /\ DumpNext /\ UNCHANGED <<parserVars, valueVars>>
Spec == Init /\ [][Next]_vars
=============================================================================
