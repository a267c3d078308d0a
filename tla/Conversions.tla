---------------------------- MODULE Conversions ----------------------------
(***************************************************************************)
(* json.hpp: what happens to a value between to_cbor, to_msgpack,          *)
(* to_ubjson, to_bson or dump and their counterparts; and libpqxx: between *)
(* the client and PostgreSQL.  A value is written in a format and read     *)
(* back, in whole or cut short; or bytes that someone else wrote are read. *)
(* The format "double" is the text of one double, written by to_chars and  *)
(* read as a decimal number; "patch" and "merge" are the two kinds of      *)
(* patch that make one value of another, "flat" is a flattened value, and  *)
(* "pointer" the text of a json_pointer.                                   *)
(***************************************************************************)
EXTENDS JsonPatch, Grisu, PqText

CONSTANTS Samples(_, _),   \* the values written in a format and encoding
          Foreign(_),   \* what else may be read as that format
          CutNear       \* how far from either end a text is cut

VARIABLES format, encoding,
          value,    \* what is to be written
          origin,   \* a sample, bytes of someone else, those cut short, or a value read from those
          wire,     \* what was written, and what will be read
          stage,    \* of the value: a value, written or refused, read
          back      \* what was read, or that it threw
vars == <<format, encoding, value, origin, wire, stage, back>>

(***************************************************************************)
(* The formats of a text are the ways to call dump.                        *)
(***************************************************************************)
How(pretty_print, ensure_ascii, error_handler) ==
  [pretty_print |-> pretty_print, ensure_ascii |-> ensure_ascii,
   error_handler |-> error_handler, indent_step |-> 2]
TextFormats == [text          |-> How(FALSE, FALSE, "strict"),
                text_ascii    |-> How(FALSE, TRUE, "strict"),
                text_pretty   |-> How(TRUE, FALSE, "strict"),
                text_ignore   |-> How(FALSE, FALSE, "ignore"),
                text_replace  |-> How(FALSE, FALSE, "replace"),
                ascii_ignore  |-> How(FALSE, TRUE, "ignore"),
                ascii_replace |-> How(FALSE, TRUE, "replace")]
IsText(f)  == f \in DOMAIN TextFormats
JsonFormats == Formats \cup DOMAIN TextFormats \cup PatchFormats \cup {"double"}

Double(negative, bits) == [double |-> [negative |-> negative, bits |-> bits]]
Decimal(in) ==
  LET mantissa == unsigned_part(Until(in, {"e"}))
      fraction == After(mantissa, {"point"})
  IN  [negative |-> in[1] = \h2D, exponent |-> strtoll(After(in, {"e"})) - Len(fraction),
       digits |-> decimal(Until(mantissa, {"point"}) \o fraction)]
scan_double(in) ==
  Bind(number_end(in, 1, "init", "value_unsigned"), LAMBDA type, k :
    IF type = "value_float" /\ k > Len(in) THEN Good([decimal |-> Decimal(in)], k) ELSE Fail(101))

Written(f, group, j) ==
  IF f = "double" THEN to_chars(j.double.negative, j.double.bits)
  ELSE IF f \in PqFormats THEN [ok |-> TRUE, out |-> PqWritten(f, group, j)]
  ELSE IF f \in PatchFormats THEN [ok |-> TRUE, out |-> PatchWritten(f, j)]
  ELSE IF IsText(f) THEN dump(j, TextFormats[f], 0)
  ELSE [ok |-> ~Refused(Writes(f, j)), out |-> Writes(f, j)]
ReadAs(f, group, j, in) ==
  IF f = "double" THEN scan_double(in)
  ELSE IF f \in PqFormats THEN PqReadAs(f, group, j, in)
  ELSE IF f \in PatchFormats THEN PatchReadAs(f, j, in)
  ELSE IF IsText(f) THEN parse(in) ELSE sax_parse(f, in)

(***************************************************************************)
(* Steps.                                                                  *)
(***************************************************************************)
Nothing == Fail(0)
\* what foreign bytes are read into: a patch is applied to null
Untouched(f) == IF f \in ChangeFormats THEN Change(Null, Null) ELSE Null
\* a value that was read, as one to be written
SampleOf(f, v) == IF f \in ChangeFormats THEN Change(Null, v) ELSE v

Init ==
  /\ \/ format \in JsonFormats /\ encoding = "UTF8"
     \/ format \in PqFormats /\ encoding \in Groups
  /\ back = Nothing
  /\ \/ /\ origin = "sample" /\ stage = "value"
        /\ value \in Samples(format, encoding) /\ wire = <<>>
     \/ /\ origin = "foreign" /\ stage = "written" /\ encoding = "UTF8"
        /\ value = Untouched(format) /\ wire \in Foreign(format)

Write ==
  /\ stage = "value"
  /\ \E w \in {Written(format, encoding, value)} :
       /\ stage' = IF w.ok THEN "written" ELSE "refused"
       /\ wire' = IF w.ok THEN w.out ELSE <<>>
  /\ UNCHANGED <<format, encoding, value, origin, back>>

Cut ==
  /\ stage = "written" /\ origin = "sample"
  /\ format \notin PqFormats \cup PatchFormats \cup {"double"}
  /\ \E n \in 0 .. Len(wire) - 1 :
       /\ n < CutNear \/ n >= Len(wire) - CutNear
       /\ wire' = SubSeq(wire, 1, n)
  /\ origin' = "cut"
  /\ UNCHANGED <<format, encoding, value, stage, back>>

Read ==
  /\ stage = "written"
  /\ back' = ReadAs(format, encoding, value, wire)
  /\ stage' = "read"
  /\ UNCHANGED <<format, encoding, value, origin, wire>>

\* What was read from foreign bytes is written in turn.
TakeUp ==
  /\ stage = "read" /\ origin = "foreign" /\ back.ok
  /\ value' = SampleOf(format, back.v)
  /\ origin' = "taken" /\ stage' = "value"
  /\ wire' = <<>> /\ back' = Nothing
  /\ UNCHANGED <<format, encoding>>

Next == Write \/ Cut \/ Read \/ TakeUp
Spec == Init /\ [][Next]_vars

(* operator== of two numbers compares what they are worth: a value that    *)
(* is read back as another kind of number is the same value.               *)
RECURSIVE Worth(_)
Worth(j) ==
  CASE Is(j, "number_unsigned") -> Integer(j.number_unsigned)
    [] Is(j, "array")  -> Array([i \in DOMAIN j.array |-> Worth(j.array[i])])
    [] Is(j, "object") -> Object([i \in DOMAIN j.object |->
                            [j.object[i] EXCEPT !.value = Worth(@)]])
    [] OTHER           -> j

(***************************************************************************)
(* What a string becomes where the dump is told to ignore or replace what  *)
(* is not UTF-8: every well-formed code point stays, and the longest       *)
(* beginning of one that comes to nothing goes, or is replaced by U+FFFD.  *)
(***************************************************************************)
Matches(s, i) ==
  LET r == ranges(s[i]) IN {n \in 0 .. Len(r) : \A k \in 1 .. n : At(s, i + k) \in r[k]}
RECURSIVE Repaired(_, _, _)
Repaired(s, i, instead) ==
  LET n == Max(Matches(s, i))
      whole == s[i] <= \h7F \/ (ranges(s[i]) # <<>> /\ n = Len(ranges(s[i])))
  IN  IF i > Len(s) THEN <<>>
      ELSE (IF whole THEN SubSeq(s, i, i + n) ELSE instead) \o Repaired(s, i + n + 1, instead)

Meaning(f, s) ==
  CASE ~IsText(f) -> s
    [] IsText(f) /\ TextFormats[f].error_handler = "ignore"  -> Repaired(s, 1, <<>>)
    [] IsText(f) /\ TextFormats[f].error_handler = "replace" -> Repaired(s, 1, <<\hEF, \hBF, \hBD>>)
    [] OTHER -> s
RECURSIVE Expected(_, _)
Expected(f, j) ==
  CASE Is(j, "array")  -> Array([i \in DOMAIN j.array |-> Expected(f, j.array[i])])
    [] Is(j, "object") -> Object(FoldLeft(LAMBDA o, m : Put(o, Meaning(f, m.key), Expected(f, m.value)),
                                          <<>>, j.object))
    [] Is(j, "string") -> String(Meaning(f, j.string))
    [] Is(j, "number_float") -> IF IsText(f) /\ j.number_float = nan_or_inf THEN Null ELSE j
    [] OTHER -> Worth(j)

\* the values inside a value, and the strings
RECURSIVE Within(_)
Within(j) ==
  {j} \cup (IF Is(j, "array") THEN UNION {Within(j.array[i]) : i \in DOMAIN j.array}
            ELSE IF Is(j, "object") THEN UNION {Within(j.object[i].value) : i \in DOMAIN j.object}
            ELSE {})
Keys(j)    == UNION {{o.object[i].key : i \in DOMAIN o.object} : o \in {v \in Within(j) : Is(v, "object")}}
Strings(j) == Keys(j) \cup {v.string : v \in {v \in Within(j) : Is(v, "string")}}

\* what a format cannot express
MayRefuse(f, j) ==
  CASE IsText(f) -> TextFormats[f].error_handler = "strict"
                      /\ \E s \in Strings(j) : Repaired(s, 1, <<\hFF>>) # s
    [] f = "bson" -> \/ ~Is(j, "object")
                     \/ \E k \in Keys(j) : 0 \in {k[i] : i \in DOMAIN k}
                     \/ \E v \in Within(j) : Is(v, "number_unsigned") /\ v.number_unsigned > Smax(8)
    [] f \in {"ubjson", "ubjson_count", "ubjson_type"} ->
         \E v \in Within(j) : Is(v, "number_unsigned") /\ v.number_unsigned > Smax(8)
    [] OTHER -> FALSE

\* as which value a format's reader is to return j
SameDouble(d, text) ==
  text.negative = d.negative /\ Identifies(text.digits, text.exponent, d.bits)
SameAs(f, j, v) ==
  CASE f = "double" -> SameDouble(j.double, v.decimal)
    [] f = "array"  -> v = junctures_of(j)
    [] f \in PqFormats \ {"array"} -> v = j
    [] f \in ChangeFormats -> Equal(v, j.change.target)
    [] f = "flat"   -> Equal(v, j)
    [] f = "pointer" -> v = j
    [] OTHER -> Worth(v) = Expected(f, j)

(***************************************************************************)
(* Where they are known not to: flatten turns empty arrays and objects     *)
(* into null, and an object whose first key is 0 comes back as an array;   *)
(* the scanners of two encodings of libpqxx are wrong; tablereader does    *)
(* not heed encodings; tablewriter doubles the backslash of octal numbers; *)
(* stream_to ends copied lines twice; a semicolon separates the elements   *)
(* of an array, and a single quote starts one although PostgreSQL leaves   *)
(* both unquoted.                                                          *)
(***************************************************************************)
BytesOf(j) == UNION {{s[i] : i \in DOMAIN s} : s \in Strings(j)}
Unreliable(f, group, j) ==
  \/ f \in {"stream_from", "array"} /\ group \in {"GB18030", "MULE_INTERNAL"}
  \/ f = "tablereader" /\ group \in {"BIG5", "GB18030", "GBK", "JOHAB", "SJIS", "SHIFT_JIS_2004"}
  \/ f = "tablewriter" /\ \E c \in BytesOf(j) \ DOMAIN letters : Unprintable(c)
  \/ f = "stream_copied"
  \/ f = "array" /\ {Semicolon, SingleQuote} \cap BytesOf(j) # {}
  \/ f = "flat" /\ (ZeroToken \in Keys(j) \/ {Array(<<>>), Object(<<>>)} \cap Within(j) # {})

(***************************************************************************)
(* What is written reads back as the same value, and nothing is refused    *)
(* that the format has a form for: the writers' choice of the shortest     *)
(* form and of prefixes and sizes agrees with what the readers expect, at  *)
(* every limit (write_cbor and its kin against sax_parse; dump_escaped and *)
(* decode against scan_string; dump_integer against scan_number).  For a   *)
(* double that means: the digits Grisu2 settles for lie between the points *)
(* halfway to its neighbours, so that strtod finds this double again; and  *)
(* no assertion of the algorithm fails, which would refuse it.  For a      *)
(* patch: applying what diff found turns the source into the target.       *)
(***************************************************************************)
ReadsBack ==
  /\ stage = "read" => (back.ok /\ SameAs(format, value, back.v))
  /\ stage = "refused" => MayRefuse(format, value)
WrittenReadsBack == origin = "sample" => ReadsBack \/ Unreliable(format, encoding, value)

(***************************************************************************)
(* A document that was cut short is never taken for another one: each      *)
(* reader counts on what the writer promised, to the last byte.  (The text *)
(* of a number does not say where it ends.)                                *)
(***************************************************************************)
IsNumber(j) == Is(j, "number_integer") \/ Is(j, "number_unsigned") \/ Is(j, "number_float")
CutIsRefused ==
  origin = "cut" /\ stage = "read" => ~back.ok \/ (IsText(format) /\ IsNumber(value))

(***************************************************************************)
(* Whatever a reader accepts can be written again in that format, and then *)
(* says the same: what scan_string takes for UTF-8 is what dump_escaped    *)
(* takes for UTF-8, every number scan_number reads has a text, and forms   *)
(* no writer uses (chunks, no-ops, half floats, longer forms) are read as  *)
(* values like any other.  (A text may name a key twice: the last counts.) *)
(***************************************************************************)
ReadCanBeWritten == origin = "taken" => ReadsBack
=============================================================================
