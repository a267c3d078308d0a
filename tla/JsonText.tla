----------------------------- MODULE JsonText -----------------------------
(***************************************************************************)
(* json.hpp, serializer and lexer: a value to and from its text.  A text   *)
(* is the sequence of its bytes.  Integers have the limits of JsonBinary;  *)
(* the doubles of this model are the whole numbers up to MaxFloat, and     *)
(* nan_or_inf stands for those that are not finite.                        *)
(***************************************************************************)
EXTENDS JsonBinary, JsonGrammar, JsonEscape

CONSTANT MaxFloat

nan_or_inf == MaxFloat + 1
Blank     == \h20
Newline   == \h0A

(***************************************************************************)
(* serializer: dump_escaped.                                               *)
(***************************************************************************)
RECURSIVE escape_from(_, _, _, _)
escape_from(s, d, ensure_ascii, error_handler) ==
  IF d.i > Len(s) THEN d
  ELSE escape_from(s, escape_byte(s, d, ensure_ascii, error_handler), ensure_ascii, error_handler)
dump_escaped(s, ensure_ascii, error_handler) ==
  escape_end(escape_from(s, Scanning, ensure_ascii, error_handler), ensure_ascii, error_handler)

(***************************************************************************)
(* dump: what a value's text is.  Texts are put together with Joined; one  *)
(* that threw stays so.                                                    *)
(***************************************************************************)
Text(bytes)  == [ok |-> TRUE, out |-> bytes]
Joined(a, b) == [ok |-> a.ok /\ b.ok, out |-> a.out \o b.out]
JoinedAll(parts) == FoldLeft(Joined, Text(<<>>), parts)

RECURSIVE count_digits(_), digit_pairs(_)
count_digits(x) ==
  CASE x < 10 -> 1 [] x \in 10 .. 99 -> 2 [] x \in 100 .. 999 -> 3 [] x \in 1000 .. 9999 -> 4
    [] x >= 10000 -> 4 + count_digits(x \div 10000)
digits_to_99(n) == <<\h30 + n \div 10, \h30 + (n % 10)>>
digit_pairs(x) ==
  IF x >= 100 THEN digit_pairs(x \div 100) \o digits_to_99(x % 100)
  ELSE IF x >= 10 THEN digits_to_99(x) ELSE <<\h30 + x>>

\* number_buffer is filled from behind, and n_chars of it are written
dump_integer(x) ==
  LET abs_value == (IF x < 0 THEN -x ELSE x) % 2 ^ Bits[8]
      sign      == IF x < 0 THEN 1 ELSE 0
      n_chars   == sign + count_digits(abs_value)
      digits    == digit_pairs(abs_value)
  IN  [k \in 1 .. n_chars |-> IF k <= sign THEN \h2D
                              ELSE IF k + Len(digits) > n_chars THEN digits[k + Len(digits) - n_chars]
                              ELSE 0]

null_text  == <<\h6E, \h75, \h6C, \h6C>>
true_text  == <<\h74, \h72, \h75, \h65>>
false_text == <<\h66, \h61, \h6C, \h73, \h65>>
\* Grisu2 (to_chars) writes a whole number like this
dump_float(f) ==
  CASE f = nan_or_inf -> null_text
    [] f < 0          -> <<\h2D>> \o to_string(-f) \o <<\h2E, \h30>>
    [] OTHER          -> to_string(f) \o <<\h2E, \h30>>

\* the first n characters of indent_string (which has to be as long as that)
Indentation(n) == Text([k \in 1 .. n |-> Blank])

\* how: pretty_print, ensure_ascii, indent_step, error_handler
StringText(s, how) ==
  JoinedAll(<<Text(<<Quote>>), dump_escaped(s, how.ensure_ascii, how.error_handler), Text(<<Quote>>)>>)

\* '{' or '[', the parts with ',' between them, and the other bracket
Enclosed(open, parts, close, how, indent) ==
  LET inner == IF how.pretty_print THEN Joined(Text(<<Newline>>), Indentation(indent + how.indent_step))
               ELSE Text(<<>>)
      outer == IF how.pretty_print THEN Joined(Text(<<Newline>>), Indentation(indent)) ELSE Text(<<>>)
      lead(k) == IF k = 1 THEN inner ELSE Joined(Text(<<\h2C>>), inner)
  IN  IF parts = <<>> THEN Text(<<open, close>>)
      ELSE JoinedAll(<<Text(<<open>>)>> \o [k \in DOMAIN parts |-> Joined(lead(k), parts[k])]
                       \o <<outer, Text(<<close>>)>>)

RECURSIVE dump(_, _, _)
dump(val, how, indent) ==
  LET inside == indent + how.indent_step
      colon  == IF how.pretty_print THEN <<\h3A, Blank>> ELSE <<\h3A>>
  IN  CASE Is(val, "object") ->
             Enclosed(\h7B, [k \in DOMAIN val.object |->
                               JoinedAll(<<StringText(val.object[k].key, how), Text(colon),
                                           dump(val.object[k].value, how, inside)>>)],
                      \h7D, how, indent)
        [] Is(val, "array") ->
             Enclosed(\h5B, [k \in DOMAIN val.array |-> dump(val.array[k], how, inside)],
                      \h5D, how, indent)
        [] Is(val, "string")          -> StringText(val.string, how)
        [] Is(val, "boolean")         -> Text(IF val.boolean THEN true_text ELSE false_text)
        [] Is(val, "number_integer")  -> Text(dump_integer(val.number_integer))
        [] Is(val, "number_unsigned") -> Text(dump_integer(val.number_unsigned))
        [] Is(val, "number_float")    -> Text(dump_float(val.number_float))
        [] Is(val, "discarded")       -> Text(<<\h3C, \h3E>>)
        [] Is(val, "null")            -> Text(null_text)

(***************************************************************************)
(* lexer: strings.                                                         *)
(***************************************************************************)
At(in, i) == IF i \in DOMAIN in THEN in[i] ELSE Eof

hex_value(c) ==
  CASE c \in \h30 .. \h39 -> c - \h30 [] c \in \h41 .. \h46 -> c - \h37
    [] c \in \h61 .. \h66 -> c - \h57 [] OTHER -> -1
get_codepoint(in, i) ==
  LET h == [k \in 1 .. 4 |-> hex_value(At(in, i + k - 1))]
  IN  IF \E k \in 1 .. 4 : h[k] = -1 THEN Fail(101)
      ELSE Good(h[1] * 4096 + h[2] * 256 + h[3] * 16 + h[4], i + 4)

utf8(c) ==
  CASE c < \h80               -> <<c>>
    [] c \in \h80 .. \h7FF    -> <<\hC0 + c \div 64, \h80 + (c % 64)>>
    [] c \in \h800 .. \hFFFF  -> <<\hE0 + c \div 4096, \h80 + ((c \div 64) % 64), \h80 + (c % 64)>>
    [] c > \hFFFF             -> <<\hF0 + c \div 262144, \h80 + ((c \div 4096) % 64),
                                  \h80 + ((c \div 64) % 64), \h80 + (c % 64)>>

low_surrogate(in, i, codepoint1) ==
  IF At(in, i) # Backslash \/ At(in, i + 1) # Letter_u THEN Fail(101)
  ELSE Bind(get_codepoint(in, i + 2), LAMBDA codepoint2, k :
         IF codepoint2 \in \hDC00 .. \hDFFF
           THEN Good(utf8(codepoint1 * 1024 + codepoint2 - \h35FDC00), k) ELSE Fail(101))
scan_unicode(in, i) ==
  Bind(get_codepoint(in, i), LAMBDA codepoint1, k :
    CASE codepoint1 \in \hD800 .. \hDBFF -> low_surrogate(in, k, codepoint1)
      [] codepoint1 \in \hDC00 .. \hDFFF -> Fail(101)
      [] OTHER -> Good(utf8(codepoint1), k))

simple_escapes == (Quote :> Quote) @@ (Backslash :> Backslash) @@ (\h2F :> \h2F) @@ (\h62 :> \h08)
                    @@ (\h66 :> \h0C) @@ (\h6E :> \h0A) @@ (\h72 :> \h0D) @@ (\h74 :> \h09)
scan_escape(in, i) ==
  IF At(in, i) = Letter_u THEN scan_unicode(in, i + 1)
  ELSE IF At(in, i) \in DOMAIN simple_escapes THEN Good(<<simple_escapes[At(in, i)]>>, i + 1)
  ELSE Fail(101)

Continues == \h80 .. \hBF
\* Mutant: surrogates are let through
rangesOfSurrogates(c) ==
  CASE c \in \hC2 .. \hDF -> <<Continues>>
    [] c = \hE0           -> <<\hA0 .. \hBF, Continues>>
    [] c \in \hE1 .. \hEF -> <<Continues, Continues>>
    [] c = \hF0           -> <<\h90 .. \hBF, Continues, Continues>>
    [] c \in \hF1 .. \hF3 -> <<Continues, Continues, Continues>>
    [] c = \hF4           -> <<\h80 .. \h8F, Continues, Continues>>
    [] OTHER              -> <<>>

\* the ranges of the bytes that must follow a lead byte (next_byte_in_range)
ranges(c) ==
  CASE c \in \hC2 .. \hDF -> <<Continues>>
    [] c = \hE0           -> <<\hA0 .. \hBF, Continues>>
    [] c = \hED           -> <<\h80 .. \h9F, Continues>>
    [] c \in (\hE1 .. \hEF) \ {\hED} -> <<Continues, Continues>>
    [] c = \hF0           -> <<\h90 .. \hBF, Continues, Continues>>
    [] c \in \hF1 .. \hF3 -> <<Continues, Continues, Continues>>
    [] c = \hF4           -> <<\h80 .. \h8F, Continues, Continues>>
    [] OTHER              -> <<>>
next_byte_in_range(in, i) ==
  LET r == ranges(in[i])
  IN  r # <<>> /\ \A k \in DOMAIN r : At(in, i + k) \in r[k]

Unescaped     == (\h20 .. \h7F) \ {Quote, Backslash}
MustBeEscaped == \h00 .. \h1F      \* control characters

RECURSIVE scan_string(_, _, _)
scan_string(in, i, sofar) ==
  LET c == At(in, i)
  IN  CASE c = Quote     -> Good(sofar, i + 1)
        [] c = Backslash -> Bind(scan_escape(in, i + 1), LAMBDA s, k : scan_string(in, k, sofar \o s))
        [] c \in Unescaped -> scan_string(in, i + 1, Append(sofar, c))
        [] c \in MustBeEscaped -> Fail(101)
        [] c > \h7F /\ next_byte_in_range(in, i) ->
             LET n == Len(ranges(c))
             IN  scan_string(in, i + n + 1, sofar \o SubSeq(in, i, i + n))
        [] OTHER -> Fail(101)

(***************************************************************************)
(* lexer: numbers.  scan_number is an automaton whose states are the code's*)
(* labels; number_type is settled by the states it went through.           *)
(***************************************************************************)
kind(c) ==
  CASE c = \h30           -> "zero"   [] c \in \h31 .. \h39    -> "digit1_9"
    [] c = \h2E           -> "point"  [] c \in {\h65, \h45}    -> "e"
    [] c = \h2D           -> "minus"  [] c = \h2B              -> "plus"
    [] OTHER -> "other"
IsDigit(c) == kind(c) \in {"zero", "digit1_9"}

\* where the automaton goes at c; "done" leaves c for the next token
number_state(state, c) ==
  CASE state = "init" /\ kind(c) = "minus"    -> "minus"
    [] state \in {"init", "minus"} /\ kind(c) = "zero"     -> "zero"
    [] state \in {"init", "minus"} /\ kind(c) = "digit1_9" -> "any1"
    [] state = "any1" /\ IsDigit(c)           -> "any1"
    [] state \in {"zero", "any1"} /\ kind(c) = "point"     -> "decimal1"
    [] state \in {"decimal1", "decimal2"} /\ IsDigit(c)    -> "decimal2"
    [] state \in {"zero", "any1", "decimal2"} /\ kind(c) = "e" -> "exponent"
    [] state = "exponent" /\ kind(c) \in {"plus", "minus"}  -> "sign"
    [] state \in {"exponent", "sign", "any2"} /\ IsDigit(c) -> "any2"
    [] OTHER -> IF state \in {"zero", "any1", "decimal2", "any2"} THEN "done" ELSE "error"

\* number_type only ever moves on: unsigned, integer, float
number_type(type, state) ==
  CASE state = "minus" -> "value_integer"
    [] state \in {"decimal1", "exponent"} -> "value_float"
    [] OTHER -> type

RECURSIVE number_end(_, _, _, _)
number_end(in, i, state, type) ==
  LET next == number_state(state, At(in, i))
  IN  CASE next = "done"  -> Good(type, i)
        [] next = "error" -> Fail(101)
        [] OTHER -> number_end(in, i + 1, next, number_type(type, next))

(* strtoull, strtoll and strtod (external).  A value beyond the limits of  *)
(* an integer sets errno; strtod takes the double that is nearest, and     *)
(* none of those that are finite if the number is too large.               *)
decimal(digits) == FoldLeft(LAMBDA n, c : 10 * n + (c - \h30), 0, digits)
Until(text, kinds) ==
  LET ends == {k \in DOMAIN text : kind(text[k]) \in kinds}
  IN  IF ends = {} THEN text ELSE SubSeq(text, 1, Min(ends) - 1)
After(text, kinds) ==
  LET ends == {k \in DOMAIN text : kind(text[k]) \in kinds}
  IN  IF ends = {} THEN <<>> ELSE SubSeq(text, Min(ends) + 1, Len(text))
unsigned_part(text) == IF text # <<>> /\ kind(text[1]) \in {"minus", "plus"} THEN Tail(text) ELSE text
signed(text, n) == IF text # <<>> /\ kind(text[1]) = "minus" THEN -n ELSE n
strtoll(text) == signed(text, decimal(unsigned_part(text)))

Huge == MaxFloat + 1
capped(n) == IF n > MaxFloat THEN Huge ELSE n
nearest(n, d) == (2 * n + d) \div (2 * d)
strtod(text) ==
  LET mantissa == unsigned_part(Until(text, {"e"}))
      fraction == After(mantissa, {"point"})
      exponent == strtoll(After(text, {"e"})) - Len(fraction)
      n        == decimal(Until(mantissa, {"point"}) \o fraction)
      size     == CASE n = 0        -> 0
                    [] n > 0 /\ exponent > 5  -> Huge
                    [] n > 0 /\ exponent \in 0 .. 5  -> capped(capped(n) * 10 ^ exponent)
                    [] n > 0 /\ exponent \in -6 .. -1 -> capped(nearest(n, 10 ^ (-exponent)))
                    [] n > 0 /\ exponent < -6 -> 0
  IN  IF size = Huge THEN Overflow ELSE Float(signed(text, size))

number_value(type, text) ==
  CASE type = "value_unsigned" /\ strtoll(text) <= Umax(8) -> Unsigned(strtoll(text))
    [] type = "value_integer" /\ strtoll(text) \in Smin(8) .. Smax(8) -> Integer(strtoll(text))
    [] OTHER -> strtod(text)
token_of(j) ==
  IF Is(j, "number_unsigned") THEN "value_unsigned"
  ELSE IF Is(j, "number_integer") THEN "value_integer" ELSE "value_float"
scan_number(in, i) ==
  Bind(number_end(in, i, "init", "value_unsigned"), LAMBDA type, k :
    LET j == number_value(type, SubSeq(in, i, k - 1))
    IN  Good(Literal(token_of(j), j), k))

(***************************************************************************)
(* lexer: scan.  A NUL ends the input as its end does.                     *)
(***************************************************************************)
scan_literal(in, i, text, token) ==
  IF \A k \in DOMAIN text : At(in, i + k - 1) = text[k] THEN Good(token, i + Len(text)) ELSE Fail(101)

structural == (\h5B :> "begin_array") @@ (\h5D :> "end_array") @@ (\h7B :> "begin_object")
                @@ (\h7D :> "end_object") @@ (\h3A :> "name_separator") @@ (\h2C :> "value_separator")
Whitespace == {Blank, \h09, Newline, \h0D}
RECURSIVE skip_whitespace(_, _)
skip_whitespace(in, i) == IF At(in, i) \in Whitespace THEN skip_whitespace(in, i + 1) ELSE i

scan(in, from) ==
  LET i == skip_whitespace(in, from)
      c == At(in, i)
  IN  CASE c \in DOMAIN structural -> Good(Token(structural[c]), i + 1)
        [] c = true_text[1]   -> scan_literal(in, i, true_text, Literal("literal_true", Boolean(TRUE)))
        [] c = false_text[1]  -> scan_literal(in, i, false_text, Literal("literal_false", Boolean(FALSE)))
        [] c = null_text[1]   -> scan_literal(in, i, null_text, Literal("literal_null", Null))
        [] c = Quote          -> Map(scan_string(in, i + 1, <<>>), LAMBDA s : Literal("value_string", String(s)))
        [] kind(c) = "minus" \/ IsDigit(c) -> scan_number(in, i)
        [] c \in {0, Eof}     -> Good(Token("end_of_input"), i)
        [] OTHER              -> Fail(101)

\* where the first token is looked for, or 0 if a byte order mark is not whole
byte_order_mark == <<\hEF, \hBB, \hBF>>
skip_bom(in) ==
  IF At(in, 1) # byte_order_mark[1] THEN 1 ELSE IF IsPrefix(byte_order_mark, in) THEN 4 ELSE 0

RECURSIVE tokens_from(_, _, _), tokens_after(_, _, _)
tokens_from(in, i, sofar) == tokens_after(in, scan(in, i), sofar)
tokens_after(in, t, sofar) ==
  IF ~t.ok THEN Append(sofar, Token("parse_error"))
  ELSE IF t.v.token = "end_of_input" THEN Append(sofar, t.v)
  ELSE tokens_from(in, t.i, Append(sofar, t.v))

(* parser::parse, by the grammar that it is shown to follow.               *)
Parsed(m) == IF m.st = "ok" THEN Good(m.v, m.i) ELSE Fail(101)
parse_tokens(ts) == Parsed(MeantText(ts, DOMAIN ts))
parse(in) == IF skip_bom(in) = 0 THEN Fail(101) ELSE parse_tokens(tokens_from(in, skip_bom(in), <<>>))
=============================================================================
