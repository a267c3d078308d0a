------------------------------- MODULE PqText -------------------------------
(***************************************************************************)
(* libpqxx: values to and from the texts it exchanges with PostgreSQL.     *)
(* strconv.cxx converts numbers, stream_to, stream_from, tablewriter and   *)
(* tablereader the lines of COPY, and array_parser reads arrays.  Values   *)
(* are put together as in Json: a row is an array of strings and nulls.    *)
(***************************************************************************)
EXTENDS Encodings, Json

CONSTANT IntBits    \* the number of bits of a short and an int (16 and 32)

Nul == 0
Minus == \h2D
Zero == \h30
Digit == \h30 .. \h39
ConversionError == Fail(2)

(***************************************************************************)
(* Integers.  Where int overflows, builds of the code wrap around.         *)
(***************************************************************************)
IntTypes == {"short", "unsigned short", "int", "unsigned int"}
bits_of(type)   == IF type \in {"short", "unsigned short"} THEN IntBits.short ELSE IntBits.int
is_signed(type) == type \in {"short", "int"}
limits_max(type) == IF is_signed(type) THEN 2 ^ (bits_of(type) - 1) - 1 ELSE 2 ^ bits_of(type) - 1
limits_min(type) == IF is_signed(type) THEN -(2 ^ (bits_of(type) - 1)) ELSE 0
wrapped(n, type) == ((n - limits_min(type)) % 2 ^ bits_of(type)) + limits_min(type)

number_to_digit(n) == Zero + n
digit_to_number(c) == c - Zero

\* n may be multiplied by ten
safe_multiply_by_ten(n, type) ==
  /\ n > 0 => limits_max(type) \div n >= 10
  /\ n < 0 => -((-limits_min(type)) \div 10) <= n
RECURSIVE absorb_digits(_, _, _, _, _)
absorb_digits(in, i, type, sign, result) ==
  IF i > Len(in) THEN Good(Integer(result), i)
  ELSE IF in[i] \notin Digit \/ ~safe_multiply_by_ten(result, type) THEN ConversionError
  ELSE absorb_digits(in, i + 1, type, sign, wrapped(10 * result + sign * digit_to_number(in[i]), type))

from_string_signed(in, type) ==
  IF in = <<>> \/ in[1] \notin Digit \cup {Minus} THEN ConversionError
  ELSE IF in[1] = Minus THEN absorb_digits(in, 2, type, -1, 0)
  ELSE absorb_digits(in, 1, type, 1, 0)
from_string_unsigned(in, type) ==
  IF in = <<>> \/ in[1] \notin Digit THEN ConversionError ELSE absorb_digits(in, 1, type, 1, 0)
from_string_integer(in, type) ==
  IF is_signed(type) THEN from_string_signed(in, type) ELSE from_string_unsigned(in, type)

RECURSIVE to_string_unsigned(_)
to_string_unsigned(n) ==
  IF n < 10 THEN <<number_to_digit(n)>> ELSE Append(to_string_unsigned(n \div 10), number_to_digit(n % 10))
to_string_signed(n) == IF n < 0 THEN <<Minus>> \o to_string_unsigned(-n) ELSE to_string_unsigned(n)

(***************************************************************************)
(* bool, and the doubles that are no numbers.                              *)
(***************************************************************************)
alse == <<\h61, \h6C, \h73, \h65>>
rue  == <<\h72, \h75, \h65>>
Upper(word) == [i \in DOMAIN word |-> word[i] - \h20]
to_string_bool(b) == IF b THEN <<\h74>> \o rue ELSE <<\h66>> \o alse
from_string_bool(in) ==
  LET ends(words) == IF Tail(in) \in words \cup {<<>>} THEN Good(TRUE, 0) ELSE ConversionError
  IN  CASE in = <<>> -> Good(Boolean(FALSE), 0)
        [] in # <<>> /\ in[1] \in {\h66, \h46} -> Map(ends({alse, Upper(alse)}), LAMBDA v : Boolean(FALSE))
        [] in # <<>> /\ in[1] \in {\h74, \h54} -> Map(ends({rue, Upper(rue)}), LAMBDA v : Boolean(TRUE))
        [] in # <<>> /\ in[1] = \h31 -> Map(ends({}), LAMBDA v : Boolean(TRUE))
        [] in # <<>> /\ in[1] = Zero ->
             Bind(from_string_signed(in, "int"), LAMBDA n, i :
               IF n.number_integer \in {0, 1} THEN Good(Boolean(n.number_integer = 1), 0) ELSE ConversionError)
        [] OTHER -> ConversionError

nan == <<\h6E, \h61, \h6E>>
inf == <<\h69, \h6E, \h66>>
infinity == inf \o <<\h69, \h6E, \h69, \h74, \h79>>
valid_infinity_string(in) == in \in {infinity, [infinity EXCEPT ![1] = @ - \h20], Upper(infinity), inf}
is_nan(in) == Len(in) = 3 /\ \A i \in 1 .. 3 : in[i] \in {nan[i], nan[i] - \h20}
to_string_float(name) ==
  CASE name = "nan" -> nan [] name = "inf" -> infinity [] name = "-inf" -> <<Minus>> \o infinity
from_string_float(in) ==
  CASE is_nan(in) -> Good(Float("nan"), 0)
    [] valid_infinity_string(in) -> Good(Float("inf"), 0)
    [] in # <<>> /\ in[1] = Minus /\ valid_infinity_string(Tail(in)) -> Good(Float("-inf"), 0)
    [] OTHER -> ConversionError    \* a number, or nothing: left to a stringstream

(***************************************************************************)
(* Lines of COPY.                                                          *)
(***************************************************************************)
Tab == \h09
LF  == \h0A
Escape == \h5C
Letter_N == \h4E
NullMark == <<Escape, Letter_N>>
\* backspace, tab, newline, vertical tab, form feed and return have letters
letters == [c \in {\h08, \h09, \h0A, \h0B, \h0C, \h0D} |->
              CASE c = \h08 -> \h62 [] c = \h09 -> \h74 [] c = \h0A -> \h6E
                [] c = \h0B -> \h76 [] c = \h0C -> \h66 [] c = \h0D -> \h72]
meant_by(n) ==
  IF \E c \in DOMAIN letters : letters[c] = n THEN CHOOSE c \in DOMAIN letters : letters[c] = n ELSE n

Unprintable(c) == c < \h20 \/ c > \h7E
octal(top, c) == <<number_to_digit(top), number_to_digit((c \div 8) % 8), number_to_digit(c % 8)>>

\* the sign of char is shifted into the first octal digit
typed_escape(c) ==
  CASE c \in DOMAIN letters -> <<Escape, letters[c]>>
    [] c = Escape -> <<Escape, Escape>>
    [] c \notin DOMAIN letters /\ Unprintable(c) ->
         <<Escape>> \o octal(IF c > \h7F THEN 4 + c \div 64 ELSE c \div 64, c)
    [] OTHER -> <<c>>
\* two backslashes before an octal number
table_escape(c) ==
  CASE c \in DOMAIN letters -> <<Escape, letters[c]>>
    [] c = Escape -> <<Escape, Escape>>
    [] c \notin DOMAIN letters /\ Unprintable(c) -> <<Escape, Escape>> \o octal(c \div 64, c)
    [] OTHER -> <<c>>

Concat(seqs) == FoldLeft(LAMBDA a, b : a \o b, <<>>, seqs)
separated_list(sep, parts) == Concat([k \in DOMAIN parts |-> IF k = 1 THEN parts[k] ELSE sep \o parts[k]])
Escaped(field, how(_)) ==
  IF Is(field, "null") THEN NullMark ELSE Concat([i \in DOMAIN field.string |-> how(field.string[i])])
\* write_copy_line ends the line
insert_row(row, how(_)) ==
  separated_list(<<Tab>>, [k \in DOMAIN row.array |-> Escaped(row.array[k], how)]) \o <<LF>>

find_tab(group, line, i) == Bind(find_with_encoding(group, line, Tab, i), LAMBDA found, at : Good(at, at))
Failure == Fail(3)
Field(s, is_null) == [s |-> s, is_null |-> is_null]

(***************************************************************************)
(* stream_from::extract_field goes glyph by glyph.                         *)
(***************************************************************************)
RECURSIVE stream_field(_, _, _, _, _)
stream_field(group, line, stop, i, field) ==
  LET escape(end) ==
        LET n == line[end]
        IN  IF end > Len(line) THEN Failure
            ELSE IF n = Letter_N THEN
              (IF field.s # <<>> THEN Failure ELSE stream_field(group, line, stop, end + 1, Field(<<>>, TRUE)))
            ELSE stream_field(group, line, stop, end + 1, [field EXCEPT !.s = Append(@, meant_by(n))])
      glyph(n, end) ==
        CASE n = 1 /\ line[i] = Escape -> escape(end)
          [] n = 1 /\ line[i] = LF -> stream_field(group, line, stop, end, field)
          [] OTHER -> stream_field(group, line, stop, end, [field EXCEPT !.s = @ \o SubSeq(line, i, end - 1)])
  IN  IF i >= stop THEN Good(field, i + 1) ELSE Bind(glyph_scanner(group, line, i), glyph)
extract_field(group, line, i) ==
  Bind(find_tab(group, line, i), LAMBDA at, stop : stream_field(group, line, stop, i, Field(<<>>, FALSE)))

(***************************************************************************)
(* tablereader::extract_field goes byte by byte.  A null is whatever the   *)
(* client has named as its text, here NullStr.                             *)
(***************************************************************************)
NullStr == <<\h7E>>
findtab(line, start) ==
  LET tabs == {k \in start .. Len(line) : line[k] = Tab} IN IF tabs = {} THEN Len(line) + 1 ELSE Min(tabs)
Octal == \h30 .. \h37
RECURSIVE table_field(_, _, _, _)
table_field(line, stop, i, field) ==
  LET n == line[i + 1]
      add(c) == [field EXCEPT !.s = Append(@, c)]
      value  == 64 * digit_to_number(n) + 8 * digit_to_number(line[i + 2]) + digit_to_number(line[i + 3])
      own    == meant_by(n) = n    \* escapes itself: maybe a tab that was taken for the end
      longer == IF own /\ i + 1 = stop THEN findtab(line, i + 2) ELSE stop
      escape ==
        CASE n = Letter_N -> IF field.s # <<>> THEN Failure
                             ELSE table_field(line, stop, i + 2, Field(NullStr, TRUE))
          [] n \in Octal  -> IF i + 3 > Len(line) \/ {line[i + 2], line[i + 3]} \ Octal # {} THEN Failure
                             ELSE table_field(line, stop, i + 4, add(value % 256))
          [] OTHER -> IF own /\ i + 1 = stop /\ i + 2 > Len(line) THEN Failure
                      ELSE table_field(line, longer, i + 2, add(meant_by(n)))
  IN  CASE i >= stop -> IF field.is_null /\ Len(field.s) # Len(NullStr) THEN Failure ELSE Good(field, i + 1)
        [] i < stop /\ line[i] = LF     -> table_field(line, stop, stop + 1, field)
        [] i < stop /\ line[i] = Escape -> IF i + 1 > Len(line) THEN Failure ELSE escape
        [] OTHER -> table_field(line, stop, i + 1, add(line[i]))
RECURSIVE tokenize(_, _, _)
tokenize(line, here, sofar) ==
  IF here > Len(line) THEN Good(Array(sofar), here)
  ELSE Bind(table_field(line, findtab(line, here), here, Field(<<>>, FALSE)), LAMBDA field, next :
         tokenize(line, next, Append(sofar, IF field.s = NullStr THEN Null ELSE String(field.s))))

(***************************************************************************)
(* stream_from's tokenize_ith reads as many fields as the client's tuple   *)
(* has, and allows nothing behind them.                                    *)
(***************************************************************************)
UsageError == Fail(4)
RECURSIVE tokenize_ith(_, _, _, _, _)
tokenize_ith(group, line, count, here, sofar) ==
  IF count = 0 THEN (IF here < Len(line) \/ (here = Len(line) /\ line[here] # LF) THEN UsageError
                     ELSE Good(Array(sofar), here))
  ELSE IF here > Len(line) THEN UsageError
  ELSE Bind(extract_field(group, line, here), LAMBDA field, next :
         tokenize_ith(group, line, count - 1, next,
                      Append(sofar, IF field.is_null THEN Null ELSE String(field.s))))

(***************************************************************************)
(* PostgreSQL's side of COPY (external).  It sends control characters and  *)
(* backslashes escaped, but never a byte within a longer glyph.  What it   *)
(* reads is split at tabs; \N alone is null, and up to three octal digits  *)
(* are a byte.                                                             *)
(***************************************************************************)
RECURSIVE copy_out_text(_, _, _)
copy_out_text(group, s, i) ==
  LET n == pg_encoding_mblen(group, s, i)
  IN  IF i > Len(s) THEN <<>>
      ELSE (IF n > 1 THEN SubSeq(s, i, i + n - 1)
            ELSE IF s[i] = Escape \/ s[i] \in DOMAIN letters THEN typed_escape(s[i]) ELSE <<s[i]>>)
           \o copy_out_text(group, s, i + n)
copy_out(group, row) ==
  LET field(f) == IF Is(f, "null") THEN NullMark ELSE copy_out_text(group, f.string, 1)
  IN  separated_list(<<Tab>>, [k \in DOMAIN row.array |-> field(row.array[k])]) \o <<LF>>

RECURSIVE octal_end(_, _, _), copy_in_text(_, _, _, _, _), copy_in(_, _, _, _)
octal_end(in, i, n) == IF n < 3 /\ i <= Len(in) /\ in[i] \in Octal THEN octal_end(in, i + 1, n + 1) ELSE i
copy_in_text(group, in, i, raw, s) ==
  LET take(end, c) == copy_in_text(group, in, end, raw \o SubSeq(in, i, end - 1), s \o c)
      n     == pg_encoding_mblen(group, in, i)
      end   == octal_end(in, i + 1, 0)
      value == FoldLeft(LAMBDA v, c : 8 * v + digit_to_number(c), 0, SubSeq(in, i + 1, end - 1)) % 256
  IN  CASE in[i] \in {Tab, LF} -> Good(IF raw = NullMark THEN Null ELSE String(s), i)
        [] in[i] = Escape /\ in[i + 1] \in Octal    -> take(end, <<value>>)
        [] in[i] = Escape /\ in[i + 1] \notin Octal -> take(i + 2, <<meant_by(in[i + 1])>>)
        [] OTHER -> take(i + n, SubSeq(in, i, i + n - 1))
copy_in(group, in, i, sofar) ==
  Bind(copy_in_text(group, in, i, <<>>, <<>>), LAMBDA field, at :
    IF in[at] = LF THEN Good(Array(Append(sofar, field)), at + 1)
    ELSE copy_in(group, in, at + 1, Append(sofar, field)))

(***************************************************************************)
(* Rows copied from one table to another.  stream_to ends every line it    *)
(* has read once more, and writes the one it did not get any more; table-  *)
(* writer takes off a line's end first.                                    *)
(***************************************************************************)
copied_lines(lines) == Concat([k \in DOMAIN lines |-> lines[k] \o <<LF>>]) \o <<LF>>
write_raw_line(line) == (IF line # <<>> /\ Last(line) = LF THEN Front(line) ELSE line) \o <<LF>>
tablewriter_copied(lines) == Concat([k \in DOMAIN lines |-> write_raw_line(lines[k])])
RECURSIVE copy_in_rows(_, _, _, _)
copy_in_rows(group, in, i, rows) ==
  IF i > Len(in) THEN Good(Array(rows), i)
  ELSE Bind(copy_in(group, in, i, <<>>), LAMBDA row, next : copy_in_rows(group, in, next, Append(rows, row)))

(***************************************************************************)
(* array_parser.  A juncture is what get_next finds: a row's start or end, *)
(* a null or a string.                                                     *)
(***************************************************************************)
OpenBrace == \h7B
CloseBrace == \h7D
Comma == \h2C
Semicolon == \h3B
DoubleQuote == \h22
SingleQuote == \h27
Row_start == [row_start |-> 0]
Row_end   == [row_end |-> 0]
null_word == <<\h4E, \h55, \h4C, \h4C>>

\* a quoted string up to its closing quote, without its escapes
RECURSIVE quoted_string(_, _, _, _, _)
quoted_string(group, in, i, quote, s) ==
  LET skip(next) == Bind(glyph_scanner(group, in, next), LAMBDA n, end :
                      quoted_string(group, in, end, quote, s \o SubSeq(in, next, end - 1)))
      doubled(next) == quote = SingleQuote /\ next <= Len(in) /\ in[next] = SingleQuote
      glyph(n, next) ==
        CASE n = 1 /\ in[i] = Escape -> IF next > Len(in) THEN ArgumentError ELSE skip(next)
          [] n = 1 /\ in[i] = quote  -> IF doubled(next) THEN skip(next) ELSE Good(String(s), next)
          [] OTHER -> quoted_string(group, in, next, quote, s \o SubSeq(in, i, next - 1))
  IN  IF i > Len(in) THEN ArgumentError ELSE Bind(glyph_scanner(group, in, i), glyph)

RECURSIVE scan_unquoted_string(_, _, _)
scan_unquoted_string(group, in, i) ==
  IF i > Len(in) THEN ArgumentError
  ELSE Bind(glyph_scanner(group, in, i), LAMBDA n, next :
         IF n = 1 /\ in[i] \in {Comma, Semicolon, CloseBrace} THEN Good(0, i)
         ELSE scan_unquoted_string(group, in, next))
unquoted_string(group, in, i) ==
  Bind(scan_unquoted_string(group, in, i), LAMBDA n, end :
    LET s == SubSeq(in, i, end - 1) IN Good(IF s = null_word THEN Null ELSE String(s), end))

get_next(group, in, i) ==
  LET c == in[i]
      found == CASE c = OpenBrace   -> Good(Row_start, i + 1)
                 [] c = CloseBrace  -> Good(Row_end, i + 1)
                 [] c \in {SingleQuote, DoubleQuote} -> quoted_string(group, in, i + 1, c, <<>>)
                 [] OTHER           -> unquoted_string(group, in, i)
  IN  Bind(found, LAMBDA juncture, end :
        Good(<<juncture>>, IF end <= Len(in) /\ in[end] \in {Comma, Semicolon} THEN end + 1 ELSE end))
RECURSIVE junctures(_, _, _, _)
junctures(group, in, i, sofar) ==
  IF i > Len(in) THEN Good(sofar, i)
  ELSE Bind(get_next(group, in, i), LAMBDA juncture, next : junctures(group, in, next, sofar \o juncture))

(***************************************************************************)
(* PostgreSQL's array_out (external): an element is quoted if it is empty, *)
(* NULL, or has a character in it that array_in would take for something.  *)
(***************************************************************************)
RECURSIVE singles(_, _, _), element_text(_, _, _), array_out(_, _), junctures_of(_)
singles(group, s, i) ==
  LET n == pg_encoding_mblen(group, s, i)
  IN  IF i > Len(s) THEN {} ELSE (IF n = 1 THEN {s[i]} ELSE {}) \cup singles(group, s, i + n)
element_text(group, s, i) ==
  LET n == pg_encoding_mblen(group, s, i)
  IN  IF i > Len(s) THEN <<>>
      ELSE (IF n = 1 /\ s[i] \in {Escape, DoubleQuote} THEN <<Escape, s[i]>> ELSE SubSeq(s, i, i + n - 1))
           \o element_text(group, s, i + n)
NeedsQuotes(group, s) ==
  \/ s = <<>>
  \/ Len(s) = 4 /\ \A i \in 1 .. 4 : s[i] \in {null_word[i], null_word[i] + \h20}
  \/ singles(group, s, 1) \cap {DoubleQuote, Escape, OpenBrace, CloseBrace, Comma, Tab, LF, \h20} # {}
array_out(group, j) ==
  CASE Is(j, "null")   -> null_word
    [] Is(j, "string") -> IF NeedsQuotes(group, j.string)
                            THEN <<DoubleQuote>> \o element_text(group, j.string, 1) \o <<DoubleQuote>>
                            ELSE j.string
    [] Is(j, "array")  ->
         LET parts == [k \in DOMAIN j.array |-> array_out(group, j.array[k])]
         IN  <<OpenBrace>> \o separated_list(<<Comma>>, parts) \o <<CloseBrace>>
junctures_of(j) ==
  IF Is(j, "array")
    THEN <<Row_start>> \o Concat([k \in DOMAIN j.array |-> junctures_of(j.array[k])]) \o <<Row_end>>
    ELSE <<j>>

(***************************************************************************)
(* The formats: who writes, and who reads what the client means to be j.   *)
(***************************************************************************)
CopyFormats == {"stream_to", "stream_from", "tablewriter", "tablereader", "stream_copied", "table_copied"}
PqFormats   == CopyFormats \cup IntTypes \cup {"array", "bool", "special"}
PqWritten(f, group, j) ==
  CASE f = "stream_to"   -> insert_row(j, typed_escape)
    [] f = "tablewriter" -> insert_row(j, table_escape)
    [] f \in {"stream_from", "tablereader"} -> copy_out(group, j)
    [] f = "stream_copied" -> copied_lines([k \in DOMAIN j.array |-> copy_out(group, j.array[k])])
    [] f = "table_copied"  -> tablewriter_copied([k \in DOMAIN j.array |-> copy_out(group, j.array[k])])
    [] f = "array"       -> array_out(group, j)
    [] f = "bool"        -> to_string_bool(j.boolean)
    [] f = "special"     -> to_string_float(j.number_float)
    [] f \in IntTypes    -> IF is_signed(f) THEN to_string_signed(j.number_integer)
                            ELSE to_string_unsigned(j.number_integer)
PqReadAs(f, group, j, in) ==
  CASE f \in {"stream_to", "tablewriter"} -> copy_in(group, in, 1, <<>>)
    [] f = "stream_from" -> tokenize_ith(group, in, Len(j.array), 1, <<>>)
    [] f = "tablereader" -> tokenize(in, 1, <<>>)
    [] f \in {"stream_copied", "table_copied"} -> copy_in_rows(group, in, 1, <<>>)
    [] f = "array"       -> junctures(group, in, 1, <<>>)
    [] f = "bool"        -> from_string_bool(in)
    [] f = "special"     -> from_string_float(in)
    [] f \in IntTypes    -> from_string_integer(in, f)
=============================================================================
