----------------------------- MODULE JsonEscape -----------------------------
(***************************************************************************)
(* json.hpp, serializer: what dump_escaped does with one byte of a string, *)
(* which it collects in a buffer of Buffer bytes (512 in the code).        *)
(***************************************************************************)
EXTENDS Integers, Sequences

CONSTANT Buffer
ASSUME BufferAssumption == Buffer \in Nat /\ Buffer >= 13

Quote     == \h22
Backslash == \h5C
Letter_u  == \h75

(***************************************************************************)
(* decode, one step of the UTF-8 automaton: the type of a byte, and the    *)
(* state after a byte of that type.                                        *)
(***************************************************************************)
UTF8_ACCEPT == 0
UTF8_REJECT == 1

byte_type(b) ==
  CASE b \in \h00 .. \h7F -> 0     [] b \in \h80 .. \h8F -> 1
    [] b \in \h90 .. \h9F -> 9     [] b \in \hA0 .. \hBF -> 7
    [] b \in \hC2 .. \hDF -> 2     [] b = \hE0           -> 10
    [] b = \hED           -> 4     [] b = \hF0           -> 11
    [] b \in \hF1 .. \hF3 -> 6     [] b = \hF4           -> 5
    [] b \in (\hE1 .. \hEF) \ {\hED} -> 3
    [] b \in {\hC0, \hC1} \cup (\hF5 .. \hFF) -> 8

utf8d(state, type) ==
  CASE state = 0 /\ type \in {0, 2, 3}      -> type
    [] state = 0 /\ type = 4                -> 5
    [] state = 0 /\ type = 5                -> 8
    [] state = 0 /\ type = 6                -> 7
    [] state = 0 /\ type = 10               -> 4
    [] state = 0 /\ type = 11               -> 6
    [] state = 2 /\ type \in {1, 7, 9}      -> 0
    [] \/ state = 3 /\ type \in {1, 7, 9}
       \/ state = 4 /\ type = 7
       \/ state = 5 /\ type \in {1, 9}      -> 2
    [] \/ state = 6 /\ type \in {7, 9}
       \/ state = 7 /\ type \in {1, 7, 9}
       \/ state = 8 /\ type = 1             -> 3
    [] OTHER                                -> UTF8_REJECT
decode(state, b) == utf8d(state, byte_type(b))

\* (0xFF >> type) & byte, or the next six bits
Shifted == <<256, 128, 64, 32, 16, 8, 4, 2, 1>>
codep(state, codepoint, b) ==
  IF state # UTF8_ACCEPT THEN codepoint * 64 + (b % 64)
  ELSE IF byte_type(b) > 8 THEN 0 ELSE b % Shifted[byte_type(b) + 1]

(***************************************************************************)
(* dump_escaped.  bytes is what string_buffer holds, kept how much of it   *)
(* belongs to complete code points, undumped how many bytes were read      *)
(* since, out what was written from it before, and most how many bytes the *)
(* buffer had to hold, with the NUL that snprintf adds to an escape.       *)
(***************************************************************************)
HexDigit(n) == IF n < 10 THEN \h30 + n ELSE \h57 + n
u_escape(n) == <<Backslash, Letter_u, HexDigit((n \div 4096) % 16), HexDigit((n \div 256) % 16),
                 HexDigit((n \div 16) % 16), HexDigit(n % 16)>>

short_escapes == [c \in {\h08, \h09, \h0A, \h0C, \h0D, Quote, Backslash} |->
                    CASE c = \h08 -> \h62 [] c = \h09 -> \h74 [] c = \h0A -> \h6E
                      [] c = \h0C -> \h66 [] c = \h0D -> \h72 [] OTHER -> c]
escaped(codepoint, ensure_ascii, b) ==
  IF codepoint \in DOMAIN short_escapes THEN <<Backslash, short_escapes[codepoint]>>
  ELSE IF ~(codepoint <= \h1F \/ (ensure_ascii /\ codepoint >= \h7F)) THEN <<b>>
  ELSE IF codepoint <= \hFFFF THEN u_escape(codepoint)
  ELSE u_escape(\hD7C0 + codepoint \div 1024) \o u_escape(\hDC00 + (codepoint % 1024))
replacement(ensure_ascii) ==
  IF ensure_ascii THEN u_escape(\hFFFD) ELSE <<\hEF, \hBF, \hBD>>

Larger(a, b) == IF a < b THEN b ELSE a
\* the buffer is written out when fewer than 13 bytes are left
\* Mutant: one byte too few is kept free
MustFlushLate(bytes) == Buffer - Len(bytes) < 12
MustFlush(bytes) == Buffer - Len(bytes) < 13
Flushed(d) ==
  LET seen == [d EXCEPT !.most = Larger(@, Len(d.bytes) + 1)]
  IN  IF MustFlush(d.bytes) THEN [seen EXCEPT !.out = @ \o d.bytes, !.bytes = <<>>] ELSE seen
Accepted(d) == [d EXCEPT !.kept = Len(d.bytes), !.undumped = 0]

accept(d, ensure_ascii, b) ==
  LET next == Flushed([d EXCEPT !.bytes = @ \o escaped(d.codepoint, ensure_ascii, b)])
  IN  [Accepted(next) EXCEPT !.i = @ + 1]

\* strict gives up; the others read a byte that broke a sequence off again
reject(s, d, ensure_ascii, error_handler) ==
  LET back == [d EXCEPT !.bytes = SubSeq(@, 1, d.kept), !.state = UTF8_ACCEPT,
                        !.i = IF d.undumped > 0 THEN @ ELSE @ + 1]
      with == Flushed([back EXCEPT !.bytes = @ \o replacement(ensure_ascii)])
  IN  CASE error_handler = "strict"  -> [d EXCEPT !.i = Len(s) + 1]
        [] error_handler = "ignore"  -> [back EXCEPT !.undumped = 0]
        [] error_handler = "replace" -> Accepted(with)

incomplete(d, ensure_ascii, b) ==
  LET bytes == IF ensure_ascii THEN d.bytes ELSE Append(d.bytes, b)
  IN  [d EXCEPT !.bytes = bytes, !.most = Larger(@, Len(bytes)), !.undumped = @ + 1, !.i = @ + 1]

Scanning == [i |-> 1, state |-> UTF8_ACCEPT, codepoint |-> 0, bytes |-> <<>>, kept |-> 0,
             undumped |-> 0, out |-> <<>>, most |-> 0]
escape_byte(s, d, ensure_ascii, error_handler) ==
  LET b    == s[d.i]
      read == [d EXCEPT !.state = decode(d.state, b), !.codepoint = codep(d.state, d.codepoint, b)]
  IN  CASE read.state = UTF8_ACCEPT -> accept(read, ensure_ascii, b)
        [] read.state = UTF8_REJECT -> reject(s, read, ensure_ascii, error_handler)
        [] OTHER                    -> incomplete(read, ensure_ascii, b)

\* what is written in the end, if that is not an error
escape_end(d, ensure_ascii, error_handler) ==
  LET kept == d.out \o SubSeq(d.bytes, 1, d.kept)
  IN  CASE d.state = UTF8_ACCEPT -> [ok |-> TRUE, out |-> d.out \o d.bytes]
        [] d.state # UTF8_ACCEPT /\ error_handler = "strict"  -> [ok |-> FALSE, out |-> <<>>]
        [] d.state # UTF8_ACCEPT /\ error_handler = "ignore"  -> [ok |-> TRUE, out |-> kept]
        [] d.state # UTF8_ACCEPT /\ error_handler = "replace" ->
             [ok |-> TRUE, out |-> kept \o replacement(ensure_ascii)]
=============================================================================
