----------------------------- MODULE JsonProofs -----------------------------
(***************************************************************************)
(* json.hpp: dump_escaped of the serializer stays within its buffer and    *)
(* writes ASCII where it is asked to (JsonDump, for strings of any length  *)
(* and any buffer of 13 bytes or more); a call on a value that throws has  *)
(* not changed it (JsonValue, for any values; the last section).           *)
(*                                                                         *)
(* The code looks at its buffer only after a whole code point, and needs   *)
(* 13 bytes there for the longest escape with its NUL.  What it writes in  *)
(* between has to fit as well: the bytes of a code point that is not over. *)
(* The invariant therefore ties the bytes that are not kept yet (undumped) *)
(* to the state of the UTF-8 automaton, which bounds them by 3, and the    *)
(* rest of the buffer to what was kept at the last look.  That no code     *)
(* point beyond ASCII is taken for an ASCII one needs the value as well:   *)
(* the automaton's state bounds the bits read so far from below, which is  *)
(* why an overlong encoding never gets through.                            *)
(***************************************************************************)
EXTENDS JsonValue, JsonDump, SequenceTheorems, TLAPS

Byte == 0 .. 255

Typed(d) ==
    /\ DOMAIN d = {"i", "state", "codepoint", "bytes", "kept", "undumped", "out", "most"}
    /\ d.i \in Nat \ {0} /\ d.state \in 0 .. 8 /\ d.codepoint \in Nat
    /\ d.bytes \in Seq(Byte) /\ d.out \in Seq(Byte)
    /\ d.kept \in Nat /\ d.undumped \in Nat /\ d.most \in Nat

\* The bytes of a code point that may have been read in a state, and what its
\* bits so far are worth at the least.
Begun(state) ==
    IF state = 0 THEN 0 ELSE IF state = 2 THEN 3 ELSE IF state \in {3, 4, 5} THEN 2 ELSE 1
Least(state) ==
    IF state = 2 THEN 2 ELSE IF state \in {3, 5, 7, 8} THEN 1 ELSE 0

\* What the bytes that are in the buffer come from, and that there is room for
\* those that dump_escaped may add before it looks again.
Room(d, ascii) ==
    /\ d.most <= Buffer
    /\ d.kept <= Buffer - 13
    /\ Len(d.bytes) = d.kept + (IF ascii THEN 0 ELSE d.undumped)

\* Where the automaton is.
Automaton(s, d) ==
    IF d.state = UTF8_REJECT THEN d.i > Len(s)
    ELSE d.undumped <= Begun(d.state) /\ Least(d.state) <= d.codepoint

EscapeInvariant ==
    /\ string \in Seq(Byte) /\ ensure_ascii \in BOOLEAN
    /\ error_handler \in {"strict", "replace", "ignore"}
    /\ Typed(escape)
    /\ Room(escape, ensure_ascii)
    /\ Automaton(string, escape)
    /\ ensure_ascii => Ascii(escape.out) /\ Ascii(escape.bytes) /\ Ascii(text.out)

-----------------------------------------------------------------------------
(* The automaton *)

LEMMA TypeOfByte ==
    ASSUME NEW b \in Byte
    PROVE  /\ byte_type(b) \in 0 .. 11
           /\ byte_type(b) = 0 <=> b <= 127
           /\ byte_type(b) = 7 => b % 64 >= 32
           /\ byte_type(b) = 9 => b % 64 >= 16
           /\ byte_type(b) = 2 => b % 64 >= 2
           /\ byte_type(b) = 3 => b % 32 >= 1
           /\ byte_type(b) = 4 => b % 16 >= 1
           /\ byte_type(b) = 5 => b % 8 >= 1
           /\ byte_type(b) = 6 => b % 4 >= 1
<1>1. b \in Int /\ 0 <= b /\ b <= 255
  BY DEF Byte
<1>2. \/ b \in 0 .. 127 /\ byte_type(b) = 0
      \/ b \in 128 .. 143 /\ byte_type(b) = 1
      \/ b \in 144 .. 159 /\ byte_type(b) = 9
      \/ b \in 160 .. 191 /\ byte_type(b) = 7
      \/ b \in 194 .. 223 /\ byte_type(b) = 2
      \/ b = 224 /\ byte_type(b) = 10
      \/ b = 237 /\ byte_type(b) = 4
      \/ b = 240 /\ byte_type(b) = 11
      \/ b \in 241 .. 243 /\ byte_type(b) = 6
      \/ b = 244 /\ byte_type(b) = 5
      \/ b \in 225 .. 239 /\ byte_type(b) = 3
      \/ byte_type(b) = 8 /\ b > 127
  BY <1>1 DEF byte_type
<1>3. (b \in 160 .. 191 => b % 64 >= 32) /\ (b \in 144 .. 159 => b % 64 >= 16)
  OBVIOUS
<1>4. (b \in 194 .. 223 => b % 64 >= 2) /\ (b \in 225 .. 239 => b % 32 >= 1)
  OBVIOUS
<1>5. (b = 237 => b % 16 >= 1) /\ (b = 244 => b % 8 >= 1) /\ (b \in 241 .. 243 => b % 4 >= 1)
  OBVIOUS
<1> QED BY <1>1, <1>2, <1>3, <1>4, <1>5

LEMMA DecodeGoesOn ==
    ASSUME NEW b \in Byte, NEW state \in 0 .. 8, state # UTF8_REJECT
    PROVE  /\ decode(state, b) \in 0 .. 8
           /\ decode(state, b) = 0 => state = 2 \/ (state = 0 /\ b <= 127)
           /\ decode(state, b) \notin {0, 1} => Begun(state) + 1 <= Begun(decode(state, b))
<1>1. byte_type(b) \in 0 .. 11 /\ (byte_type(b) = 0 <=> b <= 127)
  BY TypeOfByte
<1>2. \A type \in 0 .. 11 :
        /\ utf8d(state, type) \in 0 .. 8
        /\ utf8d(state, type) = 0 => state = 2 \/ (state = 0 /\ type = 0)
        /\ utf8d(state, type) \notin {0, 1} => Begun(state) + 1 <= Begun(utf8d(state, type))
  BY DEF utf8d, Begun, UTF8_REJECT
<1> QED BY <1>1, <1>2 DEF decode

\* The low bits of a first byte.
LEMMA FirstBits ==
    ASSUME NEW b \in Byte, NEW codepoint \in Nat
    PROVE  /\ codep(0, codepoint, b) \in Nat
           /\ byte_type(b) = 0 => codep(0, codepoint, b) = b
           /\ byte_type(b) = 2 => codep(0, codepoint, b) >= 2
           /\ byte_type(b) \in 3 .. 6 => codep(0, codepoint, b) >= 1
<1> USE DEF codep, UTF8_ACCEPT
<1>1. byte_type(b) \in 0 .. 11
  BY TypeOfByte
<1>2. b \in Int /\ 0 <= b /\ b <= 255 /\ b % 256 = b
  BY DEF Byte
<1>3. CASE byte_type(b) > 8
  BY <1>1, <1>3
<1>4. CASE byte_type(b) <= 8
  <2>1. codep(0, codepoint, b) = b % Shifted[byte_type(b) + 1]
    BY <1>1, <1>4
  <2> HIDE DEF codep
  <2>2. /\ Shifted[1] = 256 /\ Shifted[2] = 128 /\ Shifted[3] = 64 /\ Shifted[4] = 32 /\ Shifted[5] = 16
        /\ Shifted[6] = 8 /\ Shifted[7] = 4 /\ Shifted[8] = 2 /\ Shifted[9] = 1
    BY DEF Shifted
  <2>3. byte_type(b) \in {0, 1, 2, 3, 4, 5, 6, 7, 8}
    BY <1>1, <1>4
  <2>4. \A m \in {256, 128, 64, 32, 16, 8, 4, 2, 1} : b % m \in Nat
    BY <1>2
  <2>5. codep(0, codepoint, b) \in Nat
    <3>1. Shifted[byte_type(b) + 1] \in {256, 128, 64, 32, 16, 8, 4, 2, 1}
      BY <2>2, <2>3
    <3> QED BY <2>1, <2>4, <3>1, ZenonT(40)
  <2>6. byte_type(b) = 0 => codep(0, codepoint, b) = b
    BY <1>2, <2>1, <2>2
  <2>7. /\ byte_type(b) = 2 => Shifted[byte_type(b) + 1] = 64
        /\ byte_type(b) = 3 => Shifted[byte_type(b) + 1] = 32
        /\ byte_type(b) = 4 => Shifted[byte_type(b) + 1] = 16
        /\ byte_type(b) = 5 => Shifted[byte_type(b) + 1] = 8
        /\ byte_type(b) = 6 => Shifted[byte_type(b) + 1] = 4
    BY <2>2
  <2>8. byte_type(b) = 2 => codep(0, codepoint, b) >= 2
    BY <2>1, <2>7, TypeOfByte
  <2>9. byte_type(b) \in {3, 4, 5, 6} => codep(0, codepoint, b) >= 1
    BY <2>1, <2>7, TypeOfByte
  <2> QED BY <2>3, <2>5, <2>6, <2>8, <2>9
<1> QED BY <1>1, <1>3, <1>4

LEMMA CodepIsWorth ==
    ASSUME NEW b \in Byte, NEW state \in 0 .. 8, state # UTF8_REJECT,
           NEW codepoint \in Nat, Least(state) <= codepoint
    PROVE  /\ codep(state, codepoint, b) \in Nat
           /\ Least(decode(state, b)) <= codep(state, codepoint, b)
           /\ decode(state, b) = 0 /\ state = 0 => codep(state, codepoint, b) = b
           /\ decode(state, b) = 0 /\ state # 0 => codep(state, codepoint, b) >= 128
<1> DEFINE c == codep(state, codepoint, b)
           t == byte_type(b)
<1>1. t \in 0 .. 11 /\ b \in Int /\ b >= 0
  BY TypeOfByte DEF Byte
<1>2. CASE state = 0
  <2>1. /\ c \in Nat /\ (t = 0 => c = b) /\ (t = 2 => c >= 2) /\ (t \in 3 .. 6 => c >= 1)
    BY <1>2, FirstBits
  <2> HIDE DEF c, t
  <2>2. \/ utf8d(0, t) = 0 /\ t = 0
        \/ utf8d(0, t) = 2 /\ t = 2
        \/ utf8d(0, t) \in {3, 5, 7, 8} /\ t \in 3 .. 6
        \/ utf8d(0, t) \in {1, 4, 6}
    BY <1>1 DEF utf8d, UTF8_REJECT
  <2>3. decode(0, b) = utf8d(0, t)
    BY DEF decode, t
  <2> QED BY <1>2, <2>1, <2>2, <2>3 DEF Least, c
<1>3. CASE state # 0
  <2>1. c = codepoint * 64 + (b % 64)
    BY <1>3 DEF codep, UTF8_ACCEPT
  <2>2. b % 64 \in 0 .. 63
    BY <1>1
  <2>3. /\ t = 7 => b % 64 >= 32
        /\ t = 9 => b % 64 >= 16
    BY TypeOfByte
  <2> HIDE DEF c, t
  <2>4. \/ utf8d(state, t) = 0 /\ state = 2
        \/ utf8d(state, t) = 2 /\ state = 4 /\ t = 7
        \/ utf8d(state, t) = 2 /\ state \in {3, 5}
        \/ utf8d(state, t) = 3 /\ state = 6 /\ t \in {7, 9}
        \/ utf8d(state, t) = 3 /\ state \in {7, 8}
        \/ utf8d(state, t) = 1
    BY <1>1, <1>3 DEF utf8d, UTF8_REJECT
  <2>5. decode(state, b) = utf8d(state, t)
    BY DEF decode, t
  <2>6. c \in Nat /\ c >= codepoint * 64 /\ c >= b % 64
    <3>1. PICK r \in 0 .. 63 : r = b % 64
      BY <2>2
    <3> QED BY <2>1, <3>1
  <2>7. (state = 2 => c >= 128) /\ (state \in {3, 5, 7, 8} => c >= 64)
    BY <2>6 DEF Least
  <2>8. (t = 7 => c >= 32) /\ (t = 9 => c >= 16)
    <3>1. PICK r \in 0 .. 63 : r = b % 64
      BY <2>2
    <3> QED BY <2>3, <2>6, <3>1 DEF t
  <2>9. utf8d(state, t) = 0 => c >= 128
    BY <2>4, <2>7
  <2>10. Least(utf8d(state, t)) <= c
    BY <2>4, <2>6, <2>7, <2>8 DEF Least
  <2> QED BY <1>3, <2>5, <2>6, <2>9, <2>10 DEF c
<1> QED BY <1>2, <1>3

-----------------------------------------------------------------------------
(* What is put into the buffer *)

LEMMA HexDigits == \A n \in 0 .. 15 : HexDigit(n) \in 48 .. 102
  BY DEF HexDigit

LEMMA UEscapeIs ==
    ASSUME NEW n \in Nat
    PROVE  u_escape(n) \in Seq(Byte) /\ Len(u_escape(n)) = 6 /\ Ascii(u_escape(n))
<1>1. \A k \in Nat : HexDigit(k % 16) \in 48 .. 102
  <2>1. \A k \in Nat : k % 16 \in 0 .. 15
    OBVIOUS
  <2> QED BY <2>1, HexDigits
<1>2. n \div 4096 \in Nat /\ n \div 256 \in Nat /\ n \div 16 \in Nat
  OBVIOUS
<1> DEFINE d1 == HexDigit((n \div 4096) % 16)
           d2 == HexDigit((n \div 256) % 16)
           d3 == HexDigit((n \div 16) % 16)
           d4 == HexDigit(n % 16)
<1>3. u_escape(n) = <<92, 117, d1, d2, d3, d4>>
  BY DEF u_escape, Backslash, Letter_u
<1>4. d1 \in 48 .. 102 /\ d2 \in 48 .. 102 /\ d3 \in 48 .. 102 /\ d4 \in 48 .. 102
  BY <1>1, <1>2
<1> HIDE DEF d1, d2, d3, d4
<1>5. u_escape(n) \in Seq(Byte)
  BY <1>3, <1>4 DEF Byte
<1>6. Len(u_escape(n)) = 6
  BY <1>3
<1>7. Ascii(u_escape(n))
  <2>1. DOMAIN u_escape(n) = {1, 2, 3, 4, 5, 6}
    BY <1>3
  <2>2. \A k \in {1, 2, 3, 4, 5, 6} : u_escape(n)[k] <= 127
    BY <1>3, <1>4
  <2> QED BY <2>1, <2>2 DEF Ascii
<1> QED BY <1>5, <1>6, <1>7

LEMMA ConcatIs ==
    ASSUME NEW s \in Seq(Byte), NEW t \in Seq(Byte)
    PROVE  /\ s \o t \in Seq(Byte)
           /\ Len(s \o t) = Len(s) + Len(t)
           /\ Ascii(s) /\ Ascii(t) => Ascii(s \o t)
<1>1. s \o t \in Seq(Byte) /\ Len(s \o t) = Len(s) + Len(t)
  BY ConcatProperties
<1>2. \A k \in 1 .. Len(s) + Len(t) : (s \o t)[k] = IF k <= Len(s) THEN s[k] ELSE t[k - Len(s)]
  BY ConcatProperties
<1>3. ASSUME Ascii(s), Ascii(t), NEW k \in DOMAIN (s \o t)
      PROVE  (s \o t)[k] <= 127
  <2>1. k \in 1 .. Len(s) + Len(t)
    BY <1>1, <1>3
  <2>2. CASE k <= Len(s)
    BY <1>2, <1>3, <2>1, <2>2 DEF Ascii
  <2>3. CASE ~ (k <= Len(s))
    <3>1. k - Len(s) \in DOMAIN t
      BY <2>1, <2>3
    <3> QED BY <1>2, <1>3, <2>1, <2>3, <3>1 DEF Ascii
  <2> QED BY <2>2, <2>3
<1> QED BY <1>1, <1>3 DEF Ascii

LEMMA BeginningIs ==
    ASSUME NEW s \in Seq(Byte), NEW n \in Nat, n <= Len(s)
    PROVE  /\ SubSeq(s, 1, n) \in Seq(Byte)
           /\ Len(SubSeq(s, 1, n)) = n
           /\ Ascii(s) => Ascii(SubSeq(s, 1, n))
  BY DEF Ascii

LEMMA EscapedIs ==
    ASSUME NEW codepoint \in Nat, NEW b \in Byte, NEW ascii \in BOOLEAN
    PROVE  /\ escaped(codepoint, ascii, b) \in Seq(Byte)
           /\ Len(escaped(codepoint, ascii, b)) <= 12
           /\ ~ascii => Len(escaped(codepoint, ascii, b)) <= 6
           /\ ascii /\ (codepoint = b \/ codepoint >= 128) => Ascii(escaped(codepoint, ascii, b))
<1> DEFINE e == escaped(codepoint, ascii, b)
<1>1. CASE codepoint \in DOMAIN short_escapes
  <2>1. short_escapes[codepoint] \in 0 .. 127
    BY <1>1 DEF short_escapes, Quote, Backslash
  <2>2. e = <<92, short_escapes[codepoint]>>
    BY <1>1 DEF escaped, Backslash
  <2> HIDE DEF e
  <2>3. e \in Seq(Byte) /\ Len(e) = 2 /\ Ascii(e)
    BY <2>1, <2>2 DEF Byte, Ascii
  <2> QED BY <2>3 DEF e
<1>2. CASE codepoint \notin DOMAIN short_escapes /\ ~(codepoint <= 31 \/ (ascii /\ codepoint >= 127))
  <2>1. e = <<b>>
    BY <1>2 DEF escaped
  <2> HIDE DEF e
  <2>2. e \in Seq(Byte) /\ Len(e) = 1 /\ (b <= 127 => Ascii(e))
    BY <2>1 DEF Byte, Ascii
  <2>3. ascii /\ (codepoint = b \/ codepoint >= 128) => b <= 127
    BY <1>2 DEF Byte
  <2>4. Len(e) <= 12 /\ Len(e) <= 6
    BY <2>2
  <2> QED BY <2>2, <2>3, <2>4 DEF e
<1>3. CASE /\ codepoint \notin DOMAIN short_escapes
           /\ codepoint <= 31 \/ (ascii /\ codepoint >= 127)
           /\ codepoint <= 65535
  <2>1. e = u_escape(codepoint)
    BY <1>3 DEF escaped
  <2> HIDE DEF e
  <2>2. e \in Seq(Byte) /\ Len(e) = 6 /\ Ascii(e)
    BY <2>1, UEscapeIs, Zenon
  <2>3. Len(e) <= 12 /\ Len(e) <= 6
    BY <2>2
  <2> QED BY <2>2, <2>3 DEF e
<1>4. CASE /\ codepoint \notin DOMAIN short_escapes
           /\ codepoint <= 31 \/ (ascii /\ codepoint >= 127)
           /\ ~(codepoint <= 65535)
  <2> DEFINE h == 55232 + codepoint \div 1024
             l == 56320 + (codepoint % 1024)
  <2>1. e = u_escape(h) \o u_escape(l)
    BY <1>4 DEF escaped, h, l
  <2>2. h \in Nat /\ l \in Nat
    OBVIOUS
  <2> HIDE DEF h, l
  <2>3. /\ u_escape(h) \in Seq(Byte) /\ Len(u_escape(h)) = 6 /\ Ascii(u_escape(h))
        /\ u_escape(l) \in Seq(Byte) /\ Len(u_escape(l)) = 6 /\ Ascii(u_escape(l))
    BY <2>2, UEscapeIs
  <2> HIDE DEF e
  <2>4. e \in Seq(Byte) /\ Len(e) = 6 + 6 /\ Ascii(e)
    BY <2>1, <2>3, ConcatIs, Zenon
  <2>5. Len(e) <= 12
    <3>1. 6 + 6 = 12
      OBVIOUS
    <3> QED BY <2>4, <3>1
  <2>6. ascii
    BY <1>4
  <2> QED BY <2>4, <2>5, <2>6 DEF e
<1> QED BY <1>1, <1>2, <1>3, <1>4

LEMMA ReplacementIs ==
    ASSUME NEW ascii \in BOOLEAN
    PROVE  /\ replacement(ascii) \in Seq(Byte)
           /\ Len(replacement(ascii)) <= 6
           /\ ascii => Ascii(replacement(ascii))
<1>1. CASE ascii
  <2>1. 65533 \in Nat /\ replacement(ascii) = u_escape(65533)
    BY <1>1 DEF replacement
  <2>2. PICK n \in Nat : replacement(ascii) = u_escape(n)
    BY <2>1
  <2>3. replacement(ascii) \in Seq(Byte) /\ Len(replacement(ascii)) = 6 /\ Ascii(replacement(ascii))
    BY <2>2, UEscapeIs, Zenon
  <2>4. Len(replacement(ascii)) <= 6
    BY <2>3
  <2> QED BY <2>3, <2>4
<1>2. CASE ~ascii
  BY <1>2 DEF replacement, Byte
<1> QED BY <1>1, <1>2

-----------------------------------------------------------------------------
(* One byte *)

\* A buffer that is looked at has room for the next code point again.
LEMMA FlushedIs ==
    ASSUME NEW d, Typed(d), NEW ascii \in BOOLEAN,
           d.most <= Buffer, Len(d.bytes) + 1 <= Buffer
    PROVE  LET f == Flushed(d)
           IN  /\ Typed(f) /\ f.i = d.i /\ f.state = d.state /\ f.codepoint = d.codepoint
               /\ f.most \in Nat /\ f.most <= Buffer
               /\ f.out \in Seq(Byte) /\ f.bytes \in Seq(Byte)
               /\ Len(f.bytes) <= Buffer - 13
               /\ ascii /\ Ascii(d.out) /\ Ascii(d.bytes) => Ascii(f.out) /\ Ascii(f.bytes)
<1> DEFINE f == Flushed(d)
           m == Larger(d.most, Len(d.bytes) + 1)
<1>1. Buffer \in Nat /\ Buffer >= 13
  BY BufferAssumption
<1>2. d.bytes \in Seq(Byte) /\ d.out \in Seq(Byte) /\ d.most \in Nat /\ Len(d.bytes) \in Nat
  BY DEF Typed
<1>3. m \in Nat /\ m <= Buffer
  BY <1>1, <1>2 DEF Larger
<1> HIDE DEF m
<1>4. CASE MustFlush(d.bytes)
  <2>1. f = [[d EXCEPT !.most = m] EXCEPT !.out = @ \o d.bytes, !.bytes = <<>>]
    BY <1>4 DEF Flushed, m
  <2> HIDE DEF f
  <2>2. /\ DOMAIN f = DOMAIN d /\ f.most = m /\ f.out = d.out \o d.bytes /\ f.bytes = <<>>
        /\ f.i = d.i /\ f.state = d.state /\ f.codepoint = d.codepoint /\ f.kept = d.kept
        /\ f.undumped = d.undumped
    BY <2>1 DEF Typed
  <2>3. /\ d.out \o d.bytes \in Seq(Byte)
        /\ Ascii(d.out) /\ Ascii(d.bytes) => Ascii(d.out \o d.bytes)
    BY <1>2, ConcatIs, Zenon
  <2>4. <<>> \in Seq(Byte) /\ Len(<<>>) <= Buffer - 13 /\ Ascii(<<>>)
    BY <1>1 DEF Ascii
  <2>5. Typed(f)
    BY <1>3, <2>2, <2>3, <2>4 DEF Typed
  <2> QED BY <1>3, <2>2, <2>3, <2>4, <2>5, Zenon DEF f
<1>5. CASE ~MustFlush(d.bytes)
  <2>1. f = [d EXCEPT !.most = m]
    BY <1>5 DEF Flushed, m
  <2> HIDE DEF f
  <2>2. /\ DOMAIN f = DOMAIN d /\ f.most = m /\ f.out = d.out /\ f.bytes = d.bytes
        /\ f.i = d.i /\ f.state = d.state /\ f.codepoint = d.codepoint /\ f.kept = d.kept
        /\ f.undumped = d.undumped
    BY <2>1 DEF Typed
  <2>3. Len(d.bytes) <= Buffer - 13
    BY <1>1, <1>2, <1>5 DEF MustFlush
  <2>4. Typed(f)
    BY <1>3, <2>2 DEF Typed
  <2> QED BY <1>2, <1>3, <2>2, <2>3, <2>4, Zenon DEF f, Typed
<1> QED BY <1>4, <1>5

LEMMA IncompleteKeeps ==
    ASSUME NEW s \in Seq(Byte), NEW ascii \in BOOLEAN, NEW b \in Byte, NEW d, Typed(d),
           Room(d, ascii), d.state \notin {UTF8_ACCEPT, UTF8_REJECT},
           d.undumped + 1 <= Begun(d.state), Least(d.state) <= d.codepoint,
           ascii => Ascii(d.out) /\ Ascii(d.bytes)
    PROVE  LET n == incomplete(d, ascii, b)
           IN  /\ Typed(n) /\ Room(n, ascii) /\ Automaton(s, n)
               /\ ascii => Ascii(n.out) /\ Ascii(n.bytes)
<1> DEFINE n == incomplete(d, ascii, b)
           bytes == IF ascii THEN d.bytes ELSE Append(d.bytes, b)
<1>1. Buffer \in Nat /\ Buffer >= 13
  BY BufferAssumption
<1>2. /\ d.bytes \in Seq(Byte) /\ d.out \in Seq(Byte) /\ d.most \in Nat /\ Len(d.bytes) \in Nat
      /\ d.undumped \in Nat /\ d.kept \in Nat /\ d.i \in Nat \ {0}
      /\ d.state \in 0 .. 8 /\ d.codepoint \in Nat
  BY DEF Typed
<1>3. bytes \in Seq(Byte) /\ Len(bytes) = Len(d.bytes) + (IF ascii THEN 0 ELSE 1)
  <2>1. CASE ascii
    BY <1>2, <2>1
  <2>2. CASE ~ascii
    <3>1. Append(d.bytes, b) \in Seq(Byte) /\ Len(Append(d.bytes, b)) = Len(d.bytes) + 1
      BY <1>2, AppendProperties
    <3> QED BY <2>2, <3>1
  <2> QED BY <2>1, <2>2
<1>4. ascii => bytes = d.bytes
  OBVIOUS
<1>5. n = [d EXCEPT !.bytes = bytes, !.most = Larger(@, Len(bytes)), !.undumped = @ + 1, !.i = @ + 1]
  BY DEF incomplete
<1> HIDE DEF n, bytes
<1>6. d.undumped + 1 <= 3
  BY <1>2 DEF Begun
<1>7. Len(bytes) = d.kept + (IF ascii THEN 0 ELSE d.undumped + 1)
  <2>1. CASE ascii
    BY <1>2, <1>3, <2>1 DEF Room
  <2>2. CASE ~ascii
    <3>1. Len(d.bytes) = d.kept + d.undumped /\ Len(bytes) = Len(d.bytes) + 1
      BY <1>3, <2>2 DEF Room
    <3> QED BY <1>2, <2>2, <3>1
  <2> QED BY <2>1, <2>2
<1>8. Larger(d.most, Len(bytes)) \in Nat /\ Larger(d.most, Len(bytes)) <= Buffer
  <2>1. Len(bytes) \in Nat /\ Len(bytes) <= d.kept + 3
    <3>1. CASE ascii
      <4>1. Len(bytes) = d.kept
        BY <1>2, <1>7, <3>1
      <4> QED BY <1>2, <4>1
    <3>2. CASE ~ascii
      <4>1. Len(bytes) = d.kept + (d.undumped + 1)
        BY <1>7, <3>2
      <4> QED BY <1>2, <1>6, <4>1
    <3> QED BY <3>1, <3>2
  <2>2. Len(bytes) <= Buffer /\ d.most <= Buffer
    BY <1>1, <1>2, <2>1 DEF Room
  <2> QED BY <1>2, <2>1, <2>2 DEF Larger
<1>9. /\ DOMAIN n = DOMAIN d /\ n.bytes = bytes /\ n.most = Larger(d.most, Len(bytes))
      /\ n.undumped = d.undumped + 1 /\ n.i = d.i + 1
      /\ n.kept = d.kept /\ n.out = d.out /\ n.state = d.state /\ n.codepoint = d.codepoint
  BY <1>5 DEF Typed
<1>10. Typed(n)
  BY <1>2, <1>3, <1>8, <1>9 DEF Typed
<1>11. Room(n, ascii)
  BY <1>7, <1>8, <1>9 DEF Room
<1>12. Automaton(s, n)
  BY <1>9 DEF Automaton
<1>13. ascii => Ascii(n.out) /\ Ascii(n.bytes)
  BY <1>4, <1>9
<1> QED BY <1>10, <1>11, <1>12, <1>13 DEF n

\* Accepted after Flushed, as accept and reject use them.
LEMMA AcceptedIs ==
    ASSUME NEW d, Typed(d), NEW ascii \in BOOLEAN, Len(d.bytes) <= Buffer - 13, d.most <= Buffer
    PROVE  LET n == Accepted(d)
           IN  /\ Typed(n) /\ Room(n, ascii) /\ n.undumped = 0
               /\ n.i = d.i /\ n.state = d.state /\ n.codepoint = d.codepoint
               /\ n.out = d.out /\ n.bytes = d.bytes
<1> DEFINE n == Accepted(d)
<1>1. n = [d EXCEPT !.kept = Len(d.bytes), !.undumped = 0]
  BY DEF Accepted
<1> HIDE DEF n
<1>2. /\ DOMAIN n = DOMAIN d /\ n.kept = Len(d.bytes) /\ n.undumped = 0
      /\ n.i = d.i /\ n.state = d.state /\ n.codepoint = d.codepoint
      /\ n.out = d.out /\ n.bytes = d.bytes /\ n.most = d.most
  BY <1>1 DEF Typed
<1>3. Len(d.bytes) \in Nat
  BY DEF Typed
<1>4. Typed(n)
  BY <1>2, <1>3 DEF Typed
<1>5. Room(n, ascii)
  BY <1>2, <1>3 DEF Room
<1> QED BY <1>2, <1>4, <1>5 DEF n

LEMMA AcceptKeeps ==
    ASSUME NEW s \in Seq(Byte), NEW ascii \in BOOLEAN, NEW b \in Byte, NEW d, Typed(d),
           Room(d, ascii), d.state = UTF8_ACCEPT, d.undumped <= 3,
           ascii => Ascii(d.out) /\ Ascii(d.bytes),
           d.codepoint = b \/ d.codepoint >= 128
    PROVE  LET n == accept(d, ascii, b)
           IN  /\ Typed(n) /\ Room(n, ascii) /\ Automaton(s, n)
               /\ ascii => Ascii(n.out) /\ Ascii(n.bytes)
<1> DEFINE e == escaped(d.codepoint, ascii, b)
           with == [d EXCEPT !.bytes = @ \o e]
           next == Flushed(with)
           stored == Accepted(next)
           n == accept(d, ascii, b)
<1>1. Buffer \in Nat /\ Buffer >= 13
  BY BufferAssumption
<1>2. /\ e \in Seq(Byte) /\ Len(e) <= 12 /\ (~ascii => Len(e) <= 6)
      /\ ascii => Ascii(e)
  BY EscapedIs DEF Typed
<1>3. n = [stored EXCEPT !.i = @ + 1]
  BY DEF accept
<1> HIDE DEF e, n
<1>4. /\ DOMAIN with = DOMAIN d /\ with.bytes = d.bytes \o e
      /\ with.i = d.i /\ with.state = d.state /\ with.codepoint = d.codepoint /\ with.kept = d.kept
      /\ with.undumped = d.undumped /\ with.out = d.out /\ with.most = d.most
  BY DEF Typed
<1> HIDE DEF with, next, stored
<1>5. /\ with.bytes \in Seq(Byte) /\ Len(with.bytes) = Len(d.bytes) + Len(e)
      /\ Ascii(d.bytes) /\ Ascii(e) => Ascii(with.bytes)
  <2>1. d.bytes \in Seq(Byte)
    BY DEF Typed
  <2> QED BY <1>2, <1>4, <2>1, ConcatIs, Zenon
<1>6. Typed(with)
  BY <1>4, <1>5 DEF Typed
<1>7. with.most <= Buffer /\ Len(with.bytes) + 1 <= Buffer
  <2>1. Len(e) \in Nat /\ Len(d.bytes) \in Nat /\ d.kept \in Nat /\ d.undumped \in Nat
    BY <1>2 DEF Typed
  <2>2. CASE ascii
    <3>1. Len(d.bytes) = d.kept /\ d.kept <= Buffer - 13
      BY <2>1, <2>2 DEF Room
    <3> QED BY <1>1, <1>2, <1>4, <1>5, <2>1, <3>1 DEF Room
  <2>3. CASE ~ascii
    <3>1. Len(d.bytes) = d.kept + d.undumped /\ d.kept <= Buffer - 13
      BY <2>1, <2>3 DEF Room
    <3>2. Len(e) <= 6
      BY <1>2, <2>3
    <3>3. Len(with.bytes) = Len(d.bytes) + Len(e)
      BY <1>5
    <3>4. Len(with.bytes) + 1 <= Buffer
      BY <1>1, <2>1, <3>1, <3>2, <3>3
    <3>5. with.most <= Buffer
      BY <1>4 DEF Room
    <3> QED BY <3>4, <3>5
  <2> QED BY <2>2, <2>3
<1>8. /\ Typed(next) /\ next.i = with.i /\ next.state = with.state /\ next.codepoint = with.codepoint
      /\ next.most <= Buffer /\ Len(next.bytes) <= Buffer - 13
      /\ ascii /\ Ascii(with.out) /\ Ascii(with.bytes) => Ascii(next.out) /\ Ascii(next.bytes)
  BY <1>6, <1>7, FlushedIs, Zenon DEF next
<1>9. /\ Typed(stored) /\ Room(stored, ascii) /\ stored.undumped = 0
      /\ stored.i = next.i /\ stored.state = next.state /\ stored.codepoint = next.codepoint
      /\ stored.out = next.out /\ stored.bytes = next.bytes
  BY <1>8, AcceptedIs, Zenon DEF stored
<1>10. /\ DOMAIN n = DOMAIN stored /\ n.i = stored.i + 1
       /\ n.state = stored.state /\ n.codepoint = stored.codepoint /\ n.bytes = stored.bytes /\ n.out = stored.out
       /\ n.kept = stored.kept /\ n.undumped = stored.undumped /\ n.most = stored.most
  BY <1>3, <1>9 DEF Typed
<1>11. Typed(n)
  <2>1. /\ DOMAIN stored = {"i", "state", "codepoint", "bytes", "kept", "undumped", "out", "most"}
        /\ stored.i \in Nat \ {0} /\ stored.state \in 0 .. 8 /\ stored.codepoint \in Nat
        /\ stored.bytes \in Seq(Byte) /\ stored.out \in Seq(Byte)
        /\ stored.kept \in Nat /\ stored.undumped \in Nat /\ stored.most \in Nat
    BY <1>9 DEF Typed
  <2>2. stored.i + 1 \in Nat \ {0}
    BY <2>1
  <2>3. /\ DOMAIN n = {"i", "state", "codepoint", "bytes", "kept", "undumped", "out", "most"}
        /\ n.i \in Nat \ {0}
    BY <1>10, <2>1, <2>2, Zenon
  <2>4. n.state \in 0 .. 8 /\ n.codepoint \in Nat /\ n.bytes \in Seq(Byte) /\ n.out \in Seq(Byte)
    BY <1>10, <2>1, Zenon
  <2>5. n.kept \in Nat /\ n.undumped \in Nat /\ n.most \in Nat
    BY <1>10, <2>1, Zenon
  <2> QED BY <2>3, <2>4, <2>5, Zenon DEF Typed
<1>12. Room(n, ascii)
  BY <1>9, <1>10 DEF Room
<1>13. Automaton(s, n)
  <2>1. n.state = 0 /\ n.undumped = 0 /\ n.codepoint \in Nat
    BY <1>4, <1>8, <1>9, <1>10, <1>11 DEF Typed, UTF8_ACCEPT
  <2> QED BY <2>1 DEF Automaton, Begun, Least, UTF8_REJECT
<1>14. ascii => Ascii(n.out) /\ Ascii(n.bytes)
  BY <1>2, <1>4, <1>5, <1>8, <1>9, <1>10
<1> QED BY <1>11, <1>12, <1>13, <1>14 DEF n

LEMMA RejectKeeps ==
    ASSUME NEW s \in Seq(Byte), NEW ascii \in BOOLEAN, NEW d, Typed(d),
           NEW handler \in {"strict", "replace", "ignore"},
           Room(d, ascii), d.state = UTF8_REJECT,
           ascii => Ascii(d.out) /\ Ascii(d.bytes)
    PROVE  LET n == reject(s, d, ascii, handler)
           IN  /\ Typed(n) /\ Room(n, ascii) /\ Automaton(s, n)
               /\ ascii => Ascii(n.out) /\ Ascii(n.bytes)
<1> DEFINE n == reject(s, d, ascii, handler)
           reset == [d EXCEPT !.bytes = SubSeq(@, 1, d.kept), !.state = UTF8_ACCEPT,
                             !.i = IF d.undumped > 0 THEN @ ELSE @ + 1]
           r == replacement(ascii)
           with == [reset EXCEPT !.bytes = @ \o r]
           next == Flushed(with)
<1>1. Buffer \in Nat /\ Buffer >= 13
  BY BufferAssumption
<1>2. /\ handler = "strict" => n = [d EXCEPT !.i = Len(s) + 1]
      /\ handler = "ignore" => n = [reset EXCEPT !.undumped = 0]
      /\ handler = "replace" => n = Accepted(next)
  BY DEF reject
<1>3. d.bytes \in Seq(Byte) /\ d.kept \in Nat /\ d.kept <= Len(d.bytes) /\ d.i \in Nat \ {0}
  <2>1. d.undumped \in Nat /\ d.kept \in Nat /\ d.bytes \in Seq(Byte) /\ d.i \in Nat \ {0}
    BY DEF Typed
  <2> QED BY <2>1 DEF Room
<1> HIDE DEF n, r
<1>4. /\ DOMAIN reset = DOMAIN d /\ reset.bytes = SubSeq(d.bytes, 1, d.kept) /\ reset.state = 0
      /\ reset.i \in Nat \ {0} /\ reset.codepoint = d.codepoint /\ reset.kept = d.kept
      /\ reset.undumped = d.undumped /\ reset.out = d.out /\ reset.most = d.most
  BY <1>3 DEF Typed, UTF8_ACCEPT
<1> HIDE DEF reset
<1>5. /\ reset.bytes \in Seq(Byte) /\ Len(reset.bytes) = d.kept
      /\ Ascii(d.bytes) => Ascii(reset.bytes)
  BY <1>3, <1>4, BeginningIs, Zenon
<1>6. Typed(reset)
  BY <1>4, <1>5 DEF Typed
<1>7. CASE handler = "strict"
  <2>1. /\ DOMAIN n = DOMAIN d /\ n.i = Len(s) + 1 /\ n.state = d.state /\ n.codepoint = d.codepoint
        /\ n.bytes = d.bytes /\ n.out = d.out /\ n.kept = d.kept /\ n.undumped = d.undumped
        /\ n.most = d.most
    BY <1>2, <1>7 DEF Typed
  <2>2. Len(s) \in Nat
    OBVIOUS
  <2>3. Typed(n)
    BY <2>1, <2>2 DEF Typed
  <2>4. Room(n, ascii)
    BY <2>1 DEF Room
  <2>5. Automaton(s, n)
    BY <2>1, <2>2 DEF Automaton
  <2> QED BY <2>1, <2>3, <2>4, <2>5 DEF n
<1>8. CASE handler = "ignore"
  <2>1. /\ DOMAIN n = DOMAIN reset /\ n.i = reset.i /\ n.state = reset.state /\ n.codepoint = reset.codepoint
        /\ n.bytes = reset.bytes /\ n.out = reset.out /\ n.kept = reset.kept /\ n.undumped = 0
        /\ n.most = reset.most
    BY <1>2, <1>6, <1>8 DEF Typed
  <2>2. Typed(n)
    BY <1>6, <2>1 DEF Typed
  <2>3. Room(n, ascii)
    BY <1>3, <1>4, <1>5, <2>1 DEF Room
  <2>4. Automaton(s, n)
    <3>1. n.state = 0 /\ n.undumped = 0 /\ n.codepoint \in Nat
      BY <1>4, <2>1, <2>2 DEF Typed
    <3> QED BY <3>1 DEF Automaton, Begun, Least, UTF8_REJECT
  <2> QED BY <1>4, <1>5, <2>1, <2>2, <2>3, <2>4 DEF n
<1>9. CASE handler = "replace"
  <2>1. r \in Seq(Byte) /\ Len(r) <= 6 /\ (ascii => Ascii(r))
    BY ReplacementIs DEF r
  <2>2. /\ DOMAIN with = DOMAIN reset /\ with.bytes = reset.bytes \o r
        /\ with.i = reset.i /\ with.state = reset.state /\ with.codepoint = reset.codepoint
        /\ with.kept = reset.kept /\ with.undumped = reset.undumped /\ with.out = reset.out
        /\ with.most = reset.most
    BY <1>6 DEF Typed
  <2>3. n = Accepted(next)
    BY <1>2, <1>9
  <2> HIDE DEF with, next
  <2>4. /\ with.bytes \in Seq(Byte) /\ Len(with.bytes) = Len(reset.bytes) + Len(r)
        /\ Ascii(reset.bytes) /\ Ascii(r) => Ascii(with.bytes)
    BY <1>5, <2>1, <2>2, ConcatIs, Zenon
  <2>5. Typed(with)
    BY <1>6, <2>2, <2>4 DEF Typed
  <2>6. with.most <= Buffer /\ Len(with.bytes) + 1 <= Buffer
    <3>1. Len(r) \in Nat /\ d.kept <= Buffer - 13 /\ d.most <= Buffer
      BY <2>1 DEF Room
    <3> QED BY <1>1, <1>3, <1>4, <1>5, <2>1, <2>2, <2>4, <3>1
  <2>7. /\ Typed(next) /\ next.i = with.i /\ next.state = with.state /\ next.codepoint = with.codepoint
        /\ next.most <= Buffer /\ Len(next.bytes) <= Buffer - 13
        /\ ascii /\ Ascii(with.out) /\ Ascii(with.bytes) => Ascii(next.out) /\ Ascii(next.bytes)
    BY <2>5, <2>6, FlushedIs, Zenon DEF next
  <2>8. /\ Typed(n) /\ Room(n, ascii) /\ n.undumped = 0
        /\ n.state = next.state /\ n.codepoint = next.codepoint
        /\ n.out = next.out /\ n.bytes = next.bytes
    BY <2>3, <2>7, AcceptedIs, Zenon
  <2>9. Automaton(s, n)
    <3>1. n.state = 0 /\ n.undumped = 0 /\ n.codepoint \in Nat
      BY <1>4, <2>2, <2>7, <2>8 DEF Typed
    <3> QED BY <3>1 DEF Automaton, Begun, Least, UTF8_REJECT
  <2>10. ascii => Ascii(n.out) /\ Ascii(n.bytes)
    BY <1>4, <1>5, <2>1, <2>2, <2>4, <2>7, <2>8
  <2> QED BY <2>8, <2>9, <2>10 DEF n
<1> QED BY <1>7, <1>8, <1>9

-----------------------------------------------------------------------------
(* The theorems *)

LEMMA ByteKeeps ==
    ASSUME NEW s \in Seq(Byte), NEW ascii \in BOOLEAN, NEW d, Typed(d),
           NEW handler \in {"strict", "replace", "ignore"},
           d.i \in DOMAIN s, Room(d, ascii), Automaton(s, d),
           ascii => Ascii(d.out) /\ Ascii(d.bytes)
    PROVE  LET n == escape_byte(s, d, ascii, handler)
           IN  /\ Typed(n) /\ Room(n, ascii) /\ Automaton(s, n)
               /\ ascii => Ascii(n.out) /\ Ascii(n.bytes)
<1> DEFINE n == escape_byte(s, d, ascii, handler)
           b == s[d.i]
           state == decode(d.state, b)
           codepoint == codep(d.state, d.codepoint, b)
           read == [d EXCEPT !.state = state, !.codepoint = codepoint]
<1>1. b \in Byte
  OBVIOUS
<1>2. /\ d.state \in 0 .. 8 /\ d.codepoint \in Nat /\ d.undumped \in Nat /\ d.i \in Nat
      /\ ~(d.i > Len(s))
  BY DEF Typed
<1>3. d.state # UTF8_REJECT /\ d.undumped <= Begun(d.state) /\ Least(d.state) <= d.codepoint
  BY <1>2 DEF Automaton
<1>4. n = CASE read.state = UTF8_ACCEPT -> accept(read, ascii, b)
            [] read.state = UTF8_REJECT -> reject(s, read, ascii, handler)
            [] OTHER                    -> incomplete(read, ascii, b)
  BY DEF escape_byte
<1> HIDE DEF n, b, state, codepoint
<1>5. /\ state \in 0 .. 8
      /\ state = 0 => d.state = 2 \/ d.state = 0
      /\ state \notin {0, 1} => Begun(d.state) + 1 <= Begun(state)
  BY <1>1, <1>2, <1>3, DecodeGoesOn DEF state
<1>6. /\ codepoint \in Nat
      /\ Least(state) <= codepoint
      /\ state = 0 => codepoint = b \/ codepoint >= 128
  BY <1>1, <1>2, <1>3, CodepIsWorth DEF state, codepoint
<1>7. /\ DOMAIN read = DOMAIN d /\ read.state = state /\ read.codepoint = codepoint
      /\ read.i = d.i /\ read.bytes = d.bytes /\ read.out = d.out /\ read.kept = d.kept
      /\ read.undumped = d.undumped /\ read.most = d.most
  BY DEF Typed
<1> HIDE DEF read
<1>8. Typed(read)
  BY <1>5, <1>6, <1>7 DEF Typed
<1>9. Room(read, ascii) /\ (ascii => Ascii(read.out) /\ Ascii(read.bytes))
  BY <1>7 DEF Room
<1>10. CASE state = 0
  <2>1. n = accept(read, ascii, b)
    BY <1>4, <1>7, <1>10 DEF UTF8_ACCEPT, UTF8_REJECT
  <2>2. read.state = UTF8_ACCEPT /\ read.undumped <= 3
    BY <1>2, <1>3, <1>5, <1>7, <1>10 DEF UTF8_ACCEPT, Begun
  <2>3. read.codepoint = b \/ read.codepoint >= 128
    BY <1>6, <1>7, <1>10
  <2> QED BY <1>1, <1>8, <1>9, <2>1, <2>2, <2>3, AcceptKeeps, Zenon DEF n
<1>11. CASE state = 1
  <2>1. n = reject(s, read, ascii, handler) /\ read.state = UTF8_REJECT
    BY <1>4, <1>7, <1>11 DEF UTF8_ACCEPT, UTF8_REJECT
  <2> QED BY <1>8, <1>9, <2>1, RejectKeeps, Zenon DEF n
<1>12. CASE state \notin {0, 1}
  <2>1. n = incomplete(read, ascii, b) /\ read.state \notin {UTF8_ACCEPT, UTF8_REJECT}
    BY <1>4, <1>7, <1>12 DEF UTF8_ACCEPT, UTF8_REJECT
  <2>2. read.undumped + 1 <= Begun(read.state) /\ Least(read.state) <= read.codepoint
    <3>1. Begun(d.state) \in Nat /\ Begun(state) \in Nat
      BY DEF Begun
    <3> QED BY <1>2, <1>3, <1>5, <1>6, <1>7, <1>12, <3>1
  <2> QED BY <1>1, <1>8, <1>9, <2>1, <2>2, IncompleteKeeps, Zenon DEF n
<1> QED BY <1>5, <1>10, <1>11, <1>12

LEMMA EndIsAscii ==
    ASSUME NEW d, Typed(d), Room(d, TRUE), Ascii(d.out), Ascii(d.bytes),
           NEW handler \in {"strict", "replace", "ignore"}
    PROVE  Ascii(escape_end(d, TRUE, handler).out)
<1> DEFINE kept == SubSeq(d.bytes, 1, d.kept)
<1>1. d.bytes \in Seq(Byte) /\ d.out \in Seq(Byte) /\ d.kept \in Nat /\ d.kept <= Len(d.bytes)
  BY DEF Typed, Room
<1>2. kept \in Seq(Byte) /\ Ascii(kept)
  BY <1>1, BeginningIs, Zenon
<1> HIDE DEF kept
<1>3. d.out \o d.bytes \in Seq(Byte) /\ Ascii(d.out \o d.bytes)
  BY <1>1, ConcatIs, Zenon
<1>4. d.out \o kept \in Seq(Byte) /\ Ascii(d.out \o kept)
  BY <1>1, <1>2, ConcatIs, Zenon
<1>5. Ascii((d.out \o kept) \o replacement(TRUE))
  BY <1>4, ConcatIs, ReplacementIs
<1>6. Ascii(<<>>)
  BY DEF Ascii
<1>7. escape_end(d, TRUE, handler).out \in
        {d.out \o d.bytes, <<>>, d.out \o kept, (d.out \o kept) \o replacement(TRUE)}
  BY DEF escape_end, kept
<1> QED BY <1>3, <1>4, <1>5, <1>6, <1>7

\* What holds at the start of dump_escaped, and after each byte: the room left
\* in the buffer and how far the automaton is agree.
THEOREM EscapeInductive == DumpSpec => []EscapeInvariant
<1>1. DumpInit => EscapeInvariant
  <2> SUFFICES ASSUME DumpInit PROVE EscapeInvariant
    OBVIOUS
  <2>1. string \in Seq(Byte)
    BY DumpedAssumption DEF DumpInit, Byte
  <2>2. escape = Scanning /\ text.out = <<>>
    BY DEF DumpInit, Unwritten
  <2>3. <<>> \in Seq(Byte) /\ Len(<<>>) = 0 /\ Ascii(<<>>)
    BY DEF Ascii
  <2>4. Typed(Scanning)
    BY <2>3 DEF Typed, Scanning, UTF8_ACCEPT
  <2>5. Room(Scanning, ensure_ascii)
    BY <2>3, BufferAssumption DEF Room, Scanning
  <2>6. Automaton(string, Scanning)
    BY DEF Automaton, Scanning, UTF8_ACCEPT, UTF8_REJECT, Begun, Least
  <2>7. Scanning.out = <<>> /\ Scanning.bytes = <<>>
    BY DEF Scanning
  <2> QED BY <2>1, <2>2, <2>3, <2>4, <2>5, <2>6, <2>7 DEF EscapeInvariant, DumpInit
<1>2. EscapeInvariant /\ [DumpNext]_dumpVars => EscapeInvariant'
  <2> SUFFICES ASSUME EscapeInvariant, [DumpNext]_dumpVars PROVE EscapeInvariant'
    OBVIOUS
  <2>1. CASE DumpByte
    <3>1. /\ string' = string /\ ensure_ascii' = ensure_ascii /\ error_handler' = error_handler
          /\ text' = text /\ escape.i \in DOMAIN string
          /\ escape' = escape_byte(string, escape, ensure_ascii, error_handler)
      BY <2>1 DEF DumpByte
    <3>2. /\ Typed(escape') /\ Room(escape', ensure_ascii) /\ Automaton(string, escape')
          /\ ensure_ascii => Ascii(escape'.out) /\ Ascii(escape'.bytes)
      BY <3>1, ByteKeeps DEF EscapeInvariant
    <3> QED BY <3>1, <3>2 DEF EscapeInvariant
  <2>2. CASE DumpEnd
    <3>1. /\ string' = string /\ ensure_ascii' = ensure_ascii /\ error_handler' = error_handler
          /\ escape' = escape /\ text' = escape_end(escape, ensure_ascii, error_handler)
      BY <2>2 DEF DumpEnd
    <3>2. ensure_ascii => Ascii(text'.out)
      <4> SUFFICES ASSUME ensure_ascii PROVE Ascii(text'.out)
        OBVIOUS
      <4>1. ensure_ascii = TRUE
        BY DEF EscapeInvariant
      <4> QED BY <3>1, <4>1, EndIsAscii DEF EscapeInvariant
    <3> QED BY <3>1, <3>2 DEF EscapeInvariant
  <2>3. CASE UNCHANGED dumpVars
    BY <2>3 DEF EscapeInvariant, dumpVars
  <2> QED BY <2>1, <2>2, <2>3 DEF DumpNext
<1> QED BY <1>1, <1>2, PTL DEF DumpSpec

\* The buffer of dump_escaped is never written past its end, for every size
\* from 13 bytes on, every string of bytes and every way to treat its errors.
THEOREM BufferIsAlwaysEnough == DumpSpec => []BufferIsEnough
<1>1. EscapeInvariant => BufferIsEnough
  BY DEF EscapeInvariant, Room, BufferIsEnough
<1> QED BY <1>1, EscapeInductive, PTL

\* With ensure_ascii every text is ASCII, whatever bytes the string has.
THEOREM AlwaysAscii == DumpSpec => []AsciiOnly
<1>1. EscapeInvariant => AsciiOnly
  BY DEF EscapeInvariant, AsciiOnly
<1> QED BY <1>1, EscapeInductive, PTL

-----------------------------------------------------------------------------
(* Calls that throw *)

\* v is a function, so to put back what it has is to change nothing.
Valued == v = [x \in Values |-> v[x]]

\* A call that was refused gives back the value that it had.
Refusing(did, j) == did.e # 0 => did.j = j

LEMMA PutBack ==
    ASSUME Valued, NEW x \in Values
    PROVE  [v EXCEPT ![x] = v[x]] = v
  BY DEF Valued

LEMMA StaysValued ==
    ASSUME Valued, NEW x \in Values, NEW j
    PROVE  LET w == [v EXCEPT ![x] = j] IN w = [y \in Values |-> w[y]]
<1> DEFINE w == [v EXCEPT ![x] = j]
<1>1. w = [y \in Values |-> IF y = x THEN j ELSE v[y]]
  BY DEF Valued
<1>2. \A y \in Values : w[y] = IF y = x THEN j ELSE v[y]
  BY <1>1
<1> HIDE DEF w
<1>3. w = [y \in Values |-> w[y]]
  BY <1>1, <1>2
<1> QED BY <1>3 DEF w

LEMMA ChangeKeeps ==
    ASSUME Valued, NEW x \in Values, NEW did, Refusing(did, v[x]), Change(x, did)
    PROVE  Valued' /\ (last'.e # 0 => v' = v)
<1>1. v' = [v EXCEPT ![x] = did.j] /\ last' = Refused(did.e)
  BY DEF Change, Holds
<1>2. Valued'
  BY <1>1, StaysValued DEF Valued
<1>3. last'.e = did.e
  BY <1>1 DEF Refused
<1> QED BY <1>1, <1>2, <1>3, PutBack DEF Refusing

LEMMA SpliceKeeps ==
    ASSUME Valued, NEW x \in Values, NEW did, Refusing(did, v[x]), NEW from, NEW to, NEW put,
           Splice(x, did, from, to, put)
    PROVE  Valued' /\ (last'.e # 0 => v' = v)
<1>1. v' = [v EXCEPT ![x] = did.j]
  BY DEF Splice, Holds
<1>2. Valued'
  BY <1>1, StaysValued DEF Valued
<1>3. last'.e # 0 => did.e # 0
  BY DEF Splice, Refused
<1> QED BY <1>1, <1>2, <1>3, PutBack DEF Refusing

LEMMA MakeKeeps ==
    ASSUME Valued, NEW x \in Values, NEW made, Make(x, made)
    PROVE  Valued' /\ (last'.e # 0 => v' = v)
<1> DEFINE did == IF made.ok THEN Did(made.v, End) ELSE Threw(v[x], made.v)
<1>1. Refusing(did, v[x])
  BY DEF Refusing, Did, Threw
<1>2. Change(x, did)
  BY DEF Make
<1> QED BY <1>1, <1>2, ChangeKeeps

\* The other ways to change two values at a time.
LEMMA ExchangeKeeps ==
    ASSUME Valued, NEW x \in Values, NEW y \in Values, NEW j, NEW k
    PROVE  LET w == [v EXCEPT ![x] = j, ![y] = k] IN w = [z \in Values |-> w[z]]
<1> DEFINE w == [v EXCEPT ![x] = j, ![y] = k]
<1>1. w = [z \in Values |-> IF z = y THEN k ELSE IF z = x THEN j ELSE v[z]]
  BY DEF Valued
<1>2. \A z \in Values : w[z] = IF z = y THEN k ELSE IF z = x THEN j ELSE v[z]
  BY <1>1
<1> HIDE DEF w
<1>3. w = [z \in Values |-> w[z]]
  BY <1>1, <1>2
<1> QED BY <1>3 DEF w

\* Each call gives back what it had if it throws.
LEMMA AllRefuse ==
    ASSUME NEW x, NEW y, NEW j, NEW val, NEW e, NEW m, NEW init, NEW pos, NEW vals, NEW first, NEW final,
           NEW k, NEW i
    PROVE  /\ Refusing(push_back(j, val, e), j) /\ Refusing(emplace(j, m, e), j)
           /\ Refusing(push_back_list(j, init), j)
           /\ Refusing(insert(x, pos, vals), v[x]) /\ Refusing(insert_range(x, pos, first, final), v[x])
           /\ Refusing(insert_members(x, first, final), v[x])
           /\ Refusing(erase(x, first, final), v[x]) /\ Refusing(erase_one(x, pos), v[x])
           /\ Refusing(erase_key(j, k), j) /\ Refusing(erase_index(j, i), j)
           /\ Refusing(put_index(j, i, val), j) /\ Refusing(put_key(j, k, val), j)
           /\ Refusing(Threw(j, e), j)
<1>1. \A u, at : Did(u, at).e = 0
  BY DEF Did
<1>2. \A u, c : Threw(u, c).j = u
  BY DEF Threw
<1>3. \A w, c : Refusing(push_back(j, w, c), j)
  BY <1>1, <1>2, ZenonT(40) DEF Refusing, push_back
<1>4. \A w, c : Refusing(emplace(j, w, c), j)
  BY <1>1, <1>2, ZenonT(40) DEF Refusing, emplace
<1>5. Refusing(push_back_list(j, init), j)
  BY <1>3, <1>4 DEF push_back_list
<1>6. Refusing(insert(x, pos, vals), v[x])
  BY <1>1, <1>2 DEF Refusing, insert, insert_iterator
<1>7. Refusing(insert_range(x, pos, first, final), v[x])
  BY <1>1, <1>2 DEF Refusing, insert_range, insert_iterator
<1>8. Refusing(insert_members(x, first, final), v[x])
  BY <1>1, <1>2 DEF Refusing, insert_members
<1>9. \A a, b : Refusing(erase(x, a, b), v[x])
  <2> TAKE a, b
  <2> DEFINE n == erase(x, a, b)
  <2>1. CASE a.of # x \/ b.of # x
    BY <1>2, <2>1 DEF Refusing, erase
  <2>2. CASE v[x] = Null /\ ~(a.of # x \/ b.of # x)
    <3>1. ~Is(v[x], "array") /\ ~Is(v[x], "object")
      BY <2>2 DEF Is, Null
    <3>2. n = Threw(v[x], 307)
      BY <2>2, <3>1 DEF erase
    <3> QED BY <1>2, <3>2 DEF Refusing
  <2>3. CASE v[x] # Null /\ ~(a.of # x \/ b.of # x)
    <3>1. CASE Is(v[x], "array") \/ Is(v[x], "object")
      <4>1. \E u, at : n = Did(u, at)
        BY <2>3, <3>1 DEF erase
      <4> QED BY <1>1, <4>1 DEF Refusing
    <3>2. CASE ~Is(v[x], "array") /\ ~Is(v[x], "object")
      <4>1. n = IF a.at = 0 /\ b.at = 1 THEN Did(Null, 1) ELSE Threw(v[x], 204)
        BY <2>3, <3>2 DEF erase
      <4> QED BY <1>1, <1>2, <4>1 DEF Refusing
    <3> QED BY <3>1, <3>2
  <2> QED BY <2>1, <2>2, <2>3
<1>10. Refusing(erase_one(x, pos), v[x])
  BY <1>2, <1>9 DEF Refusing, erase_one
<1>11. Refusing(erase_key(j, k), j) /\ Refusing(erase_index(j, i), j)
  BY <1>1, <1>2 DEF Refusing, erase_key, erase_index
<1>12. Refusing(put_index(j, i, val), j) /\ Refusing(put_key(j, k, val), j)
  BY <1>1, <1>2 DEF Refusing, put_index, put_key
<1> QED BY <1>2, <1>3, <1>4, <1>5, <1>6, <1>7, <1>8, <1>9, <1>10, <1>11, <1>12 DEF Refusing

LEMMA QuietKeeps ==
    ASSUME Valued, NEW x \in Values, NEW y \in Values, NEW j, NEW k, last' = Quiet,
           v' = [v EXCEPT ![x] = j, ![y] = k] \/ v' = [v EXCEPT ![x] = j]
    PROVE  Valued' /\ (last'.e # 0 => v' = v)
<1>1. last'.e = 0
  BY DEF Quiet
<1> QED BY <1>1, ExchangeKeeps, StaysValued DEF Valued

LEMMA LookKeeps == ASSUME Valued, UNCHANGED v PROVE Valued' /\ (last'.e # 0 => v' = v)
  BY DEF Valued

LEMMA AssignKeeps ==
    ASSUME Valued, NEW x \in Values, Assign(x) \/ AssignList(x) \/ Clear(x)
    PROVE  Valued' /\ (last'.e # 0 => v' = v)
<1>1. ASSUME NEW y \in Values, v' = [v EXCEPT ![x] = v[y], ![y] = Null], last' = Quiet
      PROVE  Valued' /\ (last'.e # 0 => v' = v)
  BY <1>1, QuietKeeps
<1>2. ASSUME Clear(x)
      PROVE  Valued' /\ (last'.e # 0 => v' = v)
  BY <1>2, QuietKeeps DEF Clear, Holds
<1> QED BY <1>1, <1>2, MakeKeeps DEF Assign, AssignList

LEMMA PushKeeps ==
    ASSUME Valued, NEW x \in Values, PushBack(x)
    PROVE  Valued' /\ (last'.e # 0 => v' = v)
<1>1. ASSUME NEW val, NEW e, NEW from, NEW put, Splice(x, push_back(v[x], val, e), from, from, put)
      PROVE  Valued' /\ (last'.e # 0 => v' = v)
  BY <1>1, AllRefuse, SpliceKeeps
<1>2. ASSUME NEW init, Change(x, push_back_list(v[x], init))
      PROVE  Valued' /\ (last'.e # 0 => v' = v)
  BY <1>2, AllRefuse, ChangeKeeps
<1>3. CASE \E val \in Elements, e \in {308, 311} :
             Splice(x, push_back(v[x], val, e), set_end(v[x]), set_end(v[x]), <<val>>)
  <2>1. PICK val \in Elements, e \in {308, 311} :
             Splice(x, push_back(v[x], val, e), set_end(v[x]), set_end(v[x]), <<val>>)
    BY <1>3
  <2> QED BY <1>1, <2>1
<1>4. CASE \E y \in Values \ {x} :
             Splice(x, push_back(v[x], v[y], 308), set_end(v[x]), set_end(v[x]), <<v[y]>>)
  BY <1>1, <1>4
<1>5. CASE \E init \in Lists : Change(x, push_back_list(v[x], init))
  BY <1>2, <1>5
<1> QED BY <1>3, <1>4, <1>5, Zenon DEF PushBack

LEMMA PushMovedKeeps ==
    ASSUME Valued, NEW x \in Values, PushBackMoved(x)
    PROVE  Valued' /\ (last'.e # 0 => v' = v)
<1>1. PICK y \in Values \ {x} :
        LET did == push_back(v[x], v[y], 308)
        IN  /\ v' = [v EXCEPT ![x] = did.j, ![y] = IF did.e = 0 THEN Null ELSE @]
            /\ last' = Refused(did.e)
  BY DEF PushBackMoved
<1> DEFINE did == push_back(v[x], v[y], 308)
           k == IF did.e = 0 THEN Null ELSE v[y]
<1>2. v' = [v EXCEPT ![x] = did.j, ![y] = k] /\ last'.e = did.e
  BY <1>1 DEF Refused, Valued
<1>3. Refusing(did, v[x])
  BY AllRefuse
<1> HIDE DEF did
<1>4. Valued'
  BY <1>2, ExchangeKeeps DEF Valued
<1>5. ASSUME did.e # 0
      PROVE  v' = v
  <2>1. v' = [v EXCEPT ![x] = v[x], ![y] = v[y]]
    BY <1>2, <1>3, <1>5 DEF Refusing
  <2>2. [v EXCEPT ![x] = v[x]] = v /\ [v EXCEPT ![y] = v[y]] = v
    BY PutBack
  <2> QED BY <2>1, <2>2
<1> QED BY <1>2, <1>4, <1>5

LEMMA PushItselfKeeps ==
    ASSUME Valued, NEW x \in Values, PushBackItself(x)
    PROVE  Valued' /\ (last'.e # 0 => v' = v)
  BY AllRefuse, ChangeKeeps DEF PushBackItself

LEMMA EmplaceKeeps ==
    ASSUME Valued, NEW x \in Values, Emplace(x)
    PROVE  Valued' /\ (last'.e # 0 => v' = v)
<1>1. ASSUME NEW m, NEW e, NEW from, NEW put, Splice(x, emplace(v[x], m, e), from, from, put)
      PROVE  Valued' /\ (last'.e # 0 => v' = v)
  BY <1>1, AllRefuse, SpliceKeeps
<1> QED BY <1>1 DEF Emplace

LEMMA InsertKeeps ==
    ASSUME Valued, NEW x \in Values, InsertBefore(x) \/ InsertRange(x)
    PROVE  Valued' /\ (last'.e # 0 => v' = v)
<1>1. ASSUME NEW pos, NEW vals, NEW at, Splice(x, insert(x, pos, vals), at, at, vals)
      PROVE  Valued' /\ (last'.e # 0 => v' = v)
  BY <1>1, AllRefuse, SpliceKeeps
<1>2. ASSUME NEW pos, NEW first, NEW final, NEW at, NEW vals,
             Splice(x, insert_range(x, pos, first, final), at, at, vals)
      PROVE  Valued' /\ (last'.e # 0 => v' = v)
  BY <1>2, AllRefuse, SpliceKeeps
<1>3. ASSUME NEW first, NEW final, Change(x, insert_members(x, first, final))
      PROVE  Valued' /\ (last'.e # 0 => v' = v)
  BY <1>3, AllRefuse, ChangeKeeps
<1>4. CASE InsertBefore(x)
  BY <1>1, <1>4 DEF InsertBefore
<1>5. CASE InsertRange(x)
  BY <1>2, <1>3, <1>5 DEF InsertRange
<1> QED BY <1>4, <1>5

LEMMA UpdateKeeps ==
    ASSUME Valued, NEW x \in Values, Update(x)
    PROVE  Valued' /\ last'.does = "update"
<1>1. \E j, e : v' = [v EXCEPT ![x] = j] /\ last' = [does |-> "update", e |-> e]
  BY DEF Update, Holds
<1> QED BY <1>1, StaysValued DEF Valued

LEMMA EraseKeeps ==
    ASSUME Valued, NEW x \in Values, Erase(x)
    PROVE  Valued' /\ (last'.e # 0 => v' = v)
<1>1. ASSUME NEW pos, NEW from, NEW to, NEW put, Splice(x, erase_one(x, pos), from, to, put)
      PROVE  Valued' /\ (last'.e # 0 => v' = v)
  BY <1>1, AllRefuse, SpliceKeeps
<1>2. ASSUME NEW first, NEW final, NEW from, NEW to, NEW put, Splice(x, erase(x, first, final), from, to, put)
      PROVE  Valued' /\ (last'.e # 0 => v' = v)
  BY <1>2, AllRefuse, SpliceKeeps
<1>3. ASSUME NEW k, Change(x, erase_key(v[x], k)) \/ Change(x, erase_index(v[x], k))
      PROVE  Valued' /\ (last'.e # 0 => v' = v)
  BY <1>3, AllRefuse, ChangeKeeps
<1> QED BY <1>1, <1>2, <1>3 DEF Erase

LEMMA WriteKeeps ==
    ASSUME Valued, NEW x \in Values, Write(x)
    PROVE  Valued' /\ (last'.e # 0 => v' = v)
<1>1. ASSUME NEW i, NEW val, NEW e,
             NEW did \in {put_index(v[x], i, val), put_key(v[x], i, val), Threw(v[x], e)},
             Change(x, did)
      PROVE  Valued' /\ (last'.e # 0 => v' = v)
  BY <1>1, AllRefuse, ChangeKeeps
<1> QED BY <1>1 DEF Write

LEMMA SwapKeeps ==
    ASSUME Valued, NEW x \in Values, Swap(x)
    PROVE  Valued' /\ (last'.e # 0 => v' = v)
<1>1. ASSUME NEW y \in Values, v' = [v EXCEPT ![x] = v[y], ![y] = v[x]], last' = Quiet
      PROVE  Valued' /\ (last'.e # 0 => v' = v)
  BY <1>1, QuietKeeps
<1> QED BY <1>1, LookKeeps DEF Swap

LEMMA ReadKeeps ==
    ASSUME Valued, NEW x \in Values, Read(x)
    PROVE  Valued' /\ (last'.e # 0 => v' = v)
<1>1. UNCHANGED v
  BY DEF Read, Look
<1> QED BY <1>1, LookKeeps

\* No call that throws has changed a value, nor moved from one; update alone
\* may have made an object of null.
THEOREM ThrowsNeverChange == ValueSpec => ThrowsChangeNothing
<1>1. ValueInit => Valued
  BY DEF ValueInit, Valued
<1>2. Valued /\ [ValueNext]_valueVars => Valued' /\ [last'.e # 0 /\ last'.does # "update" => v' = v]_valueVars
  <2> SUFFICES ASSUME Valued, [ValueNext]_valueVars
               PROVE  Valued' /\ [last'.e # 0 /\ last'.does # "update" => v' = v]_valueVars
    OBVIOUS
  <2>1. CASE ValueNext
    <3>1. PICK x \in Values :
            \/ Assign(x) \/ AssignList(x) \/ PushBack(x) \/ PushBackMoved(x) \/ PushBackItself(x)
            \/ Emplace(x) \/ InsertBefore(x) \/ InsertRange(x) \/ Update(x) \/ Erase(x) \/ Clear(x)
            \/ Write(x) \/ Swap(x) \/ Read(x)
      BY <2>1 DEF ValueNext
    <3>2. Valued' /\ (last'.e # 0 => v' = v \/ last'.does = "update")
      BY <3>1, AssignKeeps, PushKeeps, PushMovedKeeps, PushItselfKeeps, EmplaceKeeps, InsertKeeps,
         UpdateKeeps, EraseKeeps, WriteKeeps, SwapKeeps, ReadKeeps, Zenon
    <3> QED BY <3>2
  <2>2. CASE UNCHANGED valueVars
    BY <2>2 DEF Valued, valueVars
  <2> QED BY <2>1, <2>2
<1> QED BY <1>1, <1>2, PTL DEF ValueSpec, ThrowsChangeNothing
=============================================================================
