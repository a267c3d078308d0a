---------------------------- MODULE JsonBinary ----------------------------
(***************************************************************************)
(* json.hpp, binary_writer and binary_reader: a value to and from CBOR,    *)
(* MessagePack, UBJSON and BSON.  A document is a sequence of units: a     *)
(* byte, or a number of 2, 4 or 8 bytes with its byte order.  Bits says    *)
(* how many bits a number of so many bytes has: 8 for one byte as in the   *)
(* code, and fewer than 16, 32 and 64 for the others, so that every limit  *)
(* the code compares with is within reach.  Numbers wrap at their width.   *)
(***************************************************************************)
EXTENDS Json, TLC

CONSTANTS Bits,     \* bits of a number of 1, 2, 4 and 8 bytes
          MaxSize   \* max_size() of an array or object

Umax(w) == 2 ^ Bits[w] - 1                \* numeric_limits<uintN_t>::max()
Smax(w) == 2 ^ (Bits[w] - 1) - 1          \* numeric_limits<intN_t>::max()
Smin(w) == -(2 ^ (Bits[w] - 1))
Signed(n, w) == IF n > Smax(w) THEN n - 2 ^ Bits[w] ELSE n

Unit(n, w, little) == [w |-> w, n |-> n % 2 ^ Bits[w], little |-> little]
Byte(b)      == <<Unit(b, 1, FALSE)>>
Chars(s)     == [i \in DOMAIN s |-> Unit(s[i], 1, FALSE)]
Throw(code)  == <<[w |-> 0, n |-> code, little |-> FALSE]>>
Refused(out) == \E i \in DOMAIN out : out[i].w = 0

\* write_number: network order, or little endian for BSON
write_number(n, w) == <<Unit(n, w, FALSE)>>
write_little(n, w) == <<Unit(n, w, w > 1)>>

(***************************************************************************)
(* binary_writer, CBOR.  A number or a size goes into the first byte if it *)
(* is small, else after it in the fewest bytes that hold it.               *)
(***************************************************************************)
cbor_head(base, n) ==
  CASE n <= \h17                        -> Byte(base + n)
    [] n \in \h18 .. Umax(1)            -> Byte(base + \h18) \o write_number(n, 1)
    [] n \in Umax(1) + 1 .. Umax(2)     -> Byte(base + \h19) \o write_number(n, 2)
    [] n \in Umax(2) + 1 .. Umax(4)     -> Byte(base + \h1A) \o write_number(n, 4)
    [] n > Umax(4)                      -> Byte(base + \h1B) \o write_number(n, 8)

\* Mutant: a negative number is not shifted by one
cbor_integerUnshifted(n) == IF n >= 0 THEN cbor_head(\h00, n) ELSE cbor_head(\h20, -n)
cbor_integer(n) == IF n >= 0 THEN cbor_head(\h00, n) ELSE cbor_head(\h20, -1 - n)

RECURSIVE write_cbor(_)
write_cbor(j) ==
  CASE Is(j, "null")            -> Byte(\hF6)
    [] Is(j, "boolean")         -> Byte(IF j.boolean THEN \hF5 ELSE \hF4)
    [] Is(j, "number_integer")  -> cbor_integer(j.number_integer)
    [] Is(j, "number_unsigned") -> cbor_head(\h00, j.number_unsigned)
    [] Is(j, "number_float")    -> Byte(\hFB) \o write_number(j.number_float, 8)
    [] Is(j, "string")          -> cbor_head(\h60, Len(j.string)) \o Chars(j.string)
    [] Is(j, "array")           -> cbor_head(\h80, Len(j.array))
                                     \o FlattenSeq([i \in DOMAIN j.array |-> write_cbor(j.array[i])])
    [] Is(j, "object")          -> cbor_head(\hA0, Len(j.object))
                                     \o FlattenSeq([i \in DOMAIN j.object |->
                                          write_cbor(String(j.object[i].key))
                                            \o write_cbor(j.object[i].value)])
    [] OTHER                    -> <<>>

(***************************************************************************)
(* binary_writer, MessagePack.                                             *)
(***************************************************************************)
msgpack_unsigned(n) ==
  CASE n < 128                      -> write_number(n, 1)
    [] n \in 128 .. Umax(1)         -> Byte(\hCC) \o write_number(n, 1)
    [] n \in Umax(1) + 1 .. Umax(2) -> Byte(\hCD) \o write_number(n, 2)
    [] n \in Umax(2) + 1 .. Umax(4) -> Byte(\hCE) \o write_number(n, 4)
    [] n > Umax(4)                  -> Byte(\hCF) \o write_number(n, 8)

msgpack_negative(n) ==
  CASE n >= -32                     -> write_number(n, 1)
    [] n \in Smin(1) .. -33         -> Byte(\hD0) \o write_number(n, 1)
    [] n \in Smin(2) .. Smin(1) - 1 -> Byte(\hD1) \o write_number(n, 2)
    [] n \in Smin(4) .. Smin(2) - 1 -> Byte(\hD2) \o write_number(n, 4)
    [] n < Smin(4)                  -> Byte(\hD3) \o write_number(n, 8)

\* a size beyond 32 bits gets no header at all
msgpack_string_head(n) ==
  CASE n <= 31                      -> Byte(\hA0 + n)
    [] n \in 32 .. Umax(1)          -> Byte(\hD9) \o write_number(n, 1)
    [] n \in Umax(1) + 1 .. Umax(2) -> Byte(\hDA) \o write_number(n, 2)
    [] n \in Umax(2) + 1 .. Umax(4) -> Byte(\hDB) \o write_number(n, 4)
    [] OTHER                        -> <<>>

msgpack_container_head(fix, wide, n) ==
  CASE n <= 15                      -> Byte(fix + n)
    [] n \in 16 .. Umax(2)          -> Byte(wide) \o write_number(n, 2)
    [] n \in Umax(2) + 1 .. Umax(4) -> Byte(wide + 1) \o write_number(n, 4)
    [] OTHER                        -> <<>>

RECURSIVE write_msgpack(_)
write_msgpack(j) ==
  CASE Is(j, "null")            -> Byte(\hC0)
    [] Is(j, "boolean")         -> Byte(IF j.boolean THEN \hC3 ELSE \hC2)
    [] Is(j, "number_integer")  -> IF j.number_integer >= 0 THEN msgpack_unsigned(j.number_integer)
                                   ELSE msgpack_negative(j.number_integer)
    [] Is(j, "number_unsigned") -> msgpack_unsigned(j.number_unsigned)
    [] Is(j, "number_float")    -> Byte(\hCB) \o write_number(j.number_float, 8)
    [] Is(j, "string")          -> msgpack_string_head(Len(j.string)) \o Chars(j.string)
    [] Is(j, "array")           -> msgpack_container_head(\h90, \hDC, Len(j.array))
                                     \o FlattenSeq([i \in DOMAIN j.array |-> write_msgpack(j.array[i])])
    [] Is(j, "object")          -> msgpack_container_head(\h80, \hDE, Len(j.object))
                                     \o FlattenSeq([i \in DOMAIN j.object |->
                                          write_msgpack(String(j.object[i].key))
                                            \o write_msgpack(j.object[i].value)])
    [] OTHER                    -> <<>>

(***************************************************************************)
(* binary_writer, UBJSON.  count puts the size in front of a container,    *)
(* type also the type of its elements if they share one (and then each is  *)
(* written without its own).                                               *)
(***************************************************************************)
Ch == [i |-> \h69, U |-> \h55, I |-> \h49, l |-> \h6C, L |-> \h4C, d |-> \h64, D |-> \h44,
       C |-> \h43, S |-> \h53, T |-> \h54, F |-> \h46, Z |-> \h5A, N |-> \h4E,
       array |-> \h5B, end_array |-> \h5D, object |-> \h7B, end_object |-> \h7D,
       type |-> \h24, count |-> \h23]
WidthOf == (Ch.i :> 1) @@ (Ch.U :> 1) @@ (Ch.I :> 2) @@ (Ch.l :> 4) @@ (Ch.L :> 8)

ubjson_integer(n) ==
  IF n \in Smin(1) .. Smax(1) THEN Ch.i
  ELSE IF n \in 0 .. Umax(1)       THEN Ch.U
  ELSE IF n \in Smin(2) .. Smax(2) THEN Ch.I
  ELSE IF n \in Smin(4) .. Smax(4) THEN Ch.l
  ELSE Ch.L

ubjson_prefix(j) ==
  CASE Is(j, "null")            -> Ch.Z
    [] Is(j, "boolean")         -> IF j.boolean THEN Ch.T ELSE Ch.F
    [] Is(j, "number_integer")  -> ubjson_integer(j.number_integer)
    [] Is(j, "number_unsigned") -> ubjson_integer(j.number_unsigned)
    [] Is(j, "number_float")    -> Ch.D
    [] Is(j, "string")          -> Ch.S
    [] Is(j, "array")           -> Ch.array
    [] Is(j, "object")          -> Ch.object
    [] OTHER                    -> Ch.N

write_number_with_ubjson_prefix(n, add_prefix) ==
  LET type == ubjson_integer(n)
  IN  IF n > Smax(8) THEN Throw(407)
      ELSE (IF add_prefix THEN Byte(type) ELSE <<>>) \o write_number(n, WidthOf[type])

ubjson_head(add_prefix, open, use_count, same, first, n) ==
  (IF add_prefix THEN Byte(open) ELSE <<>>)
    \o (IF same THEN Byte(Ch.type) \o Byte(first) ELSE <<>>)
    \o (IF use_count THEN Byte(Ch.count) \o write_number_with_ubjson_prefix(n, TRUE) ELSE <<>>)

\* the elements are not empty and all have the type of the first
SamePrefix(elements) ==
  elements # <<>> /\ \A i \in DOMAIN elements : ubjson_prefix(elements[i]) = ubjson_prefix(elements[1])

RECURSIVE write_ubjson(_, _, _, _)
write_ubjson(j, use_count, use_type, add_prefix) ==
  CASE Is(j, "null")            -> IF add_prefix THEN Byte(Ch.Z) ELSE <<>>
    [] Is(j, "boolean")         -> IF add_prefix THEN Byte(ubjson_prefix(j)) ELSE <<>>
    [] Is(j, "number_integer")  -> write_number_with_ubjson_prefix(j.number_integer, add_prefix)
    [] Is(j, "number_unsigned") -> write_number_with_ubjson_prefix(j.number_unsigned, add_prefix)
    [] Is(j, "number_float")    -> (IF add_prefix THEN Byte(Ch.D) ELSE <<>>)
                                     \o write_number(j.number_float, 8)
    [] Is(j, "string")          -> (IF add_prefix THEN Byte(Ch.S) ELSE <<>>)
                                     \o write_number_with_ubjson_prefix(Len(j.string), TRUE)
                                     \o Chars(j.string)
    [] Is(j, "array")           ->
         LET same == use_type /\ SamePrefix(j.array)
             first == IF same THEN ubjson_prefix(j.array[1]) ELSE 0
         IN  ubjson_head(add_prefix, Ch.array, use_count, same, first, Len(j.array))
               \o FlattenSeq([i \in DOMAIN j.array |->
                    write_ubjson(j.array[i], use_count, use_type, ~same)])
               \o (IF use_count THEN <<>> ELSE Byte(Ch.end_array))
    [] Is(j, "object")          ->
         LET values == [i \in DOMAIN j.object |-> j.object[i].value]
             same == use_type /\ SamePrefix(values)
             first == IF same THEN ubjson_prefix(values[1]) ELSE 0
         IN  ubjson_head(add_prefix, Ch.object, use_count, same, first, Len(j.object))
               \o FlattenSeq([i \in DOMAIN j.object |->
                    write_number_with_ubjson_prefix(Len(j.object[i].key), TRUE)
                      \o Chars(j.object[i].key)
                      \o write_ubjson(values[i], use_count, use_type, ~same)])
               \o (IF use_count THEN <<>> ELSE Byte(Ch.end_object))
    [] OTHER                    -> <<>>

(***************************************************************************)
(* binary_writer, BSON.  A document starts with its size in bytes, which   *)
(* the calc_ functions work out before anything is written.                *)
(***************************************************************************)
RECURSIVE Digits(_)
Digits(n) == IF n < 10 THEN <<\h30 + n>> ELSE Append(Digits(n \div 10), \h30 + (n % 10))
to_string(n) == Digits(n)

\* an array is a document whose names are "0", "1", ...
Elements(a) == [i \in DOMAIN a |-> [key |-> to_string(i - 1), value |-> a[i]]]

calc_bson_entry_header_size(name) == 1 + Len(name) + 1
calc_bson_integer_size(n) == IF n \in Smin(4) .. Smax(4) THEN 4 ELSE 8
calc_bson_string_size(s)  == 4 + Len(s) + 1

RECURSIVE calc_bson_object_size(_)
calc_bson_element_size(j) ==
  CASE Is(j, "object")          -> calc_bson_object_size(j.object)
    [] Is(j, "array")           -> calc_bson_object_size(Elements(j.array))
    [] Is(j, "boolean")         -> 1
    [] Is(j, "number_float")    -> 8
    [] Is(j, "number_integer")  -> calc_bson_integer_size(j.number_integer)
    [] Is(j, "number_unsigned") -> calc_bson_integer_size(j.number_unsigned)
    [] Is(j, "string")          -> calc_bson_string_size(j.string)
    [] Is(j, "null")            -> 0
calc_bson_object_size(o) ==
  4 + 1 + FoldLeft(LAMBDA sum, m : sum + calc_bson_entry_header_size(m.key)
                                       + calc_bson_element_size(m.value), 0, o)

\* calc_bson_entry_header_size throws at a name with a NUL in it
RECURSIVE has_nul_name(_)
has_nul_name(o) ==
  \E i \in DOMAIN o :
    \/ \E k \in DOMAIN o[i].key : o[i].key[k] = 0
    \/ Is(o[i].value, "object") /\ has_nul_name(o[i].value.object)
    \/ Is(o[i].value, "array")  /\ has_nul_name(Elements(o[i].value.array))

write_bson_entry_header(name, type) == Byte(type) \o Chars(name) \o Byte(0)

write_bson_integer(name, n) ==
  IF n \in Smin(4) .. Smax(4) THEN write_bson_entry_header(name, \h10) \o write_little(n, 4)
  ELSE IF n <= Smax(8)        THEN write_bson_entry_header(name, \h12) \o write_little(n, 8)
  ELSE Throw(407)

RECURSIVE write_bson_object(_)
write_bson_element(name, j) ==
  CASE Is(j, "object")          -> write_bson_entry_header(name, \h03) \o write_bson_object(j.object)
    [] Is(j, "array")           -> write_bson_entry_header(name, \h04)
                                     \o write_bson_object(Elements(j.array))
    [] Is(j, "boolean")         -> write_bson_entry_header(name, \h08)
                                     \o Byte(IF j.boolean THEN \h01 ELSE \h00)
    [] Is(j, "number_float")    -> write_bson_entry_header(name, \h01) \o write_little(j.number_float, 8)
    [] Is(j, "number_integer")  -> write_bson_integer(name, j.number_integer)
    [] Is(j, "number_unsigned") -> write_bson_integer(name, j.number_unsigned)
    [] Is(j, "string")          -> write_bson_entry_header(name, \h02)
                                     \o write_little(Len(j.string) + 1, 4) \o Chars(j.string) \o Byte(0)
    [] Is(j, "null")            -> write_bson_entry_header(name, \h0A)
write_bson_object(o) ==
  write_little(calc_bson_object_size(o), 4)
    \o FlattenSeq([i \in DOMAIN o |-> write_bson_element(o[i].key, o[i].value)])
    \o Byte(0)

write_bson(j) ==
  IF ~Is(j, "object") THEN Throw(317)
  ELSE IF has_nul_name(j.object) THEN Throw(409)
  ELSE write_bson_object(j.object)

(***************************************************************************)
(* binary_reader: what it uses to read.  i is the place of the next unit;  *)
(* the unit before it is `current'.                                        *)
(***************************************************************************)
Eof     == -1
Torn    == -2     \* reading a byte out of the middle of a number
Silent  == 0      \* false without a parse_error
char(in, i) == IF i > Len(in) THEN Eof ELSE IF in[i].w = 1 THEN in[i].n ELSE Torn

get_number(in, i, w, little) ==
  IF i > Len(in) THEN Fail(110)
  ELSE IF in[i].w # w \/ in[i].little # little THEN Fail(Torn)
  ELSE Good(in[i].n, i + 1)
get_unsigned(in, i, w) == get_number(in, i, w, FALSE)
get_signed(in, i, w)   == Map(get_number(in, i, w, FALSE), LAMBDA n : Signed(n, w))
get_little(in, i, w)   == Map(get_number(in, i, w, TRUE), LAMBDA n : Signed(n, w))

\* no character at all if len is negative
get_string(in, i, len) ==
  IF len <= 0 THEN Good(<<>>, i)
  ELSE IF i + len - 1 > Len(in) THEN Fail(110)
  ELSE IF \E k \in i .. i + len - 1 : in[k].w # 1 THEN Fail(Torn)
  ELSE Good([k \in 1 .. len |-> in[i + k - 1].n], i + len)

RECURSIVE skip_noop(_, _)
skip_noop(in, i) == IF char(in, i) = Ch.N THEN skip_noop(in, i + 1) ELSE i

(***************************************************************************)
(* json_sax_dom_parser: a size it is told must be one a container can have;*)
(* Unknown is std::size_t(-1).                                             *)
(***************************************************************************)
Unknown == Umax(8)
Started(len) == len = Unknown \/ len <= MaxSize

(***************************************************************************)
(* binary_reader, CBOR.                                                    *)
(***************************************************************************)
RECURSIVE get_cbor_string(_, _), cbor_chunks(_, _, _)
get_cbor_string(in, i) ==
  LET c == char(in, i)
      sized(w) == Bind(get_unsigned(in, i + 1, w), LAMBDA n, k : get_string(in, k, n))
  IN  CASE c = Eof            -> Fail(110)
        [] c \in \h60 .. \h77 -> get_string(in, i + 1, c - \h60)
        [] c = \h78           -> sized(1)
        [] c = \h79           -> sized(2)
        [] c = \h7A           -> sized(4)
        [] c = \h7B           -> sized(8)
        [] c = \h7F           -> cbor_chunks(in, i + 1, <<>>)
        [] OTHER              -> Fail(113)
cbor_chunks(in, i, sofar) ==
  IF char(in, i) = \hFF THEN Good(sofar, i + 1)
  ELSE Bind(get_cbor_string(in, i), LAMBDA s, k : cbor_chunks(in, k, sofar \o s))

\* RFC 7049, Appendix D; which double it is does not matter here
half_float(in, i) ==
  IF char(in, i) = Eof \/ char(in, i + 1) = Eof THEN Fail(110)
  ELSE Good(Float((char(in, i) * 256 + char(in, i + 1)) % 2 ^ Bits[2]), i + 2)

RECURSIVE parse_cbor(_, _), cbor_elements(_, _, _, _), cbor_members(_, _, _, _)
\* n more elements, or those up to the break
cbor_elements(in, i, n, sofar) ==
  IF n = 0 \/ (n = Unknown /\ char(in, i) = \hFF)
    THEN Good(Array(sofar), IF n = 0 THEN i ELSE i + 1)
    ELSE Bind(parse_cbor(in, i), LAMBDA v, k :
           cbor_elements(in, k, IF n = Unknown THEN n ELSE n - 1, Append(sofar, v)))
cbor_members(in, i, n, sofar) ==
  IF n = 0 \/ (n = Unknown /\ char(in, i) = \hFF)
    THEN Good(Object(sofar), IF n = 0 THEN i ELSE i + 1)
    ELSE Bind(get_cbor_string(in, i), LAMBDA key, k :
           Bind(parse_cbor(in, k), LAMBDA v, m :
             cbor_members(in, m, IF n = Unknown THEN n ELSE n - 1, Put(sofar, key, v))))
get_cbor_array(in, i, len)  == IF Started(len) THEN cbor_elements(in, i, len, <<>>) ELSE Fail(408)
get_cbor_object(in, i, len) == IF Started(len) THEN cbor_members(in, i, len, <<>>) ELSE Fail(408)

cbor_unsigned(in, i, c) ==
  IF c <= \h17 THEN Good(Unsigned(c), i)
  ELSE Map(get_unsigned(in, i, 2 ^ (c - \h18)), Unsigned)

\* -1 - n, in an int64_t
cbor_negative(in, i, c) ==
  IF c <= \h37 THEN Good(Integer(\h20 - 1 - c), i)
  ELSE Map(get_unsigned(in, i, 2 ^ (c - \h38)), LAMBDA n : Integer(-1 - Signed(n, 8)))

\* the size of an array or map, after which `body' reads it
cbor_sized(in, i, c, body(_, _, _)) ==
  IF c % \h20 <= \h17 THEN body(in, i, c % \h20)
  ELSE IF c % \h20 = \h1F THEN body(in, i, Unknown)
  ELSE Bind(get_unsigned(in, i, 2 ^ ((c % \h20) - \h18)), LAMBDA n, k : body(in, k, n))

cbor_simple(in, i, c) ==
  CASE c = \hF4 -> Good(Boolean(FALSE), i)
    [] c = \hF5 -> Good(Boolean(TRUE), i)
    [] c = \hF6 -> Good(Null, i)
    [] c = \hF9 -> half_float(in, i)
    [] c = \hFA -> Map(get_unsigned(in, i, 4), Float)
    [] c = \hFB -> Map(get_unsigned(in, i, 8), Float)
    [] OTHER    -> Fail(112)

parse_cbor(in, i) ==
  LET c == char(in, i)
  IN  CASE c = Eof                                  -> Fail(110)
        [] c \in \h00 .. \h1B                       -> cbor_unsigned(in, i + 1, c)
        [] c \in \h20 .. \h3B                       -> cbor_negative(in, i + 1, c)
        [] c \in (\h60 .. \h7B) \cup {\h7F}         -> Map(get_cbor_string(in, i), String)
        [] c \in (\h80 .. \h9B) \cup {\h9F}         -> cbor_sized(in, i + 1, c, get_cbor_array)
        [] c \in (\hA0 .. \hBB) \cup {\hBF}         -> cbor_sized(in, i + 1, c, get_cbor_object)
        [] OTHER                                    -> cbor_simple(in, i + 1, c)

(***************************************************************************)
(* binary_reader, MessagePack.                                             *)
(***************************************************************************)
get_msgpack_string(in, i) ==
  LET c == char(in, i)
  IN  CASE c = Eof            -> Fail(110)
        [] c \in \hA0 .. \hBF -> get_string(in, i + 1, c - \hA0)
        [] c \in \hD9 .. \hDB -> Bind(get_unsigned(in, i + 1, 2 ^ (c - \hD9)),
                                      LAMBDA n, k : get_string(in, k, n))
        [] OTHER              -> Fail(113)

RECURSIVE parse_msgpack(_, _), msgpack_elements(_, _, _, _), msgpack_members(_, _, _, _)
msgpack_elements(in, i, n, sofar) ==
  IF n = 0 THEN Good(Array(sofar), i)
  ELSE Bind(parse_msgpack(in, i), LAMBDA v, k : msgpack_elements(in, k, n - 1, Append(sofar, v)))
msgpack_members(in, i, n, sofar) ==
  IF n = 0 THEN Good(Object(sofar), i)
  ELSE Bind(get_msgpack_string(in, i), LAMBDA key, k :
         Bind(parse_msgpack(in, k), LAMBDA v, m :
           msgpack_members(in, m, n - 1, Put(sofar, key, v))))
get_msgpack_array(in, i, len)  == IF Started(len) THEN msgpack_elements(in, i, len, <<>>) ELSE Fail(408)
get_msgpack_object(in, i, len) == IF Started(len) THEN msgpack_members(in, i, len, <<>>) ELSE Fail(408)

msgpack_sized(in, i, w, body(_, _, _)) ==
  Bind(get_unsigned(in, i, w), LAMBDA n, k : body(in, k, n))

\* the size, or the number of bytes, is in the first byte
msgpack_fixed(in, i, c) ==
  CASE c \in \h80 .. \h8F -> get_msgpack_object(in, i + 1, c - \h80)
    [] c \in \h90 .. \h9F -> get_msgpack_array(in, i + 1, c - \h90)
    [] c \in \hA0 .. \hBF -> Map(get_msgpack_string(in, i), String)

msgpack_tagged(in, i, c) ==
  CASE c \in \hD9 .. \hDB -> Map(get_msgpack_string(in, i), String)
    [] c = \hC0           -> Good(Null, i + 1)
    [] c \in {\hC2, \hC3} -> Good(Boolean(c = \hC3), i + 1)
    [] c = \hCA           -> Map(get_unsigned(in, i + 1, 4), Float)
    [] c = \hCB           -> Map(get_unsigned(in, i + 1, 8), Float)
    [] c \in \hCC .. \hCF -> Map(get_unsigned(in, i + 1, 2 ^ (c - \hCC)), Unsigned)
    [] c \in \hD0 .. \hD3 -> Map(get_signed(in, i + 1, 2 ^ (c - \hD0)), Integer)
    [] c \in \hDC .. \hDD -> msgpack_sized(in, i + 1, 2 ^ (c - \hDB), get_msgpack_array)
    [] c \in \hDE .. \hDF -> msgpack_sized(in, i + 1, 2 ^ (c - \hDD), get_msgpack_object)
    [] c \in \hE0 .. \hFF -> Good(Integer(Signed(c, 1)), i + 1)
    [] OTHER              -> Fail(112)

parse_msgpack(in, i) ==
  LET c == char(in, i)
  IN  CASE c = Eof            -> Fail(110)
        [] c \in \h00 .. \h7F -> Good(Unsigned(c), i + 1)
        [] c \in \h80 .. \hBF -> msgpack_fixed(in, i, c)
        [] OTHER              -> msgpack_tagged(in, i, c)

(***************************************************************************)
(* binary_reader, UBJSON.                                                  *)
(***************************************************************************)
IntegerTypes == {Ch.U, Ch.i, Ch.I, Ch.l, Ch.L}
ubjson_number(in, i, type) ==
  IF type = Ch.U THEN get_unsigned(in, i, 1) ELSE get_signed(in, i, WidthOf[type])

get_ubjson_string(in, i) ==
  LET c == char(in, i)
  IN  IF c = Eof THEN Fail(110)
      ELSE IF c \notin IntegerTypes THEN Fail(113)
      ELSE Bind(ubjson_number(in, i + 1, c), LAMBDA n, k : get_string(in, k, n))

\* a negative size is converted to std::size_t
get_ubjson_size_value(in, i) ==
  LET at == skip_noop(in, i)
      c  == char(in, at)
  IN  IF c \notin IntegerTypes THEN Fail(113)
      ELSE Map(ubjson_number(in, at + 1, c), LAMBDA n : n % 2 ^ Bits[8])

\* with neither, i is after the first element's type, or the end's
get_ubjson_size_type(in, i) ==
  LET at   == skip_noop(in, i)
      next == skip_noop(in, at + 2)
  IN  CASE char(in, at) = Ch.type ->
             IF char(in, at + 1) = Eof \/ char(in, next) = Eof THEN Fail(110)
             ELSE IF char(in, next) # Ch.count THEN Fail(112)
             ELSE Map(get_ubjson_size_value(in, next + 1),
                      LAMBDA n : [size |-> n, type |-> char(in, at + 1)])
        [] char(in, at) = Ch.count ->
             Map(get_ubjson_size_value(in, at + 1), LAMBDA n : [size |-> n, type |-> 0])
        [] OTHER -> Good([size |-> Unknown, type |-> 0], at + 1)

RECURSIVE get_ubjson_value(_, _, _), ubjson_elements(_, _, _, _, _), ubjson_members(_, _, _, _, _),
          ubjson_open_array(_, _, _), ubjson_open_object(_, _, _)
parse_ubjson(in, i) == LET at == skip_noop(in, i) IN get_ubjson_value(in, at + 1, char(in, at))

\* n more elements, each of that type unless it is 0
ubjson_elements(in, i, n, type, sofar) ==
  IF n = 0 THEN Good(Array(sofar), i)
  ELSE Bind(IF type = 0 THEN parse_ubjson(in, i) ELSE get_ubjson_value(in, i, type),
            LAMBDA v, k : ubjson_elements(in, k, n - 1, type, Append(sofar, v)))
ubjson_members(in, i, n, type, sofar) ==
  IF n = 0 THEN Good(Object(sofar), i)
  ELSE Bind(get_ubjson_string(in, i), LAMBDA key, k :
         Bind(IF type = 0 THEN parse_ubjson(in, k) ELSE get_ubjson_value(in, k, type),
              LAMBDA v, m : ubjson_members(in, m, n - 1, type, Put(sofar, key, v))))

\* Mutant: the end of the input closes an array
ubjson_open_arrayToTheEnd(in, i, sofar) ==
  IF char(in, i - 1) \in {Ch.end_array, Eof} THEN Good(Array(sofar), i)
  ELSE Bind(get_ubjson_value(in, i, char(in, i - 1)),
            LAMBDA v, k : ubjson_open_array(in, skip_noop(in, k) + 1, Append(sofar, v)))
\* elements up to the closing bracket, current being the one before i
ubjson_open_array(in, i, sofar) ==
  IF char(in, i - 1) = Ch.end_array THEN Good(Array(sofar), i)
  ELSE Bind(get_ubjson_value(in, i, char(in, i - 1)),
            LAMBDA v, k : ubjson_open_array(in, skip_noop(in, k) + 1, Append(sofar, v)))
ubjson_open_object(in, i, sofar) ==
  IF char(in, i - 1) = Ch.end_object THEN Good(Object(sofar), i)
  ELSE Bind(get_ubjson_string(in, i - 1), LAMBDA key, k :
         Bind(parse_ubjson(in, k),
              LAMBDA v, m : ubjson_open_object(in, skip_noop(in, m) + 1, Put(sofar, key, v))))

get_ubjson_array(in, i) ==
  Bind(get_ubjson_size_type(in, i), LAMBDA st, k :
    CASE st.size = Unknown -> ubjson_open_array(in, k, <<>>)
      [] st.size # Unknown /\ st.size > MaxSize -> Fail(408)
      [] OTHER -> ubjson_elements(in, k, IF st.type = Ch.N THEN 0 ELSE st.size, st.type, <<>>))
get_ubjson_object(in, i) ==
  Bind(get_ubjson_size_type(in, i), LAMBDA st, k :
    CASE st.size = Unknown -> ubjson_open_object(in, k, <<>>)
      [] st.size # Unknown /\ st.size > MaxSize -> Fail(408)
      [] OTHER -> ubjson_members(in, k, st.size, st.type, <<>>))

get_ubjson_value(in, i, prefix) ==
  CASE prefix = Eof          -> Fail(110)
    [] prefix \in {Ch.T, Ch.F} -> Good(Boolean(prefix = Ch.T), i)
    [] prefix = Ch.Z         -> Good(Null, i)
    [] prefix = Ch.U         -> Map(ubjson_number(in, i, prefix), Unsigned)
    [] prefix \in IntegerTypes \ {Ch.U} -> Map(ubjson_number(in, i, prefix), Integer)
    [] prefix = Ch.d         -> Map(get_unsigned(in, i, 4), Float)
    [] prefix = Ch.D         -> Map(get_unsigned(in, i, 8), Float)
    [] prefix = Ch.C         -> IF char(in, i) = Eof THEN Fail(110)
                                ELSE IF char(in, i) > 127 THEN Fail(113)
                                ELSE Good(String(<<char(in, i)>>), i + 1)
    [] prefix = Ch.S         -> Map(get_ubjson_string(in, i), String)
    [] prefix = Ch.array     -> get_ubjson_array(in, i)
    [] prefix = Ch.object    -> get_ubjson_object(in, i)
    [] OTHER                 -> Fail(112)

(***************************************************************************)
(* binary_reader, BSON.  The size in front of a document is read, and not  *)
(* looked at; nor are the names of an array's elements.                    *)
(***************************************************************************)
RECURSIVE get_bson_cstr(_, _, _)
get_bson_cstr(in, i, sofar) ==
  CASE char(in, i) = Eof -> Fail(110)
    [] char(in, i) = 0   -> Good(sofar, i + 1)
    [] OTHER             -> get_bson_cstr(in, i + 1, Append(sofar, char(in, i)))

get_bson_string(in, i, len) ==
  IF len < 1 THEN Fail(112)
  ELSE Bind(get_string(in, i, len - 1),
            LAMBDA s, k : IF char(in, k) = Eof THEN Fail(Silent) ELSE Good(String(s), k + 1))

RECURSIVE parse_bson_element_list(_, _, _, _)
parse_bson_internal(in, i) ==
  Bind(get_little(in, i, 4), LAMBDA n, k :
    Map(parse_bson_element_list(in, k, FALSE, <<>>), Object))
parse_bson_array(in, i) ==
  Bind(get_little(in, i, 4), LAMBDA n, k :
    Map(parse_bson_element_list(in, k, TRUE, <<>>), Array))
parse_bson_element_internal(in, i, type) ==
  CASE type = \h01 -> Map(get_number(in, i, 8, TRUE), Float)
    [] type = \h02 -> Bind(get_little(in, i, 4), LAMBDA n, k : get_bson_string(in, k, n))
    [] type = \h03 -> parse_bson_internal(in, i)
    [] type = \h04 -> parse_bson_array(in, i)
    [] type = \h08 -> Good(Boolean(char(in, i) # 0), i + 1)
    [] type = \h0A -> Good(Null, i)
    [] type = \h10 -> Map(get_little(in, i, 4), Integer)
    [] type = \h12 -> Map(get_little(in, i, 8), Integer)
    [] OTHER       -> Fail(114)
parse_bson_element_list(in, i, is_array, sofar) ==
  CASE char(in, i) = 0   -> Good(sofar, i + 1)
    [] char(in, i) = Eof -> Fail(110)
    [] OTHER -> Bind(get_bson_cstr(in, i + 1, <<>>), LAMBDA key, k :
                  Bind(parse_bson_element_internal(in, k, char(in, i)), LAMBDA v, m :
                    parse_bson_element_list(in, m, is_array,
                      IF is_array THEN Append(sofar, v) ELSE Put(sofar, key, v))))

(***************************************************************************)
(* to_cbor and the others, and from_cbor and the others: the whole input   *)
(* must be used up (strict).                                               *)
(***************************************************************************)
Formats == {"cbor", "msgpack", "ubjson", "ubjson_count", "ubjson_type", "bson"}
Writes(format, j) ==
  CASE format = "cbor"         -> write_cbor(j)
    [] format = "msgpack"      -> write_msgpack(j)
    [] format = "ubjson"       -> write_ubjson(j, FALSE, FALSE, TRUE)
    [] format = "ubjson_count" -> write_ubjson(j, TRUE, FALSE, TRUE)
    [] format = "ubjson_type"  -> write_ubjson(j, TRUE, TRUE, TRUE)
    [] format = "bson"         -> write_bson(j)

\* r, unless there is more from i on
Strictly(r, in, i) == IF r.ok /\ char(in, i) # Eof THEN Fail(110) ELSE r
AllUsed(r, in)     == Strictly(r, in, r.i)
AllButNoops(r, in) == Strictly(r, in, skip_noop(in, r.i))
sax_parse(format, in) ==
  CASE format = "cbor"    -> AllUsed(parse_cbor(in, 1), in)
    [] format = "msgpack" -> AllUsed(parse_msgpack(in, 1), in)
    [] format = "bson"    -> AllUsed(parse_bson_internal(in, 1), in)
    [] OTHER              -> AllButNoops(parse_ubjson(in, 1), in)
=============================================================================
