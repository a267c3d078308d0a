--------------------------- MODULE MCConversions ---------------------------
(***************************************************************************)
(* Values and bytes for Conversions: every limit at which a writer changes *)
(* its form and its neighbours, strings at every boundary of UTF-8 and of  *)
(* the buffer, and short inputs made of the bytes a reader looks for.      *)
(***************************************************************************)
EXTENDS Conversions

MCBits == [w \in {1, 2, 4, 8} |-> CASE w = 1 -> 8 [] w = 2 -> 10 [] w = 4 -> 12 [] w = 8 -> 14]

Around(S)  == UNION {{n - 1, n, n + 1} : n \in S}
Limits == Around({1, 9, 15, 23, 31, 99, 127, 999, 9999} \cup {Smax(w) : w \in {1, 2, 4, 8}}
                   \cup {Umax(w) : w \in {1, 2, 4, 8}})
Numbers == {Integer(n) : n \in {n \in Limits \cup {-l : l \in Limits} : n \in Smin(8) .. Smax(8)}}
             \cup {Unsigned(n) : n \in {n \in Limits : n <= Umax(8)}}
             \cup {Float(0), Float(5), Float(1000), Float(nan_or_inf)}

Repeated(n, x) == [i \in 1 .. n |-> x]
a == \h61
Lengths == Around({1, 23, 31, 127, 255, 511, 1023})
Small  == {Null, Boolean(TRUE), Integer(-1), Unsigned(200), Unsigned(9000), String(<<a>>),
           Array(<<>>), Object(<<>>)}
Member(k, v) == [key |-> k, value |-> v]
Long == {Array(Repeated(n, x)) : n \in {15, 16, 23, 24}, x \in {Null, Unsigned(3), Array(<<>>)}}
          \cup {Array(Repeated(n, Null)) : n \in {127, 128, 255, 256}}
          \cup {Object([i \in 1 .. n |-> Member(<<a + i>>, Null)]) : n \in {15, 16, 23, 24}}
Containers ==
  {Array(Repeated(n, x)) : n \in 0 .. 2, x \in {Null, Unsigned(3), Array(<<>>)}}
    \cup {Array(<<x, y>>) : x \in Small, y \in Small}
    \cup {Object(<<Member(<<a>>, x), Member(<<a, a>>, y)>>) : x \in Small, y \in Small}
MCIntBits == [short |-> 6, int |-> 9]
Values == Numbers \cup Long \cup Containers \cup {Null, Boolean(TRUE), Boolean(FALSE)}
            \cup {String(Repeated(n, a)) : n \in Lengths}

\* the lead bytes and the bytes after them, at the ends of their ranges
Boundaries == {\h1F, Quote, Backslash, \h7F, \h80, \h8F, \h90, \h9F, \hA0, \hBF, \hC1, \hC2, \hE0,
               \hE1, \hED, \hF0, \hF1, \hF4, \hF5}
UpTo(n, S) == UNION {[1 .. m -> S] : m \in 0 .. n}
FourBytes  == {<<\hF0, \h90, \h80, \h80>>, <<\hF4, \h8F, \hBF, \hBF>>, <<\hF0, \h90, \h80>>, <<\hF0, \h90, \hC2>>}
\* wherever in the buffer a code point is begun and broken off
Strained == {Repeated(n, a) \o s \o t : n \in 0 .. Buffer + 1, s \in FourBytes, t \in FourBytes \cup {<<>>, <<a>>}}
AsMember(v) == Object(<<Member(<<a>>, v)>>)
\* every double of this size
MCMinDecExp == -4
Doubles == {Double(FALSE, bits) : bits \in 0 .. (MaxE + 1) * HiddenBit - 1} \cup {Double(TRUE, bits) : bits \in 0 .. 2}

\* glyphs that mean something to one of the readers, or have such a byte in them
Plain == {<<c>> : c \in {\h01, \h08, Tab, LF, \h20, DoubleQuote, SingleQuote, Comma, \h31, Semicolon, Letter_N, a,
                        Escape, CloseBrace}}
Longer(group) ==
  CASE group = "MONOBYTE" -> {<<\hC3>>}
    [] group = "BIG5"     -> {<<\hA5, Escape>>, <<\hA5, CloseBrace>>}
    [] group \in {"EUC_JP", "EUC_JIS_2004"} -> {<<\h8E, \hA1>>, <<\hA1, \hFE>>, <<\h8F, \hA1, \hFE>>}
    [] group = "EUC_TW"   -> {<<\hA1, \hFE>>, <<\h8E, \hA1, \hA1, \hFE>>}
    [] group \in {"EUC_CN", "EUC_KR"}   -> {<<\hA1, \hFE>>}
    [] group \in {"GBK", "JOHAB"} -> {<<\h88, Escape>>, <<\hAA, CloseBrace>>}
    [] group = "GB18030"  -> {<<\h88, Escape>>, <<\h81, \h30, \h81, \h30>>}
    [] group = "MULE_INTERNAL" -> {<<\h81, \hA0>>, <<\h9C, \hF0, \hA0, \hA0>>}
    [] group \in {"SJIS", "SHIFT_JIS_2004"} -> {<<\h83, Escape>>, <<\hE0, CloseBrace>>, <<\hA1>>}
    [] group = "UHC"      -> {<<\h81, a>>, <<\hC7, \hFE>>}
    [] group = "UTF8"     -> {<<\hC3, \hA9>>, <<\hE2, \h82, \hAC>>, <<\hF0, \h9F, \h98, \h80>>}
PqStrings(n, group) == {String(FlattenSeq(s)) : s \in UpTo(n, Plain \cup Longer(group))}
Rows(n, group) == {Array(<<s>>) : s \in PqStrings(n, group) \cup {Null}}
                    \cup {Array(<<s, t>>) : s \in PqStrings(1, group) \cup {Null}, t \in PqStrings(1, group) \cup {Null}}
PqSamples(f, group) ==
  CASE f \in {"stream_to", "stream_from", "tablewriter", "tablereader"} -> Rows(2, group)
    [] f \in {"stream_copied", "table_copied"} -> {Array(rows) : rows \in UpTo(2, {Array(<<s>>) : s \in PqStrings(1, group)})}
    [] f = "array" -> Rows(3, group) \cup {Array(<<>>)} \cup {Array(<<r, r>>) : r \in Rows(1, group)}
    [] group # "UTF8" -> {}
    [] f \in IntTypes /\ group = "UTF8" -> {Integer(n) : n \in limits_min(f) .. limits_max(f)}
    [] f = "bool" /\ group = "UTF8"     -> {Boolean(TRUE), Boolean(FALSE)}
    [] f = "special" /\ group = "UTF8"  -> {Float(name) : name \in {"nan", "inf", "-inf"}}

\* documents that share some of their keys, and keys that need an escape
DocKeys == {<<>>, ZeroToken, <<\h31>>, <<a>>, <<Slash>>, <<Tilde>>, <<Tilde, \h31>>, <<a, Slash>>}
Leafs == {Null, Unsigned(1), Integer(-1), Unsigned(Umax(8)), Float(1), Array(<<>>), Object(<<>>)}
Shallow == Leafs \cup {Array(s) : s \in UpTo(2, {Null, Unsigned(1), Integer(2)})}
              \cup {Object(<<Member(k, v)>>) : k \in DocKeys, v \in {Null, Unsigned(1)}}
PairOf(x, y) == Object(Put(Put(<<>>, x.key, x.value), y.key, y.value))
Docs == Shallow \cup {Array(s) : s \in [1 .. 3 -> {Unsigned(1), Integer(2), Object(<<Member(<<a>>, Null)>>)}]}
          \cup {Array(<<x, y>>) : x \in Shallow, y \in {Null, Array(<<Null>>)}}
          \cup {Object(<<Member(k, v)>>) : k \in {ZeroToken, <<a>>, <<Tilde, \h31>>}, v \in Shallow}
          \cup {PairOf(Member(k, x), Member(l, y)) : k \in DocKeys, l \in {<<a>>, <<\h31>>}, x \in {Unsigned(1), Array(<<Null, Null>>)}, y \in Leafs}
          \cup {Array([k \in 1 .. 12 |-> Unsigned(k)])}
Mergeable(j) == \A v \in Within(j) : Is(v, "object") => \A k \in DOMAIN v.object : ~Is(v.object[k].value, "null")
PatchSamples(f) ==
  CASE f = "patch"   -> {Change(s, t) : s \in Docs, t \in Docs}
    [] f = "merge"   -> {Change(s, t) : s \in Docs, t \in {t \in Docs : Mergeable(t)}}
    [] f = "flat"    -> Docs
    [] f = "pointer" -> {[pointer |-> ptr] : ptr \in UpTo(3, DocKeys)}
PathBytes == {Slash, Tilde, \h30, \h31, a}
Paths == {<<>>, <<Slash>>, <<Slash, a>>, <<Slash, \h30>>, <<Slash, \h31>>, <<Slash, \h2D>>, <<Slash, \h30, \h30>>,
          <<Slash, a, Slash, a>>, <<Slash, a, Slash, \h30>>, <<Slash, a, Slash, \h2D, Slash, \h31>>, <<a>>, <<Slash, Tilde>>}
Bases == {Null, Unsigned(1), Array(<<Unsigned(1), Null>>), Object(<<Member(<<a>>, Array(<<Null, Unsigned(2)>>))>>),
          Object(<<Member(<<a>>, Object(<<Member(<<a>>, Unsigned(2))>>))>>)}
Operations == {AddOp(p, Unsigned(3)) : p \in Paths} \cup {RemoveOp(p) : p \in Paths} \cup {ReplaceOp(p, Null) : p \in Paths}
                \cup {[op |-> o, path |-> p, from |-> q] : o \in {"move", "copy"}, p \in Paths, q \in Paths}
                \cup {[op |-> "test", path |-> p, value |-> v] : p \in Paths, v \in {Null, Unsigned(1), Integer(1)}}
                \cup {[op |-> o, path |-> <<>>] : o \in {"add", "move", "other"}}
Simple == {AddOp(p, Unsigned(3)) : p \in Paths} \cup {RemoveOp(p) : p \in Paths}
            \cup {[op |-> "move", path |-> p, from |-> <<Slash, a>>] : p \in Paths}
PatchForeign(f) ==
  CASE f = "patch"   -> {<<AddOp(<<>>, b)>> \o s : b \in Bases, s \in [1 .. 1 -> Operations] \cup [1 .. 2 -> Simple]}
    [] f = "merge"   -> Docs
    [] f = "flat"    -> {PairOf(Member(p, x), Member(q, y)) : p \in Paths, q \in Paths, x \in {Null, Unsigned(1)}, y \in Leafs}
    [] f = "pointer" -> UpTo(5, PathBytes)

MCSamples(f, group) ==
  CASE f = "double" -> Doubles
    [] f \in PqFormats -> PqSamples(f, group)
    [] f \in PatchFormats -> PatchSamples(f)
    [] f = "bson" -> {AsMember(v) : v \in Values \ {Float(nan_or_inf)}} \cup {Null, Object(<<Member(<<0>>, Null)>>)}
    [] IsText(f)  -> (Numbers \cup Containers \cup {Null, Boolean(TRUE), Boolean(FALSE)})
                       \cup {String(s) : s \in UpTo(IF f \in {"text", "text_replace"} THEN 3 ELSE 2, Boundaries)}
                       \cup {String(s) : s \in Strained}
                       \cup {Object(<<Member(s, Null)>>) : s \in UpTo(1, Boundaries)}
    [] OTHER      -> Values \ {Float(nan_or_inf)}

Bytes(s) == [i \in DOMAIN s |-> Unit(s[i], 1, FALSE)]
CborBytes    == {\h00, \h18, \h38, \h60, \h61, \h7F, \h80, \h81, \h9F, \hA1, \hBF, \hF6, \hF9, \hFF}
MsgPackBytes == {\h00, \h80, \h81, \h90, \h91, \hA0, \hA1, \hC0, \hC1, \hCC, \hD0, \hD9, \hE0, \hFF}
UbjsonBytes  == {Ch.array, Ch.end_array, Ch.object, Ch.end_object, Ch.type, Ch.count, Ch.N, Ch.i, Ch.U,
                 Ch.C, Ch.Z, \h01}
NumberBytes  == {\h30, \h31, \h39, \h2D, \h2B, \h2E, \h65}
EscapeCodes  == {\h0000, \h007F, \h0080, \h07FF, \h0800, \hD7FF, \hD800, \hDBFF, \hDC00, \hDFFF, \hE000, \hFFFF}
Quoted(s)    == <<Quote>> \o s \o <<Quote>>
Texts ==
  {Quoted(s) : s \in UpTo(3, Boundaries)} \cup UpTo(5, NumberBytes)
    \cup {Quoted(u_escape(c) \o t) : c \in EscapeCodes, t \in {<<>>, <<a>>} \cup {u_escape(d) : d \in EscapeCodes}}
    \cup {b \o <<Blank, \h31>> \o t : b \in {<<>>, byte_order_mark, <<\hEF, \hBB>>}, t \in {<<>>, <<0, a>>, <<Newline>>, <<a>>}}
MCForeign(f) ==
  CASE f = "cbor"    -> {Bytes(s) : s \in UpTo(3, CborBytes)}
    [] f = "msgpack" -> {Bytes(s) : s \in UpTo(3, MsgPackBytes)}
    [] f = "ubjson"  -> {Bytes(s) : s \in UpTo(4, UbjsonBytes)}
    [] f = "text"    -> Texts
    [] f \in PatchFormats -> PatchForeign(f)
    [] f \in IntTypes -> UpTo(4, {\h2D, \h30, \h31, \h32, \h36, \h39, a})
    [] f = "bool"    -> UpTo(2, {\h30, \h31, \h66, \h54, a}) \cup {to_string_bool(b) : b \in BOOLEAN}
                          \cup {Upper(to_string_bool(b)) : b \in BOOLEAN}
    [] f = "special" -> {nan, Upper(nan), inf, Upper(inf), infinity, Upper(infinity), <<Minus>> \o inf, <<Minus>> \o nan}
    [] OTHER         -> {}
=============================================================================
