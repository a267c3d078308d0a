----------------------------- MODULE Encodings -----------------------------
(***************************************************************************)
(* encodings.cxx: where the glyphs of a text end, in each of libpqxx's     *)
(* encoding groups.  A text is the sequence of its bytes, and a position   *)
(* counts from 1.  A group is given by the forms of its glyphs of several  *)
(* bytes: for each byte of a form, the values it may have.                 *)
(***************************************************************************)
EXTENDS Readers, Integers, Sequences, SequencesExt

Groups == {"MONOBYTE", "BIG5", "EUC_CN", "EUC_JP", "EUC_JIS_2004", "EUC_KR", "EUC_TW", "GB18030", "GBK",
           "JOHAB", "MULE_INTERNAL", "SJIS", "SHIFT_JIS_2004", "UHC", "UTF8"}

Ascii7 == \h00 .. \h7F
High   == \h80 .. \hFF
Euc    == \hA1 .. \hFE
Wide   == (\h40 .. \hFE) \ {\h7F}
Follow == \h80 .. \hBF

\* the forms shared by EUC_JP and EUC_JIS_2004, and by SJIS and SHIFT_JIS_2004
next_seq_for_euc_jplike == {<<{\h8E}, Euc>>, <<Euc, Euc>>, <<{\h8F}, Euc, Euc>>}
next_seq_for_sjislike   == {<<(\h81 .. \h9F) \cup (\hE0 .. \hFC), (\h40 .. \hFC) \ {\h7F}>>}
gbk_forms ==
  LET low == (\h40 .. \hA0) \ {\h7F}
  IN  {<<\hA1 .. \hA9, Euc>>, <<\hB0 .. \hF7, Euc>>, <<\hAA .. \hAF, Euc>>, <<\hF8 .. \hFE, Euc>>,
       <<\h81 .. \hA0, Wide>>, <<\hAA .. \hFE, low>>, <<\hA8 .. \hA9, low>>, <<\hA1 .. \hA7, low>>}
\* the scanner of JOHAB takes the first byte for the second one as well
johab_forms == {<<\h84 .. \hD3, \h00 .. \hFF>>, <<(\hD8 .. \hDE) \cup (\hE0 .. \hF9), \h00 .. \hFF>>}
\* the longest ones of MULE_INTERNAL are told by the byte behind them
mule_forms ==
  LET rest == \hA0 .. \hFF
      any  == \h00 .. \hFF
  IN  {<<\h81 .. \h8D, rest>>, <<{\h9A}, \hA0 .. \hDF, any>>, <<{\h9B}, \hE0 .. \hEF, any>>,
       <<\h90 .. \h99, rest, any>>, <<{\h9C}, \hF0 .. \hF4, rest, any, rest>>,
       <<{\h9D}, \hF5 .. \hFE, rest, any, rest>>}
utf8_forms == {<<\hC0 .. \hDF, Follow>>, <<\hE0 .. \hEF, Follow, Follow>>,
               <<\hF0 .. \hF7, Follow, Follow, Follow>>}
uhc_forms  == {<<\h80 .. \hC6, (\h41 .. \h5A) \cup (\h61 .. \h7A) \cup (\h80 .. \hFE)>>, <<\hC7 .. \hFE, Euc>>}
\* the scanner of GB18030 has the two kinds of first byte the wrong way round
gb18030_forms == {<<Ascii7, Wide>>, <<Ascii7, \h30 .. \h39, \h81 .. \hFE, \h30 .. \h39>>}

glyph_forms(group) ==
  CASE group = "MONOBYTE" -> {}
    [] group = "BIG5"     -> {<<\h81 .. \hFE, (\h40 .. \h7E) \cup Euc>>}
    [] group = "EUC_CN"   -> {<<\hA1 .. \hF7, Euc>>}
    [] group \in {"EUC_JP", "EUC_JIS_2004"}   -> next_seq_for_euc_jplike
    [] group = "EUC_KR"   -> {<<Euc, Euc>>}
    [] group = "EUC_TW"   -> {<<Euc, Euc>>, <<{\h8E}, \hA1 .. \hB0, Euc, Euc>>}
    [] group = "GB18030"  -> gb18030_forms
    [] group = "GBK"      -> gbk_forms
    [] group = "JOHAB"    -> johab_forms
    [] group = "MULE_INTERNAL" -> mule_forms
    [] group \in {"SJIS", "SHIFT_JIS_2004"}   -> next_seq_for_sjislike
    [] group = "UHC"      -> uhc_forms
    [] group = "UTF8"     -> utf8_forms
single_bytes(group) ==
  CASE group = "MONOBYTE" -> \h00 .. \hFF
    [] group = "GB18030"  -> High
    [] group \in {"SJIS", "SHIFT_JIS_2004"} -> Ascii7 \cup (\hA1 .. \hDF)
    [] OTHER              -> Ascii7

(***************************************************************************)
(* glyph_scanner<group>::call: the position after the glyph that begins at *)
(* i, or an argument_error.                                                *)
(***************************************************************************)
ArgumentError == Fail(1)
glyph_scanner(group, in, i) ==
  LET matches(form) == \A k \in DOMAIN form : i + k - 1 \in DOMAIN in /\ in[i + k - 1] \in form[k]
      found == {form \in glyph_forms(group) : matches(form)}
      length == Min({Len(CHOOSE form \in found : TRUE), 4})
  IN  IF in[i] \in single_bytes(group) THEN Good(1, i + 1)
      ELSE IF found # {} THEN Good(length, i + length)
      ELSE ArgumentError

RECURSIVE find_from(_, _, _, _)
find_from(group, haystack, needle, here) ==
  IF here > Len(haystack) THEN Good(FALSE, Len(haystack) + 1)
  ELSE IF haystack[here] = needle THEN Good(TRUE, here)
  ELSE Bind(glyph_scanner(group, haystack, here), LAMBDA n, next : find_from(group, haystack, needle, next))
find_with_encoding(group, haystack, needle, start) == find_from(group, haystack, needle, start)

(***************************************************************************)
(* PostgreSQL (external): the length of a glyph by its first bytes.        *)
(***************************************************************************)
pg_encoding_mblen(group, in, i) ==
  LET b == in[i]
  IN  CASE b \in Ascii7 \/ group = "MONOBYTE" -> 1
        [] b \in High /\ group \in {"EUC_JP", "EUC_JIS_2004"} -> IF b = \h8F THEN 3 ELSE 2
        [] b \in High /\ group = "EUC_TW" -> IF b = \h8E THEN 4 ELSE 2
        [] b \in High /\ group \in {"SJIS", "SHIFT_JIS_2004"} -> IF b \in \hA1 .. \hDF THEN 1 ELSE 2
        [] b \in High /\ group = "UTF8" -> IF b < \hE0 THEN 2 ELSE IF b < \hF0 THEN 3 ELSE 4
        [] b \in High /\ group = "MULE_INTERNAL" -> IF b < \h90 THEN 2 ELSE IF b < \h9C THEN 3 ELSE 4
        [] OTHER -> 2
=============================================================================
