------------------------------- MODULE Grisu -------------------------------
(***************************************************************************)
(* json.hpp, dtoa_impl: the Grisu2 algorithm that dump uses to write a     *)
(* double with few digits, and the layout of those digits (to_chars).      *)
(* A diyfp is f * 2^e with q = Precision bits (64 in the code), and a      *)
(* number has Digits2 bits (53), MaxE + 1 exponents (2047) and the bias    *)
(* Bias.  Alpha and Gamma are what the code derives them from:             *)
(* 10 * 2^-Alpha fits q bits, and 2^-Gamma is half of them.                *)
(***************************************************************************)
EXTENDS Integers, Sequences, SequencesExt

CONSTANTS Digits2, MaxE, Bias, Precision,
          MinDecExp,    \* the decimal exponent of the first cached power
          DecStep,      \* and between one and the next
          CachedPowers  \* how many there are

ASSUME GrisuAssumption == Precision >= Digits2 + 3 /\ Precision % 2 = 0

Half  == Precision \div 2
Alpha == 4 - Precision
Gamma == -Half
HiddenBit == 2 ^ (Digits2 - 1)
\* numeric_limits::digits10 and max_digits10 (log10(2) is 0.30103)
Digits10    == ((Digits2 - 1) * 30103) \div 100000
MaxDigits10 == 2 + (Digits2 * 30103) \div 100000
MinExp      == -4

diyfp(f, e) == [f |-> f, e |-> e]
sub(x, y)   == diyfp(x.f - y.f, x.e)

(***************************************************************************)
(* The upper q bits of a product, rounded, from products of halves.        *)
(***************************************************************************)
lo(n) == n % 2 ^ Half
hi(n) == n \div 2 ^ Half
mul(x, y) ==
  LET p0 == lo(x.f) * lo(y.f)
      p1 == lo(x.f) * hi(y.f)
      p2 == hi(x.f) * lo(y.f)
      p3 == hi(x.f) * hi(y.f)
      Q  == hi(p0) + lo(p1) + lo(p2) + 2 ^ (Half - 1)
  IN  diyfp(p3 + hi(p2) + hi(p1) + hi(Q), x.e + y.e + Precision)

RECURSIVE normalize(_)
normalize(x) ==
  IF x.f >= 2 ^ (Precision - 1) THEN x ELSE normalize(diyfp(2 * x.f, x.e - 1))
normalize_to(x, target) == diyfp(x.f * 2 ^ (x.e - target), target)

(***************************************************************************)
(* compute_boundaries: v and the points halfway to its neighbours.         *)
(***************************************************************************)
exponent_bits(bits) == bits \div HiddenBit
fraction_bits(bits) == bits % HiddenBit
kMinExp == 1 - Bias
value_of(bits) ==
  IF exponent_bits(bits) = 0 THEN diyfp(fraction_bits(bits), kMinExp)
  ELSE diyfp(fraction_bits(bits) + HiddenBit, exponent_bits(bits) - Bias)
m_plus(bits) == LET v == value_of(bits) IN diyfp(2 * v.f + 1, v.e - 1)

m_minus(bits) ==
  LET v == value_of(bits)
  IN  IF fraction_bits(bits) = 0 /\ exponent_bits(bits) > 1 THEN diyfp(4 * v.f - 1, v.e - 2)
      ELSE diyfp(2 * v.f - 1, v.e - 1)

compute_boundaries(bits) ==
  LET plus == normalize(m_plus(bits))
  IN  [w |-> normalize(value_of(bits)), minus |-> normalize_to(m_minus(bits), plus.e), plus |-> plus]

(***************************************************************************)
(* The cached powers, 10^k in q bits, rounded: what the code's table of 79 *)
(* holds for 64 bits.  Below one, 1 / n is divided out bit by bit.         *)
(***************************************************************************)
RECURSIVE quotient(_, _, _, _)
quotient(f, rest, t, n) ==
  LET bit == IF 2 * rest >= n THEN 1 ELSE 0
  IN  IF f < 2 ^ (Precision - 1) THEN quotient(2 * f + bit, 2 * rest - bit * n, t + 1, n)
      ELSE diyfp(f + bit, -t)
halved(n, t) == diyfp((n + 2 ^ (t - 1)) \div 2 ^ t, t)
power(k) ==
  CASE k < 0 -> quotient(0, 1, 0, 10 ^ (-k))
    [] k >= 0 /\ 10 ^ k < 2 ^ Precision -> normalize(diyfp(10 ^ k, 0))
    [] k >= 0 /\ 10 ^ k >= 2 ^ Precision ->
         halved(10 ^ k, CHOOSE t \in 1 .. 31 - Precision :
                          10 ^ k \div 2 ^ t \in 2 ^ (Precision - 1) .. 2 ^ Precision - 1)

\* division of int cuts off towards 0
cut(n, d) == IF n < 0 THEN -((-n) \div d) ELSE n \div d
get_cached_power_for_binary_exponent(e) ==
  LET f     == Alpha - e - 1
      k     == cut(f * 78913, 2 ^ 18) + (IF f > 0 THEN 1 ELSE 0)
      index == cut(k - MinDecExp + DecStep - 1, DecStep)
      dec   == MinDecExp + index * DecStep
      c     == power(dec)
  IN  [ok |-> index \in 0 .. CachedPowers - 1 /\ c.e + e + Precision \in Alpha .. Gamma, c |-> c, k |-> dec]

(***************************************************************************)
(* Digit generation.  g is the state of grisu2_digit_gen: the digits so    *)
(* far, what is left of M+, and its distance to w and to M-.  ok turns     *)
(* FALSE where an assertion of the code fails.                             *)
(***************************************************************************)
find_largest_pow10(n) == CHOOSE k \in 1 .. 10 : n < 10 ^ k /\ (k = 1 \/ n >= 10 ^ (k - 1))

\* take the last digit down while that brings the number closer to w
RECURSIVE grisu2_round(_, _, _)
grisu2_round(g, rest, ten_k) ==
  IF /\ rest < g.dist
     /\ g.delta - rest >= ten_k
     /\ rest + ten_k < g.dist \/ g.dist - rest > rest + ten_k - g.dist
    THEN grisu2_round([g EXCEPT !.buffer[Len(g.buffer)] = @ - 1, !.ok = @ /\ Last(g.buffer) # 0],
                      rest + ten_k, ten_k)
    ELSE g

RECURSIVE integral(_, _, _), fractional(_, _)
\* n digits of p1 are left, p2 is what follows the point
integral(g, n, one) ==
  LET pow10 == 10 ^ (n - 1)
      next  == [g EXCEPT !.buffer = Append(@, g.p1 \div pow10), !.p1 = g.p1 % pow10,
                         !.ok = @ /\ g.p1 \div pow10 <= 9]
      rest  == next.p1 * one + g.p2
  IN  IF n = 0 THEN fractional([g EXCEPT !.ok = @ /\ g.p2 > g.delta], one)
      ELSE IF rest <= g.delta
        THEN grisu2_round([next EXCEPT !.exponent = @ + n - 1], rest, pow10 * one)
        ELSE integral(next, n - 1, one)
fractional(g, one) ==
  LET p2   == 10 * g.p2
      next == [g EXCEPT !.buffer = Append(@, p2 \div one), !.p2 = p2 % one, !.exponent = @ - 1,
                        !.delta = 10 * @, !.dist = 10 * @,
                        !.ok = @ /\ p2 < 2 ^ Precision /\ p2 \div one <= 9]
  IN  IF next.p2 <= next.delta THEN grisu2_round(next, next.p2, one) ELSE fractional(next, one)

grisu2_digit_gen(M_minus, w, M_plus, exponent, ok) ==
  LET one == 2 ^ (-M_plus.e)
      p1  == M_plus.f \div one
  IN  integral([buffer |-> <<>>, p1 |-> p1, p2 |-> M_plus.f % one, exponent |-> exponent,
                delta |-> sub(M_plus, M_minus).f, dist |-> sub(M_plus, w).f, ok |-> ok /\ p1 > 0],
               find_largest_pow10(p1), one)

\* products are off by less than one: the bounds are moved inwards by as much
inwards(x, by) == diyfp(x.f + by, x.e)
grisu2(bits) ==
  LET b      == compute_boundaries(bits)
      cached == get_cached_power_for_binary_exponent(b.plus.e)
  IN  grisu2_digit_gen(inwards(mul(b.minus, cached.c), 1), mul(b.w, cached.c),
                       inwards(mul(b.plus, cached.c), -1), -cached.k, cached.ok)

(***************************************************************************)
(* to_chars: the layout, as bytes.                                         *)
(***************************************************************************)
Zeros(n)  == [k \in 1 .. n |-> \h30]
Ascii(ds) == [k \in DOMAIN ds |-> \h30 + ds[k]]
Point == <<\h2E>>
append_exponent(e) ==
  LET k == IF e < 0 THEN -e ELSE e
      digits == IF k < 100 THEN <<k \div 10, k % 10>> ELSE <<k \div 100, (k \div 10) % 10, k % 10>>
  IN  <<IF e < 0 THEN \h2D ELSE \h2B>> \o Ascii(digits)
format_buffer(buf, exponent) ==
  LET k == Len(buf)
      n == k + exponent
      digits == Ascii(buf)
  IN  IF k <= n /\ n <= Digits10 THEN digits \o Zeros(n - k) \o Point \o Zeros(1)
      ELSE IF 0 < n /\ n <= Digits10 THEN SubSeq(digits, 1, n) \o Point \o SubSeq(digits, n + 1, k)
      ELSE IF MinExp < n /\ n <= 0 THEN Zeros(1) \o Point \o Zeros(-n) \o digits
      ELSE (IF k = 1 THEN digits ELSE <<digits[1]>> \o Point \o Tail(digits))
             \o <<\h65>> \o append_exponent(n - 1)

to_chars(negative, bits) ==
  LET sign == IF negative THEN <<\h2D>> ELSE <<>>
      g    == grisu2(bits)
  IN  IF bits = 0 THEN [ok |-> TRUE, out |-> sign \o Zeros(1) \o Point \o Zeros(1)]
      ELSE [ok |-> g.ok /\ Len(g.buffer) <= MaxDigits10, out |-> sign \o format_buffer(g.buffer, g.exponent)]

(***************************************************************************)
(* What strtod makes of a text that says n * 10^x: this number and no      *)
(* other if it lies between the boundaries (compared without rounding).    *)
(***************************************************************************)
Above(n, x, m) ==
  LET a == n * 5 ^ (IF x > 0 THEN x ELSE 0)
      b == m.f * 5 ^ (IF x < 0 THEN -x ELSE 0)
      s == x - m.e
  IN  IF s >= 0 THEN (IF s > 30 THEN a > 0 ELSE a > b \div 2 ^ s)
      ELSE (IF s < -30 THEN FALSE ELSE (a - 1) \div 2 ^ (-s) >= b)
Below(n, x, m) ==
  LET a == n * 5 ^ (IF x > 0 THEN x ELSE 0)
      b == m.f * 5 ^ (IF x < 0 THEN -x ELSE 0)
      s == x - m.e
  IN  IF s >= 0 THEN (IF s > 30 THEN a = 0 ELSE a <= (b - 1) \div 2 ^ s)
      ELSE (IF s < -30 THEN TRUE ELSE a \div 2 ^ (-s) < b)
Identifies(n, x, bits) ==
  IF bits = 0 THEN n = 0 ELSE n > 0 /\ Above(n, x, m_minus(bits)) /\ Below(n, x, m_plus(bits))
=============================================================================
