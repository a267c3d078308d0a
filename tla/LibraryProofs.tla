--------------------------- MODULE LibraryProofs ---------------------------
(***************************************************************************)
(* Proofs about Results, Retries and Notices: what the rows and iterators  *)
(* of a result stand for, what is made of a result that is an error, and   *)
(* whom a notification is given to.                                        *)
(*                                                                         *)
(* For Results, the row that is looked at lies within its result, and an   *)
(* iterator that is k steps from where it began stands at the k-th row or  *)
(* column of its range, from the front or from the back.  The one number   *)
(* that needs care is the column in front of the first, which a reverse    *)
(* iterator has at the end: -1, or the greatest row_size_type, depending   *)
(* on the way it went there.                                               *)
(*                                                                         *)
(* For Notices, the multimap is in order, and a call of get_notifs stands  *)
(* between the receivers it has called and those it has to call, wherever  *)
(* others are inserted or erased.                                          *)
(*                                                                         *)
(* For Retries, a call that is not over has stored nothing, and its hooks  *)
(* are one behind its runs.                                                *)
(***************************************************************************)
EXTENDS Notices, Results, Retries, SequenceTheorems, NaturalsInduction, WellFoundedInduction, TLAPS

-----------------------------------------------------------------------------
(* Numbers *)

LEMMA WrapAround ==
    ASSUME NEW x \in Int
    PROVE  /\ 0 <= x /\ x < Wrap => x % Wrap = x
           /\ -Wrap <= x /\ x < 0 => x % Wrap = x + Wrap
           /\ Wrap <= x /\ x < 2 * Wrap => x % Wrap = x - Wrap
<1>1. Wrap \in Nat /\ Wrap > 0
  BY ResultsAssumption
<1>2. 0 <= x /\ x < Wrap => x % Wrap = x
  BY <1>1
<1>3. -Wrap <= x /\ x < 0 => x % Wrap = x + Wrap
  BY <1>1
<1>4. Wrap <= x /\ x < 2 * Wrap => x % Wrap = x - Wrap
  BY <1>1
<1> QED BY <1>2, <1>3, <1>4

LEMMA Bounds ==
    /\ MaxColumns \in Nat /\ Wrap \in Nat /\ Wrap > 2 * MaxColumns + 2
    /\ Wrap \div 2 \in Int /\ Wrap \div 2 > MaxColumns /\ Wrap \div 2 <= Wrap - MaxColumns - 1
  BY ResultsAssumption

LEMMA MinIs ==
    ASSUME NEW S \in SUBSET Nat, S # {}
    PROVE  Min(S) \in S /\ \A x \in S : Min(S) <= x
<1>1. \A i, j \in Nat : i < j => <<i, j>> \in OpToRel(<, Nat)
  BY DEF OpToRel
<1>2. PICK x \in S : \A y \in S : ~ (<<y, x>> \in OpToRel(<, Nat))
  BY NatLessThanWellFounded, WFMin
<1>3. \A y \in S : ~ (y < x)
  BY <1>1, <1>2
<1>4. \A i, j \in Nat : ~ (i < j) => j <= i
  OBVIOUS
<1>5. \A y \in S : x <= y
  BY <1>3, <1>4
<1> QED BY <1>5 DEF Min

-----------------------------------------------------------------------------
(* Results, rows and walks *)

Handles == [data : {0, 1, 2}, enc : Encodings \cup {MONOBYTE}]

Received(p) == p.names \in Seq(Names) /\ Len(p.names) <= MaxColumns /\ p.rows \in Nat

BothReceived == Received(received[1]) /\ Received(received[2])

InRange(R) ==
    /\ R \in [home : Handles, index : Int, begin : Nat, end : Nat]
    /\ R.begin <= R.end /\ R.end <= columns(R.home)

\* The length of a walk over R or its result, where it stands, as a row or a column
\* number that a reverse walk leaves at -1, and how an iterator represents that: its
\* column may have gone around once.
Extent(w, R) == IF w.i.of = "rows" THEN size(R.home) ELSE row_size(R)
Begins(w, R) == IF w.i.of = "rows" THEN 0 ELSE R.begin
Ends(w, R) == IF w.i.of = "rows" THEN size(R.home) ELSE R.end
Stands(w, R) == IF w.back = TRUE THEN Ends(w, R) - 1 - w.k ELSE Begins(w, R) + w.k

OnRows(i, R, place) == i.of = "rows" /\ i.home = R.home /\ i.index = place
OnFields(i, R, place) ==
    i.of = "fields" /\ i.home = R.home /\ i.index = R.index /\ (i.col = place \/ i.col = place + Wrap)

Iterators == [of : {"rows", "fields"}, home : Handles, index : Int, col : Int]

Along(w, R) ==
    /\ w \in [i : Iterators, back : BOOLEAN, k : Nat] /\ w.k <= Extent(w, R)
    /\ OnRows(w.i, R, Stands(w, R)) \/ OnFields(w.i, R, Stands(w, R))

ResultsInvariant ==
    /\ BothReceived
    /\ results \in [1 .. 2 -> Handles]
    /\ InRange(row)
    /\ Along(it, row) /\ Along(mark, row)
    /\ it.i.of = mark.i.of /\ it.back = mark.back

LEMMA Sizes ==
    ASSUME BothReceived, NEW r \in Handles
    PROVE  columns(r) \in Nat /\ columns(r) <= MaxColumns /\ size(r) \in Nat
<1>1. CASE r.data = 0
  BY <1>1, Bounds DEF columns, size, NoData
<1>2. CASE r.data # 0
  <2>1. Received(received[r.data])
    BY <1>2 DEF Handles, BothReceived
  <2>2. Len(received[r.data].names) \in Nat
    BY <2>1 DEF Received
  <2> QED BY <1>2, <2>1, <2>2 DEF columns, size, NoData, Received
<1> QED BY <1>1, <1>2

LEMMA ExtentIsLength == ASSUME NEW w PROVE Length(w) = Extent(w, row)
  BY DEF Length, Extent

\* Rows and columns of a walk are numbers, and few enough for Wrap.
LEMMA Measured ==
    ASSUME BothReceived, NEW R, InRange(R), NEW w, Along(w, R)
    PROVE  /\ Begins(w, R) \in Nat /\ Ends(w, R) \in Nat /\ Begins(w, R) <= Ends(w, R)
           /\ Extent(w, R) = Ends(w, R) - Begins(w, R) /\ Stands(w, R) \in Int
           /\ w.i.of = "fields" => Ends(w, R) <= MaxColumns
           /\ w.k \in Nat /\ w.k <= Extent(w, R) /\ (w.back = TRUE \/ w.back = FALSE)
           /\ w.i \in Iterators
<1>1. /\ size(R.home) \in Nat /\ columns(R.home) \in Nat /\ columns(R.home) <= MaxColumns
      /\ R.begin \in Nat /\ R.end \in Nat /\ R.begin <= R.end /\ R.end <= columns(R.home)
  BY Sizes DEF InRange
<1>2. /\ w.i \in Iterators /\ w.k \in Nat /\ w.k <= Extent(w, R) /\ (w.back = TRUE \/ w.back = FALSE)
      /\ w.i.of = "rows" \/ w.i.of = "fields"
  BY DEF Along, Iterators
<1>3. /\ Begins(w, R) \in Nat /\ Ends(w, R) \in Nat /\ Begins(w, R) <= Ends(w, R)
      /\ Extent(w, R) = Ends(w, R) - Begins(w, R)
      /\ w.i.of = "fields" => Ends(w, R) <= MaxColumns
  BY <1>1, <1>2, Bounds DEF Begins, Ends, Extent, row_size
<1>4. Stands(w, R) \in Int
  BY <1>2, <1>3 DEF Stands
<1> QED BY <1>2, <1>3, <1>4

-----------------------------------------------------------------------------
(* Walks begin where they should *)

LEMMA WalksBegin ==
    ASSUME BothReceived, NEW R, InRange(R), NEW w \in Starts(R)
    PROVE  Along(w, R)
<1>1. /\ R.home \in Handles /\ R.index \in Int /\ R.begin \in Nat /\ R.end \in Nat
      /\ R.begin <= R.end /\ size(R.home) \in Nat
  BY Sizes DEF InRange
<1>2. \A i \in Iterators, place \in Int :
          /\ i.of = "rows" => decrement(i) = [i EXCEPT !.index = @ - 1] /\ decrement(i) \in Iterators
          /\ i.of = "fields" => decrement(i) = [i EXCEPT !.col = @ - 1] /\ decrement(i) \in Iterators
  BY DEF decrement, Iterators
<1>3. CASE w = [i |-> At("rows", R.home, 0, 0), back |-> FALSE, k |-> 0]
  BY <1>1, <1>3 DEF At, Iterators, Along, Extent, Stands, Begins, OnRows
<1>4. CASE w = [i |-> reverse(At("rows", R.home, size(R.home), 0)), back |-> TRUE, k |-> 0]
  <2>1. reverse(At("rows", R.home, size(R.home), 0)) =
            [of |-> "rows", home |-> R.home, index |-> size(R.home) - 1, col |-> 0]
    BY <1>1 DEF At, reverse, decrement
  <2>2. w.i = [of |-> "rows", home |-> R.home, index |-> size(R.home) - 1, col |-> 0]
    BY <1>4, <2>1
  <2>3. w.k = 0 /\ w.back = TRUE /\ w \in [i : Iterators, back : BOOLEAN, k : Nat]
    BY <1>1, <1>4, <2>2 DEF Iterators
  <2> QED BY <1>1, <2>2, <2>3 DEF Along, Extent, Stands, Ends, OnRows
<1>5. CASE w = [i |-> At("fields", R.home, R.index, R.begin), back |-> FALSE, k |-> 0]
  BY <1>1, <1>5 DEF At, Iterators, Along, Extent, Stands, Begins, OnFields, row_size
<1>6. CASE w = [i |-> reverse(At("fields", R.home, R.index, R.end)), back |-> TRUE, k |-> 0]
  <2>1. reverse(At("fields", R.home, R.index, R.end)) =
            [of |-> "fields", home |-> R.home, index |-> R.index, col |-> R.end - 1]
    BY <1>1 DEF At, reverse, decrement
  <2>2. w.i = [of |-> "fields", home |-> R.home, index |-> R.index, col |-> R.end - 1]
    BY <1>6, <2>1
  <2>3. w.k = 0 /\ w.back = TRUE /\ w \in [i : Iterators, back : BOOLEAN, k : Nat]
    BY <1>1, <1>6, <2>2 DEF Iterators
  <2> QED BY <1>1, <2>2, <2>3 DEF Along, Extent, Stands, Ends, OnFields, row_size
<1> QED BY <1>3, <1>4, <1>5, <1>6 DEF Starts

-----------------------------------------------------------------------------
(* Ways to go *)

\* What takes an iterator of rows n rows on.
LEMMA RowSteps ==
    ASSUME NEW i \in Iterators, i.of = "rows"
    PROVE  /\ \A n \in Int :
                  /\ AdvanceBy(i, n) \in Iterators /\ OnRows(AdvanceBy(i, n), i, i.index + n)
                  /\ plus(i, n) \in Iterators /\ OnRows(plus(i, n), i, i.index + n)
           /\ increment(i) \in Iterators /\ OnRows(increment(i), i, i.index + 1)
           /\ decrement(i) \in Iterators /\ OnRows(decrement(i), i, i.index - 1)
  BY DEF AdvanceBy, plus, increment, decrement, At, Iterators, OnRows

LEMMA FieldSteps ==
    ASSUME NEW i \in Iterators, i.of = "fields"
    PROVE  /\ \A n \in Int : /\ AdvanceBy(i, n) = [i EXCEPT !.col = (i.col + n) % Wrap]
                             /\ plus(i, n) = [i EXCEPT !.col = ((i.col % Wrap) + n) % Wrap]
           /\ increment(i) = [i EXCEPT !.col = i.col + 1]
           /\ decrement(i) = [i EXCEPT !.col = i.col - 1]
<1>1. i = [of |-> "fields", home |-> i.home, index |-> i.index, col |-> i.col]
  BY DEF Iterators
<1> QED BY <1>1 DEF AdvanceBy, plus, increment, decrement, At, col

LEMMA NewColumn ==
    ASSUME NEW i \in Iterators, i.of = "fields", NEW c \in Int
    PROVE  LET j == [i EXCEPT !.col = c]
           IN  j \in Iterators /\ j.of = "fields" /\ j.home = i.home /\ j.index = i.index /\ j.col = c
  BY DEF Iterators

LEMMA ModIsInt == ASSUME NEW x \in Int PROVE x % Wrap \in Int
  BY Bounds

\* A column after a step of n that leads to place.
LEMMA Around ==
    ASSUME NEW c \in Int, NEW p \in Int, NEW n \in Int, c = p \/ c = p + Wrap,
           -1 <= p, p <= MaxColumns, -1 <= p + n, p + n <= MaxColumns
    PROVE  /\ (c + n) % Wrap = p + n \/ (c + n) % Wrap = p + n + Wrap
           /\ 0 <= p => c % Wrap = p
           /\ 0 <= p + n => (p + n) % Wrap = p + n
<1>1. c + n = p + n \/ c + n = p + n + Wrap
  BY Bounds
<1>2. c + n \in Int /\ p + n \in Int
  OBVIOUS
<1>3. 0 <= p + n => (c + n) % Wrap = p + n
  BY <1>1, <1>2, Bounds, WrapAround
<1>4. p + n = -1 => (c + n) % Wrap = p + n + Wrap
  BY <1>1, <1>2, Bounds, WrapAround
<1>5. 0 <= p => c % Wrap = p
  BY Bounds, WrapAround
<1>6. 0 <= p + n => (p + n) % Wrap = p + n
  BY <1>2, Bounds, WrapAround
<1>7. p + n = -1 \/ 0 <= p + n
  OBVIOUS
<1> QED BY <1>3, <1>4, <1>5, <1>6, <1>7

\* A walk that is moved: what remains is where its iterator stands.
LEMMA Moved ==
    ASSUME NEW R, NEW w, Along(w, R), NEW i \in Iterators, i.of = w.i.of, NEW k \in Nat, k <= Extent(w, R),
           NEW place, place = (IF w.back = TRUE THEN Ends(w, R) - 1 - k ELSE Begins(w, R) + k),
           OnRows(i, R, place) \/ OnFields(i, R, place)
    PROVE  Along([w EXCEPT !.i = i, !.k = k], R)
<1> DEFINE v == [w EXCEPT !.i = i, !.k = k]
<1>1. w \in [i : Iterators, back : BOOLEAN, k : Nat]
  BY DEF Along
<1>2. v \in [i : Iterators, back : BOOLEAN, k : Nat] /\ v.i = i /\ v.k = k /\ v.back = w.back
  BY <1>1
<1>3. Extent(v, R) = Extent(w, R) /\ Begins(v, R) = Begins(w, R) /\ Ends(v, R) = Ends(w, R)
  BY <1>2 DEF Extent, Begins, Ends
<1> HIDE DEF v
<1>4. Stands(v, R) = place
  BY <1>2, <1>3 DEF Stands
<1>5. Along(v, R)
  BY <1>2, <1>3, <1>4 DEF Along
<1> QED BY <1>5 DEF v

LEMMA RowWays ==
    ASSUME NEW w, w.i \in Iterators, w.i.of = "rows", w.back = TRUE \/ w.back = FALSE, NEW n \in Int,
           NEW i \in Ways(w, n)
    PROVE  i \in Iterators /\ i.of = "rows" /\ i.home = w.i.home
           /\ i.index = (IF w.back = TRUE THEN w.i.index - n ELSE w.i.index + n)
<1>1. w.i.index \in Int /\ -n \in Int
  BY DEF Iterators
<1>2. CASE i = ByAdvance(w, n)
  <2>1. CASE w.back = TRUE
    <3>1. i = AdvanceBy(w.i, -n)
      BY <1>2, <2>1 DEF ByAdvance
    <3> QED BY <1>1, <2>1, <3>1, RowSteps DEF OnRows
  <2>2. CASE w.back = FALSE
    <3>1. i = AdvanceBy(w.i, n)
      BY <1>2, <2>2 DEF ByAdvance
    <3> QED BY <1>1, <2>2, <3>1, RowSteps DEF OnRows
  <2> QED BY <2>1, <2>2
<1>3. CASE i = ByPlus(w, n)
  <2>1. CASE w.back = TRUE
    <3> DEFINE b == increment(w.i)
               c == plus(b, -n)
    <3>1. i = decrement(c)
      BY <1>3, <2>1 DEF ByPlus, reverse_plus, reverse, base
    <3>2. b \in Iterators /\ b.of = "rows" /\ b.home = w.i.home /\ b.index = w.i.index + 1
      BY <1>1, RowSteps DEF OnRows
    <3> HIDE DEF b
    <3>3. c \in Iterators /\ c.of = "rows" /\ c.home = w.i.home /\ c.index = w.i.index + 1 + (-n)
      BY <1>1, <3>2, RowSteps DEF OnRows
    <3> HIDE DEF c
    <3>4. i \in Iterators /\ i.of = "rows" /\ i.home = w.i.home /\ i.index = w.i.index + 1 + (-n) - 1
      <4>1. decrement(c) \in Iterators /\ OnRows(decrement(c), c, c.index - 1)
        BY <3>3, RowSteps
      <4>2. i \in Iterators /\ i.of = "rows" /\ i.home = c.home /\ i.index = c.index - 1
        BY <3>1, <4>1 DEF OnRows
      <4> QED BY <1>1, <3>3, <4>2
    <3> QED BY <1>1, <2>1, <3>4
  <2>2. CASE w.back = FALSE
    <3>1. i = plus(w.i, n)
      BY <1>3, <2>2 DEF ByPlus
    <3> QED BY <1>1, <2>2, <3>1, RowSteps DEF OnRows
  <2> QED BY <2>1, <2>2
<1>4. CASE n = 1 /\ i = Forth(w)
  BY <1>1, <1>4, RowSteps DEF Forth, OnRows
<1>5. CASE n = -1 /\ i = Back(w)
  BY <1>1, <1>5, RowSteps DEF Back, OnRows
<1> QED BY <1>2, <1>3, <1>4, <1>5 DEF Ways

\* n steps of w lead from column p to q, with what is left or right of the columns.
Leads(w, n, p, q) ==
    /\ q = (IF w.back = TRUE THEN p - n ELSE p + n)
    /\ -1 <= p /\ p <= MaxColumns /\ -1 <= q /\ q <= MaxColumns
    /\ w.back = FALSE => 0 <= p /\ 0 <= q
    /\ w.back = TRUE => p < MaxColumns /\ q < MaxColumns

LEMMA FieldWays ==
    ASSUME NEW w, w.i \in Iterators, w.i.of = "fields", w.back = TRUE \/ w.back = FALSE, NEW n \in Int,
           NEW i \in Ways(w, n), NEW p \in Int, w.i.col = p \/ w.i.col = p + Wrap,
           NEW q \in Int, Leads(w, n, p, q)
    PROVE  i \in Iterators /\ i.of = "fields" /\ i.home = w.i.home /\ i.index = w.i.index
           /\ (i.col = q \/ i.col = q + Wrap)
<1>0. /\ q = (IF w.back = TRUE THEN p - n ELSE p + n)
      /\ -1 <= p /\ p <= MaxColumns /\ -1 <= q /\ q <= MaxColumns
      /\ w.back = FALSE => 0 <= p /\ 0 <= q
      /\ w.back = TRUE => p < MaxColumns /\ q < MaxColumns
  BY DEF Leads
<1>1. w.i.col \in Int /\ -n \in Int /\ Wrap \in Int /\ Wrap > MaxColumns /\ MaxColumns \in Int
  BY Bounds DEF Iterators
<1>2. CASE i = ByAdvance(w, n)
  <2>1. PICK m \in Int : i = AdvanceBy(w.i, m) /\ q = p + m
    BY <1>0, <1>1, <1>2 DEF ByAdvance
  <2>2. i = [w.i EXCEPT !.col = (w.i.col + m) % Wrap]
    BY <2>1, FieldSteps
  <2>3. (w.i.col + m) % Wrap = q \/ (w.i.col + m) % Wrap = q + Wrap
    <3>1. /\ w.i.col \in Int /\ m \in Int /\ p \in Int /\ -1 <= p + m /\ p + m <= MaxColumns
          /\ -1 <= p /\ p <= MaxColumns /\ (w.i.col = p \/ w.i.col = p + Wrap)
      BY <1>0, <1>1, <2>1
    <3>2. (w.i.col + m) % Wrap = p + m \/ (w.i.col + m) % Wrap = p + m + Wrap
      BY <3>1, Around
    <3> QED BY <2>1, <3>2
  <2>4. (w.i.col + m) % Wrap \in Int
    BY <1>0, <1>1, ModIsInt
  <2> QED BY <2>2, <2>3, <2>4, NewColumn
<1>3. CASE i = ByPlus(w, n)
  <2>1. CASE w.back = TRUE
    <3> DEFINE b == increment(w.i)
               c == plus(b, -n)
    <3>1. i = decrement(c)
      BY <1>3, <2>1 DEF ByPlus, reverse_plus, reverse, base
    <3>2. b = [w.i EXCEPT !.col = w.i.col + 1]
      BY FieldSteps
    <3>3. b \in Iterators /\ b.of = "fields" /\ b.home = w.i.home /\ b.index = w.i.index /\ b.col = w.i.col + 1
      BY <1>0, <1>1, <3>2, NewColumn
    <3> HIDE DEF b
    <3>4. c = [b EXCEPT !.col = ((b.col % Wrap) + (-n)) % Wrap]
      BY <1>0, <1>1, <3>3, FieldSteps
    <3>5. b.col \in Int /\ (b.col = p + 1 \/ b.col = p + 1 + Wrap)
      BY <1>0, <1>1, <3>3
    <3>6. b.col % Wrap = p + 1
      <4>1. p + 1 \in Int /\ 0 <= p + 1 /\ p + 1 <= MaxColumns /\ p + 1 + 0 = p + 1
        BY <1>0, <1>1, <2>1
      <4> QED BY <1>0, <1>1, <3>5, <4>1, Bounds, WrapAround
    <3>7. ((b.col % Wrap) + (-n)) % Wrap = q + 1
      <4>1. p + 1 + (-n) = q + 1 /\ 0 <= q + 1 /\ q + 1 <= MaxColumns /\ q + 1 \in Int
        BY <1>0, <1>1, <2>1
      <4> QED BY <1>0, <1>1, <3>6, <4>1, WrapAround
    <3> HIDE DEF c
    <3>8. c \in Iterators /\ c.of = "fields" /\ c.home = w.i.home /\ c.index = w.i.index /\ c.col = q + 1
      <4>1. c = [b EXCEPT !.col = q + 1] /\ q + 1 \in Int
        BY <3>4, <3>7
      <4>2. LET j == [b EXCEPT !.col = q + 1]
            IN  j \in Iterators /\ j.of = "fields" /\ j.home = b.home /\ j.index = b.index /\ j.col = q + 1
        BY <3>3, <4>1, NewColumn
      <4> QED BY <3>3, <4>1, <4>2
    <3>9. i = [c EXCEPT !.col = c.col - 1]
      BY <3>1, <3>8, FieldSteps
    <3>10. c.col - 1 \in Int /\ c.col - 1 = q
      BY <3>8
    <3> QED BY <3>8, <3>9, <3>10, NewColumn
  <2>2. CASE w.back = FALSE
    <3>1. i = plus(w.i, n)
      BY <1>3, <2>2 DEF ByPlus
    <3>2. i = [w.i EXCEPT !.col = ((w.i.col % Wrap) + n) % Wrap]
      BY <3>1, FieldSteps
    <3>3. w.i.col % Wrap = p
      BY <1>0, <1>1, <2>2, WrapAround
    <3>4. q = p + n /\ (p + n) % Wrap = q
      BY <1>0, <1>1, <2>2, WrapAround
    <3> QED BY <3>2, <3>3, <3>4, NewColumn
  <2> QED BY <2>1, <2>2
<1>4. CASE n = 1 /\ i = Forth(w)
  <2>1. CASE w.back = TRUE
    <3>1. i = [w.i EXCEPT !.col = w.i.col - 1]
      BY <1>4, <2>1, FieldSteps DEF Forth
    <3>2. w.i.col - 1 \in Int /\ (w.i.col - 1 = q \/ w.i.col - 1 = q + Wrap)
      BY <1>0, <1>1, <1>4, <2>1
    <3> QED BY <3>1, <3>2, NewColumn
  <2>2. CASE w.back = FALSE
    <3>1. i = [w.i EXCEPT !.col = w.i.col + 1]
      BY <1>4, <2>2, FieldSteps DEF Forth
    <3>2. w.i.col + 1 \in Int /\ (w.i.col + 1 = q \/ w.i.col + 1 = q + Wrap)
      BY <1>0, <1>1, <1>4, <2>2
    <3> QED BY <3>1, <3>2, NewColumn
  <2> QED BY <2>1, <2>2
<1>5. CASE n = -1 /\ i = Back(w)
  <2>1. CASE w.back = TRUE
    <3>1. i = [w.i EXCEPT !.col = w.i.col + 1]
      BY <1>5, <2>1, FieldSteps DEF Back
    <3>2. w.i.col + 1 \in Int /\ (w.i.col + 1 = q \/ w.i.col + 1 = q + Wrap)
      BY <1>0, <1>1, <1>5, <2>1
    <3> QED BY <3>1, <3>2, NewColumn
  <2>2. CASE w.back = FALSE
    <3>1. i = [w.i EXCEPT !.col = w.i.col - 1]
      BY <1>5, <2>2, FieldSteps DEF Back
    <3>2. w.i.col - 1 \in Int /\ (w.i.col - 1 = q \/ w.i.col - 1 = q + Wrap)
      BY <1>0, <1>1, <1>5, <2>2
    <3> QED BY <3>1, <3>2, NewColumn
  <2> QED BY <2>1, <2>2
<1> QED BY <1>2, <1>3, <1>4, <1>5 DEF Ways

LEMMA WalksGoOn ==
    ASSUME BothReceived, NEW R, InRange(R), NEW w, Along(w, R), NEW k \in Nat, k <= Extent(w, R),
           NEW i \in Ways(w, k - w.k)
    PROVE  Along([w EXCEPT !.i = i, !.k = k], R) /\ i.of = w.i.of
<1> DEFINE p == Stands(w, R)
           q == IF w.back = TRUE THEN Ends(w, R) - 1 - k ELSE Begins(w, R) + k
           n == k - w.k
<1>1. /\ Begins(w, R) \in Nat /\ Ends(w, R) \in Nat /\ Begins(w, R) <= Ends(w, R)
      /\ Extent(w, R) = Ends(w, R) - Begins(w, R) /\ p \in Int
      /\ w.i.of = "fields" => Ends(w, R) <= MaxColumns
      /\ w.k \in Nat /\ w.k <= Extent(w, R) /\ (w.back = TRUE \/ w.back = FALSE)
      /\ w.i \in Iterators
  BY Measured
<1>2. n \in Int /\ q \in Int /\ q = (IF w.back = TRUE THEN p - n ELSE p + n)
  BY <1>1 DEF Stands
<1>3. OnRows(w.i, R, p) \/ OnFields(w.i, R, p)
  BY DEF Along
<1>4. /\ w.back = TRUE => -1 <= p /\ p < Ends(w, R) /\ -1 <= q /\ q < Ends(w, R)
      /\ w.back = FALSE => 0 <= p /\ p <= Ends(w, R) /\ 0 <= q /\ q <= Ends(w, R)
  BY <1>1 DEF Stands
<1> HIDE DEF p, n
<1>5. i \in Ways(w, n)
  BY DEF n
<1>6. CASE OnRows(w.i, R, p)
  <2>1. w.i.of = "rows" /\ w.i.home = R.home /\ w.i.index = p
    BY <1>6 DEF OnRows
  <2>2. i \in Iterators /\ i.of = "rows" /\ i.home = w.i.home
        /\ i.index = (IF w.back = TRUE THEN w.i.index - n ELSE w.i.index + n)
    BY <1>1, <1>2, <1>5, <2>1, RowWays
  <2>3. OnRows(i, R, q)
    BY <1>2, <2>1, <2>2 DEF OnRows
  <2> QED BY <2>1, <2>2, <2>3, Moved
<1>7. CASE OnFields(w.i, R, p)
  <2>1. w.i.of = "fields" /\ w.i.home = R.home /\ w.i.index = R.index /\ (w.i.col = p \/ w.i.col = p + Wrap)
    BY <1>7 DEF OnFields
  <2>2. /\ -1 <= p /\ p <= MaxColumns /\ -1 <= q /\ q <= MaxColumns
        /\ w.back = FALSE => 0 <= p /\ 0 <= q
        /\ w.back = TRUE => p < MaxColumns /\ q < MaxColumns
    BY <1>1, <1>2, <1>4, <2>1, Bounds
  <2> HIDE DEF q
  <2>3. i \in Iterators /\ i.of = "fields" /\ i.home = w.i.home /\ i.index = w.i.index
        /\ (i.col = q \/ i.col = q + Wrap)
    <3>1. /\ w.i \in Iterators /\ w.i.of = "fields" /\ (w.back = TRUE \/ w.back = FALSE) /\ n \in Int
          /\ i \in Ways(w, n) /\ p \in Int /\ (w.i.col = p \/ w.i.col = p + Wrap)
      BY <1>1, <1>2, <1>5, <2>1
    <3>2. q \in Int /\ Leads(w, n, p, q)
      BY <1>2, <2>2 DEF Leads
    <3> QED BY <3>1, <3>2, FieldWays
  <2>4. OnFields(i, R, q)
    BY <2>1, <2>3 DEF OnFields
  <2>5. q = (IF w.back = TRUE THEN Ends(w, R) - 1 - k ELSE Begins(w, R) + k)
    BY DEF q
  <2> QED BY <2>1, <2>3, <2>4, <2>5, Moved
<1> QED BY <1>3, <1>6, <1>7
-----------------------------------------------------------------------------
(* Every step keeps the program on its walks *)

LEMMA OfRow ==
    ASSUME BothReceived, NEW r \in Handles, NEW i \in Int
    PROVE  InRange(operator_index(r, i))
<1>1. columns(r) \in Nat
  BY Sizes
<1> QED BY <1>1 DEF InRange, operator_index, Row

LEMMA OfSlice ==
    ASSUME BothReceived, NEW R, InRange(R), NEW b \in Nat, NEW e \in Nat, b <= e, e <= row_size(R)
    PROVE  InRange(slice(R, b, e))
<1>1. /\ R \in [home : Handles, index : Int, begin : Nat, end : Nat]
      /\ R.begin <= R.end /\ R.end <= columns(R.home)
  BY DEF InRange
<1>2. columns(R.home) \in Nat
  BY <1>1, Sizes
<1> DEFINE S == slice(R, b, e)
<1>3. S = [R EXCEPT !.begin = R.begin + b, !.end = R.begin + e]
  BY DEF slice
<1>4. S.home = R.home /\ S.index = R.index /\ S.begin = R.begin + b /\ S.end = R.begin + e
      /\ S \in [home : Handles, index : Int, begin : Nat, end : Nat]
  <2>1. R.begin + b \in Nat /\ R.begin + e \in Nat
    BY <1>1
  <2> QED BY <1>1, <1>3, <2>1
<1> HIDE DEF S
<1>5. S.begin <= S.end /\ S.end <= columns(S.home)
  <2>1. e <= R.end - R.begin
    BY DEF row_size
  <2> QED BY <1>1, <1>2, <1>4, <2>1
<1>6. InRange(S)
  BY <1>4, <1>5 DEF InRange
<1> QED BY <1>6 DEF S

\* Looking at a row, or a part of one, is a walk begun.
LEMMA LookKeeps ==
    ASSUME ResultsInvariant, NEW R, InRange(R), Look(R)
    PROVE  ResultsInvariant'
<1>1. row' = R /\ it' \in Starts(R) /\ mark' = it' /\ received' = received /\ results' = results
  BY DEF Look
<1>2. BothReceived /\ results \in [1 .. 2 -> Handles]
  BY DEF ResultsInvariant
<1>3. Along(it', R)
  BY <1>1, <1>2, WalksBegin
<1>4. Along(it, row)' /\ Along(mark, row)'
  BY <1>1, <1>3 DEF Along, Extent, Stands, Begins, Ends, OnRows, OnFields, size, row_size
<1>5. InRange(row)'
  BY <1>1 DEF InRange, columns
<1>6. BothReceived'
  BY <1>1, <1>2 DEF BothReceived
<1> QED BY <1>1, <1>2, <1>4, <1>5, <1>6 DEF ResultsInvariant

\* Nothing that is looked at changes with the program's result objects.
LEMMA ObjectsKeep ==
    ASSUME ResultsInvariant, UNCHANGED <<received, row, it, mark>>, results' \in [1 .. 2 -> Handles]
    PROVE  ResultsInvariant'
<1>1. BothReceived'
  BY DEF ResultsInvariant, BothReceived
<1>2. InRange(row)'
  BY DEF ResultsInvariant, InRange, columns
<1>3. Along(it, row)' /\ Along(mark, row)'
  BY DEF ResultsInvariant, Along, Extent, Stands, Begins, Ends, OnRows, OnFields, size, row_size
<1> QED BY <1>1, <1>2, <1>3 DEF ResultsInvariant

\* Iterators that move along the row that is looked at.
LEMMA WalkersKeep ==
    ASSUME ResultsInvariant, UNCHANGED <<received, results, row>>,
           Along(it', row), Along(mark', row), it'.i.of = mark'.i.of, it'.back = mark'.back
    PROVE  ResultsInvariant'
<1>1. BothReceived'
  BY DEF ResultsInvariant, BothReceived
<1>2. InRange(row)'
  BY DEF ResultsInvariant, InRange, columns
<1>3. Along(it, row)' /\ Along(mark, row)'
  BY DEF Along, Extent, Stands, Begins, Ends, OnRows, OnFields, size, row_size
<1> QED BY <1>1, <1>2, <1>3 DEF ResultsInvariant

LEMMA MoveKeeps ==
    ASSUME ResultsInvariant, Move
    PROVE  ResultsInvariant'
<1>1. PICK k \in 0 .. Length(it) : \E i \in Ways(it, k - it.k) : it' = [it EXCEPT !.i = i, !.k = k]
  BY DEF Move
<1>2. PICK i \in Ways(it, k - it.k) : it' = [it EXCEPT !.i = i, !.k = k]
  BY <1>1
<1>3. BothReceived /\ InRange(row) /\ Along(it, row) /\ Along(mark, row)
      /\ it.i.of = mark.i.of /\ it.back = mark.back
  BY DEF ResultsInvariant
<1>4. k \in Nat /\ k <= Extent(it, row)
  <2>0. Begins(it, row) \in Nat /\ Ends(it, row) \in Nat /\ Extent(it, row) = Ends(it, row) - Begins(it, row)
    BY <1>3, Measured
  <2>1. Extent(it, row) \in Int
    BY <2>0
  <2> QED BY <1>1, <2>1, ExtentIsLength
<1>5. Along(it', row) /\ i.of = it.i.of
  BY <1>2, <1>3, <1>4, WalksGoOn
<1>6. it'.i.of = it.i.of /\ it'.back = it.back
  <2>1. it \in [i : Iterators, back : BOOLEAN, k : Nat]
    BY <1>3 DEF Along
  <2>2. it'.i = i /\ it'.back = it.back
    BY <1>2, <2>1
  <2> QED BY <1>5, <2>2
<1>7. UNCHANGED <<received, results, row, mark>>
  BY DEF Move
<1> QED BY <1>3, <1>5, <1>6, <1>7, WalkersKeep

LEMMA CopyKeeps ==
    ASSUME ResultsInvariant, Copy
    PROVE  ResultsInvariant'
<1>1. UNCHANGED <<received, results, row>> /\ ((mark' = it /\ it' = it) \/ (it' = mark /\ mark' = mark))
  BY DEF Copy
<1>2. Along(it, row) /\ Along(mark, row) /\ it.i.of = mark.i.of /\ it.back = mark.back
  BY DEF ResultsInvariant
<1>3. Along(it', row) /\ Along(mark', row) /\ it'.i.of = mark'.i.of /\ it'.back = mark'.back
  BY <1>1, <1>2
<1> QED BY <1>1, <1>3, WalkersKeep

LEMMA ResultsInitially == ResultsInit => ResultsInvariant
<1> SUFFICES ASSUME ResultsInit PROVE ResultsInvariant
  OBVIOUS
<1>1. PICK p \in PGresults(MaxColumns, MaxRows), q \in PGresults(Other, Other) : received = <<p, q>>
  BY DEF ResultsInit
<1>2. \A n \in Nat : \A s \in [1 .. n -> Names] : s \in Seq(Names) /\ Len(s) = n
  OBVIOUS
<1>3. ASSUME NEW width \in Nat, width <= MaxColumns, NEW rows \in Nat, NEW r \in PGresults(width, rows)
      PROVE  Received(r) /\ r.enc \in Encodings
  <2>1. PICK n \in 0 .. width : r.names \in [1 .. n -> Names]
    BY <1>3 DEF PGresults
  <2>2. r.rows \in Nat /\ r.enc \in Encodings
    BY <1>3 DEF PGresults
  <2>3. n \in Nat /\ n <= MaxColumns
    BY <1>3, <2>1, Bounds
  <2> QED BY <1>2, <2>1, <2>2, <2>3 DEF Received
<1>4. MaxColumns \in Nat /\ MaxRows \in Nat /\ Other \in Nat /\ Other <= MaxColumns
  BY ResultsAssumption
<1>5. Received(p) /\ p.enc \in Encodings /\ Received(q) /\ q.enc \in Encodings
  BY <1>3, <1>4
<1>6. received[1] = p /\ received[2] = q
  BY <1>1
<1>7. BothReceived
  BY <1>5, <1>6 DEF BothReceived
<1>8. results \in [1 .. 2 -> Handles]
  <2>1. \A j \in 1 .. 2 : [data |-> j, enc |-> received[j].enc] \in Handles
    BY <1>5, <1>6 DEF Handles
  <2> QED BY <2>1 DEF ResultsInit
<1>9. row = operator_index(empty_result, 0) /\ empty_result \in Handles
  BY DEF ResultsInit, operator_index, empty_result, NoData, Handles
<1>10. InRange(row)
  BY <1>7, <1>9, OfRow
<1>11. it \in Starts(row) /\ mark = it
  BY DEF ResultsInit
<1>12. Along(it, row)
  BY <1>7, <1>10, <1>11, WalksBegin
<1> QED BY <1>7, <1>8, <1>10, <1>11, <1>12 DEF ResultsInvariant

LEMMA ResultsKept == ResultsInvariant /\ [ResultsNext]_resultVars => ResultsInvariant'
<1> SUFFICES ASSUME ResultsInvariant, [ResultsNext]_resultVars PROVE ResultsInvariant'
  OBVIOUS
<1>1. BothReceived /\ results \in [1 .. 2 -> Handles] /\ InRange(row) /\ Along(it, row)
  BY DEF ResultsInvariant
<1>2. row \in [home : Handles, index : Int, begin : Nat, end : Nat] /\ row.begin <= row.end
      /\ row.end <= columns(row.home) /\ columns(row.home) \in Nat
  BY <1>1, Sizes DEF InRange
<1>3. CASE TakeRow
  <2>1. PICK j \in 1 .. 2 : \E i \in 0 .. size(results[j]) - 1 : Look(operator_index(results[j], i))
    BY <1>1, <1>3 DEF TakeRow
  <2>2. PICK i \in 0 .. size(results[j]) - 1 : Look(operator_index(results[j], i))
    BY <2>1
  <2>3. results[j] \in Handles /\ i \in Int
    BY <1>1
  <2> QED BY <1>1, <2>2, <2>3, OfRow, LookKeeps
<1>4. CASE TakeSlice
  <2>0. PICK b \in 0 .. row_size(row) : \E e \in b .. row_size(row) : Look(slice(row, b, e))
    BY <1>4 DEF TakeSlice
  <2>1. PICK e \in b .. row_size(row) : Look(slice(row, b, e))
    BY <2>0
  <2>2. row_size(row) \in Int
    BY <1>2 DEF row_size
  <2>3. b \in Nat /\ e \in Nat /\ b <= e /\ e <= row_size(row)
    BY <2>1, <2>2
  <2>4. InRange(slice(row, b, e))
    BY <1>1, <2>3, OfSlice
  <2> QED BY <2>1, <2>4, LookKeeps
<1>5. CASE TakeRange
  BY <1>1, <1>5, LookKeeps DEF TakeRange
<1>6. CASE Swap
  <2>1. \A j \in 1 .. 2 : swap(results[j], results[3 - j]) \in Handles
    BY <1>1 DEF swap, Handles
  <2>2. results' \in [1 .. 2 -> Handles]
    BY <1>6, <2>1 DEF Swap
  <2> QED BY <1>6, <2>2, ObjectsKeep DEF Swap
<1>7. CASE AssignResult
  <2>1. results' \in [1 .. 2 -> Handles]
    BY <1>1, <1>7 DEF AssignResult
  <2> QED BY <1>7, <2>1, ObjectsKeep DEF AssignResult
<1>8. CASE Clear
  <2>1. \A r \in Handles : clear(r) \in Handles
    BY DEF clear, Handles, NoData
  <2>2. results' \in [1 .. 2 -> Handles]
    BY <1>1, <1>8, <2>1 DEF Clear
  <2> QED BY <1>8, <2>2, ObjectsKeep DEF Clear
<1>9. CASE Move
  BY <1>9, MoveKeeps
<1>10. CASE Copy
  BY <1>10, CopyKeeps
<1>11. CASE Dereference
  <2>1. it.i.of = "rows" /\ Look(operator_index(it.i.home, it.i.index))
    BY <1>11 DEF Dereference, dereference
  <2>2. it.i.home \in Handles /\ it.i.index \in Int
    BY <1>1, Measured DEF Iterators
  <2> QED BY <1>1, <2>1, <2>2, OfRow, LookKeeps
<1>12. CASE UNCHANGED resultVars
  BY <1>1, <1>12, ObjectsKeep DEF resultVars
<1> QED BY <1>3, <1>4, <1>5, <1>6, <1>7, <1>8, <1>9, <1>10, <1>11, <1>12 DEF ResultsNext

\* The row that is looked at lies within its result, and the iterators stand where
\* their steps have led them, for results of any size: the inductive invariant.
THEOREM ResultsInductive == ResultsSpec => []ResultsInvariant
<1> QED BY ResultsInitially, ResultsKept, PTL DEF ResultsSpec

-----------------------------------------------------------------------------
(* What follows from it *)

LEMMA NamesAreFound ==
    ASSUME ResultsInvariant, NEW name
    PROVE  LET here == {i \in row.begin .. row.end - 1 : PQfname(row.home, i) = name}
           IN  column_number(row, name) = IF here = {} THEN argument_error ELSE Min(here) - row.begin
<1> DEFINE here == {i \in row.begin .. row.end - 1 : PQfname(row.home, i) = name}
           n == PQfnumber(row.home, name)
           again == {i \in row.begin .. row.end - 1 : PQfname(row.home, i) = PQfname(row.home, n)}
           called == ColumnsCalled(row.home, name)
<1> SUFFICES column_number(row, name) = IF here = {} THEN argument_error ELSE Min(here) - row.begin
  OBVIOUS
<1>1. /\ row.begin \in Nat /\ row.end \in Nat /\ row.begin <= row.end /\ row.end <= columns(row.home)
      /\ columns(row.home) \in Nat
  BY Sizes DEF ResultsInvariant, InRange
<1>2. called \in SUBSET Nat /\ here \subseteq called /\ called \in SUBSET (0 .. columns(row.home) - 1)
      /\ \A i \in called : PQfname(row.home, i) = name
  BY <1>1 DEF ColumnsCalled
<1>3. here \in SUBSET Nat /\ \A i \in here : row.begin <= i /\ i < row.end
  BY <1>1
<1>4. column_number(row, name) =
          IF n = None \/ n >= row.end THEN argument_error
          ELSE IF n >= row.begin THEN n - row.begin
          ELSE IF again = {} THEN argument_error ELSE Min(again) - row.begin
  BY DEF column_number
<1>5. CASE called = {}
  BY <1>2, <1>4, <1>5 DEF PQfnumber
<1>6. CASE called # {}
  <2>1. n = Min(called)
    BY <1>6 DEF PQfnumber
  <2>2. n \in called /\ n \in Nat /\ \A x \in called : n <= x
    BY <1>2, <1>6, <2>1, MinIs
  <2>3. n # None
    BY <2>2 DEF None
  <2>4. again = here
    BY <1>2, <2>2
  <2> HIDE DEF n, again, called
  <2>5. CASE n >= row.end
    <3>1. here = {}
      BY <1>1, <1>2, <1>3, <2>2, <2>5
    <3> QED BY <1>4, <2>5, <3>1
  <2>6. CASE n < row.end /\ n >= row.begin
    <3>1. n \in here
      BY <1>1, <1>2, <2>2, <2>6
    <3>2. Min(here) \in here /\ Min(here) <= n
      BY <1>3, <3>1, MinIs
    <3>3. Min(here) = n
      BY <1>2, <1>3, <2>2, <3>2
    <3>4. ~ (n >= row.end) /\ here # {}
      BY <1>1, <2>2, <2>6, <3>1
    <3> HIDE DEF here
    <3> QED BY <1>4, <2>3, <2>6, <3>3, <3>4
  <2>7. CASE n < row.begin
    <3>1. ~ (n >= row.end) /\ ~ (n >= row.begin)
      BY <1>1, <2>2, <2>7
    <3> HIDE DEF here
    <3> QED BY <1>4, <2>3, <2>4, <3>1
  <2> QED BY <1>1, <2>2, <2>5, <2>6, <2>7
<1> QED BY <1>5, <1>6

\* A row finds the names of its columns and no others, and of columns with the same
\* name the first that it has, however it was sliced (NamesStayInTheSlice).
THEOREM NamesAlwaysStay == ResultsSpec => []NamesStayInTheSlice
<1>1. ResultsInvariant => NamesStayInTheSlice
  BY NamesAreFound DEF NamesStayInTheSlice
<1> QED BY <1>1, ResultsInductive, PTL

\* What the column of an iterator is as a row_size_type.
LEMMA ColumnShown ==
    ASSUME NEW R, NEW w, w.i \in Iterators, NEW p \in Int, -1 <= p, p <= MaxColumns, OnFields(w.i, R, p)
    PROVE  /\ col(w.i) \in Int
           /\ 0 <= p => col(w.i) = p
           /\ p = -1 => col(w.i) = Wrap - 1
<1>1. w.i.col \in Int /\ (w.i.col = p \/ w.i.col = p + Wrap)
  BY DEF Iterators, OnFields
<1>2. Wrap \in Nat /\ Wrap > MaxColumns /\ MaxColumns \in Nat
  BY Bounds
<1>3. 0 <= p => w.i.col % Wrap = p
  BY <1>1, <1>2, WrapAround
<1>4. p = -1 => w.i.col % Wrap = Wrap - 1
  BY <1>1, <1>2, WrapAround
<1>5. w.i.col % Wrap \in Int
  BY <1>1, ModIsInt
<1> QED BY <1>3, <1>4, <1>5 DEF col

\* The difference of two columns, one of which may be that of rend.
LEMMA DifferenceIs ==
    ASSUME NEW a \in Int, NEW b \in Int, NEW p \in Int, NEW q \in Int,
           -1 <= p, p <= MaxColumns, -1 <= q, q <= MaxColumns,
           p - q <= MaxColumns, q - p <= MaxColumns,
           a = (IF p = -1 THEN Wrap - 1 ELSE p), b = (IF q = -1 THEN Wrap - 1 ELSE q)
    PROVE  difference((a - b) % Wrap) = p - q
<1>1. /\ MaxColumns \in Nat /\ Wrap \in Nat /\ Wrap > 2 * MaxColumns + 2 /\ Wrap > MaxColumns
      /\ Wrap \div 2 \in Int /\ Wrap \div 2 > MaxColumns /\ Wrap \div 2 <= Wrap - MaxColumns - 1
  BY Bounds
<1>2. a - b = p - q \/ a - b = p - q + Wrap \/ a - b = p - q - Wrap
  BY <1>1
<1>3. -Wrap <= a - b /\ a - b < Wrap /\ a - b \in Int
  BY <1>1
<1>4. CASE 0 <= p - q
  <2>1. a - b = p - q \/ a - b = p - q - Wrap
    BY <1>1, <1>2, <1>3, <1>4
  <2>2. a - b = p - q - Wrap => a - b < 0
    BY <1>1
  <2>3. (a - b) % Wrap = p - q
    BY <1>1, <1>3, <1>4, <2>1, <2>2, WrapAround
  <2>4. ~ (p - q >= Wrap \div 2)
    BY <1>1
  <2> QED BY <2>3, <2>4 DEF difference
<1>5. CASE p - q < 0
  <2>1. a - b = p - q \/ a - b = p - q + Wrap
    BY <1>1, <1>2, <1>3, <1>5
  <2>2. a - b = p - q + Wrap => 0 <= a - b
    BY <1>1
  <2>3. (a - b) % Wrap = p - q + Wrap
    BY <1>1, <1>3, <1>5, <2>1, <2>2, WrapAround
  <2>4. p - q + Wrap >= Wrap \div 2
    BY <1>1
  <2> QED BY <1>1, <2>3, <2>4 DEF difference
<1> QED BY <1>4, <1>5

\* Two walks of one range: as they compare, so they have gone.
LEMMA WalksCompare ==
    ASSUME BothReceived, NEW R, InRange(R), NEW w, Along(w, R), NEW v, Along(v, R),
           w.i.of = v.i.of, w.back = v.back
    PROVE  /\ Equal(w.i, v.i) <=> w.k = v.k
           /\ Distance(w, v) = w.k - v.k
           /\ (w.back = TRUE /\ w.i.of = "fields") \/ (Precedes(v, w) <=> v.k < w.k)
<1> DEFINE p == Stands(w, R)
           q == Stands(v, R)
<1>1. /\ Begins(w, R) \in Nat /\ Ends(w, R) \in Nat /\ Begins(w, R) <= Ends(w, R) /\ p \in Int
      /\ Extent(w, R) = Ends(w, R) - Begins(w, R)
      /\ w.i.of = "fields" => Ends(w, R) <= MaxColumns
      /\ w.k \in Nat /\ w.k <= Extent(w, R) /\ (w.back = TRUE \/ w.back = FALSE) /\ w.i \in Iterators
  BY Measured
<1>2. /\ q \in Int /\ v.k \in Nat /\ v.k <= Extent(v, R) /\ v.i \in Iterators
  BY Measured
<1>3. Begins(v, R) = Begins(w, R) /\ Ends(v, R) = Ends(w, R) /\ Extent(v, R) = Extent(w, R)
  BY DEF Begins, Ends, Extent
<1>4. /\ w.back = TRUE => p = Ends(w, R) - 1 - w.k /\ q = Ends(w, R) - 1 - v.k
      /\ w.back = FALSE => p = Begins(w, R) + w.k /\ q = Begins(w, R) + v.k
  BY <1>3 DEF Stands
<1>5. OnRows(w.i, R, p) \/ OnFields(w.i, R, p)
  BY DEF Along
<1>6. OnRows(v.i, R, q) \/ OnFields(v.i, R, q)
  BY DEF Along
<1>7. Distance(w, v) = (IF w.back = TRUE THEN minus(v.i, w.i) ELSE minus(w.i, v.i))
  BY <1>1 DEF Distance
<1>8. Precedes(v, w) <=> (IF w.back = TRUE THEN Less(w.i, v.i) ELSE Less(v.i, w.i))
  BY <1>1 DEF Precedes
<1> HIDE DEF p, q
<1>9. CASE w.i.of = "rows"
  <2>1. num(w.i) = p /\ num(v.i) = q /\ w.i.index = p /\ v.i.index = q
    BY <1>5, <1>6, <1>9 DEF num, OnRows, OnFields
  <2>2. minus(w.i, v.i) = p - q /\ minus(v.i, w.i) = q - p
    BY <1>9, <2>1 DEF minus
  <2>3. (Equal(w.i, v.i) <=> p = q) /\ (Less(w.i, v.i) <=> p < q) /\ (Less(v.i, w.i) <=> q < p)
    BY <2>1 DEF Equal, Less
  <2>4. (p = q <=> w.k = v.k) /\ (IF w.back = TRUE THEN q - p ELSE p - q) = w.k - v.k
        /\ ((IF w.back = TRUE THEN p < q ELSE q < p) <=> v.k < w.k)
    BY <1>1, <1>2, <1>4
  <2>5. Distance(w, v) = w.k - v.k
    BY <1>7, <2>2, <2>4
  <2>6. Precedes(v, w) <=> v.k < w.k
    BY <1>8, <2>3, <2>4
  <2> QED BY <2>3, <2>4, <2>5, <2>6
<1>10. CASE w.i.of = "fields"
  <2>1. OnFields(w.i, R, p) /\ OnFields(v.i, R, q)
    BY <1>5, <1>6, <1>10 DEF OnRows
  <2>2. /\ -1 <= p /\ p <= MaxColumns /\ -1 <= q /\ q <= MaxColumns
        /\ p - q <= MaxColumns /\ q - p <= MaxColumns
        /\ w.back = FALSE => 0 <= p /\ 0 <= q
    BY <1>1, <1>2, <1>3, <1>4, <1>10, Bounds
  <2>3. /\ col(w.i) \in Int /\ (0 <= p => col(w.i) = p) /\ (p = -1 => col(w.i) = Wrap - 1)
    BY <1>1, <2>1, <2>2, ColumnShown
  <2>4. /\ col(v.i) \in Int /\ (0 <= q => col(v.i) = q) /\ (q = -1 => col(v.i) = Wrap - 1)
    BY <1>2, <2>1, <2>2, ColumnShown
  <2>5. num(w.i) = col(w.i) /\ num(v.i) = col(v.i) /\ v.i.of # "rows" /\ w.i.of # "rows"
    BY <1>10 DEF num
  <2>6. col(w.i) = (IF p = -1 THEN Wrap - 1 ELSE p) /\ col(v.i) = (IF q = -1 THEN Wrap - 1 ELSE q)
    BY <1>1, <1>2, <2>2, <2>3, <2>4
  <2>7. minus(w.i, v.i) = p - q
    <3>1. difference((col(w.i) - col(v.i)) % Wrap) = p - q
      BY <1>1, <1>2, <2>2, <2>3, <2>4, <2>6, DifferenceIs
    <3> QED BY <2>5, <3>1 DEF minus
  <2>8. minus(v.i, w.i) = q - p
    <3>1. difference((col(v.i) - col(w.i)) % Wrap) = q - p
      BY <1>1, <1>2, <2>2, <2>3, <2>4, <2>6, DifferenceIs
    <3> QED BY <2>5, <3>1 DEF minus
  <2>9. Equal(w.i, v.i) <=> p = q
    <3>1. col(w.i) = col(v.i) <=> p = q
      BY <1>1, <1>2, <2>2, <2>6, Bounds
    <3> QED BY <2>5, <3>1 DEF Equal
  <2>10. w.back = FALSE => (Less(v.i, w.i) <=> q < p)
    BY <2>2, <2>3, <2>4, <2>5 DEF Less
  <2>11. (p = q <=> w.k = v.k) /\ (IF w.back = TRUE THEN q - p ELSE p - q) = w.k - v.k
         /\ (w.back = FALSE => (q < p <=> v.k < w.k))
    BY <1>1, <1>2, <1>4
  <2>12. Distance(w, v) = w.k - v.k
    BY <1>7, <2>7, <2>8, <2>11
  <2>13. w.back = FALSE => (Precedes(v, w) <=> v.k < w.k)
    BY <1>8, <2>10, <2>11
  <2>14. w.back = TRUE \/ w.back = FALSE
    BY <1>1
  <2> QED BY <1>10, <2>9, <2>11, <2>12, <2>13, <2>14
<1> QED BY <1>1, <1>9, <1>10 DEF Iterators

\* What an iterator stands on.
LEMMA WalksPoint ==
    ASSUME BothReceived, InRange(row), NEW w, Along(w, row), w.k < Length(w)
    PROVE  LET place == IF w.back THEN Length(w) - 1 - w.k ELSE w.k
           IN  dereference(w.i) = IF w.i.of = "rows" THEN operator_index(row.home, place) ELSE field(row, place)
<1> DEFINE place == IF w.back THEN Length(w) - 1 - w.k ELSE w.k
           p == Stands(w, row)
<1> SUFFICES dereference(w.i) = IF w.i.of = "rows" THEN operator_index(row.home, place) ELSE field(row, place)
  OBVIOUS
<1>1. /\ Begins(w, row) \in Nat /\ Ends(w, row) \in Nat /\ Begins(w, row) <= Ends(w, row) /\ p \in Int
      /\ Extent(w, row) = Ends(w, row) - Begins(w, row)
      /\ w.i.of = "fields" => Ends(w, row) <= MaxColumns
      /\ w.k \in Nat /\ (w.back = TRUE \/ w.back = FALSE) /\ w.i \in Iterators
  BY Measured
<1>2. Length(w) = Extent(w, row)
  BY ExtentIsLength
<1>3. place = IF w.back = TRUE THEN Extent(w, row) - 1 - w.k ELSE w.k
  BY <1>1, <1>2
<1> HIDE DEF place
<1>4. p = Begins(w, row) + place /\ 0 <= p /\ p < Ends(w, row)
  BY <1>1, <1>2, <1>3 DEF Stands
<1>5. OnRows(w.i, row, p) \/ OnFields(w.i, row, p)
  BY DEF Along
<1> HIDE DEF p
<1>6. CASE w.i.of = "rows"
  <2>1. w.i.home = row.home /\ w.i.index = p
    BY <1>5, <1>6 DEF OnRows, OnFields
  <2>2. p = place
    BY <1>1, <1>3, <1>4, <1>6 DEF Begins
  <2> QED BY <1>6, <2>1, <2>2 DEF dereference
<1>7. CASE w.i.of = "fields"
  <2>1. OnFields(w.i, row, p)
    BY <1>5, <1>7 DEF OnRows
  <2>2. w.i.home = row.home /\ w.i.index = row.index
    BY <2>1 DEF OnFields
  <2>3. -1 <= p /\ p <= MaxColumns
    BY <1>1, <1>4, <1>7, Bounds
  <2>4. col(w.i) = p
    BY <1>1, <1>4, <2>1, <2>3, ColumnShown
  <2>5. p = row.begin + place
    BY <1>4, <1>7 DEF Begins
  <2> QED BY <1>7, <2>2, <2>4, <2>5 DEF dereference, field
<1> QED BY <1>1, <1>6, <1>7 DEF Iterators

\* Forward and reverse iterators of rows and of fields stand where their steps have
\* led them and compare accordingly, on results of any size and through the column
\* -1 = UINT_MAX at which a reverse walk of a whole row ends (IteratorsKeepStep).
THEOREM IteratorsAlwaysKeepStep == ResultsSpec => []IteratorsKeepStep
<1>1. ResultsInvariant => IteratorsKeepStep
  <2> SUFFICES ASSUME ResultsInvariant PROVE IteratorsKeepStep
    OBVIOUS
  <2>1. /\ BothReceived /\ InRange(row) /\ Along(it, row) /\ Along(mark, row)
        /\ it.i.of = mark.i.of /\ it.back = mark.back
    BY DEF ResultsInvariant
  <2>2. /\ Equal(it.i, mark.i) <=> it.k = mark.k
        /\ Distance(it, mark) = it.k - mark.k
        /\ (it.back = TRUE /\ it.i.of = "fields") \/ (Precedes(mark, it) <=> mark.k < it.k)
    BY <2>1, WalksCompare
  <2>3. it.k < Length(it) =>
            LET place == IF it.back THEN Length(it) - 1 - it.k ELSE it.k
            IN  dereference(it.i) = IF it.i.of = "rows" THEN operator_index(row.home, place) ELSE field(row, place)
    BY <2>1, WalksPoint
  <2>4. (it.back /\ it.i.of = "fields") \/ (Precedes(mark, it) <=> mark.k < it.k)
    BY <2>2
  <2> QED BY <2>2, <2>3, <2>4 DEF IteratorsKeepStep
<1> QED BY <1>1, ResultsInductive, PTL
-----------------------------------------------------------------------------
(* Exceptions *)

\* What ThrowSQLError can throw.
Throwable == {t[3] : t \in Named} \cup {t[2] : t \in OfClass} \cup {"sql_error"}

LEMMA ThrowsOneOfThese ==
    ASSUME NEW code
    PROVE  ThrowSQLError(code) \in Throwable
<1> DEFINE exact == {t[3] : t \in {s \in Named : s[1] = code[1] /\ s[2] = code[2]}}
           class == {t[2] : t \in {s \in OfClass : s[1] = code[1]}}
<1>1. ThrowSQLError(code) = IF exact # {} THEN CHOOSE e \in exact : TRUE
                            ELSE IF class # {} THEN CHOOSE e \in class : TRUE ELSE "sql_error"
  BY DEF ThrowSQLError
<1>2. exact \subseteq Throwable /\ class \subseteq Throwable /\ "sql_error" \in Throwable
  BY DEF Throwable
<1>3. exact # {} => (CHOOSE e \in exact : TRUE) \in exact
  OBVIOUS
<1>4. class # {} => (CHOOSE e \in class : TRUE) \in class
  OBVIOUS
<1> HIDE DEF exact, class
<1> QED BY <1>1, <1>2, <1>3, <1>4

\* None of these is what ends a call in doubt, or without an exception.
LEMMA ThrowableAreFailures ==
    \A e \in Throwable : e \notin {"in_doubt_error", "nothing", "returned", "exception", "unknown"}
<1>1. \A t \in Named : t[3] \notin {"in_doubt_error", "nothing", "returned", "exception", "unknown"}
  BY DEF Named
<1>2. \A t \in OfClass : t[2] \notin {"in_doubt_error", "nothing", "returned", "exception", "unknown"}
  BY DEF OfClass
<1> QED BY <1>1, <1>2 DEF Throwable

\* in_doubt_error has no exceptions below it: only it is caught as one.
LEMMA OnlyDoubtIsDoubt == \A e : IsA(e, "in_doubt_error") <=> e = "in_doubt_error"
<1>1. \A d \in Derived : d[2] # "in_doubt_error"
  BY DEF Derived
<1>2. \A cs : "in_doubt_error" \in Bases(cs) <=> "in_doubt_error" \in cs
  BY <1>1 DEF Bases
<1> QED BY <1>2 DEF IsA

LEMMA EveryoneIsItself == \A e : IsA(e, e)
  BY DEF IsA, Bases

LEMMA UnknownIsUnknown == ThrowSQLError(UnknownCompletion) = "statement_completion_unknown"
<1> DEFINE exact == {t[3] : t \in {s \in Named : s[1] = UnknownCompletion[1] /\ s[2] = UnknownCompletion[2]}}
<1>1. \A t \in Named : t[1] = "40" /\ t[2] = "003" => t[3] = "statement_completion_unknown"
  BY DEF Named
<1>2. <<"40", "003", "statement_completion_unknown">> \in Named
  BY DEF Named
<1>3. exact = {"statement_completion_unknown"}
  BY <1>1, <1>2 DEF UnknownCompletion
<1>4. (CHOOSE e \in exact : TRUE) = "statement_completion_unknown"
  BY <1>3
<1>5. ThrowSQLError(UnknownCompletion) = CHOOSE e \in exact : TRUE
  BY <1>3 DEF ThrowSQLError
<1> QED BY <1>4, <1>5

LEMMA Undecided ==
    /\ do_commitCatch(ThrowSQLError(UnknownCompletion), TRUE) = "in_doubt_error"
    /\ do_commitCatch("broken_connection", FALSE) = "in_doubt_error"
  BY UnknownIsUnknown, EveryoneIsItself DEF do_commitCatch

\* Neither perform tries again when it is in doubt, and it tells of the doubt.
LEMMA DoubtEnds ==
    /\ Retry("in_doubt_error") = FALSE
    /\ transactor_perform("in_doubt_error") = "doubt"
    /\ \A e : e # "in_doubt_error" => transactor_perform(e) = "abort"
  BY OnlyDoubtIsDoubt, Zenon DEF Retry, perform, transactor_perform

-----------------------------------------------------------------------------
(* Attempts *)

TypedCall ==
    /\ asked.fn \in {"perform", "transactor"} /\ attempts \in Int /\ runs \in Nat
    /\ phase \in {"idle", "working", "committing", "over"}
    /\ committed \in {0, 1}
    /\ told \in [commit : Nat, abort : Nat, doubt : Nat]

\* A run that has not ended has not called its hook yet.
Unheard == IF phase \in {"working", "committing"} THEN 1 ELSE 0

HooksSoFar ==
    /\ told.commit + told.abort + told.doubt + Unheard = runs
    /\ told.commit = IF outcome = "returned" /\ runs > 0 THEN 1 ELSE 0
    /\ told.doubt = IF outcome = "in_doubt_error" THEN 1 ELSE 0

RetryInvariant ==
    /\ TypedCall
    /\ runs > 0 => attempts > 0
    /\ phase # "over" => committed = 0 /\ outcome = "nothing"
    /\ phase = "over" => outcome # "nothing"
    /\ phase \in {"working", "committing"} => runs > 0
    /\ outcome \notin {"nothing", "in_doubt_error"} => (committed = 1 <=> outcome = "returned" /\ runs > 0)
    /\ asked.fn = "transactor" => HooksSoFar

LEMMA RetryInitially == RetryInit => RetryInvariant
<1> SUFFICES ASSUME RetryInit PROVE RetryInvariant
  OBVIOUS
<1>1. asked.fn \in {"perform", "transactor"} /\ attempts \in Int
  BY AttemptsAssumption DEF RetryInit
<1> QED BY <1>1 DEF RetryInit, RetryInvariant, TypedCall, HooksSoFar, Unheard

\* An attempt that fails with an exception other than in_doubt_error has stored nothing.
LEMMA FailureKeeps ==
    ASSUME RetryInvariant, phase \in {"working", "committing"},
           NEW e, e \notin {"in_doubt_error", "nothing", "returned"}, AttemptFails(e), committed' = committed
    PROVE  RetryInvariant'
<1>1. attempts \in Int /\ runs \in Nat /\ runs > 0 /\ attempts > 0 /\ committed = 0 /\ outcome = "nothing"
  BY DEF RetryInvariant, TypedCall
<1>2. UNCHANGED <<asked, runs>>
  BY DEF AttemptFails
<1>3. \/ phase' = "idle" /\ attempts' = attempts - 1 /\ attempts > 1 /\ outcome' = outcome
      \/ phase' = "over" /\ outcome' = e /\ attempts' = attempts
  BY DEF AttemptFails
<1>4. attempts' \in Int /\ attempts' > 0
  BY <1>1, <1>3
<1>5. told \in [commit : Nat, abort : Nat, doubt : Nat]
  BY DEF RetryInvariant, TypedCall
<1>6. told' = IF asked.fn = "perform" THEN told ELSE [told EXCEPT !["abort"] = @ + 1]
  BY DoubtEnds DEF AttemptFails
<1>7. told' \in [commit : Nat, abort : Nat, doubt : Nat]
  BY <1>5, <1>6
<1>8. TypedCall'
  BY <1>1, <1>2, <1>3, <1>4, <1>7 DEF RetryInvariant, TypedCall
<1>9. ASSUME asked.fn = "transactor" PROVE HooksSoFar'
  <2>1. HooksSoFar /\ Unheard = 1 /\ Unheard' = 0
    BY <1>3, <1>9 DEF RetryInvariant, Unheard
  <2>2. /\ told'.commit = told.commit /\ told'.doubt = told.doubt /\ told'.abort = told.abort + 1
        /\ told.commit \in Nat /\ told.doubt \in Nat /\ told.abort \in Nat
    BY <1>5, <1>6, <1>9
  <2>3. told.commit = 0 /\ told.doubt = 0
    BY <1>1, <2>1 DEF HooksSoFar
  <2>4. told'.commit + told'.abort + told'.doubt + Unheard' = runs'
    BY <1>2, <2>1, <2>2 DEF HooksSoFar
  <2>5. outcome' # "returned" /\ outcome' # "in_doubt_error"
    BY <1>1, <1>3
  <2> QED BY <2>2, <2>3, <2>4, <2>5 DEF HooksSoFar
<1> QED BY <1>1, <1>2, <1>3, <1>4, <1>8, <1>9 DEF RetryInvariant

\* in_doubt_error is the end, whether the server has stored the transaction or not.
LEMMA DoubtKeeps ==
    ASSUME RetryInvariant, phase = "committing", AttemptFails("in_doubt_error"),
           committed' \in {committed, committed + 1}
    PROVE  RetryInvariant'
<1>1. attempts \in Int /\ runs \in Nat /\ runs > 0 /\ attempts > 0 /\ committed = 0 /\ outcome = "nothing"
  BY DEF RetryInvariant, TypedCall
<1>2. UNCHANGED <<asked, runs>>
  BY DEF AttemptFails
<1>3. phase' = "over" /\ outcome' = "in_doubt_error" /\ attempts' = attempts
  BY DoubtEnds DEF AttemptFails
<1>4. told \in [commit : Nat, abort : Nat, doubt : Nat]
  BY DEF RetryInvariant, TypedCall
<1>5. told' = IF asked.fn = "perform" THEN told ELSE [told EXCEPT !["doubt"] = @ + 1]
  BY DoubtEnds DEF AttemptFails
<1>6. told' \in [commit : Nat, abort : Nat, doubt : Nat]
  BY <1>4, <1>5
<1>7. TypedCall'
  BY <1>1, <1>2, <1>3, <1>6 DEF RetryInvariant, TypedCall
<1>8. ASSUME asked.fn = "transactor" PROVE HooksSoFar'
  <2>1. HooksSoFar /\ Unheard = 1 /\ Unheard' = 0
    BY <1>3, <1>8 DEF RetryInvariant, Unheard
  <2>2. /\ told'.commit = told.commit /\ told'.abort = told.abort /\ told'.doubt = told.doubt + 1
        /\ told.commit \in Nat /\ told.doubt \in Nat /\ told.abort \in Nat
    BY <1>4, <1>5, <1>8
  <2>3. told.commit = 0 /\ told.doubt = 0
    BY <1>1, <2>1 DEF HooksSoFar
  <2>4. told'.commit + told'.abort + told'.doubt + Unheard' = runs'
    BY <1>2, <2>1, <2>2 DEF HooksSoFar
  <2> QED BY <1>3, <2>2, <2>3, <2>4 DEF HooksSoFar
<1> QED BY <1>1, <1>2, <1>3, <1>7, <1>8 DEF RetryInvariant

LEMMA CommitsKeeps ==
    ASSUME RetryInvariant, Commits
    PROVE  RetryInvariant'
<1>1. /\ phase = "committing" /\ phase' = "over" /\ committed' = committed + 1 /\ outcome' = "returned"
      /\ UNCHANGED <<asked, attempts, runs>>
  BY DEF Commits
<1>2. attempts \in Int /\ runs \in Nat /\ runs > 0 /\ attempts > 0 /\ committed = 0 /\ outcome = "nothing"
  BY <1>1 DEF RetryInvariant, TypedCall
<1>3. told \in [commit : Nat, abort : Nat, doubt : Nat]
  BY DEF RetryInvariant, TypedCall
<1>4. told' = IF asked.fn = "perform" THEN told ELSE [told EXCEPT !["commit"] = @ + 1]
  BY DEF Commits
<1>5. told' \in [commit : Nat, abort : Nat, doubt : Nat]
  BY <1>3, <1>4
<1>6. TypedCall'
  BY <1>1, <1>2, <1>5 DEF RetryInvariant, TypedCall
<1>7. ASSUME asked.fn = "transactor" PROVE HooksSoFar'
  <2>1. HooksSoFar /\ Unheard = 1 /\ Unheard' = 0
    BY <1>1, <1>7 DEF RetryInvariant, Unheard
  <2>2. /\ told'.doubt = told.doubt /\ told'.abort = told.abort /\ told'.commit = told.commit + 1
        /\ told.commit \in Nat /\ told.doubt \in Nat /\ told.abort \in Nat
    BY <1>3, <1>4, <1>7
  <2>3. told.commit = 0 /\ told.doubt = 0
    BY <1>2, <2>1 DEF HooksSoFar
  <2>4. told'.commit + told'.abort + told'.doubt + Unheard' = runs'
    BY <1>1, <2>1, <2>2 DEF HooksSoFar
  <2> QED BY <1>1, <1>2, <2>2, <2>3, <2>4 DEF HooksSoFar
<1> QED BY <1>1, <1>2, <1>6, <1>7 DEF RetryInvariant

LEMMA RetryKept == RetryInvariant /\ [RetryNext]_retryVars => RetryInvariant'
<1> SUFFICES ASSUME RetryInvariant, [RetryNext]_retryVars PROVE RetryInvariant'
  OBVIOUS
<1>1. CASE Start
  <2>1. CASE attempts > 0
    <3>1. runs \in Nat /\ phase = "idle" /\ phase' = "working" /\ runs' = runs + 1
      BY <1>1, <2>1 DEF Start, RetryInvariant, TypedCall
    <3>2. UNCHANGED <<asked, attempts, committed, told, outcome>>
      BY <1>1, <2>1 DEF Start
    <3> QED BY <2>1, <3>1, <3>2 DEF RetryInvariant, TypedCall, HooksSoFar, Unheard
  <2>2. CASE ~ (attempts > 0)
    <3>1. phase = "idle" /\ phase' = "over" /\ outcome' \in {"invalid_argument", "returned"}
      BY <1>1, <2>2 DEF Start
    <3>2. UNCHANGED <<asked, attempts, committed, told, runs>>
      BY <1>1, <2>2 DEF Start
    <3>3. runs \in Nat /\ ~ (runs > 0) /\ committed = 0 /\ outcome = "nothing"
      BY <2>2, <3>1 DEF RetryInvariant, TypedCall
    <3> QED BY <3>1, <3>2, <3>3 DEF RetryInvariant, TypedCall, HooksSoFar, Unheard
  <2> QED BY <2>1, <2>2
<1>2. CASE StatementFails
  <2>1. PICK code \in Codes : AttemptFails(ThrowSQLError(code))
    BY <1>2 DEF StatementFails
  <2>2. ThrowSQLError(code) \notin {"in_doubt_error", "nothing", "returned"}
    BY ThrowsOneOfThese, ThrowableAreFailures
  <2> QED BY <1>2, <2>1, <2>2, FailureKeeps DEF StatementFails
<1>3. CASE LinkBreaks
  BY <1>3, FailureKeeps DEF LinkBreaks
<1>4. CASE ClientThrows
  <2>1. PICK e \in {"exception", "unknown"} : AttemptFails(e)
    BY <1>4 DEF ClientThrows
  <2> QED BY <1>4, <2>1, FailureKeeps DEF ClientThrows
<1>5. CASE SendCommit
  BY <1>5 DEF SendCommit, RetryInvariant, TypedCall, HooksSoFar, Unheard
<1>6. CASE Commits
  BY <1>6, CommitsKeeps
<1>7. CASE CommitFails
  <2>1. phase = "committing"
    BY <1>7 DEF CommitFails
  <2>2. ASSUME NEW code \in Refusals, AttemptFails(do_commitCatch(ThrowSQLError(code), TRUE)), committed' = committed
        PROVE  RetryInvariant'
    <3>1. do_commitCatch(ThrowSQLError(code), TRUE) \in {"in_doubt_error", ThrowSQLError(code)}
      BY DEF do_commitCatch
    <3>2. ThrowSQLError(code) \notin {"in_doubt_error", "nothing", "returned"}
      BY ThrowsOneOfThese, ThrowableAreFailures
    <3>3. CASE do_commitCatch(ThrowSQLError(code), TRUE) = "in_doubt_error"
      BY <2>1, <2>2, <3>3, DoubtKeeps
    <3>4. CASE do_commitCatch(ThrowSQLError(code), TRUE) = ThrowSQLError(code)
      BY <2>1, <2>2, <3>2, <3>4, FailureKeeps
    <3> QED BY <3>1, <3>3, <3>4
  <2>3. ASSUME AttemptFails("in_doubt_error"), committed' \in {committed, committed + 1}
        PROVE  RetryInvariant'
    BY <2>1, <2>3, DoubtKeeps
  <2> QED BY <1>7, <2>2, <2>3, Undecided DEF CommitFails
<1>8. CASE CallAgain
  <2>1. asked'.fn \in {"perform", "transactor"} /\ attempts' \in Int
    BY <1>8, AttemptsAssumption DEF CallAgain
  <2> QED BY <1>8, <2>1 DEF CallAgain, RetryInvariant, TypedCall, HooksSoFar, Unheard
<1>9. CASE UNCHANGED retryVars
  BY <1>9 DEF retryVars, RetryInvariant, TypedCall, HooksSoFar, Unheard
<1> QED BY <1>1, <1>2, <1>3, <1>4, <1>5, <1>6, <1>7, <1>8, <1>9 DEF RetryNext

\* What an attempt leaves behind and what its hooks have been told, at every moment:
\* the inductive invariant.
THEOREM RetryInductive == RetrySpec => []RetryInvariant
<1> QED BY RetryInitially, RetryKept, PTL DEF RetrySpec

\* perform and connection_base::perform store what the callback does at most once,
\* for any number of attempts, and are right about whether they did: what they may
\* try again has not been stored, and all else ends them (AtMostOnce).
THEOREM StoredAtMostOnce == RetrySpec => []AtMostOnce
<1>1. RetryInvariant => AtMostOnce
  BY DEF RetryInvariant, TypedCall, AtMostOnce
<1> QED BY <1>1, RetryInductive, PTL

\* Every run of a transactor ends with one of its hooks, and with the right one
\* (HooksAddUp).
THEOREM HooksAlwaysAddUp == RetrySpec => []HooksAddUp
<1>1. RetryInvariant => HooksAddUp
  <2> SUFFICES ASSUME RetryInvariant, asked.fn = "transactor", phase = "over" PROVE HooksAddUp
    BY DEF HooksAddUp
  <2>1. told.commit \in Nat /\ told.abort \in Nat /\ told.doubt \in Nat /\ HooksSoFar /\ Unheard = 0
    BY DEF RetryInvariant, TypedCall, Unheard
  <2> QED BY <2>1 DEF HooksSoFar, HooksAddUp
<1> QED BY <1>1, RetryInductive, PTL

\* A client's transaction is carried out once or not at all, and the client is told
\* which, however often it is tried (OnceAndToldSo).
THEOREM PerformStaysTruthful == RetrySpec => []OnceAndToldSo
<1>1. AtMostOnce /\ HooksAddUp => OnceAndToldSo
  BY DEF OnceAndToldSo
<1> QED BY <1>1, StoredAtMostOnce, HooksAlwaysAddUp, PTL

-----------------------------------------------------------------------------
(* Receivers in their order *)

InOrder(rs) == 
    /\ rs \in Seq(Receivers)
    /\ \A i, j \in DOMAIN rs : rs[i] = rs[j] => i = j
    /\ \A i, j \in DOMAIN rs : i <= j => channel(rs[i]) <= channel(rs[j])

LEMMA NumbersName == \A r \in Receivers : channel(r) \in Channels /\ channel(r) \in Nat /\ r # PastAll
<1> SUFFICES ASSUME NEW r \in Receivers PROVE channel(r) \in Channels /\ channel(r) \in Nat /\ r # PastAll
  OBVIOUS
<1>1. channel(r) \in Channels /\ channel(r) \in Nat
  BY ChannelsAssumption DEF Receivers, channel
<1>2. channel(PastAll) = -1
  BY DEF channel, PastAll
<1> QED BY <1>1, <1>2

LEMMA Positions ==
    ASSUME NEW rs, InOrder(rs)
    PROVE  /\ Len(rs) \in Nat /\ DOMAIN rs = 1 .. Len(rs)
           /\ \A k \in 1 .. Len(rs) : rs[k] \in Receivers /\ channel(rs[k]) \in Nat
<1>1. rs \in Seq(Receivers)
  BY DEF InOrder
<1>2. Len(rs) \in Nat /\ DOMAIN rs = 1 .. Len(rs)
  BY <1>1, LenProperties
<1>3. \A k \in 1 .. Len(rs) : rs[k] \in Receivers
  BY <1>1, ElementOfSeq
<1> QED BY <1>2, <1>3, NumbersName

LEMMA PlaceIs ==
    ASSUME InOrder(m_receivers), NEW k \in DOMAIN m_receivers
    PROVE  PlaceOf(m_receivers[k]) = k
BY DEF InOrder, PlaceOf

\* In a sequence in order, a condition that fails from some place on holds before it.
LEMMA LowerBoundIs ==
    ASSUME NEW rs, InOrder(rs), NEW ch \in Int
    PROVE  /\ lower_bound(rs, ch) \in 1 .. Len(rs) + 1
           /\ \A j \in DOMAIN rs : j < lower_bound(rs, ch) <=> channel(rs[j]) < ch
<1>1. Len(rs) \in Nat /\ DOMAIN rs = 1 .. Len(rs) /\ \A k \in 1 .. Len(rs) : channel(rs[k]) \in Nat
  BY Positions
<1> DEFINE S == {j \in 1 .. Len(rs) : ~ (channel(rs[j]) < ch)} \cup {Len(rs) + 1}
<1>2. S \in SUBSET Nat /\ S # {} /\ S \subseteq 1 .. Len(rs) + 1
  BY <1>1
<1>3. Min(S) \in S /\ \A n \in S : Min(S) <= n
  BY <1>2, MinIs
<1>4. ASSUME NEW j \in DOMAIN rs PROVE j < Min(S) <=> channel(rs[j]) < ch
  <2>1. j \in 1 .. Len(rs) /\ Min(S) \in 1 .. Len(rs) + 1
    BY <1>1, <1>2, <1>3
  <2>2. ASSUME j < Min(S), ~ (channel(rs[j]) < ch) PROVE FALSE
    <3>1. j \in S
      BY <2>1, <2>2
    <3> QED BY <3>1, <1>3, <2>1, <2>2
  <2>3. ASSUME ~ (j < Min(S)), channel(rs[j]) < ch PROVE FALSE
    <3>1. Min(S) <= j
      BY <2>1, <2>3
    <3>2. Min(S) \in 1 .. Len(rs) /\ ~ (channel(rs[Min(S)]) < ch)
      BY <3>1, <2>1, <1>3, <1>1
    <3>3. channel(rs[Min(S)]) <= channel(rs[j])
      BY <3>1, <3>2, <2>1, <1>1 DEF InOrder
    <3>4. channel(rs[Min(S)]) \in Nat /\ channel(rs[j]) \in Nat
      BY <3>2, <2>1, <1>1
    <3> QED BY <3>2, <3>3, <3>4, <2>3
  <2> QED BY <2>2, <2>3
<1>5. Min(S) \in 1 .. Len(rs) + 1
  BY <1>2, <1>3
<1> HIDE DEF S
<1>6. \E k \in 1 .. Len(rs) + 1 : \A j \in DOMAIN rs : j < k <=> channel(rs[j]) < ch
  BY <1>4, <1>5
<1> QED BY <1>6, Zenon DEF lower_bound

LEMMA UpperBoundIs ==
    ASSUME NEW rs, InOrder(rs), NEW ch \in Int
    PROVE  /\ upper_bound(rs, ch) \in 1 .. Len(rs) + 1
           /\ \A j \in DOMAIN rs : j < upper_bound(rs, ch) <=> channel(rs[j]) <= ch
<1>1. Len(rs) \in Nat /\ DOMAIN rs = 1 .. Len(rs) /\ \A k \in 1 .. Len(rs) : channel(rs[k]) \in Nat
  BY Positions
<1>2. /\ lower_bound(rs, ch + 1) \in 1 .. Len(rs) + 1
      /\ \A j \in DOMAIN rs : j < lower_bound(rs, ch + 1) <=> channel(rs[j]) < ch + 1
  BY LowerBoundIs
<1>3. \A j \in DOMAIN rs : channel(rs[j]) < ch + 1 <=> channel(rs[j]) <= ch
  BY <1>1
<1>4. \E k \in 1 .. Len(rs) + 1 : \A j \in DOMAIN rs : j < k <=> channel(rs[j]) <= ch
  BY <1>2, <1>3
<1> QED BY <1>4, Zenon DEF upper_bound

LEMMA Grown ==
    ASSUME NEW rs, InOrder(rs), NEW r \in Receivers, \A k \in DOMAIN rs : rs[k] # r, NEW n,
           n = lower_bound(rs, channel(r))
    PROVE  /\ n \in 1 .. Len(rs) + 1
           /\ InOrder(InsertAt(rs, n, r)) /\ Len(InsertAt(rs, n, r)) = Len(rs) + 1
           /\ \A k \in 1 .. Len(rs) + 1 :
                 InsertAt(rs, n, r)[k] = IF k < n THEN rs[k] ELSE IF k = n THEN r ELSE rs[k - 1]
<1> DEFINE L == Len(rs)
<1> DEFINE front == SubSeq(rs, 1, n - 1)
<1> DEFINE back == SubSeq(rs, n, L)
<1> DEFINE new == InsertAt(rs, n, r)
<1>1. L \in Nat /\ DOMAIN rs = 1 .. L /\ \A k \in 1 .. L : rs[k] \in Receivers /\ channel(rs[k]) \in Nat
  BY Positions
<1>2. channel(r) \in Nat
  BY NumbersName
<1>3. n \in 1 .. L + 1 /\ \A j \in DOMAIN rs : j < n <=> channel(rs[j]) < channel(r)
  BY <1>2, LowerBoundIs
<1>4. front \in Seq(Receivers) /\ Len(front) = n - 1 /\ \A k \in 1 .. n - 1 : front[k] = rs[k]
  <2>1. \A i \in 1 .. n - 1 : rs[i] \in Receivers
    BY <1>1, <1>3
  <2>2. n - 1 \in Int /\ n - 1 >= 0
    BY <1>3, <1>1
  <2>3. /\ front \in Seq(Receivers)
        /\ Len(front) = IF 1 <= n - 1 THEN (n - 1) - 1 + 1 ELSE 0
        /\ \A i \in 1 .. (n - 1) - 1 + 1 : front[i] = rs[1 + i - 1]
    BY <2>1, <2>2, SubSeqProperties
  <2> HIDE DEF front
  <2> QED BY <2>2, <2>3
<1>5. back \in Seq(Receivers) /\ Len(back) = L - n + 1 /\ \A k \in 1 .. L - n + 1 : back[k] = rs[n + k - 1]
  <2>1. \A i \in n .. L : rs[i] \in Receivers
    BY <1>1, <1>3
  <2>2. n \in Int /\ L \in Int /\ n <= L + 1
    BY <1>3, <1>1
  <2>3. /\ back \in Seq(Receivers)
        /\ Len(back) = IF n <= L THEN L - n + 1 ELSE 0
        /\ \A i \in 1 .. L - n + 1 : back[i] = rs[n + i - 1]
    BY <2>1, <2>2, SubSeqProperties
  <2> HIDE DEF back
  <2> QED BY <2>2, <2>3
<1>6. <<r>> \in Seq(Receivers) /\ Len(<<r>>) = 1 /\ <<r>>[1] = r
  OBVIOUS
<1>7. new = front \o <<r>> \o back
  BY DEF InsertAt
<1> HIDE DEF front, back, new
<1> DEFINE begun == front \o <<r>>
<1>8. begun \in Seq(Receivers) /\ Len(begun) = n /\ \A k \in 1 .. n : begun[k] = IF k < n THEN rs[k] ELSE r
  <2>1. /\ begun \in Seq(Receivers) /\ Len(begun) = Len(front) + Len(<<r>>)
        /\ \A i \in 1 .. Len(front) + Len(<<r>>) : begun[i] = IF i <= Len(front) THEN front[i] ELSE <<r>>[i - Len(front)]
    BY <1>4, <1>6, ConcatProperties
  <2> HIDE DEF begun
  <2> QED BY <2>1, <1>3, <1>4, <1>6, <1>1
<1>9. /\ new \in Seq(Receivers) /\ Len(new) = L + 1
      /\ \A k \in 1 .. L + 1 : new[k] = IF k < n THEN rs[k] ELSE IF k = n THEN r ELSE rs[k - 1]
  <2>1. /\ new \in Seq(Receivers) /\ Len(new) = Len(begun) + Len(back)
        /\ \A i \in 1 .. Len(begun) + Len(back) : new[i] = IF i <= Len(begun) THEN begun[i] ELSE back[i - Len(begun)]
    BY <1>5, <1>7, <1>8, ConcatProperties
  <2> HIDE DEF begun
  <2>2. Len(new) = L + 1
    BY <2>1, <1>8, <1>5, <1>1, <1>3
  <2>3. ASSUME NEW k \in 1 .. L + 1 PROVE new[k] = IF k < n THEN rs[k] ELSE IF k = n THEN r ELSE rs[k - 1]
    <3>1. CASE k <= n
      <4>1. k \in 1 .. n /\ k \in 1 .. Len(begun) + Len(back) /\ k <= Len(begun)
        BY <3>1, <1>8, <1>5, <1>1, <1>3
      <4>2. new[k] = begun[k] /\ begun[k] = IF k < n THEN rs[k] ELSE r
        BY <4>1, <2>1, <1>8
      <4>3. ~ (k < n) => k = n
        BY <3>1, <1>3, <1>1
      <4> QED BY <4>2, <4>3
    <3>2. CASE k > n
      <4>1. k - n \in 1 .. L - n + 1 /\ n + (k - n) - 1 = k - 1
        BY <3>2, <1>1, <1>3
      <4>2. new[k] = back[k - n]
        BY <2>1, <3>2, <1>8, <1>5, <1>1, <1>3
      <4>3. back[k - n] = rs[n + (k - n) - 1]
        BY <4>1, <1>5
      <4>4. ~ (k < n) /\ k # n
        BY <3>2, <1>1, <1>3
      <4>5. new[k] = rs[k - 1]
        BY <4>1, <4>2, <4>3, Zenon
      <4> QED BY <4>4, <4>5, Zenon
    <3> QED BY <3>1, <3>2, <1>3, <1>1
  <2> QED BY <2>1, <2>2, <2>3
<1>10. InOrder(new)
  <2>1. DOMAIN new = 1 .. L + 1
    BY <1>9, LenProperties
  <2> DEFINE old(k) == IF k < n THEN k ELSE k - 1
  <2>2. ASSUME NEW k \in 1 .. L + 1, k # n PROVE old(k) \in 1 .. L /\ new[k] = rs[old(k)] /\ new[k] # r
    <3>1. old(k) \in 1 .. L
      BY <2>2, <1>3, <1>1
    <3>2. new[k] = IF k < n THEN rs[k] ELSE IF k = n THEN r ELSE rs[k - 1]
      BY <1>9
    <3>3. new[k] = rs[old(k)]
      BY <3>2, <2>2
    <3> QED BY <3>1, <3>3, <1>1
  <2>3. ASSUME NEW i \in 1 .. L + 1, NEW j \in 1 .. L + 1, new[i] = new[j] PROVE i = j
    <3>1. CASE i # n /\ j # n
      <4>1. rs[old(i)] = rs[old(j)] /\ old(i) \in DOMAIN rs /\ old(j) \in DOMAIN rs
        BY <2>2, <2>3, <3>1, <1>1
      <4>2. old(i) = old(j)
        BY <4>1, Zenon DEF InOrder
      <4> QED BY <4>2, <3>1, <1>3, <1>1
    <3>2. CASE i = n \/ j = n
      BY <3>2, <2>2, <2>3, <1>9
    <3> QED BY <3>1, <3>2
  <2>4. ASSUME NEW i \in 1 .. L + 1, NEW j \in 1 .. L + 1, i <= j PROVE channel(new[i]) <= channel(new[j])
    <3>1. CASE i # n /\ j # n
      <4>1. old(i) \in DOMAIN rs /\ old(j) \in DOMAIN rs /\ old(i) <= old(j)
        BY <2>2, <2>4, <3>1, <1>1, <1>3
      <4>2. channel(rs[old(i)]) <= channel(rs[old(j)])
        BY <4>1, Zenon DEF InOrder
      <4> QED BY <4>2, <2>2, <3>1
    <3>2. CASE i = n /\ j # n
      <4>1. j > n /\ j - 1 \in DOMAIN rs /\ ~ (j - 1 < n)
        BY <3>2, <2>4, <1>1, <1>3
      <4>2. ~ (channel(rs[j - 1]) < channel(r)) /\ channel(rs[j - 1]) \in Nat
        BY <4>1, <1>3, <1>1
      <4> QED BY <4>1, <4>2, <3>2, <1>9, <1>2, <1>3
    <3>3. CASE i # n /\ j = n
      <4>1. i < n /\ i \in DOMAIN rs
        BY <3>3, <2>4, <1>1, <1>3
      <4>2. channel(rs[i]) < channel(r) /\ channel(rs[i]) \in Nat
        BY <4>1, <1>3, <1>1
      <4> QED BY <4>1, <4>2, <3>3, <1>9, <1>2, <1>3
    <3>4. CASE i = n /\ j = n
      BY <3>4, <1>9, <1>2
    <3> QED BY <3>1, <3>2, <3>3, <3>4
  <2> HIDE DEF old
  <2> QED BY <2>1, <2>3, <2>4, <1>9 DEF InOrder
<1> QED BY <1>3, <1>9, <1>10 DEF new

LEMMA Shrunk ==
    ASSUME NEW rs, InOrder(rs), NEW n \in DOMAIN rs
    PROVE  /\ InOrder(RemoveAt(rs, n)) /\ Len(RemoveAt(rs, n)) = Len(rs) - 1
           /\ \A k \in 1 .. Len(rs) - 1 : RemoveAt(rs, n)[k] = IF k < n THEN rs[k] ELSE rs[k + 1]
<1> DEFINE L == Len(rs)
<1> DEFINE front == SubSeq(rs, 1, n - 1)
<1> DEFINE back == SubSeq(rs, n + 1, L)
<1> DEFINE new == RemoveAt(rs, n)
<1>1. L \in Nat /\ DOMAIN rs = 1 .. L /\ n \in 1 .. L /\ \A k \in 1 .. L : rs[k] \in Receivers
  BY Positions
<1>4. front \in Seq(Receivers) /\ Len(front) = n - 1 /\ \A k \in 1 .. n - 1 : front[k] = rs[k]
  <2>1. \A i \in 1 .. n - 1 : rs[i] \in Receivers
    BY <1>1
  <2>2. n - 1 \in Int /\ n - 1 >= 0
    BY <1>1
  <2>3. /\ front \in Seq(Receivers)
        /\ Len(front) = IF 1 <= n - 1 THEN (n - 1) - 1 + 1 ELSE 0
        /\ \A i \in 1 .. (n - 1) - 1 + 1 : front[i] = rs[1 + i - 1]
    BY <2>1, <2>2, SubSeqProperties
  <2> HIDE DEF front
  <2> QED BY <2>2, <2>3
<1>5. back \in Seq(Receivers) /\ Len(back) = L - n /\ \A k \in 1 .. L - n : back[k] = rs[n + k]
  <2>1. \A i \in n + 1 .. L : rs[i] \in Receivers
    BY <1>1
  <2>2. n + 1 \in Int /\ L \in Int /\ n <= L
    BY <1>1
  <2>3. /\ back \in Seq(Receivers)
        /\ Len(back) = IF n + 1 <= L THEN L - (n + 1) + 1 ELSE 0
        /\ \A i \in 1 .. L - (n + 1) + 1 : back[i] = rs[(n + 1) + i - 1]
    BY <2>1, <2>2, SubSeqProperties
  <2> HIDE DEF back
  <2>4. L - (n + 1) + 1 = L - n /\ (n <= L /\ ~ (n + 1 <= L) => L - n = 0)
    BY <1>1
  <2>5. \A k \in 1 .. L - n : (n + 1) + k - 1 = n + k
    BY <1>1
  <2>6. Len(back) = L - n
    BY <2>2, <2>3, <2>4
  <2> QED BY <2>3, <2>4, <2>5, <2>6
<1>7. new = front \o back
  BY DEF RemoveAt
<1> HIDE DEF front, back, new
<1>9. /\ new \in Seq(Receivers) /\ Len(new) = L - 1
      /\ \A k \in 1 .. L - 1 : new[k] = IF k < n THEN rs[k] ELSE rs[k + 1]
  <2>1. /\ new \in Seq(Receivers) /\ Len(new) = Len(front) + Len(back)
        /\ \A i \in 1 .. Len(front) + Len(back) : new[i] = IF i <= Len(front) THEN front[i] ELSE back[i - Len(front)]
    BY <1>4, <1>5, <1>7, ConcatProperties
  <2>2. Len(new) = L - 1
    BY <2>1, <1>4, <1>5, <1>1
  <2>3. ASSUME NEW k \in 1 .. L - 1 PROVE new[k] = IF k < n THEN rs[k] ELSE rs[k + 1]
    <3>1. CASE k < n
      BY <3>1, <2>1, <1>4, <1>5, <1>1
    <3>2. CASE ~ (k < n)
      <4>1. k - (n - 1) \in 1 .. L - n /\ n + (k - (n - 1)) = k + 1
        BY <3>2, <1>1
      <4>2. new[k] = back[k - (n - 1)]
        BY <2>1, <3>2, <1>4, <1>5, <1>1
      <4>3. back[k - (n - 1)] = rs[n + (k - (n - 1))]
        BY <4>1, <1>5
      <4> QED BY <4>1, <4>2, <4>3, <3>2
    <3> QED BY <3>1, <3>2
  <2> QED BY <2>1, <2>2, <2>3
<1>10. InOrder(new)
  <2>1. DOMAIN new = 1 .. L - 1
    BY <1>9, LenProperties
  <2> DEFINE old(k) == IF k < n THEN k ELSE k + 1
  <2>2. \A k \in 1 .. L - 1 : old(k) \in DOMAIN rs /\ new[k] = rs[old(k)]
    BY <1>9, <1>1
  <2>3. \A i, j \in 1 .. L - 1 : (old(i) = old(j) => i = j) /\ (i <= j => old(i) <= old(j))
    BY <1>1
  <2> HIDE DEF old
  <2>4. ASSUME NEW i \in 1 .. L - 1, NEW j \in 1 .. L - 1, new[i] = new[j] PROVE i = j
    BY <2>2, <2>3, <2>4 DEF InOrder
  <2>5. ASSUME NEW i \in 1 .. L - 1, NEW j \in 1 .. L - 1, i <= j PROVE channel(new[i]) <= channel(new[j])
    BY <2>2, <2>3, <2>5 DEF InOrder
  <2> QED BY <2>1, <2>4, <2>5, <1>9 DEF InOrder
<1> QED BY <1>9, <1>10 DEF new

-----------------------------------------------------------------------------
(* Calls of get_notifs *)

Frames == [at : Receivers, stop : Receivers \cup {PastAll}, due : SUBSET Receivers, told : SUBSET Receivers]

\* The call is at place a of the multimap and goes on to place z.
Spans(f, rs, a, z) ==
    /\ a \in 1 .. Len(rs) /\ z \in 1 .. Len(rs) + 1 /\ a < z
    /\ f.at = rs[a] /\ f.stop = Entry(rs, z)
    /\ \A r \in f.due : \E k \in 1 .. Len(rs) : r = rs[k]
    /\ \A k \in 1 .. Len(rs) : rs[k] \in f.due => (rs[k] \in f.told <=> k <= a) /\ k < z

InStep(f, rs) == \E a, z \in Int : Spans(f, rs, a, z)

LEMMA EntryIs ==
    ASSUME NEW rs, InOrder(rs), NEW k \in 1 .. Len(rs) + 1
    PROVE  /\ k \in 1 .. Len(rs) => Entry(rs, k) = rs[k]
           /\ k = Len(rs) + 1 => Entry(rs, k) = PastAll
           /\ Entry(rs, k) \in Receivers \cup {PastAll}
<1>1. Len(rs) \in Nat /\ DOMAIN rs = 1 .. Len(rs) /\ \A j \in 1 .. Len(rs) : rs[j] \in Receivers
  BY Positions
<1> QED BY <1>1 DEF Entry

LEMMA FrameSurvivesGrowth ==
    ASSUME NEW rs, InOrder(rs), NEW r \in Receivers, \A k \in DOMAIN rs : rs[k] # r,
           NEW f, InStep(f, rs)
    PROVE  InStep(f, InsertAt(rs, lower_bound(rs, channel(r)), r))
<1> DEFINE n == lower_bound(rs, channel(r))
<1> DEFINE new == InsertAt(rs, n, r)
<1>1. PICK a \in Int : \E z \in Int : Spans(f, rs, a, z)
  BY Zenon DEF InStep
<1>2. PICK z \in Int : Spans(f, rs, a, z)
  BY <1>1
<1>3. /\ n \in 1 .. Len(rs) + 1 /\ InOrder(new) /\ Len(new) = Len(rs) + 1
      /\ \A k \in 1 .. Len(rs) + 1 : new[k] = IF k < n THEN rs[k] ELSE IF k = n THEN r ELSE rs[k - 1]
  BY Grown
<1>4. Len(rs) \in Nat /\ DOMAIN rs = 1 .. Len(rs)
  BY Positions
<1> HIDE DEF n, new
<1> DEFINE at(k) == IF k < n THEN k ELSE k + 1
<1>5. ASSUME NEW k \in 1 .. Len(rs) PROVE at(k) \in 1 .. Len(new) /\ new[at(k)] = rs[k]
  <2>1. CASE k < n
    BY <2>1, <1>3, <1>4
  <2>2. CASE ~ (k < n)
    <3>1. k + 1 \in 1 .. Len(rs) + 1 /\ ~ (k + 1 < n) /\ k + 1 # n /\ (k + 1) - 1 = k
      BY <2>2, <1>3, <1>4
    <3>2. new[k + 1] = rs[(k + 1) - 1]
      BY <3>1, <1>3
    <3> QED BY <3>1, <3>2, <2>2, <1>3
  <2> QED BY <2>1, <2>2
<1>6. \A k \in 1 .. Len(new) : k = n \/ \E j \in 1 .. Len(rs) : k = at(j)
  <2> SUFFICES ASSUME NEW k \in 1 .. Len(new), k # n PROVE \E j \in 1 .. Len(rs) : k = at(j)
    OBVIOUS
  <2>1. CASE k < n
    <3>1. k \in 1 .. Len(rs) /\ k = at(k)
      BY <2>1, <1>3, <1>4
    <3> QED BY <3>1
  <2>2. CASE ~ (k < n)
    <3>1. k - 1 \in 1 .. Len(rs) /\ k = at(k - 1)
      BY <2>2, <1>3, <1>4
    <3> QED BY <3>1
  <2> QED BY <2>1, <2>2
<1>7. a \in 1 .. Len(rs) /\ z \in 1 .. Len(rs) + 1 /\ a < z
  BY <1>2 DEF Spans
<1>8. at(a) \in 1 .. Len(new) /\ at(z) \in 1 .. Len(new) + 1 /\ at(a) < at(z)
  BY <1>7, <1>3, <1>4
<1>9. f.at = new[at(a)] /\ f.stop = Entry(new, at(z))
  <2>1. f.at = new[at(a)]
    BY <1>2, <1>5, <1>7 DEF Spans
  <2>2. CASE z \in 1 .. Len(rs)
    <3>1. Entry(rs, z) = rs[z]
      BY <2>2, <1>7, EntryIs
    <3>2. at(z) \in 1 .. Len(new) /\ new[at(z)] = rs[z]
      BY <2>2, <1>5
    <3>3. Entry(new, at(z)) = new[at(z)]
      BY <3>2, <1>3, <1>8, EntryIs
    <3> QED BY <2>1, <3>1, <3>2, <3>3, <1>2 DEF Spans
  <2>3. CASE z = Len(rs) + 1
    <3>1. Entry(rs, z) = PastAll
      BY <2>3, <1>7, EntryIs
    <3>2. at(z) = Len(new) + 1
      BY <2>3, <1>3, <1>4
    <3>3. Entry(new, at(z)) = PastAll
      BY <3>2, <1>3, <1>8, EntryIs
    <3> QED BY <2>1, <3>1, <3>3, <1>2 DEF Spans
  <2> QED BY <2>2, <2>3, <1>7, <1>4
<1>10. r \notin f.due
  BY <1>2, <1>4 DEF Spans
<1>11. \A s \in f.due : \E k \in 1 .. Len(new) : s = new[k]
  BY <1>2, <1>5 DEF Spans
<1>12. ASSUME NEW k \in 1 .. Len(new), new[k] \in f.due
       PROVE  (new[k] \in f.told <=> k <= at(a)) /\ k < at(z)
  <2>1. new[n] = r
    BY <1>3
  <2>2. PICK j \in 1 .. Len(rs) : k = at(j)
    BY <2>1, <1>6, <1>10, <1>12
  <2>3. new[k] = rs[j]
    BY <2>2, <1>5
  <2>4. (rs[j] \in f.told <=> j <= a) /\ j < z
    BY <2>3, <1>2, <1>12 DEF Spans
  <2>5. (j <= a <=> at(j) <= at(a)) /\ (j < z <=> at(j) < at(z))
    BY <1>7, <1>3, <1>4
  <2> QED BY <2>2, <2>3, <2>4, <2>5
<1>13. at(a) \in Int /\ at(z) \in Int
  BY <1>7, <1>3, <1>4
<1> HIDE DEF at
<1>14. Spans(f, new, at(a), at(z))
  BY <1>8, <1>9, <1>11, <1>12 DEF Spans
<1>15. InStep(f, new)
  BY <1>13, <1>14, Zenon DEF InStep
<1> QED BY <1>15 DEF new, n

LEMMA FrameSurvivesLoss ==
    ASSUME NEW rs, InOrder(rs), NEW n \in DOMAIN rs, NEW f \in Frames, InStep(f, rs),
           rs[n] # f.at, rs[n] # f.stop, NEW g, g = [f EXCEPT !.due = @ \ {rs[n]}, !.told = @ \ {rs[n]}]
    PROVE  g \in Frames /\ InStep(g, RemoveAt(rs, n))
<1> DEFINE new == RemoveAt(rs, n)
<1>1. PICK a \in Int : \E z \in Int : Spans(f, rs, a, z)
  BY Zenon DEF InStep
<1>2. PICK z \in Int : Spans(f, rs, a, z)
  BY <1>1
<1>3. /\ InOrder(new) /\ Len(new) = Len(rs) - 1
      /\ \A k \in 1 .. Len(rs) - 1 : new[k] = IF k < n THEN rs[k] ELSE rs[k + 1]
  BY Shrunk
<1>4. Len(rs) \in Nat /\ DOMAIN rs = 1 .. Len(rs) /\ n \in 1 .. Len(rs)
  BY Positions
<1> HIDE DEF new
<1>g. /\ g \in Frames /\ g.at = f.at /\ g.stop = f.stop
      /\ g.due = f.due \ {rs[n]} /\ g.told = f.told \ {rs[n]}
  BY DEF Frames
<1> DEFINE at(k) == IF k < n THEN k ELSE k - 1
<1>5. ASSUME NEW k \in 1 .. Len(rs), k # n PROVE at(k) \in 1 .. Len(new) /\ new[at(k)] = rs[k]
  <2>1. CASE k < n
    BY <2>1, <1>3, <1>4
  <2>2. CASE ~ (k < n)
    <3>1. k - 1 \in 1 .. Len(rs) - 1 /\ ~ (k - 1 < n) /\ (k - 1) + 1 = k
      BY <2>2, <1>5, <1>4
    <3>2. new[k - 1] = rs[(k - 1) + 1]
      BY <3>1, <1>3
    <3> QED BY <3>1, <3>2, <2>2, <1>3
  <2> QED BY <2>1, <2>2
<1>6. ASSUME NEW k \in 1 .. Len(new) PROVE \E j \in 1 .. Len(rs) : j # n /\ k = at(j)
  <2>1. CASE k < n
    <3>1. k \in 1 .. Len(rs) /\ k # n /\ k = at(k)
      BY <2>1, <1>3, <1>4
    <3> QED BY <3>1
  <2>2. CASE ~ (k < n)
    <3>1. k + 1 \in 1 .. Len(rs) /\ k + 1 # n /\ k = at(k + 1)
      BY <2>2, <1>3, <1>4
    <3> QED BY <3>1
  <2> QED BY <2>1, <2>2
<1>7. a \in 1 .. Len(rs) /\ z \in 1 .. Len(rs) + 1 /\ a < z /\ a # n /\ z # n
  <2>1. a \in 1 .. Len(rs) /\ z \in 1 .. Len(rs) + 1 /\ a < z /\ f.at = rs[a] /\ f.stop = Entry(rs, z)
    BY <1>2 DEF Spans
  <2>2. z \in 1 .. Len(rs) => f.stop = rs[z]
    BY <2>1, EntryIs
  <2> QED BY <2>1, <2>2, <1>4
<1>8. at(a) \in 1 .. Len(new) /\ at(z) \in 1 .. Len(new) + 1 /\ at(a) < at(z)
  BY <1>7, <1>3, <1>4
<1>9. f.at = new[at(a)] /\ f.stop = Entry(new, at(z))
  <2>1. f.at = new[at(a)]
    BY <1>2, <1>5, <1>7 DEF Spans
  <2>2. CASE z \in 1 .. Len(rs)
    <3>1. Entry(rs, z) = rs[z]
      BY <2>2, <1>7, EntryIs
    <3>2. at(z) \in 1 .. Len(new) /\ new[at(z)] = rs[z]
      BY <2>2, <1>5, <1>7
    <3>3. Entry(new, at(z)) = new[at(z)]
      BY <3>2, <1>3, <1>8, EntryIs
    <3> QED BY <2>1, <3>1, <3>2, <3>3, <1>2 DEF Spans
  <2>3. CASE z = Len(rs) + 1
    <3>1. Entry(rs, z) = PastAll
      BY <2>3, <1>7, EntryIs
    <3>2. at(z) = Len(new) + 1
      BY <2>3, <1>3, <1>4
    <3>3. Entry(new, at(z)) = PastAll
      BY <3>2, <1>3, <1>8, EntryIs
    <3> QED BY <2>1, <3>1, <3>3, <1>2 DEF Spans
  <2> QED BY <2>2, <2>3, <1>7, <1>4
<1>11. ASSUME NEW s \in g.due PROVE \E k \in 1 .. Len(new) : s = new[k]
  <2>1. s \in f.due /\ s # rs[n]
    BY <1>11, <1>g
  <2>2. PICK k \in 1 .. Len(rs) : s = rs[k]
    BY <2>1, <1>2 DEF Spans
  <2>3. at(k) \in 1 .. Len(new) /\ new[at(k)] = s
    BY <2>1, <2>2, <1>5
  <2> QED BY <2>3
<1>12. ASSUME NEW k \in 1 .. Len(new), new[k] \in g.due
       PROVE  (new[k] \in g.told <=> k <= at(a)) /\ k < at(z)
  <2>2. PICK j \in 1 .. Len(rs) : j # n /\ k = at(j)
    BY <1>6
  <2>3. new[k] = rs[j]
    BY <2>2, <1>5
  <2>4. rs[j] \in f.due /\ rs[j] # rs[n]
    BY <2>3, <1>12, <1>g
  <2>5. (rs[j] \in f.told <=> j <= a) /\ j < z
    BY <2>4, <1>2 DEF Spans
  <2>6. (j <= a <=> at(j) <= at(a)) /\ (j < z <=> at(j) < at(z))
    BY <2>2, <1>7, <1>3, <1>4
  <2>7. new[k] \in g.told <=> rs[j] \in f.told
    BY <2>3, <2>4, <1>g
  <2> QED BY <2>2, <2>5, <2>6, <2>7
<1>13. at(a) \in Int /\ at(z) \in Int
  BY <1>7, <1>3, <1>4
<1> HIDE DEF at
<1>14. Spans(g, new, at(a), at(z))
  BY <1>g, <1>8, <1>9, <1>11, <1>12 DEF Spans
<1>15. InStep(g, new)
  BY <1>13, <1>14, Zenon DEF InStep
<1> QED BY <1>g, <1>15 DEF new

LEMMA FrameBegins ==
    ASSUME NEW rs, InOrder(rs), NEW ch \in Int, equal_range(rs, ch) # {}
    PROVE  Frame(rs, ch) \in Frames /\ InStep(Frame(rs, ch), rs)
<1> DEFINE a == lower_bound(rs, ch)
<1> DEFINE z == upper_bound(rs, ch)
<1> DEFINE f == Frame(rs, ch)
<1>1. Len(rs) \in Nat /\ DOMAIN rs = 1 .. Len(rs) /\ \A k \in 1 .. Len(rs) : rs[k] \in Receivers /\ channel(rs[k]) \in Nat
  BY Positions
<1>2. a \in 1 .. Len(rs) + 1 /\ \A j \in DOMAIN rs : j < a <=> channel(rs[j]) < ch
  BY LowerBoundIs
<1>3. z \in 1 .. Len(rs) + 1 /\ \A j \in DOMAIN rs : j < z <=> channel(rs[j]) <= ch
  BY UpperBoundIs
<1>4. /\ f.at = rs[a] /\ f.stop = Entry(rs, z) /\ f.told = {rs[a]}
      /\ f.due = {rs[k] : k \in equal_range(rs, ch)}
      /\ f = [at |-> rs[a], stop |-> Entry(rs, z), due |-> f.due, told |-> {rs[a]}]
  BY DEF Frame
<1>5. \A k \in equal_range(rs, ch) : k \in 1 .. Len(rs) /\ ~ (k < a) /\ k < z
  BY <1>1, <1>2, <1>3 DEF equal_range
<1> HIDE DEF a, z, f
<1>6. a \in 1 .. Len(rs) /\ a < z
  BY <1>5, <1>2, <1>3, <1>1
<1>7. \A s \in f.due : \E k \in 1 .. Len(rs) : s = rs[k]
  BY <1>4, <1>5
<1>8. ASSUME NEW k \in 1 .. Len(rs), rs[k] \in f.due PROVE (rs[k] \in f.told <=> k <= a) /\ k < z
  <2>1. PICK j \in equal_range(rs, ch) : rs[k] = rs[j]
    BY <1>8, <1>4
  <2>2. j \in 1 .. Len(rs) /\ ~ (j < a) /\ j < z
    BY <2>1, <1>5
  <2>3. k = j
    BY <2>1, <2>2, <1>1, Zenon DEF InOrder
  <2>4. rs[k] \in f.told <=> rs[k] = rs[a]
    BY <1>4
  <2>5. rs[k] = rs[a] <=> k = a
    BY <1>6, <1>1, Zenon DEF InOrder
  <2> QED BY <2>2, <2>3, <2>4, <2>5, <1>6
<1>9. f \in Frames
  <2>1. Entry(rs, z) \in Receivers \cup {PastAll}
    BY <1>3, EntryIs
  <2>2. f.due \subseteq Receivers
    BY <1>7, <1>1
  <2> QED BY <2>1, <2>2, <1>4, <1>6, <1>1 DEF Frames
<1>10. Spans(f, rs, a, z)
  BY <1>3, <1>4, <1>6, <1>7, <1>8 DEF Spans
<1>11. InStep(f, rs)
  BY <1>10, <1>3, <1>6 DEF InStep
<1> QED BY <1>9, <1>11 DEF f

LEMMA FrameGoesOn ==
    ASSUME InOrder(m_receivers), NEW f \in Frames, InStep(f, m_receivers), NextOf(f.at) # f.stop,
           NEW g, g = [f EXCEPT !.at = NextOf(f.at), !.told = @ \cup {NextOf(f.at)}]
    PROVE  g \in Frames /\ InStep(g, m_receivers)
<1> DEFINE rs == m_receivers
<1>1. PICK a \in Int : \E z \in Int : Spans(f, rs, a, z)
  BY Zenon DEF InStep
<1>2. PICK z \in Int : Spans(f, rs, a, z)
  BY <1>1
<1>3. Len(rs) \in Nat /\ DOMAIN rs = 1 .. Len(rs) /\ \A k \in 1 .. Len(rs) : rs[k] \in Receivers
  BY Positions
<1>4. a \in 1 .. Len(rs) /\ z \in 1 .. Len(rs) + 1 /\ a < z /\ f.at = rs[a] /\ f.stop = Entry(rs, z)
  BY <1>2 DEF Spans
<1>5. NextOf(f.at) = Entry(rs, a + 1)
  BY <1>3, <1>4, PlaceIs DEF NextOf
<1>6. a + 1 < z /\ a + 1 \in 1 .. Len(rs)
  BY <1>3, <1>4, <1>5
<1>7. Entry(rs, a + 1) = rs[a + 1]
  BY <1>6, <1>3 DEF Entry
<1>8. /\ g \in Frames /\ g.at = rs[a + 1] /\ g.stop = f.stop /\ g.due = f.due
      /\ g.told = f.told \cup {rs[a + 1]}
  BY <1>3, <1>5, <1>6, <1>7 DEF Frames
<1>9. ASSUME NEW k \in 1 .. Len(rs), rs[k] \in g.due PROVE (rs[k] \in g.told <=> k <= a + 1) /\ k < z
  <2>1. (rs[k] \in f.told <=> k <= a) /\ k < z
    BY <1>2, <1>8, <1>9 DEF Spans
  <2>2. rs[k] = rs[a + 1] <=> k = a + 1
    BY <1>6, <1>3, Zenon DEF InOrder
  <2> QED BY <2>1, <2>2, <1>8, <1>4
<1>10. \A s \in g.due : \E k \in 1 .. Len(rs) : s = rs[k]
  BY <1>2, <1>8 DEF Spans
<1>11. Spans(g, rs, a + 1, z)
  BY <1>4, <1>6, <1>8, <1>9, <1>10 DEF Spans
<1> QED BY <1>8, <1>11 DEF InStep

\* The next notification that somebody waits for is taken, with a call of its own.
LEMMA Fetched ==
    ASSUME NEW rs, InOrder(rs), arrived \in Seq(Channels), NEW below \in Seq(Frames),
           \A k \in DOMAIN below : InStep(below[k], rs), Fetch(rs, below)
    PROVE  /\ arrived' \in Seq(Channels) /\ frames' \in Seq(Frames)
           /\ \A k \in DOMAIN frames' : InStep(frames'[k], rs)
<1> DEFINE hits == {k \in DOMAIN arrived : equal_range(rs, arrived[k]) # {}}
<1>1. Len(arrived) \in Nat /\ DOMAIN arrived = 1 .. Len(arrived) /\ \A k \in 1 .. Len(arrived) : arrived[k] \in Channels
  BY LenProperties, ElementOfSeq
<1>2. CASE hits = {}
  BY <1>2 DEF Fetch
<1>3. CASE hits # {}
  <2>1. hits \in SUBSET Nat
    BY <1>1
  <2>2. Min(hits) \in hits
    BY <2>1, <1>3, MinIs
  <2> DEFINE m == Min(hits)
  <2> DEFINE f == Frame(rs, arrived[m])
  <2>3. m \in 1 .. Len(arrived) /\ equal_range(rs, arrived[m]) # {}
    BY <2>2, <1>1
  <2>4. arrived' = SubSeq(arrived, m + 1, Len(arrived)) /\ frames' = <<f>> \o below
    BY <1>3 DEF Fetch
  <2> HIDE DEF m
  <2>5. arrived' \in Seq(Channels)
    <3>1. \A i \in m + 1 .. Len(arrived) : arrived[i] \in Channels
      BY <1>1, <2>3
    <3>2. m + 1 \in Int /\ Len(arrived) \in Int
      BY <1>1, <2>3
    <3> QED BY <3>1, <3>2, <2>4, SubSeqProperties
  <2>6. arrived[m] \in Int
    <3>1. arrived[m] \in Channels
      BY <2>3, <1>1
    <3>2. \A ch \in Channels : ch \in Int
      BY ChannelsAssumption
    <3> QED BY <3>1, <3>2
  <2>7. f \in Frames /\ InStep(f, rs)
    BY <2>3, <2>6, FrameBegins
  <2> HIDE DEF f
  <2>8. <<f>> \in Seq(Frames) /\ Len(<<f>>) = 1 /\ <<f>>[1] = f
    BY <2>7
  <2>9. /\ frames' \in Seq(Frames) /\ Len(frames') = 1 + Len(below)
        /\ \A i \in 1 .. 1 + Len(below) : frames'[i] = IF i <= 1 THEN f ELSE below[i - 1]
    <3>1. /\ <<f>> \o below \in Seq(Frames) /\ Len(<<f>> \o below) = Len(<<f>>) + Len(below)
          /\ \A i \in 1 .. Len(<<f>>) + Len(below) :
               (<<f>> \o below)[i] = IF i <= Len(<<f>>) THEN <<f>>[i] ELSE below[i - Len(<<f>>)]
      BY <2>8, ConcatProperties
    <3>2. ASSUME NEW i \in 1 .. 1 + Len(below), i <= 1 PROVE <<f>>[i] = f
      BY <3>2, <2>8
    <3> QED BY <3>1, <3>2, <2>4, <2>8
  <2>10. Len(below) \in Nat /\ DOMAIN below = 1 .. Len(below) /\ DOMAIN frames' = 1 .. 1 + Len(below)
    BY <2>9, LenProperties
  <2>11. ASSUME NEW k \in DOMAIN frames' PROVE InStep(frames'[k], rs)
    <3>1. CASE k <= 1
      BY <3>1, <2>7, <2>9, <2>10
    <3>2. CASE ~ (k <= 1)
      <4>1. k - 1 \in DOMAIN below /\ frames'[k] = below[k - 1]
        BY <3>2, <2>9, <2>10
      <4> QED BY <4>1
    <3> QED BY <3>1, <3>2
  <2> QED BY <2>5, <2>9, <2>11
<1> QED BY <1>2, <1>3

-----------------------------------------------------------------------------
(* Every step keeps the multimap in order and the calls in step *)

CallsInvariant ==
    /\ InOrder(m_receivers)
    /\ arrived \in Seq(Channels)
    /\ frames \in Seq(Frames)
    /\ \A k \in DOMAIN frames : InStep(frames[k], m_receivers)
    /\ ChannelsAreHeard

NoticeInvariant == CallsInvariant /\ listening \subseteq Channels

\* The channels of receivers, and those that the session knows of.
noted == listening \cup unheard

LEMMA HeardIs ==
    /\ ChannelsAreHeard <=> (m_conn = "ok" => \A s \in Range(m_receivers) : channel(s) \in noted)
    /\ ChannelsAreHeard' <=> (m_conn' = "ok" => \A s \in Range(m_receivers') : channel(s) \in noted')
<1>1. channels = {channel(s) : s \in Range(m_receivers)} /\ channels' = {channel(s) : s \in Range(m_receivers')}
  BY DEF channels, Here
<1> QED BY <1>1, Zenon DEF ChannelsAreHeard, IsOpen, noted

\* What the connection does keeps the receivers and the calls.
LEMMA LinkKeeps ==
    ASSUME CallsInvariant, UNCHANGED <<m_receivers, frames>>, arrived' \in Seq(Channels), ChannelsAreHeard'
    PROVE  CallsInvariant'
BY DEF CallsInvariant

LEMMA Relistened == ASSUME SetUpState, UNCHANGED m_receivers PROVE arrived' \in Seq(Channels) /\ ChannelsAreHeard'
<1>1. arrived' = <<>> /\ <<>> \in Seq(Channels)
  BY DEF SetUpState
<1>2. m_conn' = "ok" => noted' = channels
  BY DEF SetUpState, noted
<1>3. \A s \in Range(m_receivers') : channel(s) \in channels
  BY DEF channels, Here
<1> QED BY <1>1, <1>2, <1>3, HeardIs

LEMMA Cut == ASSUME disconnect \/ Broken, CallsInvariant PROVE arrived' \in Seq(Channels) /\ ChannelsAreHeard'
<1>1. <<>> \in Seq(Channels) /\ arrived \in Seq(Channels) /\ arrived' \in {arrived, <<>>}
  BY DEF disconnect, Broken, CallsInvariant
<1>2. m_conn' # "ok"
  BY DEF disconnect, Broken
<1>3. ChannelsAreHeard'
  BY <1>2, HeardIs
<1> QED BY <1>1, <1>3

LEMMA CallsKeep ==
    ASSUME CallsInvariant, GetNotifs \/ Called
    PROVE  CallsInvariant'
<1>1. /\ InOrder(m_receivers) /\ arrived \in Seq(Channels) /\ frames \in Seq(Frames)
      /\ \A k \in DOMAIN frames : InStep(frames[k], m_receivers)
  BY DEF CallsInvariant
<1>2. InOrder(m_receivers)' /\ ChannelsAreHeard' /\ m_receivers' = m_receivers
  <2>1. m_receivers' = m_receivers /\ m_conn' = m_conn /\ noted' = noted
    BY DEF GetNotifs, Called, noted
  <2> QED BY <1>1, <2>1, HeardIs DEF CallsInvariant
<1>3. ASSUME NEW below \in Seq(Frames), \A k \in DOMAIN below : InStep(below[k], m_receivers),
             Fetch(m_receivers, below)
      PROVE  CallsInvariant'
  <2>1. /\ arrived' \in Seq(Channels) /\ frames' \in Seq(Frames)
        /\ \A k \in DOMAIN frames' : InStep(frames'[k], m_receivers)
    BY <1>1, <1>3, Fetched
  <2> QED BY <2>1, <1>2 DEF CallsInvariant
<1>4. CASE GetNotifs
  BY <1>1, <1>3, <1>4 DEF GetNotifs
<1>5. CASE Called
  <2> DEFINE f == Head(frames)
  <2> DEFINE next == NextOf(f.at)
  <2> DEFINE g == [f EXCEPT !.at = next, !.told = @ \cup {next}]
  <2>1. frames # <<>>
    BY <1>5 DEF Called
  <2>2. f \in Frames /\ Tail(frames) \in Seq(Frames) /\ Len(Tail(frames)) = Len(frames) - 1
    BY <1>1, <2>1, HeadTailProperties
  <2>3. \A k \in 1 .. Len(Tail(frames)) : Tail(frames)[k] = frames[k + 1]
    BY <1>1, <2>1, HeadTailProperties
  <2>4. /\ DOMAIN frames = 1 .. Len(frames) /\ Len(frames) \in Nat \ {0} /\ f = frames[1]
        /\ DOMAIN Tail(frames) = 1 .. Len(Tail(frames))
    BY <1>1, <2>1, <2>2, LenProperties, EmptySeq
  <2>5. InStep(f, m_receivers) /\ \A k \in DOMAIN Tail(frames) : InStep(Tail(frames)[k], m_receivers)
    <3>1. InStep(frames[1], m_receivers)
      BY <1>1, <2>4
    <3>2. ASSUME NEW k \in 1 .. Len(Tail(frames)) PROVE InStep(Tail(frames)[k], m_receivers)
      <4>1. k + 1 \in DOMAIN frames
        BY <2>2, <2>4
      <4>2. InStep(frames[k + 1], m_receivers)
        BY <1>1, <4>1
      <4> QED BY <4>2, <2>3
    <3> QED BY <3>1, <3>2, <2>4
  <2>6. CASE next = f.stop
    <3>1. Fetch(m_receivers, Tail(frames))
      BY <1>5, <2>6 DEF Called
    <3> QED BY <3>1, <1>3, <2>2, <2>5
  <2>7. CASE next # f.stop
    <3>1. g \in Frames /\ InStep(g, m_receivers)
      BY <1>1, <2>2, <2>5, <2>7, FrameGoesOn
    <3>2. frames' = <<g>> \o Tail(frames) /\ arrived' = arrived
      BY <1>5, <2>7 DEF Called
    <3> HIDE DEF g
    <3>3. <<g>> \in Seq(Frames) /\ Len(<<g>>) = 1 /\ <<g>>[1] = g
      BY <3>1
    <3>4. /\ <<g>> \o Tail(frames) \in Seq(Frames)
          /\ Len(<<g>> \o Tail(frames)) = Len(<<g>>) + Len(Tail(frames))
          /\ \A i \in 1 .. Len(<<g>>) + Len(Tail(frames)) :
               (<<g>> \o Tail(frames))[i] = IF i <= Len(<<g>>) THEN <<g>>[i] ELSE Tail(frames)[i - Len(<<g>>)]
      BY <2>2, <3>3, ConcatProperties
    <3>5. frames' \in Seq(Frames) /\ DOMAIN frames' = 1 .. Len(frames)
      BY <2>2, <2>4, <3>2, <3>3, <3>4, LenProperties
    <3>6. ASSUME NEW k \in 1 .. Len(frames) PROVE InStep(frames'[k], m_receivers)
      <4>1. CASE k = 1
        <5>1. frames'[k] = g
          BY <4>1, <3>2, <3>3, <3>4, <2>2, <2>4
        <5> QED BY <5>1, <3>1
      <4>2. CASE k # 1
        <5>1. k - 1 \in DOMAIN Tail(frames) /\ frames'[k] = Tail(frames)[k - 1]
          BY <4>2, <3>2, <3>3, <3>4, <2>2, <2>4
        <5> QED BY <5>1, <2>5
      <4> QED BY <4>1, <4>2
    <3> QED BY <1>1, <1>2, <3>2, <3>5, <3>6 DEF CallsInvariant
  <2> QED BY <2>6, <2>7
<1> QED BY <1>4, <1>5

LEMMA AddKeeps ==
    ASSUME CallsInvariant, NEW r \in Receivers, AddReceiver(r)
    PROVE  CallsInvariant'
<1>1. /\ InOrder(m_receivers) /\ arrived \in Seq(Channels) /\ frames \in Seq(Frames)
      /\ \A k \in DOMAIN frames : InStep(frames[k], m_receivers)
  BY DEF CallsInvariant
<1>2. Len(m_receivers) \in Nat /\ DOMAIN m_receivers = 1 .. Len(m_receivers)
  BY <1>1, Positions
<1>3. r \notin Here /\ frames' = frames
  BY DEF AddReceiver
<1>4. \A k \in DOMAIN m_receivers : m_receivers[k] # r
  BY <1>3 DEF Here, Range
<1>5. InOrder(inserted(r)) /\ \A k \in DOMAIN frames : InStep(frames[k], inserted(r))
  BY <1>1, <1>4, Grown, FrameSurvivesGrowth DEF inserted
<1>6. Range(inserted(r)) \subseteq Here \cup {r}
  <2> DEFINE n == lower_bound(m_receivers, channel(r))
  <2> DEFINE L == Len(m_receivers)
  <2>1. /\ n \in 1 .. L + 1 /\ Len(inserted(r)) = L + 1
        /\ \A k \in 1 .. L + 1 : inserted(r)[k] = IF k < n THEN m_receivers[k] ELSE IF k = n THEN r ELSE m_receivers[k - 1]
    BY <1>1, <1>4, Grown DEF inserted
  <2>2. DOMAIN inserted(r) = 1 .. L + 1
    BY <1>5, <2>1, Positions
  <2>3. ASSUME NEW k \in 1 .. L + 1 PROVE inserted(r)[k] \in Here \cup {r}
    <3>1. k < n => k \in DOMAIN m_receivers
      BY <2>1, <1>2
    <3>2. ~ (k < n) /\ k # n => k - 1 \in DOMAIN m_receivers
      BY <2>1, <1>2
    <3> HIDE DEF n
    <3> QED BY <2>1, <3>1, <3>2 DEF Here, Range
  <2> QED BY <2>2, <2>3 DEF Range
<1>7. InOrder(m_receivers') /\ \A k \in DOMAIN frames' : InStep(frames'[k], m_receivers')
  BY <1>1, <1>3, <1>5 DEF AddReceiver, link
<1>8. arrived' = arrived
  BY DEF AddReceiver, link, Broken
<1>9. ChannelsAreHeard'
  <2> SUFFICES ASSUME m_conn' = "ok", NEW s \in Range(m_receivers') PROVE channel(s) \in noted'
    BY HeardIs
  <2> DEFINE new == equal_range(m_receivers, channel(r)) = {}
  <2>0. m_conn = "ok" => \A q \in Here : channel(q) \in noted
    BY HeardIs DEF CallsInvariant, Here
  <2>1. CASE m_receivers' = m_receivers /\ noted' = noted /\ m_conn' = m_conn
    BY <2>0, <2>1 DEF Here
  <2>2. CASE /\ m_receivers' = inserted(r) /\ m_conn' = m_conn
             /\ noted' = IF new /\ IsOpen THEN noted \cup {channel(r)} ELSE noted
    <3>1. IsOpen /\ noted \subseteq noted' /\ \A q \in Here : channel(q) \in noted
      BY <2>0, <2>2 DEF IsOpen
    <3>2. s \in Here \cup {r}
      BY <2>2, <1>6
    <3>3. CASE s \in Here
      BY <3>1, <3>3
    <3>4. CASE s = r /\ new
      BY <2>2, <3>1, <3>4
    <3>5. CASE s = r /\ ~ new
      <4>1. PICK k \in DOMAIN m_receivers : channel(m_receivers[k]) = channel(r)
        BY <3>5 DEF equal_range
      <4>2. m_receivers[k] \in Here
        BY <4>1 DEF Here, Range
      <4> QED BY <3>1, <3>5, <4>1, <4>2
    <3> QED BY <3>2, <3>3, <3>4, <3>5
  <2>3. CASE Broken
    BY <2>3 DEF Broken
  <2>4. \/ m_receivers' = m_receivers /\ noted' = noted /\ m_conn' = m_conn
        \/ /\ m_receivers' = inserted(r) /\ m_conn' = m_conn
           /\ noted' = IF new /\ IsOpen THEN noted \cup {channel(r)} ELSE noted
        \/ Broken
    <3>1. CASE m_receivers' = inserted(r) /\ new /\ IsOpen /\ m_conn' = m_conn
               /\ listening' = listening \cup {channel(r)} /\ unheard' = unheard \ {channel(r)}
      BY <3>1 DEF noted
    <3>2. CASE m_receivers' = inserted(r) /\ ~(new /\ IsOpen) /\ m_conn' = m_conn
               /\ listening' = listening /\ unheard' = unheard
      BY <3>2 DEF noted
    <3>3. CASE UNCHANGED <<link, m_receivers>>
      BY <3>3 DEF link, noted
    <3> HIDE DEF new
    <3> QED BY <3>1, <3>2, <3>3 DEF AddReceiver, new
  <2> QED BY <2>1, <2>2, <2>3, <2>4
<1> QED BY <1>1, <1>3, <1>7, <1>8, <1>9 DEF CallsInvariant

LEMMA RemoveKeeps ==
    ASSUME CallsInvariant, NEW r \in Receivers, RemoveReceiver(r)
    PROVE  CallsInvariant'
<1> DEFINE n == PlaceOf(r)
<1> DEFINE left == Without(r)
<1>1. /\ InOrder(m_receivers) /\ arrived \in Seq(Channels) /\ frames \in Seq(Frames)
      /\ \A k \in DOMAIN frames : InStep(frames[k], m_receivers)
  BY DEF CallsInvariant
<1>2. /\ r \in Here /\ \A k \in DOMAIN frames : r # frames[k].at /\ r # frames[k].stop
      /\ m_receivers' = RemoveAt(m_receivers, n)
  BY DEF RemoveReceiver, erased
<1>3. n \in DOMAIN m_receivers /\ m_receivers[n] = r
  <2>1. PICK k \in DOMAIN m_receivers : m_receivers[k] = r
    BY <1>2 DEF Here, Range
  <2> QED BY <2>1, <1>1, PlaceIs
<1> HIDE DEF n
<1>4. InOrder(m_receivers')
  BY <1>1, <1>2, <1>3, Shrunk
<1>5. left \in Seq(Frames) /\ \A k \in DOMAIN left : InStep(left[k], m_receivers')
  <2>1. Len(frames) \in Nat /\ DOMAIN frames = 1 .. Len(frames) /\ \A k \in 1 .. Len(frames) : frames[k] \in Frames
    BY <1>1, LenProperties, ElementOfSeq
  <2>2. ASSUME NEW k \in DOMAIN frames PROVE left[k] \in Frames /\ InStep(left[k], m_receivers')
    <3>1. left[k] = [frames[k] EXCEPT !.due = @ \ {r}, !.told = @ \ {r}]
      BY DEF Without
    <3> HIDE DEF left
    <3> QED BY <3>1, <2>1, <1>1, <1>2, <1>3, FrameSurvivesLoss
  <2>3. DOMAIN left = 1 .. Len(frames) /\ left = [k \in 1 .. Len(frames) |-> left[k]]
    BY <2>1 DEF Without
  <2> HIDE DEF left
  <2>4. [k \in 1 .. Len(frames) |-> left[k]] \in Seq(Frames)
    BY <2>1, <2>2
  <2> QED BY <2>1, <2>2, <2>3, <2>4
<1> HIDE DEF left
<1>7. ASSUME NEW rs, rs = m_receivers', Fetch(rs, left)
      PROVE  /\ arrived' \in Seq(Channels) /\ frames' \in Seq(Frames)
             /\ \A k \in DOMAIN frames' : InStep(frames'[k], rs)
  <2>1. InOrder(rs) /\ \A k \in DOMAIN left : InStep(left[k], rs)
    BY <1>4, <1>5, <1>7
  <2> QED BY <2>1, <1>1, <1>5, <1>7, Fetched
<1>8. /\ arrived' \in Seq(Channels) /\ frames' \in Seq(Frames)
      /\ \A k \in DOMAIN frames' : InStep(frames'[k], m_receivers')
  <2>1. \/ frames' = left /\ arrived' \in {arrived, <<>>}
        \/ Fetch(m_receivers', left)
    BY DEF RemoveReceiver, link, disconnect, Broken, left
  <2>2. CASE frames' = left /\ arrived' \in {arrived, <<>>}
    <3>1. <<>> \in Seq(Channels)
      OBVIOUS
    <3>2. arrived' \in Seq(Channels)
      BY <3>1, <2>2, <1>1
    <3> QED BY <3>2, <2>2, <1>5
  <2>3. CASE Fetch(m_receivers', left)
    BY <2>3, <1>7 DEF Fetch
  <2> QED BY <2>1, <2>2, <2>3
<1>9. \A s \in Range(m_receivers') :
          s \in Here /\ (equal_range(m_receivers, channel(r)) = {n} => channel(s) # channel(r))
  <2> DEFINE L == Len(m_receivers)
  <2>1. L \in Nat /\ DOMAIN m_receivers = 1 .. L /\ DOMAIN m_receivers' = 1 .. L - 1
    <3>1. L \in Nat /\ DOMAIN m_receivers = 1 .. L
      BY <1>1, Positions
    <3>2. DOMAIN m_receivers' = 1 .. Len(m_receivers') /\ Len(m_receivers') = L - 1
      BY <1>1, <1>2, <1>3, <1>4, Positions, Shrunk
    <3> QED BY <3>1, <3>2
  <2>2. ASSUME NEW k \in 1 .. L - 1
        PROVE  \E j \in DOMAIN m_receivers : j # n /\ m_receivers'[k] = m_receivers[j]
    <3>1. m_receivers'[k] = IF k < n THEN m_receivers[k] ELSE m_receivers[k + 1]
      BY <1>1, <1>2, <1>3, Shrunk
    <3>2. (k < n => k \in DOMAIN m_receivers /\ k # n) /\ (~ (k < n) => k + 1 \in DOMAIN m_receivers /\ k + 1 # n)
      BY <2>1, <1>3
    <3> QED BY <3>1, <3>2
  <2>3. ASSUME NEW s \in Range(m_receivers')
        PROVE  s \in Here /\ (equal_range(m_receivers, channel(r)) = {n} => channel(s) # channel(r))
    <3>1. PICK j \in DOMAIN m_receivers : j # n /\ s = m_receivers[j]
      BY <2>1, <2>2 DEF Range
    <3> QED BY <3>1 DEF Here, Range, equal_range
  <2> QED BY <2>3
<1>10. ChannelsAreHeard'
  <2> SUFFICES ASSUME m_conn' = "ok", NEW s \in Range(m_receivers') PROVE channel(s) \in noted'
    BY HeardIs
  <2>1. s \in Here /\ (equal_range(m_receivers, channel(r)) = {n} => channel(s) # channel(r))
    BY <1>9
  <2>2. m_conn = "ok" => channel(s) \in noted
    BY <2>1, HeardIs DEF CallsInvariant, Here
  <2>3. \/ m_conn' = m_conn /\ listening' = listening /\ unheard' = unheard
        \/ /\ equal_range(m_receivers, channel(r)) = {n} /\ IsOpen
           /\ listening' = listening \ {channel(r)} /\ unheard' = unheard
        \/ Broken \/ disconnect
    BY DEF RemoveReceiver, link, n
  <2>4. ~ Broken /\ ~ disconnect
    BY DEF Broken, disconnect
  <2> QED BY <2>1, <2>2, <2>3, <2>4 DEF IsOpen, noted
<1> QED BY <1>4, <1>8, <1>10 DEF CallsInvariant

LEMMA NoticeInitially == NoticeInit => NoticeInvariant
<1> SUFFICES ASSUME NoticeInit PROVE NoticeInvariant
  OBVIOUS
<1>1. DOMAIN <<>> = {} /\ <<>> \in Seq(Channels) /\ <<>> \in Seq(Frames) /\ <<>> \in Seq(Receivers)
  OBVIOUS
<1>2. InOrder(m_receivers)
  BY <1>1 DEF NoticeInit, InOrder
<1>3. ChannelsAreHeard
  BY <1>1, HeardIs DEF NoticeInit, Range
<1> QED BY <1>1, <1>2, <1>3 DEF NoticeInit, NoticeInvariant, CallsInvariant

LEMMA CloseKeeps == ASSUME CallsInvariant, CloseConnection PROVE CallsInvariant'
<1>1. DOMAIN <<>> = {} /\ <<>> \in Seq(Channels) /\ <<>> \in Seq(Frames) /\ <<>> \in Seq(Receivers)
  OBVIOUS
<1>2. m_receivers' = <<>> /\ frames' = <<>> /\ arrived' = <<>>
  BY DEF CloseConnection, disconnect
<1>3. InOrder(m_receivers')
  BY <1>1, <1>2 DEF InOrder
<1>4. ChannelsAreHeard'
  BY <1>1, <1>2, HeardIs DEF Range
<1> QED BY <1>1, <1>2, <1>3, <1>4 DEF CallsInvariant

\* The server's session listens on channels of receivers only.
LEMMA ChannelsKept ==
    ASSUME NoticeInvariant, [NoticeNext]_noticeVars PROVE listening' \subseteq Channels
<1>1. /\ listening \subseteq Channels /\ \A r \in Receivers : channel(r) \in Channels
      /\ \A r \in Here : channel(r) \in Channels
  <2>1. \A k \in DOMAIN m_receivers : m_receivers[k] \in Receivers
    BY Positions DEF NoticeInvariant, CallsInvariant
  <2> QED BY <2>1, NumbersName DEF NoticeInvariant, Here, Range
<1>2. \/ listening' = listening \/ listening' = {} \/ listening' = channels
      \/ \E r \in Receivers : listening' = listening \cup {channel(r)}
      \/ \E r \in Receivers : listening' = listening \ {channel(r)}
  <2>1. CASE Activate \/ Reset \/ DeactivateConnection \/ CloseConnection \/ Break
    BY <2>1 DEF Activate, Reset, DeactivateConnection, CloseConnection, Break, SetUpState, disconnect, Broken
  <2>2. CASE Notified \/ OpenTransaction \/ CloseTransaction \/ GetNotifs \/ Called \/ UNCHANGED noticeVars
    BY <2>2 DEF Notified, OpenTransaction, CloseTransaction, GetNotifs, Called, noticeVars, link
  <2>3. ASSUME NEW r \in Receivers, AddReceiver(r)
        PROVE  listening' = listening \/ listening' = {} \/ listening' = listening \cup {channel(r)}
    BY <2>3 DEF AddReceiver, link, Broken
  <2>4. ASSUME NEW r \in Receivers, RemoveReceiver(r)
        PROVE  listening' = listening \/ listening' = {} \/ listening' = listening \ {channel(r)}
    BY <2>4 DEF RemoveReceiver, link, Broken, disconnect
  <2> QED BY <2>1, <2>2, <2>3, <2>4 DEF NoticeNext
<1>3. channels \subseteq Channels
  BY <1>1 DEF channels
<1> QED BY <1>1, <1>2, <1>3

LEMMA NoticeKept == NoticeInvariant /\ [NoticeNext]_noticeVars => NoticeInvariant'
<1> SUFFICES ASSUME NoticeInvariant, [NoticeNext]_noticeVars PROVE CallsInvariant'
  BY ChannelsKept DEF NoticeInvariant
<1> USE DEF NoticeInvariant
<1>1. CASE Activate
  BY <1>1, Relistened, Cut, LinkKeeps DEF Activate
<1>2. CASE Reset
  BY <1>2, Relistened, Cut, LinkKeeps DEF Reset
<1>3. CASE DeactivateConnection \/ Break
  BY <1>3, Cut, LinkKeeps DEF DeactivateConnection, Break
<1>4. CASE CloseConnection
  BY <1>4, CloseKeeps
<1>5. CASE Notified
  <2>1. PICK ch \in listening : arrived' = Append(arrived, ch)
    BY <1>5 DEF Notified
  <2>2. arrived' \in Seq(Channels) /\ UNCHANGED <<m_conn, listening, unheard, m_receivers, frames>>
    BY <1>5, <2>1, AppendProperties DEF CallsInvariant, Notified
  <2>3. ChannelsAreHeard'
    BY <2>2, HeardIs DEF CallsInvariant, noted
  <2> QED BY <2>2, <2>3, LinkKeeps
<1>6. CASE OpenTransaction \/ CloseTransaction \/ UNCHANGED noticeVars
  <2>1. UNCHANGED <<m_conn, listening, unheard, arrived, m_receivers, frames>>
    BY <1>6 DEF OpenTransaction, CloseTransaction, noticeVars, link
  <2>2. ChannelsAreHeard' /\ arrived' \in Seq(Channels)
    BY <2>1, HeardIs DEF CallsInvariant, noted
  <2> QED BY <2>1, <2>2, LinkKeeps
<1>7. CASE GetNotifs \/ Called
  BY <1>7, CallsKeep
<1>8. CASE \E r \in Receivers : AddReceiver(r) \/ RemoveReceiver(r)
  BY <1>8, AddKeeps, RemoveKeeps
<1> QED BY <1>1, <1>2, <1>3, <1>4, <1>5, <1>6, <1>7, <1>8 DEF NoticeNext

\* The receivers are in the order of their channels, and every call of get_notifs is
\* at one of them, in front of the place where it stops, and has called just those of
\* its receivers that are not behind it: the inductive invariant.
THEOREM NoticesInductive == NoticeSpec => []NoticeInvariant
<1> QED BY NoticeInitially, NoticeKept, PTL DEF NoticeSpec

\* Whatever receivers do while get_notifs calls them, it never meets one that is gone,
\* leaves none out and calls none twice, and the session listens for all of them but
\* those that its start has failed to listen for (EveryoneIsTold).
THEOREM EveryoneIsAlwaysTold == NoticeSpec => []EveryoneIsTold
<1>1. NoticeInvariant => EveryoneIsTold
  <2> SUFFICES ASSUME NoticeInvariant PROVE EveryoneIsTold
    OBVIOUS
  <2>1. InOrder(m_receivers) /\ DOMAIN m_receivers = 1 .. Len(m_receivers) /\ Len(m_receivers) \in Nat
    BY Positions DEF NoticeInvariant, CallsInvariant
  <2>2. ASSUME NEW j \in DOMAIN frames
        PROVE  /\ frames[j].at \in Here /\ frames[j].stop \in Here \cup {PastAll}
               /\ \A r \in frames[j].due \cap Here :
                     /\ r \in frames[j].told <=> PlaceOf(r) <= PlaceOf(frames[j].at)
                     /\ frames[j].stop # PastAll => PlaceOf(r) < PlaceOf(frames[j].stop)
    <3> DEFINE f == frames[j]
    <3>1. PICK a \in Int : \E z \in Int : Spans(f, m_receivers, a, z)
      BY DEF NoticeInvariant, CallsInvariant, InStep
    <3>2. PICK z \in Int : Spans(f, m_receivers, a, z)
      BY <3>1
    <3> HIDE DEF f
    <3>3. /\ a \in DOMAIN m_receivers /\ z \in 1 .. Len(m_receivers) + 1
          /\ f.at = m_receivers[a] /\ f.stop = Entry(m_receivers, z)
      BY <3>2, <2>1 DEF Spans
    <3>4. f.at \in Here /\ PlaceOf(f.at) = a
      BY <3>3, <2>1, PlaceIs DEF Here, Range
    <3>5. f.stop = PastAll \/ (f.stop \in Here /\ PlaceOf(f.stop) = z)
      <4>1. CASE z \in DOMAIN m_receivers
        BY <4>1, <3>3, <2>1, PlaceIs DEF Here, Range, Entry
      <4>2. CASE z \notin DOMAIN m_receivers
        BY <4>2, <3>3 DEF Entry
      <4> QED BY <4>1, <4>2
    <3>6. ASSUME NEW r \in f.due \cap Here
          PROVE  (r \in f.told <=> PlaceOf(r) <= PlaceOf(f.at)) /\ (f.stop # PastAll => PlaceOf(r) < PlaceOf(f.stop))
      <4>1. PICK k \in DOMAIN m_receivers : r = m_receivers[k]
        BY <3>6 DEF Here, Range
      <4>2. PlaceOf(r) = k
        BY <4>1, <2>1, PlaceIs
      <4>3. (r \in f.told <=> k <= a) /\ k < z
        BY <3>2, <3>6, <4>1, <2>1 DEF Spans
      <4> QED BY <4>2, <4>3, <3>4, <3>5
    <3> QED BY <3>4, <3>5, <3>6 DEF f
  <2>3. NeverDangling
    BY <2>2 DEF NeverDangling
  <2>4. NobodyIsLeftOut
    BY <2>2 DEF NobodyIsLeftOut
  <2> QED BY <2>3, <2>4 DEF NoticeInvariant, CallsInvariant, EveryoneIsTold
<1> QED BY <1>1, NoticesInductive, PTL
=============================================================================
