---------------------------- MODULE AccessProofs ----------------------------
(***************************************************************************)
(* Proofs about two of the objects a program holds within a transaction.   *)
(*                                                                         *)
(* Cursors, for results and strides of any size and any number of          *)
(* icursor_iterators.  sql_cursor::adjust knows from what was asked for    *)
(* and the rows that were counted where the cursor is.  KeepsItsPlace does *)
(* not suffice for that: when a move falls short, adjust must know whether *)
(* the cursor stood at that end before, so a place at either end must be   *)
(* known as one (at_end), and the end of the result only together with a   *)
(* place (InPlace).  A stream counts the rows it has read (Along), its     *)
(* iterators are whole blocks apart (Aligned), so to read the block of one *)
(* never passes the place of another, and each has its rows as soon as the *)
(* stream has read them (Shown).  service_iterators keeps that place by    *)
(* place (Readied), by induction on the places.                            *)
(*                                                                         *)
(* LargeObjects, for bytes of every value, areas of every size and objects *)
(* of any length.  AreasDoNotShow speaks of what a call hands over; it is  *)
(* kept because, while the program has not let the areas get into each     *)
(* other's way, the get area is the object's bytes up to the position of   *)
(* the server, and what the object should be is its bytes overwritten with *)
(* the put area (Areas).                                                   *)
(***************************************************************************)
EXTENDS Cursors, LargeObjects, SequenceTheorems, NaturalsInduction, WellFoundedInduction, TLAPS

\* The fields of c that FETCH and MOVE read and write, and their types.
Cursor(w) ==
    /\ w.size \in Nat /\ w.at \in 0 .. w.size + 1
    /\ w.pos \in Int /\ w.endpos \in Int /\ w.at_end \in {-1, 0, 1} /\ w.broken \in BOOLEAN
    /\ {"at", "pos", "endpos", "at_end", "broken", "size"} \subseteq DOMAIN w
    /\ w = [f \in DOMAIN w |-> w[f]]

\* KeepsItsPlace, of any cursor object, and what it takes to keep it.
Sits(size, at, pos, endpos, at_end) ==
    /\ pos # Unknown => pos = at
    /\ endpos # Unknown => endpos = size + 1 /\ pos # Unknown
    /\ at_end = 1 => at = size + 1
    /\ at_end = -1 => at = 0
    /\ pos # Unknown /\ at = size + 1 => at_end = 1
    /\ pos # Unknown /\ at = 0 => at_end = -1

InPlace(w) == w.broken = FALSE /\ Sits(w.size, w.at, w.pos, w.endpos, w.at_end)

\* What adjust computes when FETCH n or MOVE n has counted actual rows: the
\* direction, whether it fell short, the steps made, where it starts and ends.
Towards(n) == IF n < 0 THEN -1 ELSE 1

FellShort(n, actual) == actual # Towards(n) * n

Steps(at_end, n, actual) ==
    IF FellShort(n, actual) /\ at_end # Towards(n) THEN actual + 1 ELSE actual

Start(pos, at_end, n, actual) ==
    IF FellShort(n, actual) /\ Towards(n) < 0 /\ pos = Unknown THEN Steps(at_end, n, actual) ELSE pos

End(pos, at_end, n, actual) ==
    IF Start(pos, at_end, n, actual) >= 0
    THEN Start(pos, at_end, n, actual) + Towards(n) * Steps(at_end, n, actual)
    ELSE Start(pos, at_end, n, actual)

\* Nothing of it contradicts what is known, and it is where the server is.
AdjustAgrees(size, pos, endpos, at_end, n, actual, there) ==
    LET short == FellShort(n, actual)
        new == End(pos, at_end, n, actual)
    IN  /\ ~(actual > Towards(n) * n)
        /\ ~(short /\ Towards(n) < 0 /\ Start(pos, at_end, n, actual) # Steps(at_end, n, actual))
        /\ ~(short /\ Towards(n) > 0 /\ endpos >= 0 /\ new # endpos)
        /\ there \in 0 .. size + 1 /\ new \in Int
        /\ new # Unknown => new = there
        /\ pos # Unknown => new # Unknown
        /\ short /\ Towards(n) < 0 => new # Unknown
        /\ short /\ Towards(n) > 0 => there = size + 1
        /\ short /\ Towards(n) < 0 => there = 0
        /\ there = size + 1 => Towards(n) > 0 /\ short
        /\ there = 0 => Towards(n) < 0 /\ short

\* The rows that FETCH n counts, and where it leaves the cursor.
Count(size, at, n) ==
    IF n > 0 THEN IF at >= size THEN 0 ELSE Least(n, size - at)
    ELSE IF at <= 1 THEN 0 ELSE Least(-n, at - 1)

Target(size, at, n) == Most(0, Least(at + n, size + 1))

LEMMA SpanHasLength ==
    ASSUME NEW i \in Int, NEW j \in Int
    PROVE  /\ i <= j => Len(Span(i, j)) = j - i + 1
           /\ i >= j => Len(Span(i, j)) = i - j + 1
  BY DEF Span

LEMMA PassedIsCount ==
    ASSUME NEW w, Cursor(w), NEW n \in Int, n # 0
    PROVE  Len(Passed(w, n)) = Count(w.size, w.at, n)
<1>1. w.size \in Nat /\ w.at \in Int
  BY DEF Cursor
<1>2. CASE n > 0 /\ w.at < w.size
  <2>1. /\ Least(w.at + n, w.size) \in Int /\ w.at + 1 \in Int
        /\ w.at + 1 <= Least(w.at + n, w.size)
        /\ Least(w.at + n, w.size) - w.at = Least(n, w.size - w.at)
    BY <1>1, <1>2 DEF Least
  <2>2. Len(Span(w.at + 1, Least(w.at + n, w.size))) = Least(w.at + n, w.size) - (w.at + 1) + 1
    BY <2>1, SpanHasLength
  <2>3. Passed(w, n) = Span(w.at + 1, Least(w.at + n, w.size)) /\ Count(w.size, w.at, n) = Least(n, w.size - w.at)
    BY <1>1, <1>2 DEF Passed, Count
  <2> QED BY <1>1, <2>1, <2>2, <2>3
<1>3. CASE n < 0 /\ w.at > 1
  <2>1. /\ Most(w.at + n, 1) \in Int /\ w.at - 1 \in Int
        /\ Most(w.at + n, 1) <= w.at - 1
        /\ w.at - Most(w.at + n, 1) = Least(-n, w.at - 1)
    BY <1>1, <1>3 DEF Least, Most
  <2>2. Len(Span(w.at - 1, Most(w.at + n, 1))) = w.at - 1 - Most(w.at + n, 1) + 1
    BY <1>1, <2>1, SpanHasLength
  <2>3. Passed(w, n) = Span(w.at - 1, Most(w.at + n, 1)) /\ Count(w.size, w.at, n) = Least(-n, w.at - 1)
    BY <1>1, <1>3 DEF Passed, Count
  <2> QED BY <1>1, <2>1, <2>2, <2>3
<1>4. CASE (n > 0 /\ w.at >= w.size) \/ (n < 0 /\ w.at <= 1)
  BY <1>1, <1>4 DEF Passed, Count
<1> QED BY <1>1, <1>2, <1>3, <1>4

\* What adjust works out, for the numbers it works on.
LEMMA AdjustIsRight ==
    ASSUME NEW size \in Nat, NEW at \in 0 .. size + 1, NEW pos \in Int, NEW endpos \in Int,
           NEW at_end \in {-1, 0, 1}, NEW n \in Int, n # 0, Sits(size, at, pos, endpos, at_end)
    PROVE  AdjustAgrees(size, pos, endpos, at_end, n, Count(size, at, n), Target(size, at, n))
<1> DEFINE actual == Count(size, at, n)
           there == Target(size, at, n)
<1> SUFFICES AdjustAgrees(size, pos, endpos, at_end, n, actual, there)
  OBVIOUS
<1>1. /\ actual \in Nat /\ there \in Nat
      /\ actual = IF n > 0 THEN IF at >= size THEN 0 ELSE Least(n, size - at)
                  ELSE IF at <= 1 THEN 0 ELSE Least(-n, at - 1)
      /\ there = Most(0, Least(at + n, size + 1))
  BY DEF Count, Target, Least, Most
<1> HIDE DEF actual, there
<1> USE <1>1 DEF Sits
<1> DEFINE direction == Towards(n)
           short == FellShort(n, actual)
           steps == Steps(at_end, n, actual)
           start == Start(pos, at_end, n, actual)
           new == End(pos, at_end, n, actual)
<1>2. /\ direction = IF n < 0 THEN -1 ELSE 1
      /\ short <=> actual # direction * n
      /\ steps = IF short /\ at_end # direction THEN actual + 1 ELSE actual
      /\ start = IF short /\ direction < 0 /\ pos = Unknown THEN steps ELSE pos
      /\ new = IF start >= 0 THEN start + direction * steps ELSE start
  BY DEF Towards, FellShort, Steps, Start, End
<1>3. AdjustAgrees(size, pos, endpos, at_end, n, actual, there) <=>
        /\ ~(actual > direction * n)
        /\ ~(short /\ direction < 0 /\ start # steps)
        /\ ~(short /\ direction > 0 /\ endpos >= 0 /\ new # endpos)
        /\ there \in 0 .. size + 1 /\ new \in Int
        /\ new # Unknown => new = there
        /\ pos # Unknown => new # Unknown
        /\ short /\ direction < 0 => new # Unknown
        /\ short /\ direction > 0 => there = size + 1
        /\ short /\ direction < 0 => there = 0
        /\ there = size + 1 => direction > 0 /\ short
        /\ there = 0 => direction < 0 /\ short
  BY DEF AdjustAgrees
<1> HIDE DEF direction, short, steps, start, new
<1> USE <1>2
<1>4. direction \in {-1, 1} /\ direction * n \in Int
      /\ direction * n = IF n < 0 THEN -n ELSE n
  OBVIOUS
<1>5. CASE n > 0
  <2>1. direction = 1 /\ direction * n = n /\ actual <= n /\ there > 0
    BY <1>4, <1>5 DEF Least, Most
  <2>2. short <=> at + n > size
    BY <1>4, <1>5, <2>1 DEF Least
  <2>3. short <=> there = size + 1
    BY <1>5, <2>2 DEF Least, Most
  <2>4. there \in 0 .. size + 1
    BY <1>5 DEF Least, Most
  <2>5. pos # Unknown => start = pos /\ new = there /\ new # Unknown
    BY <1>5, <2>1, <2>2 DEF Least, Most, Unknown
  <2>6. pos = Unknown => new = Unknown
    BY <2>1 DEF Unknown
  <2> QED BY <1>5, <1>3, <2>1, <2>3, <2>4, <2>5, <2>6 DEF Unknown
<1>6. CASE n < 0
  <2>1. direction = -1 /\ direction * n = -n /\ actual <= -n /\ there <= size
    BY <1>4, <1>6 DEF Least, Most
  <2>2. short <=> at + n < 1
    BY <1>4, <1>6, <2>1 DEF Least
  <2>3. short <=> there = 0
    BY <1>6, <2>2 DEF Least, Most
  <2>4. short => start = steps /\ new = 0
    <3>1. short /\ pos # Unknown => steps = at /\ start = at
      BY <1>6, <2>1, <2>2 DEF Least
    <3>2. short /\ pos = Unknown => start = steps /\ steps \in Nat
      BY <2>1
    <3> QED BY <2>1, <3>1, <3>2
  <2>5. ~short => steps = actual /\ start = pos /\ actual = -n /\ there = at + n
    BY <1>6, <2>1, <2>2 DEF Least, Most
  <2>6. new # Unknown => new = there
    BY <1>6, <2>1, <2>3, <2>4, <2>5 DEF Unknown
  <2>7. new \in Int /\ (pos # Unknown => new # Unknown) /\ (short => new # Unknown)
    BY <1>6, <2>1, <2>2, <2>4, <2>5 DEF Unknown
  <2> QED BY <1>6, <1>3, <2>1, <2>3, <2>4, <2>5, <2>6, <2>7
<1> QED BY <1>5, <1>6

-----------------------------------------------------------------------------
(* FETCH and MOVE *)

\* Whatever is asked of a cursor that is in its place, and whatever the server
\* has, adjust finds no contradiction and the cursor stays in its place.
LEMMA AdjustKeepsPlace ==
    ASSUME NEW w, Cursor(w), InPlace(w), NEW n \in Int, n # 0
    PROVE  LET u == adjust(Moved(w, n), n, Len(Passed(w, n)))
           IN  /\ Cursor(u) /\ InPlace(u)
               /\ u.at = Target(w.size, w.at, n)
               /\ u = [w EXCEPT !.at = u.at, !.pos = u.pos, !.at_end = u.at_end, !.endpos = u.endpos]
               /\ w.pos # Unknown \/ u.at = 0 => u.pos # Unknown
               /\ w.pos # Unknown /\ u.at = w.size + 1 => u.endpos # Unknown
<1> DEFINE there == Target(w.size, w.at, n)
           actual == Len(Passed(w, n))
           direction == Towards(n)
           short == FellShort(n, actual)
           new == End(w.pos, w.at_end, n, actual)
           v == Moved(w, n)
           u == adjust(v, n, actual)
<1>1. /\ w.size \in Nat /\ w.at \in 0 .. w.size + 1 /\ w.pos \in Int /\ w.endpos \in Int
      /\ w.at_end \in {-1, 0, 1}
  BY DEF Cursor
<1>2. actual \in Nat /\ actual = Count(w.size, w.at, n)
  <2>1. Count(w.size, w.at, n) \in Nat
    BY <1>1 DEF Count, Least
  <2> QED BY <2>1, PassedIsCount
<1>3. there \in Nat
  BY <1>1 DEF Target, Most, Least
<1> HIDE DEF actual
<1>4. AdjustAgrees(w.size, w.pos, w.endpos, w.at_end, n, actual, there)
  <2>1. Sits(w.size, w.at, w.pos, w.endpos, w.at_end)
    BY DEF InPlace
  <2> QED BY <1>1, <1>2, <2>1, AdjustIsRight
<1>5. /\ v = [w EXCEPT !.at = there] /\ v.at = there
      /\ v.size = w.size /\ v.pos = w.pos /\ v.endpos = w.endpos /\ v.at_end = w.at_end /\ v.broken = w.broken
      /\ DOMAIN v = DOMAIN w
  BY DEF Moved, Cursor, Target
<1> HIDE DEF v
<1>6. u = [v EXCEPT !.pos = new, !.at_end = IF short THEN direction ELSE 0,
                    !.endpos = IF short /\ direction > 0 THEN new ELSE @]
  BY <1>4, <1>5 DEF adjust, AdjustAgrees, Towards, FellShort, Steps, Start, End
<1> HIDE DEF u
<1>7. /\ u.at = there /\ u.size = w.size /\ u.pos = new /\ u.broken = w.broken
      /\ u.at_end = IF short THEN direction ELSE 0
      /\ u.endpos = IF short /\ direction > 0 THEN new ELSE w.endpos
      /\ DOMAIN u = DOMAIN w /\ u = [f \in DOMAIN u |-> u[f]]
      /\ u = [w EXCEPT !.at = u.at, !.pos = u.pos, !.at_end = u.at_end, !.endpos = u.endpos]
  BY <1>5, <1>6 DEF Cursor
<1>8. direction \in {-1, 1} /\ (direction > 0 <=> direction = 1) /\ (direction < 0 <=> direction = -1)
  BY DEF Towards
<1>9. w.pos = Unknown => w.endpos = Unknown
  BY DEF InPlace, Sits
<1>10. /\ ~(short /\ direction > 0 /\ w.endpos >= 0 /\ new # w.endpos)
       /\ there \in 0 .. w.size + 1 /\ new \in Int
       /\ new # Unknown => new = there
       /\ w.pos # Unknown => new # Unknown
       /\ short /\ direction < 0 => new # Unknown
       /\ short /\ direction > 0 => there = w.size + 1
       /\ short /\ direction < 0 => there = 0
       /\ there = w.size + 1 => direction > 0 /\ short
       /\ there = 0 => direction < 0 /\ short
  BY <1>4 DEF AdjustAgrees
<1> HIDE DEF there, short, new, direction
<1>11. Cursor(u)
  BY <1>1, <1>10, <1>7, <1>8 DEF Cursor
<1>12. InPlace(u)
  <2>1. u.broken = FALSE /\ (u.pos # Unknown => u.pos = u.at)
    BY <1>10, <1>7 DEF InPlace, Sits
  <2>2. u.endpos # Unknown => u.endpos = u.size + 1 /\ u.pos # Unknown
    BY <1>10, <1>7, <1>9 DEF InPlace, Sits
  <2>3. (u.at_end = 1 => u.at = u.size + 1) /\ (u.at_end = -1 => u.at = 0)
    BY <1>10, <1>7, <1>8
  <2>4. /\ u.pos # Unknown /\ u.at = u.size + 1 => u.at_end = 1
        /\ u.pos # Unknown /\ u.at = 0 => u.at_end = -1
    BY <1>10, <1>7, <1>8
  <2> QED BY <2>1, <2>2, <2>3, <2>4 DEF InPlace, Sits
<1>13. /\ u.at = Target(w.size, w.at, n)
       /\ u = [w EXCEPT !.at = u.at, !.pos = u.pos, !.at_end = u.at_end, !.endpos = u.endpos]
       /\ w.pos # Unknown \/ u.at = 0 => u.pos # Unknown
       /\ w.pos # Unknown /\ u.at = w.size + 1 => u.endpos # Unknown
  BY <1>10, <1>7 DEF there
<1> QED BY <1>11, <1>12, <1>13 DEF u, v, actual

\* sql_cursor::fetch and sql_cursor::move, for any number of rows: the position
\* that the object computes is the server's, none of the internal_errors of
\* adjust is thrown, and the end is known once it has been met.
THEOREM FetchAndMoveKeepPlace ==
    ASSUME NEW w, Cursor(w), InPlace(w), NEW n \in Int
    PROVE  /\ Cursor(fetch(w, n).w) /\ InPlace(fetch(w, n).w)
           /\ Cursor(move(w, n).w) /\ InPlace(move(w, n).w)
<1>1. CASE n = 0
  BY <1>1 DEF fetch, move
<1>2. CASE n # 0
  BY <1>2, AdjustKeepsPlace DEF fetch, move
<1> QED BY <1>1, <1>2

\* The two constructors of sql_cursor, whatever the server has: a declared
\* cursor is in its place, and one that is adopted claims to know nothing.
THEOREM OpenedInPlace ==
    ASSUME NEW w, Cursor(w), w.broken = FALSE, NEW hold \in BOOLEAN, NEW owned \in BOOLEAN
    PROVE  InPlace(sql_cursor(w, hold, owned)) /\ InPlace(adopt(w, owned))
<1>1. InPlace(sql_cursor(w, hold, owned))
  BY DEF Cursor, InPlace, Sits, sql_cursor, Unknown
<1>2. InPlace(adopt(w, owned))
  BY DEF Cursor, InPlace, Sits, adopt, Unknown
<1> QED BY <1>1, <1>2

\* To be in its place is what the runs check as KeepsItsPlace, and more.
THEOREM InPlaceSuffices == InPlace(c) => KeepsItsPlace
  BY DEF InPlace, Sits, KeepsItsPlace


-----------------------------------------------------------------------------
(* The whole of c *)

CursorType ==
    [size : Nat, at : Nat, exists : BOOLEAN, pos : Int, endpos : Int, at_end : {-1, 0, 1},
     adopted : BOOLEAN, owned : BOOLEAN, avoidance : Int,
     stride : Nat \ {0}, realpos : Nat, reqpos : Nat, done : BOOLEAN, iterators : SUBSET Iterators,
     it : [Iterators -> [pos : Nat, here : Seq(Int), late : BOOLEAN]],
     as : {"none", "stateless", "stream"}, base : Nat, broken : BOOLEAN]

Placed(w) == w \in CursorType /\ w.at <= w.size + 1 /\ w.size \in Rows /\ InPlace(w)

\* What only the stream changes.
SameStream(v, w) ==
    /\ v.stride = w.stride /\ v.realpos = w.realpos /\ v.reqpos = w.reqpos /\ v.done = w.done
    /\ v.iterators = w.iterators /\ v.it = w.it /\ v.as = w.as /\ v.base = w.base /\ v.size = w.size

LEMMA PlacedIsCursor == ASSUME NEW w, Placed(w) PROVE Cursor(w)
  BY DEF Placed, CursorType, Cursor

LEMMA SpanIsSeq ==
    ASSUME NEW i \in Int, NEW j \in Int
    PROVE  Span(i, j) \in Seq(Int)
<1>1. CASE i <= j
  <2>1. j - i + 1 \in Nat
    BY <1>1
  <2>2. \A k \in 1 .. j - i + 1 : i + k - 1 \in Int
    OBVIOUS
  <2> QED BY <1>1, <2>1, <2>2 DEF Span
<1>2. CASE ~(i <= j)
  <2>1. i - j + 1 \in Nat
    BY <1>2
  <2>2. \A k \in 1 .. i - j + 1 : i - k + 1 \in Int
    OBVIOUS
  <2> QED BY <1>2, <2>1, <2>2 DEF Span
<1> QED BY <1>1, <1>2

LEMMA PassedIsSeq ==
    ASSUME NEW w, w.at \in Nat, w.size \in Nat, NEW n \in Int
    PROVE  Passed(w, n) \in Seq(Int)
<1>1. \A i, j \in Int : Least(i, j) \in Int /\ Most(i, j) \in Int
  BY DEF Least, Most
<1>2. <<>> \in Seq(Int)
  OBVIOUS
<1>3. /\ Span(w.at + 1, Least(w.at + n, w.size)) \in Seq(Int)
      /\ Span(w.at - 1, Most(w.at + n, 1)) \in Seq(Int)
  <2>1. w.at + n \in Int /\ w.at + 1 \in Int /\ w.at - 1 \in Int /\ w.size \in Int /\ 1 \in Int
    OBVIOUS
  <2> QED BY <1>1, <2>1, SpanIsSeq
<1> QED BY <1>2, <1>3 DEF Passed

\* FETCH and MOVE change the place alone, and where it is known stays known.
MovedTo(v, w, n) ==
    /\ Placed(v) /\ SameStream(v, w)
    /\ v.at = IF n = 0 THEN w.at ELSE Target(w.size, w.at, n)
    /\ w.pos # Unknown => v.pos # Unknown
    /\ n # 0 /\ v.at = 0 => v.pos # Unknown
    /\ n # 0 /\ w.pos # Unknown /\ v.at = w.size + 1 => v.endpos # Unknown

LEMMA AdjustMoves ==
    ASSUME NEW w, Placed(w), NEW n \in Int, n # 0
    PROVE  MovedTo(adjust(Moved(w, n), n, Len(Passed(w, n))), w, n)
<1> DEFINE u == adjust(Moved(w, n), n, Len(Passed(w, n)))
<1>1. /\ Cursor(u) /\ InPlace(u)
      /\ u.at = Target(w.size, w.at, n)
      /\ u = [w EXCEPT !.at = u.at, !.pos = u.pos, !.at_end = u.at_end, !.endpos = u.endpos]
      /\ w.pos # Unknown \/ u.at = 0 => u.pos # Unknown
      /\ w.pos # Unknown /\ u.at = w.size + 1 => u.endpos # Unknown
  <2>1. Cursor(w) /\ InPlace(w)
    BY PlacedIsCursor DEF Placed
  <2> QED BY <2>1, AdjustKeepsPlace
<1> HIDE DEF u
<1>2. /\ u.at \in Nat /\ u.at <= u.size + 1 /\ u.pos \in Int /\ u.endpos \in Int /\ u.at_end \in {-1, 0, 1}
  BY <1>1 DEF Cursor
<1>3. u \in CursorType /\ SameStream(u, w)
  BY <1>1, <1>2 DEF Placed, CursorType, SameStream
<1>4. Placed(u)
  BY <1>1, <1>2, <1>3 DEF Placed, SameStream
<1>5. MovedTo(u, w, n)
  BY <1>1, <1>3, <1>4 DEF MovedTo
<1> QED BY <1>5 DEF u

LEMMA fetchIs ==
    ASSUME NEW w, Placed(w), NEW n \in Int
    PROVE  MovedTo(fetch(w, n).w, w, n) /\ fetch(w, n).r = (IF n = 0 THEN <<>> ELSE Passed(w, n))
<1>1. CASE n = 0
  BY <1>1 DEF fetch, MovedTo, SameStream
<1>2. CASE n # 0
  BY <1>2, AdjustMoves DEF fetch
<1> QED BY <1>1, <1>2

LEMMA moveIs ==
    ASSUME NEW w, Placed(w), NEW n \in Int
    PROVE  MovedTo(move(w, n).w, w, n) /\ move(w, n).d = (IF n = 0 THEN 0 ELSE Len(Passed(w, n)))
<1>1. CASE n = 0
  BY <1>1 DEF move, MovedTo, SameStream
<1>2. CASE n # 0
  BY <1>2, AdjustMoves DEF move
<1> QED BY <1>1, <1>2

-----------------------------------------------------------------------------
(* stateless_cursor *)

LEMMA allIs == all \in Nat /\ \A size \in Rows : size + 2 <= all
<1>1. PICK most \in Rows : \A size \in Rows : size <= most
  BY RowsAssumption
<1>2. \E x \in Rows : \A y \in Rows : x >= y
  BY <1>1, RowsAssumption
<1>3. Max(Rows) \in Rows /\ \A y \in Rows : Max(Rows) >= y
  BY <1>2 DEF Max
<1> DEFINE largest == Max(Rows)
<1>4. all = largest + 2
  BY DEF all
<1> HIDE DEF largest
<1>5. largest \in Nat /\ \A y \in Rows : y \in Nat /\ largest >= y
  BY <1>3, RowsAssumption DEF largest
<1> QED BY <1>4, <1>5

LEMMA obtainIs ==
    ASSUME NEW w, Placed(w), w.pos # Unknown
    PROVE  LET s == obtain_stateless_cursor_size(w)
           IN  Placed(s.w) /\ SameStream(s.w, w) /\ s.w.pos = s.w.at /\ s.size = w.size
<1> DEFINE v == IF w.endpos = Unknown THEN move(w, all).w ELSE w
<1>1. /\ w.at \in Nat /\ w.size \in Nat /\ w.size \in Rows /\ all \in Nat /\ w.size + 2 <= all /\ all # 0
  <2>1. /\ w.at \in Nat /\ w.size \in Nat /\ w.size \in Rows
    BY DEF Placed, CursorType
  <2> QED BY <2>1, allIs
<1>2. Placed(v) /\ SameStream(v, w) /\ v.pos # Unknown /\ v.endpos # Unknown
  <2>1. CASE w.endpos = Unknown
    <3>1. MovedTo(v, w, all)
      BY <1>1, <2>1, moveIs
    <3>2. Target(w.size, w.at, all) = w.size + 1
      BY <1>1 DEF Target, Most, Least
    <3> QED BY <1>1, <3>1, <3>2 DEF MovedTo
  <2>2. CASE w.endpos # Unknown
    BY <2>2 DEF SameStream
  <2> QED BY <2>1, <2>2
<1>3. obtain_stateless_cursor_size(w).w = v /\ obtain_stateless_cursor_size(w).size = v.endpos - 1
  BY DEF obtain_stateless_cursor_size
<1> HIDE DEF v
<1>4. v.pos = v.at /\ v.endpos = w.size + 1
  BY <1>2 DEF Placed, InPlace, Sits, SameStream
<1> QED BY <1>1, <1>2, <1>3, <1>4

\* What stateless_cursor::retrieve is to hand over: Wanted, of any result.
WantedOf(size, from, to) ==
    LET stop == Least(Most(to, -1), size)
    IN  IF from <= stop THEN IF from = stop THEN <<>> ELSE Span(from + 1, stop)
        ELSE IF from = size /\ stop >= 0 THEN Span(size, stop + 1)
        ELSE IF Least(from + 1, size) < stop + 2 THEN <<>> ELSE Span(Least(from + 1, size), stop + 2)

LEMMA PassedIsWanted ==
    ASSUME NEW v, NEW size \in Nat, v.size = size, NEW from \in 0 .. size, NEW to \in Int,
           from # Least(Most(to, -1), size),
           v.at = IF from < Least(Most(to, -1), size) THEN from ELSE Least(from + 2, size + 1)
    PROVE  Passed(v, Least(Most(to, -1), size) - from) = WantedOf(size, from, to)
<1> DEFINE stop == Least(Most(to, -1), size)
<1>1. stop \in Int /\ stop >= -1 /\ stop <= size /\ from # stop
  BY DEF Least, Most
<1>2. WantedOf(size, from, to) =
        IF from <= stop THEN IF from = stop THEN <<>> ELSE Span(from + 1, stop)
        ELSE IF from = size /\ stop >= 0 THEN Span(size, stop + 1)
        ELSE IF Least(from + 1, size) < stop + 2 THEN <<>> ELSE Span(Least(from + 1, size), stop + 2)
  BY DEF WantedOf
<1>3. v.at = IF from < stop THEN from ELSE Least(from + 2, size + 1)
  OBVIOUS
<1>4. Passed(v, stop - from) =
        IF stop - from > 0 THEN IF v.at >= size THEN <<>> ELSE Span(v.at + 1, Least(v.at + (stop - from), size))
        ELSE IF v.at <= 1 THEN <<>> ELSE Span(v.at - 1, Most(v.at + (stop - from), 1))
  BY DEF Passed
<1> HIDE DEF stop
<1>5. CASE from < stop
  <2>1. stop - from > 0 /\ v.at = from /\ ~(v.at >= size) /\ Least(v.at + (stop - from), size) = stop
    BY <1>1, <1>3, <1>5 DEF Least
  <2>2. WantedOf(size, from, to) = Span(from + 1, stop)
    BY <1>1, <1>2, <1>5
  <2> QED BY <1>4, <2>1, <2>2 DEF stop
<1>6. CASE from > stop /\ from # size
  <2>1. ~(stop - from > 0) /\ v.at = from + 2 /\ ~(v.at <= 1) /\ v.at - 1 = from + 1
        /\ Most(v.at + (stop - from), 1) = stop + 2
    BY <1>1, <1>3, <1>6 DEF Least, Most
  <2>2. Least(from + 1, size) = from + 1 /\ ~(from + 1 < stop + 2) /\ ~(from <= stop)
    BY <1>1, <1>6 DEF Least
  <2>3. WantedOf(size, from, to) = Span(from + 1, stop + 2)
    BY <1>2, <1>6, <2>2
  <2> QED BY <1>4, <2>1, <2>3 DEF stop
<1>7. CASE from > stop /\ from = size
  <2>1. ~(stop - from > 0) /\ v.at = size + 1 /\ v.at - 1 = size /\ v.at + (stop - from) = stop + 1
        /\ Least(from + 1, size) = size /\ ~(from <= stop)
    BY <1>1, <1>3, <1>7 DEF Least
  <2>2. CASE stop >= 0
    <3>1. Most(stop + 1, 1) = stop + 1 /\ ~(v.at <= 1)
      BY <1>1, <1>7, <2>1, <2>2 DEF Most
    <3>2. WantedOf(size, from, to) = Span(size, stop + 1)
      BY <1>2, <1>7, <2>1, <2>2
    <3> QED BY <1>4, <2>1, <3>1, <3>2 DEF stop
  <2>3. CASE stop = -1 /\ size = 0
    <3>1. v.at <= 1 /\ size < stop + 2 /\ ~(stop >= 0)
      BY <2>1, <2>3
    <3>2. WantedOf(size, from, to) = <<>>
      BY <1>2, <1>7, <2>1, <3>1
    <3> QED BY <1>4, <2>1, <3>1, <3>2 DEF stop
  <2>4. CASE stop = -1 /\ size # 0
    <3>1. ~(v.at <= 1) /\ ~(size < stop + 2) /\ ~(stop >= 0) /\ Most(stop + 1, 1) = stop + 2
      BY <2>1, <2>4 DEF Most
    <3>2. WantedOf(size, from, to) = Span(size, stop + 2)
      BY <1>2, <1>7, <2>1, <3>1
    <3> QED BY <1>4, <2>1, <3>1, <3>2 DEF stop
  <2> QED BY <1>1, <2>2, <2>3, <2>4
<1> QED BY <1>1, <1>5, <1>6, <1>7

LEMMA retrieveIs ==
    ASSUME NEW w, Placed(w), w.pos = w.at, NEW from \in Int, NEW to \in Int
    PROVE  LET o1 == stateless_cursor_retrieve(w, w.size, from, to)
           IN  /\ Placed(o1.w) /\ SameStream(o1.w, w) /\ o1.w.pos # Unknown
               /\ IF from \in 0 .. w.size THEN o1.res = "ok" /\ o1.rows = WantedOf(w.size, from, to)
                  ELSE o1.res = "range_error"
<1> DEFINE stop == Least(Most(to, -1), w.size)
           direction == IF from < stop THEN 1 ELSE -1
           n == from - direction - (w.pos - 1)
           v == move(w, n).w
           f == fetch(v, stop - from)
           o1 == stateless_cursor_retrieve(w, w.size, from, to)
<1>1. w.size \in Nat /\ w.at \in Nat /\ w.at <= w.size + 1 /\ w.pos = w.at /\ w.pos # Unknown
  BY DEF Placed, CursorType, Unknown
<1>2. stop \in Int /\ stop >= -1 /\ stop <= w.size
  BY <1>1 DEF Least, Most
<1>3. o1 = IF from < 0 \/ from > w.size THEN [w |-> w, res |-> "range_error", rows |-> <<>>]
           ELSE IF from = stop THEN [w |-> w, res |-> "ok", rows |-> <<>>]
           ELSE [w |-> f.w, res |-> "ok", rows |-> f.r]
  BY DEF stateless_cursor_retrieve
<1> HIDE DEF o1
<1>4. CASE from < 0 \/ from > w.size
  <2>1. o1.w = w /\ o1.res = "range_error" /\ from \notin 0 .. w.size
    BY <1>1, <1>3, <1>4
  <2> QED BY <1>1, <2>1 DEF SameStream, o1
<1>5. CASE from \in 0 .. w.size /\ from = stop
  <2>1. o1.w = w /\ o1.res = "ok" /\ o1.rows = <<>>
    BY <1>1, <1>3, <1>5
  <2>2. WantedOf(w.size, from, to) = <<>>
    BY <1>2, <1>5 DEF WantedOf
  <2> QED BY <1>1, <1>5, <2>1, <2>2 DEF SameStream, o1
<1>6. CASE from \in 0 .. w.size /\ from # stop
  <2>1. o1.w = f.w /\ o1.res = "ok" /\ o1.rows = f.r
    BY <1>1, <1>3, <1>6
  <2>2. n \in Int /\ w.at + n = from + 1 - direction /\ direction \in {1, -1}
    BY <1>1
  <2>3. MovedTo(v, w, n)
    BY <2>2, moveIs
  <2>4. v.at = IF from < stop THEN from ELSE Least(from + 2, w.size + 1)
    <3>1. v.at = IF n = 0 THEN w.at ELSE Most(0, Least(from + 1 - direction, w.size + 1))
      BY <2>2, <2>3 DEF MovedTo, Target
    <3>2. n = 0 => w.at = from + 1 - direction
      BY <1>1, <2>2
    <3>3. direction = IF from < stop THEN 1 ELSE -1
      OBVIOUS
    <3> HIDE DEF n, v, direction, stop
    <3>4. CASE from < stop
      BY <1>1, <1>6, <3>1, <3>2, <3>3, <3>4 DEF Least, Most
    <3>5. CASE ~(from < stop)
      BY <1>1, <1>6, <3>1, <3>2, <3>3, <3>5 DEF Least, Most
    <3> QED BY <3>4, <3>5
  <2>5. Placed(v) /\ SameStream(v, w) /\ v.pos # Unknown /\ v.size = w.size
    BY <1>1, <2>3 DEF MovedTo, SameStream
  <2>6. stop - from \in Int /\ stop - from # 0
    BY <1>2, <1>6
  <2> HIDE DEF n, v, direction
  <2>7. MovedTo(f.w, v, stop - from) /\ f.r = Passed(v, stop - from)
    BY <2>5, <2>6, fetchIs
  <2>8. f.r = WantedOf(w.size, from, to)
    BY <1>1, <1>6, <2>4, <2>5, <2>7, PassedIsWanted
  <2>9. Placed(f.w) /\ SameStream(f.w, w) /\ f.w.pos # Unknown
    BY <2>5, <2>7 DEF MovedTo, SameStream
  <2> QED BY <1>6, <2>1, <2>8, <2>9 DEF o1
<1> QED BY <1>1, <1>4, <1>5, <1>6

-----------------------------------------------------------------------------
(* icursorstream *)

\* The rows of a place: Block, of any stream.
BlockOf(w, pos) ==
    LET from == w.base + pos + 1
    IN  IF from > w.size THEN <<>> ELSE Span(from, Least(from + w.stride - 1, w.size))

\* The stream counts the rows it has read; past the last one it counts no more.
Along(w) ==
    /\ w.base <= w.size + 1
    /\ w.at <= w.size => w.at = w.base + w.realpos
    /\ w.at = w.size + 1 => w.realpos = Most(w.size - w.base, 0)
    /\ w.done => w.at = w.size + 1

\* v is w, some rows later.
ReadOn(v, w) ==
    /\ Placed(v) /\ Along(v)
    /\ v.stride = w.stride /\ v.reqpos = w.reqpos /\ v.iterators = w.iterators /\ v.it = w.it
    /\ v.as = w.as /\ v.base = w.base /\ v.size = w.size
    /\ w.realpos <= v.realpos

Numbers(w) ==
    /\ w.size \in Nat /\ w.at \in Nat /\ w.at <= w.size + 1 /\ w.base \in Nat /\ w.realpos \in Nat
    /\ w.stride \in Nat /\ w.stride >= 1 /\ w.reqpos \in Nat /\ w.done \in BOOLEAN

LEMMA PlacedIsNumbers == ASSUME NEW w, Placed(w) PROVE Numbers(w)
  BY DEF Placed, CursorType, Numbers

\* d rows are passed, the cursor is at to then, and what is counted is right.
Passing(size, base, realpos, n, d, to) ==
    /\ d \in Nat /\ d <= n
    /\ to <= size => to = base + (realpos + d)
    /\ to = size + 1 => realpos + d = Most(size - base, 0)
    /\ d < n => to = size + 1
    /\ d = 0 => to = size + 1

LEMMA PassedOn ==
    ASSUME NEW size \in Nat, NEW at \in Nat, at <= size + 1, NEW base \in Nat, NEW realpos \in Nat, NEW n \in Nat, n > 0,
           base <= size + 1,
           at <= size => at = base + realpos,
           at = size + 1 => realpos = Most(size - base, 0)
    PROVE  Passing(size, base, realpos, n, Count(size, at, n), Target(size, at, n))
<1> DEFINE d == Count(size, at, n)
           to == Target(size, at, n)
<1>1. d = IF at >= size THEN 0 ELSE Least(n, size - at)
  BY DEF Count
<1>2. to = IF at + n < size + 1 THEN at + n ELSE size + 1
  BY DEF Target, Most, Least
<1> HIDE DEF d, to, Passing
<1>3. CASE at >= size
  <2>1. d = 0 /\ to = size + 1
    BY <1>1, <1>2, <1>3
  <2>2. realpos = Most(size - base, 0)
    BY <1>3 DEF Most
  <2> QED BY <2>1, <2>2 DEF d, to, Passing
<1>4. CASE at < size
  <2>1. d = (IF n < size - at THEN n ELSE size - at) /\ at = base + realpos
    BY <1>1, <1>4 DEF Least
  <2>2. CASE at + n < size + 1
    <3>1. d = n /\ to = at + n
      BY <1>2, <1>4, <2>1, <2>2
    <3> QED BY <2>1, <2>2, <3>1 DEF d, to, Passing
  <2>3. CASE ~(at + n < size + 1)
    <3>1. d = size - at /\ to = size + 1 /\ d \in Nat /\ d # 0 /\ d <= n
      BY <1>2, <1>4, <2>1, <2>3
    <3>2. realpos + d = Most(size - base, 0)
      BY <1>4, <2>1, <3>1 DEF Most
    <3> QED BY <3>1, <3>2 DEF d, to, Passing
  <2> QED BY <2>2, <2>3
<1> QED BY <1>3, <1>4

LEMMA SpanIsNothing == ASSUME NEW s \in Seq(Int) PROVE s = <<>> <=> Len(s) = 0
  OBVIOUS

\* w with another count of the rows read.
Counted(v, w, realpos, done) == v = [w EXCEPT !.realpos = realpos, !.done = done]

LEMMA CountedIs ==
    ASSUME NEW w, Placed(w), NEW realpos \in Nat, NEW done \in BOOLEAN, NEW v, Counted(v, w, realpos, done)
    PROVE  /\ Placed(v) /\ v.realpos = realpos /\ v.done = done /\ v.at = w.at /\ v.pos = w.pos
           /\ v.stride = w.stride /\ v.reqpos = w.reqpos /\ v.iterators = w.iterators /\ v.it = w.it
           /\ v.as = w.as /\ v.base = w.base /\ v.size = w.size
<1>1. v \in CursorType
  BY DEF Placed, CursorType, Counted
<1> QED BY <1>1 DEF Placed, CursorType, Counted, InPlace

LEMMA fetchblockIs ==
    ASSUME NEW w, Placed(w), Along(w)
    PROVE  LET f == fetchblock(w)
           IN  /\ ReadOn(f.w, w) /\ f.w.realpos <= w.realpos + w.stride
               /\ f.r = Passed(w, w.stride) /\ f.r \in Seq(Int)
<1> DEFINE n == w.stride
           f == fetch(w, n)
           b == fetchblock(w)
           v == b.w
<1>1. Numbers(w) /\ Cursor(w)
  BY PlacedIsNumbers, PlacedIsCursor
<1>2. MovedTo(f.w, w, n) /\ f.r = Passed(w, n)
  BY <1>1, fetchIs DEF Numbers
<1>3. f.r \in Seq(Int) /\ Len(f.r) = Count(w.size, w.at, n)
  <2>1. n \in Int /\ n # 0 /\ w.at \in Nat /\ w.size \in Nat
    BY <1>1 DEF Numbers
  <2>2. Passed(w, n) \in Seq(Int) /\ Len(Passed(w, n)) = Count(w.size, w.at, n)
    <3> HIDE DEF n
    <3> QED BY <1>1, <2>1, PassedIsSeq, PassedIsCount
  <2> QED BY <1>2, <2>2
<1>4. b.r = f.r /\ Counted(v, f.w, f.w.realpos + Len(f.r), f.w.done \/ f.r = <<>>)
  BY DEF fetchblock, Fetched, Counted
<1> HIDE DEF f, b, v
<1> DEFINE d == Count(w.size, w.at, n)
           to == Target(w.size, w.at, n)
<1>5. /\ d \in Nat /\ d <= n
      /\ to <= w.size => to = w.base + (w.realpos + d)
      /\ to = w.size + 1 => w.realpos + d = Most(w.size - w.base, 0)
      /\ d = 0 => to = w.size + 1
  <2>1. /\ w.size \in Nat /\ w.at \in Nat /\ w.at <= w.size + 1 /\ w.base \in Nat /\ w.realpos \in Nat
        /\ n \in Nat /\ n > 0 /\ w.base <= w.size + 1
        /\ w.at <= w.size => w.at = w.base + w.realpos
        /\ w.at = w.size + 1 => w.realpos = Most(w.size - w.base, 0)
    BY <1>1 DEF Numbers, Along
  <2>2. Passing(w.size, w.base, w.realpos, n, d, to)
    <3> HIDE DEF n
    <3> QED BY <2>1, PassedOn
  <2> QED BY <2>2 DEF Passing
<1>6. /\ Placed(f.w) /\ f.w.realpos = w.realpos /\ f.w.done = w.done /\ f.w.at = to
      /\ f.w.stride = w.stride /\ f.w.reqpos = w.reqpos /\ f.w.iterators = w.iterators /\ f.w.it = w.it
      /\ f.w.as = w.as /\ f.w.base = w.base /\ f.w.size = w.size
  BY <1>1, <1>2 DEF MovedTo, SameStream, Numbers
<1>7. f.r = <<>> <=> d = 0
  BY <1>3, SpanIsNothing
<1> DEFINE done == w.done \/ f.r = <<>>
<1>8. w.realpos + d \in Nat /\ done \in BOOLEAN /\ Counted(v, f.w, w.realpos + d, done)
  <2>1. Len(f.r) = d /\ w.realpos + d \in Nat /\ done \in BOOLEAN
    BY <1>1, <1>3, <1>5 DEF Numbers
  <2>2. Counted(v, f.w, w.realpos + d, done)
    BY <1>4, <1>6, <2>1
  <2> QED BY <2>1, <2>2
<1> HIDE DEF done
<1>9. /\ Placed(v) /\ v.realpos = w.realpos + d /\ v.done = done /\ v.at = to
      /\ v.stride = w.stride /\ v.reqpos = w.reqpos /\ v.iterators = w.iterators /\ v.it = w.it
      /\ v.as = w.as /\ v.base = w.base /\ v.size = w.size
  BY <1>6, <1>8, CountedIs
<1> HIDE DEF n, d, to
<1>10. Along(v)
  <2>1. w.done => to = w.size + 1
    <3>1. w.done => w.at = w.size + 1
      BY DEF Along
    <3>2. w.at = w.size + 1 => to = w.size + 1
      BY <1>1 DEF to, n, Target, Most, Least, Numbers
    <3> QED BY <3>1, <3>2
  <2> QED BY <1>5, <1>7, <1>9, <2>1 DEF Along, done
<1>11. w.realpos <= v.realpos /\ v.realpos <= w.realpos + w.stride
  BY <1>1, <1>5, <1>9 DEF n, Numbers
<1>12. ReadOn(v, w)
  BY <1>9, <1>10, <1>11 DEF ReadOn
<1> QED BY <1>2, <1>3, <1>4, <1>11, <1>12 DEF b, v, n

LEMMA ignoreIs ==
    ASSUME NEW w, Placed(w), Along(w), NEW n \in Nat, n > 0
    PROVE  LET v == ignore(w, n)
           IN  /\ ReadOn(v, w) /\ v.realpos <= w.realpos + n /\ v.at = Target(w.size, w.at, n)
<1> DEFINE f == move(w, n)
           v == ignore(w, n)
<1>1. Numbers(w) /\ Cursor(w)
  BY PlacedIsNumbers, PlacedIsCursor
<1>2. MovedTo(f.w, w, n) /\ f.d = Count(w.size, w.at, n)
  BY <1>1, moveIs, PassedIsCount
<1>4. Counted(v, f.w, f.w.realpos + f.d, f.w.done \/ f.d < n)
  BY DEF ignore, Skipped, Counted
<1> HIDE DEF f, v
<1> DEFINE d == Count(w.size, w.at, n)
           to == Target(w.size, w.at, n)
<1>5. /\ d \in Nat /\ d <= n
      /\ to <= w.size => to = w.base + (w.realpos + d)
      /\ to = w.size + 1 => w.realpos + d = Most(w.size - w.base, 0)
      /\ d < n => to = w.size + 1
  <2>1. /\ w.size \in Nat /\ w.at \in Nat /\ w.at <= w.size + 1 /\ w.base \in Nat /\ w.realpos \in Nat
        /\ n \in Nat /\ n > 0 /\ w.base <= w.size + 1
        /\ w.at <= w.size => w.at = w.base + w.realpos
        /\ w.at = w.size + 1 => w.realpos = Most(w.size - w.base, 0)
    BY <1>1 DEF Numbers, Along
  <2>2. Passing(w.size, w.base, w.realpos, n, d, to)
    BY <2>1, PassedOn
  <2> QED BY <2>2 DEF Passing
<1>6. /\ Placed(f.w) /\ f.w.realpos = w.realpos /\ f.w.done = w.done /\ f.w.at = to
      /\ f.w.stride = w.stride /\ f.w.reqpos = w.reqpos /\ f.w.iterators = w.iterators /\ f.w.it = w.it
      /\ f.w.as = w.as /\ f.w.base = w.base /\ f.w.size = w.size
  BY <1>1, <1>2 DEF MovedTo, SameStream, Numbers
<1> DEFINE done == w.done \/ d < n
<1>8. w.realpos + d \in Nat /\ done \in BOOLEAN /\ Counted(v, f.w, w.realpos + d, done)
  <2>1. f.d = d /\ w.realpos + d \in Nat /\ done \in BOOLEAN
    BY <1>1, <1>2, <1>5 DEF Numbers
  <2>2. Counted(v, f.w, w.realpos + d, done)
    BY <1>4, <1>6, <2>1
  <2> QED BY <2>1, <2>2
<1> HIDE DEF done
<1>9. /\ Placed(v) /\ v.realpos = w.realpos + d /\ v.done = done /\ v.at = to
      /\ v.stride = w.stride /\ v.reqpos = w.reqpos /\ v.iterators = w.iterators /\ v.it = w.it
      /\ v.as = w.as /\ v.base = w.base /\ v.size = w.size
  BY <1>6, <1>8, CountedIs
<1> HIDE DEF d, to
<1>10. Along(v)
  <2>1. w.done => to = w.size + 1
    <3>1. w.done => w.at = w.size + 1
      BY DEF Along
    <3>2. w.at = w.size + 1 => to = w.size + 1
      BY <1>1 DEF to, Target, Most, Least, Numbers
    <3> QED BY <3>1, <3>2
  <2> QED BY <1>5, <1>9, <2>1 DEF Along, done
<1>11. w.realpos <= v.realpos /\ v.realpos <= w.realpos + n
  BY <1>1, <1>5, <1>9 DEF Numbers
<1>12. ReadOn(v, w)
  BY <1>9, <1>10, <1>11 DEF ReadOn
<1> QED BY <1>9, <1>11, <1>12 DEF v, to

\* Skipping to a place and fetching a block gives the block of that place.
LEMMA BlockAtIs ==
    ASSUME NEW w, Placed(w), Along(w), NEW readpos \in Nat, w.realpos <= readpos
    PROVE  LET b == BlockAt(w, readpos)
           IN  ReadOn(b.w, w) /\ b.w.realpos <= readpos + w.stride /\ b.r = BlockOf(w, readpos) /\ b.r \in Seq(Int)
<1> DEFINE n == readpos - w.realpos
           v == IF readpos > w.realpos THEN ignore(w, n) ELSE w
           b == fetchblock(v)
<1>1. Numbers(w)
  BY PlacedIsNumbers
<1>2. /\ ReadOn(v, w) /\ v.realpos <= readpos
      /\ v.at = IF readpos > w.realpos THEN Target(w.size, w.at, n) ELSE w.at
  <2>1. CASE readpos > w.realpos
    <3>1. n \in Nat /\ n > 0 /\ w.realpos + n = readpos
      BY <1>1, <2>1 DEF Numbers
    <3> QED BY <2>1, <3>1, ignoreIs
  <2>2. CASE ~(readpos > w.realpos)
    BY <1>1, <2>2 DEF ReadOn, Numbers
  <2> QED BY <2>1, <2>2
<1>3. BlockAt(w, readpos) = b
  BY DEF BlockAt
<1> HIDE DEF v
<1>4. Placed(v) /\ Along(v) /\ v.stride = w.stride /\ v.size = w.size /\ v.base = w.base /\ Numbers(v)
  BY <1>2, PlacedIsNumbers DEF ReadOn
<1>5. ReadOn(b.w, v) /\ b.w.realpos <= v.realpos + v.stride /\ b.r = Passed(v, v.stride) /\ b.r \in Seq(Int)
  BY <1>4, fetchblockIs
<1> HIDE DEF b
<1>6. ReadOn(b.w, w) /\ b.w.realpos <= readpos + w.stride
  <2>1. Numbers(b.w)
    BY <1>5, PlacedIsNumbers DEF ReadOn
  <2>2. ReadOn(b.w, w)
    BY <1>1, <1>2, <1>4, <1>5, <2>1, SMTT(40) DEF ReadOn, Numbers
  <2>3. b.w.realpos <= v.realpos + w.stride /\ v.realpos <= readpos
    BY <1>2, <1>4, <1>5
  <2>4. b.w.realpos <= readpos + w.stride
    BY <1>1, <1>4, <2>1, <2>3 DEF Numbers
  <2> QED BY <2>2, <2>4
<1>7. Passed(v, v.stride) = BlockOf(w, readpos)
  <2>1. Passed(v, v.stride) = IF v.at >= w.size THEN <<>> ELSE Span(v.at + 1, Least(v.at + w.stride, w.size))
    BY <1>4 DEF Passed, Numbers
  <2>2. CASE w.base + readpos < w.size
    <3>1. v.at = w.base + readpos
      <4>1. w.at <= w.size /\ w.at = w.base + w.realpos
        BY <1>1, <2>2 DEF Along, Numbers, Most
      <4>2. readpos > w.realpos => Target(w.size, w.at, n) = w.base + readpos
        BY <1>1, <2>2, <4>1 DEF Target, Most, Least, Numbers
      <4>3. ~(readpos > w.realpos) => w.realpos = readpos
        BY <1>1 DEF Numbers
      <4> QED BY <1>2, <4>1, <4>2, <4>3
    <3>2. /\ ~(v.at >= w.size) /\ ~(w.base + readpos + 1 > w.size) /\ v.at + 1 = w.base + readpos + 1
          /\ w.base + readpos + 1 + w.stride - 1 = v.at + w.stride
      BY <1>1, <2>2, <3>1 DEF Numbers
    <3> QED BY <2>1, <3>2 DEF BlockOf
  <2>3. CASE ~(w.base + readpos < w.size)
    <3>1. v.at >= w.size
      <4>1. CASE w.at = w.size + 1
        BY <1>1, <1>2, <4>1 DEF Target, Most, Least, Numbers
      <4>2. CASE w.at # w.size + 1
        <5>1. w.at = w.base + w.realpos
          BY <1>1, <4>2 DEF Along, Numbers
        <5> QED BY <1>1, <1>2, <2>3, <5>1 DEF Target, Most, Least, Numbers
      <4> QED BY <4>1, <4>2
    <3>2. w.base + readpos + 1 > w.size
      BY <1>1, <2>3 DEF Numbers
    <3> QED BY <2>1, <3>1, <3>2 DEF BlockOf
  <2> QED BY <2>2, <2>3
<1> QED BY <1>3, <1>5, <1>6, <1>7

-----------------------------------------------------------------------------
(* The iterators on a stream *)

\* The places of the iterators are whole blocks apart.
Aligned(w) ==
    /\ \A i \in w.iterators : w.it[i].pos = w.reqpos \/ w.it[i].pos + w.stride <= w.reqpos
    /\ \A i, j \in w.iterators : w.it[i].pos < w.it[j].pos => w.it[i].pos + w.stride <= w.it[j].pos

\* An iterator has the rows of its place or none yet; if it was placed before
\* the stream had read that far, it has them once the stream has.
Shown(w) ==
    \A i \in w.iterators :
        /\ w.it[i].here \in {<<>>, BlockOf(w, w.it[i].pos)}
        /\ ~w.it[i].late /\ w.it[i].pos < w.realpos => w.it[i].here = BlockOf(w, w.it[i].pos)

Streaming(w) == Along(w) /\ Aligned(w) /\ Shown(w)

Todo(w, topos) == {i \in w.iterators : w.realpos <= w.it[i].pos /\ w.it[i].pos <= topos}

\* The local recursive function of service_iterators.
ReadStep(w, todo, v, n) == IF \E i \in todo : w.it[i].pos = n THEN Served(BlockAt(v, n), todo, n) ELSE v

Reads(read, w, todo, m) ==
    read = [n \in 0 .. m |-> IF n = 0 THEN w ELSE ReadStep(w, todo, read[n - 1], n - 1)]

LEMMA LessIs == \A i, j \in Nat : i < j => <<i, j>> \in OpToRel(<, Nat)
  BY DEF OpToRel

LEMMA NumberInduction ==
    ASSUME NEW S, 0 \in S, \A n \in Nat : n \in S => n + 1 \in S
    PROVE  Nat \subseteq S
<1> SUFFICES ASSUME Nat \ S # {} PROVE FALSE
  OBVIOUS
<1>1. IsWellFoundedOn(OpToRel(<, Nat), Nat)
  BY NatLessThanWellFounded
<1>2. PICK x \in Nat \ S : \A y \in Nat \ S : ~ (<<y, x>> \in OpToRel(<, Nat))
  BY <1>1, WFMin
<1>3. x - 1 \in Nat /\ x - 1 < x /\ (x - 1) + 1 = x
  <2>1. x # 0
    BY <1>2
  <2> QED BY <2>1
<1>4. x - 1 \in S
  BY <1>2, <1>3, LessIs
<1> QED BY <1>2, <1>3, <1>4

LEMMA ReadsExists ==
    ASSUME NEW w, NEW todo, NEW most \in Nat
    PROVE  \E read : Reads(read, w, todo, most)
<1> DEFINE S == {m \in Nat : \E read : Reads(read, w, todo, m)}
<1>1. 0 \in S
  <2> DEFINE read == [n \in 0 .. 0 |-> w]
  <2>1. Reads(read, w, todo, 0)
    BY DEF Reads
  <2> HIDE DEF read
  <2> QED BY <2>1
<1>2. ASSUME NEW m \in Nat, m \in S PROVE m + 1 \in S
  <2>1. PICK read : Reads(read, w, todo, m)
    BY <1>2
  <2> DEFINE more == [n \in 0 .. m + 1 |-> IF n = m + 1 THEN ReadStep(w, todo, read[m], m) ELSE read[n]]
  <2>2. ASSUME NEW n \in 0 .. m + 1
        PROVE  more[n] = IF n = 0 THEN w ELSE ReadStep(w, todo, more[n - 1], n - 1)
    <3>1. CASE n = m + 1
      <4>1. n - 1 = m /\ m \in 0 .. m + 1 /\ m # m + 1 /\ n # 0
        BY <3>1
      <4>2. more[m] = read[m] /\ more[n] = ReadStep(w, todo, read[m], m)
        BY <3>1, <4>1
      <4> QED BY <4>1, <4>2
    <3>2. CASE n # m + 1 /\ n # 0
      <4>1. n \in 0 .. m /\ n - 1 \in 0 .. m /\ n - 1 \in 0 .. m + 1 /\ n - 1 # m + 1
        BY <3>2
      <4>2. more[n] = read[n] /\ more[n - 1] = read[n - 1]
        BY <3>2, <4>1
      <4>3. read[n] = ReadStep(w, todo, read[n - 1], n - 1)
        BY <2>1, <3>2, <4>1 DEF Reads
      <4> QED BY <3>2, <4>2, <4>3
    <3>3. CASE n # m + 1 /\ n = 0
      <4>1. more[n] = read[n] /\ 0 \in 0 .. m
        BY <3>3
      <4>2. read[0] = w
        BY <2>1, <4>1 DEF Reads
      <4> QED BY <3>3, <4>1, <4>2
    <3> QED BY <3>1, <3>2, <3>3
  <2>3. more = [n \in 0 .. m + 1 |-> more[n]]
    OBVIOUS
  <2> HIDE DEF more
  <2>4. Reads(more, w, todo, m + 1)
    BY <2>2, <2>3 DEF Reads
  <2> QED BY <2>4
<1>3. Nat \subseteq S
  <2> HIDE DEF S
  <2> QED BY <1>1, <1>2, NumberInduction
<1> QED BY <1>3

LEMMA ServiceReads ==
    ASSUME NEW w, NEW topos \in Nat, ~(topos < w.realpos)
    PROVE  \E read : Reads(read, w, Todo(w, topos), topos + 1) /\ service_iterators(w, topos) = read[topos + 1]
<1> DEFINE todo == Todo(w, topos)
           it == CHOOSE read : Reads(read, w, todo, topos + 1)
<1>1. Reads(it, w, todo, topos + 1)
  BY ReadsExists
<1>2. service_iterators(w, topos) = it[topos + 1]
  BY DEF service_iterators, Reads, ReadStep, Todo
<1> QED BY <1>1, <1>2

\* w with other iterators.
Iterating(v, w, it) == v = [w EXCEPT !.it = it]

LEMMA IteratingIs ==
    ASSUME NEW w, Placed(w), NEW it \in [Iterators -> [pos : Nat, here : Seq(Int), late : BOOLEAN]],
           NEW v, Iterating(v, w, it)
    PROVE  /\ Placed(v) /\ v.it = it /\ v.realpos = w.realpos /\ v.done = w.done /\ v.at = w.at /\ v.pos = w.pos
           /\ v.stride = w.stride /\ v.reqpos = w.reqpos /\ v.iterators = w.iterators
           /\ v.as = w.as /\ v.base = w.base /\ v.size = w.size
<1>1. v \in CursorType
  BY DEF Placed, CursorType, Iterating
<1> QED BY <1>1 DEF Placed, CursorType, Iterating, InPlace

LEMMA ServedIs ==
    ASSUME NEW b, Placed(b.w), b.r \in Seq(Int), NEW todo, NEW readpos
    PROVE  LET v == Served(b, todo, readpos)
           IN  /\ Placed(v) /\ v.realpos = b.w.realpos /\ v.done = b.w.done /\ v.at = b.w.at
               /\ v.stride = b.w.stride /\ v.reqpos = b.w.reqpos /\ v.iterators = b.w.iterators
               /\ v.as = b.w.as /\ v.base = b.w.base /\ v.size = b.w.size
               /\ \A i \in Iterators :
                      /\ v.it[i].pos = b.w.it[i].pos /\ v.it[i].late = b.w.it[i].late
                      /\ v.it[i].here = IF i \in todo /\ b.w.it[i].pos = readpos THEN b.r ELSE b.w.it[i].here
<1> DEFINE Spots == [pos : Nat, here : Seq(Int), late : BOOLEAN]
           it == [i \in Iterators |-> IF i \in todo /\ b.w.it[i].pos = readpos
                                      THEN [b.w.it[i] EXCEPT !.here = b.r] ELSE b.w.it[i]]
           v == Served(b, todo, readpos)
<1>1. \A i \in Iterators : b.w.it[i] \in Spots
  BY DEF Placed, CursorType
<1>2. \A i \in Iterators :
         /\ it[i] \in Spots
         /\ it[i].pos = b.w.it[i].pos /\ it[i].late = b.w.it[i].late
         /\ it[i].here = IF i \in todo /\ b.w.it[i].pos = readpos THEN b.r ELSE b.w.it[i].here
  <2> TAKE i \in Iterators
  <2> DEFINE spot == b.w.it[i]
  <2>1. spot \in Spots
    BY <1>1
  <2>2. it[i] = IF i \in todo /\ spot.pos = readpos THEN [spot EXCEPT !.here = b.r] ELSE spot
    OBVIOUS
  <2> HIDE DEF spot, it
  <2>3. /\ it[i] \in Spots
        /\ it[i].pos = spot.pos /\ it[i].late = spot.late
        /\ it[i].here = IF i \in todo /\ spot.pos = readpos THEN b.r ELSE spot.here
    BY <2>1, <2>2
  <2> QED BY <2>3 DEF spot
<1>3. it \in [Iterators -> Spots]
  BY <1>2
<1>4. Iterating(v, b.w, it)
  BY DEF Served, Iterating
<1> HIDE DEF v, it
<1>5. /\ Placed(v) /\ v.it = it /\ v.realpos = b.w.realpos /\ v.done = b.w.done /\ v.at = b.w.at
      /\ v.stride = b.w.stride /\ v.reqpos = b.w.reqpos /\ v.iterators = b.w.iterators
      /\ v.as = b.w.as /\ v.base = b.w.base /\ v.size = b.w.size
  BY <1>3, <1>4, IteratingIs
<1> QED BY <1>2, <1>5 DEF v

\* What service_iterators has done once it has served the places below n.
Readied(v, w, todo, n) ==
    /\ Placed(v) /\ Along(v)
    /\ v.stride = w.stride /\ v.reqpos = w.reqpos /\ v.iterators = w.iterators
    /\ v.as = w.as /\ v.base = w.base /\ v.size = w.size
    /\ w.realpos <= v.realpos
    /\ \/ v.realpos = w.realpos
       \/ \E j \in todo : w.it[j].pos < n /\ v.realpos <= w.it[j].pos + w.stride
    /\ \A i \in Iterators :
           /\ v.it[i].pos = w.it[i].pos /\ v.it[i].late = w.it[i].late
           /\ v.it[i].here = IF i \in todo /\ w.it[i].pos < n THEN BlockOf(w, w.it[i].pos) ELSE w.it[i].here

LEMMA SpotsAreNumbers ==
    ASSUME NEW w, Placed(w), NEW i \in Iterators
    PROVE  w.it[i].pos \in Nat /\ w.it[i].late \in BOOLEAN
  BY DEF Placed, CursorType

LEMMA IteratorsAre ==
    ASSUME NEW w, Placed(w), NEW i \in w.iterators
    PROVE  i \in Iterators
  BY DEF Placed, CursorType

LEMMA OnePlaceOn ==
    ASSUME NEW w, Placed(w), Aligned(w), NEW topos \in Nat, NEW n \in Nat, NEW v, Readied(v, w, Todo(w, topos), n)
    PROVE  Readied(ReadStep(w, Todo(w, topos), v, n), w, Todo(w, topos), n + 1)
<1> DEFINE todo == Todo(w, topos)
<1>0. /\ todo \subseteq w.iterators /\ \A i \in todo : w.realpos <= w.it[i].pos
      /\ \A i \in todo : i \in Iterators /\ w.it[i].pos \in Nat
  <2>1. todo \subseteq w.iterators /\ \A i \in todo : w.realpos <= w.it[i].pos
    BY DEF Todo
  <2> QED BY <2>1, IteratorsAre, SpotsAreNumbers
<1> HIDE DEF todo
<1>1. Readied(v, w, todo, n) /\ Numbers(w) /\ Numbers(v)
  <2>1. Readied(v, w, todo, n)
    BY DEF todo
  <2> QED BY <2>1, PlacedIsNumbers DEF Readied
<1>2. CASE \E i \in todo : w.it[i].pos = n
  <2>1. PICK k \in todo : w.it[k].pos = n
    BY <1>2
  <2> DEFINE b == BlockAt(v, n)
             u == Served(b, todo, n)
  <2>2. ReadStep(w, todo, v, n) = u
    BY <1>2 DEF ReadStep
  <2>3. v.realpos <= n
    <3>1. CASE v.realpos = w.realpos
      BY <1>0, <2>1, <3>1
    <3>2. CASE \E j \in todo : w.it[j].pos < n /\ v.realpos <= w.it[j].pos + w.stride
      <4>1. PICK j \in todo : w.it[j].pos < n /\ v.realpos <= w.it[j].pos + w.stride
        BY <3>2
      <4>2. w.it[j].pos + w.stride <= n
        BY <1>0, <2>1, <4>1 DEF Aligned
      <4> QED BY <1>0, <1>1, <4>1, <4>2 DEF Numbers
    <3> QED BY <1>1, <3>1, <3>2 DEF Readied
  <2>4. /\ ReadOn(b.w, v) /\ b.w.realpos <= n + v.stride /\ b.r = BlockOf(v, n) /\ b.r \in Seq(Int)
    BY <1>1, <2>3, BlockAtIs DEF Readied
  <2>5. BlockOf(v, n) = BlockOf(w, n)
    BY <1>1 DEF Readied, BlockOf
  <2> HIDE DEF b, u
  <2>6. /\ Placed(u) /\ u.realpos = b.w.realpos /\ u.done = b.w.done /\ u.at = b.w.at
        /\ u.stride = b.w.stride /\ u.reqpos = b.w.reqpos /\ u.iterators = b.w.iterators
        /\ u.as = b.w.as /\ u.base = b.w.base /\ u.size = b.w.size
        /\ \A i \in Iterators :
               /\ u.it[i].pos = b.w.it[i].pos /\ u.it[i].late = b.w.it[i].late
               /\ u.it[i].here = IF i \in todo /\ b.w.it[i].pos = n THEN b.r ELSE b.w.it[i].here
    BY <2>4, ServedIs DEF ReadOn, u
  <2>7. Along(u)
    BY <2>4, <2>6 DEF ReadOn, Along
  <2>8. /\ u.stride = w.stride /\ u.reqpos = w.reqpos /\ u.iterators = w.iterators
        /\ u.as = w.as /\ u.base = w.base /\ u.size = w.size
    BY <1>1, <2>4, <2>6 DEF ReadOn, Readied
  <2>9. w.realpos <= u.realpos
    <3>1. w.realpos <= v.realpos /\ v.realpos <= u.realpos
      BY <1>1, <2>4, <2>6 DEF ReadOn, Readied
    <3>2. Numbers(u)
      BY <2>6, PlacedIsNumbers
    <3> QED BY <1>1, <3>1, <3>2 DEF Numbers
  <2>10. w.it[k].pos < n + 1 /\ u.realpos <= w.it[k].pos + w.stride
    BY <1>1, <2>1, <2>4, <2>6 DEF Readied
  <2>11. ASSUME NEW i \in Iterators
         PROVE  /\ u.it[i].pos = w.it[i].pos /\ u.it[i].late = w.it[i].late
                /\ u.it[i].here = IF i \in todo /\ w.it[i].pos < n + 1 THEN BlockOf(w, w.it[i].pos) ELSE w.it[i].here
    <3>1. /\ u.it[i].pos = v.it[i].pos /\ u.it[i].late = v.it[i].late
          /\ u.it[i].here = IF i \in todo /\ v.it[i].pos = n THEN BlockOf(w, n) ELSE v.it[i].here
      BY <2>4, <2>5, <2>6 DEF ReadOn
    <3>2. /\ v.it[i].pos = w.it[i].pos /\ v.it[i].late = w.it[i].late
          /\ v.it[i].here = IF i \in todo /\ w.it[i].pos < n THEN BlockOf(w, w.it[i].pos) ELSE w.it[i].here
      BY <1>1 DEF Readied
    <3>3. w.it[i].pos \in Nat
      BY SpotsAreNumbers
    <3>4. CASE w.it[i].pos = n
      BY <3>1, <3>2, <3>4
    <3>5. CASE w.it[i].pos # n
      <4>1. w.it[i].pos < n + 1 <=> w.it[i].pos < n
        BY <3>3, <3>5
      <4> QED BY <3>1, <3>2, <3>5, <4>1
    <3> QED BY <3>4, <3>5
  <2> QED BY <2>1, <2>2, <2>6, <2>7, <2>8, <2>9, <2>10, <2>11 DEF Readied, todo
<1>3. CASE ~ \E i \in todo : w.it[i].pos = n
  <2>1. ReadStep(w, todo, v, n) = v
    BY <1>3 DEF ReadStep
  <2>2. \A i \in todo : w.it[i].pos < n + 1 <=> w.it[i].pos < n
    BY <1>0, <1>3
  <2>3. Readied(v, w, todo, n + 1)
    BY <1>1, <2>2 DEF Readied
  <2> QED BY <2>1, <2>3 DEF todo
<1> QED BY <1>2, <1>3

LEMMA AllReadied ==
    ASSUME NEW w, Placed(w), Along(w), Aligned(w), NEW topos \in Nat, NEW read, NEW m \in Nat,
           Reads(read, w, Todo(w, topos), m)
    PROVE  Readied(read[m], w, Todo(w, topos), m)
<1> DEFINE todo == Todo(w, topos)
           S == {n \in Nat : n <= m => Readied(read[n], w, todo, n)}
<1>1. 0 \in S
  <2>1. read[0] = w
    BY DEF Reads
  <2>2. \A i \in Iterators : w.it[i].pos \in Nat
    BY SpotsAreNumbers
  <2>3. Readied(w, w, todo, 0)
    <3> HIDE DEF todo
    <3>1. w.realpos \in Nat
      BY PlacedIsNumbers DEF Numbers
    <3>2. \A i \in Iterators : ~(w.it[i].pos < 0)
      BY <2>2
    <3> QED BY <3>1, <3>2 DEF Readied
  <2> QED BY <2>1, <2>3
<1>2. ASSUME NEW n \in Nat, n \in S PROVE n + 1 \in S
  <2> SUFFICES ASSUME n + 1 <= m PROVE Readied(read[n + 1], w, todo, n + 1)
    OBVIOUS
  <2>1. n + 1 \in 0 .. m /\ n + 1 # 0 /\ (n + 1) - 1 = n
    OBVIOUS
  <2>2. read[n + 1] = ReadStep(w, todo, read[n], n)
    BY <2>1 DEF Reads
  <2>3. Readied(read[n], w, todo, n)
    BY <1>2, <2>1
  <2>4. Readied(ReadStep(w, todo, read[n], n), w, todo, n + 1)
    BY <2>3, OnePlaceOn
  <2> QED BY <2>2, <2>4
<1>3. m \in S
  <2> HIDE DEF S
  <2> QED BY <1>1, <1>2, NumberInduction
<1> QED BY <1>3

\* What every iterator on the stream sees stays right however far the stream
\* is read on, and the iterators that wait below topos see their rows.
LEMMA ServiceIs ==
    ASSUME NEW w, Placed(w), Streaming(w), NEW topos \in Nat
    PROVE  LET v == service_iterators(w, topos)
           IN  /\ Placed(v) /\ Streaming(v) /\ v.as = w.as /\ v.iterators = w.iterators
               /\ v.base = w.base /\ v.size = w.size /\ v.stride = w.stride
               /\ \A i \in Iterators : v.it[i].pos = w.it[i].pos /\ v.it[i].late = w.it[i].late
               /\ \A i \in w.iterators :
                      w.it[i].pos <= topos /\ ~w.it[i].late => v.it[i].here = BlockOf(w, w.it[i].pos)
<1> DEFINE v == service_iterators(w, topos)
           todo == Todo(w, topos)
<1>1. /\ Numbers(w) /\ \A i \in w.iterators : i \in Iterators /\ w.it[i].pos \in Nat
  BY PlacedIsNumbers, IteratorsAre, SpotsAreNumbers
<1>2. CASE topos < w.realpos
  <2>1. v = w
    BY <1>2 DEF service_iterators
  <2>2. \A i \in w.iterators : w.it[i].pos <= topos => w.it[i].pos < w.realpos
    BY <1>1, <1>2 DEF Numbers
  <2>3. \A i \in w.iterators : w.it[i].pos <= topos /\ ~w.it[i].late => w.it[i].here = BlockOf(w, w.it[i].pos)
    BY <2>2 DEF Streaming, Shown
  <2> QED BY <2>1, <2>3
<1>3. CASE ~(topos < w.realpos)
  <2>1. PICK read : Reads(read, w, todo, topos + 1) /\ v = read[topos + 1]
    BY <1>3, ServiceReads
  <2>2. Readied(v, w, todo, topos + 1)
    <3>1. Placed(w) /\ Along(w) /\ Aligned(w) /\ topos + 1 \in Nat
      BY DEF Streaming
    <3> QED BY <2>1, <3>1, AllReadied
  <2>3. \A i \in w.iterators : i \in todo <=> w.realpos <= w.it[i].pos /\ w.it[i].pos <= topos
    BY DEF Todo
  <2>4. \A i \in todo : i \in w.iterators
    BY DEF Todo
  <2> HIDE DEF v, todo
  <2>5. Numbers(v)
    BY <2>2, PlacedIsNumbers DEF Readied
  <2>6. ASSUME NEW i \in w.iterators
        PROVE  /\ v.it[i].pos = w.it[i].pos /\ v.it[i].late = w.it[i].late
               /\ v.it[i].here = IF i \in todo THEN BlockOf(w, w.it[i].pos) ELSE w.it[i].here
    <3>1. i \in todo => w.it[i].pos < topos + 1
      BY <1>1, <2>3
    <3> QED BY <1>1, <2>2, <3>1 DEF Readied
  <2>7. \A pos \in Nat : BlockOf(v, pos) = BlockOf(w, pos)
    BY <2>2 DEF Readied, BlockOf
  <2>8. Aligned(v)
    BY <2>2, <2>6 DEF Streaming, Aligned, Readied
  <2>9. ASSUME NEW i \in w.iterators
        PROVE  /\ v.it[i].here \in {<<>>, BlockOf(w, w.it[i].pos)}
               /\ ~w.it[i].late /\ w.it[i].pos < v.realpos => v.it[i].here = BlockOf(w, w.it[i].pos)
               /\ ~w.it[i].late /\ w.it[i].pos <= topos => v.it[i].here = BlockOf(w, w.it[i].pos)
    <3>1. /\ w.it[i].here \in {<<>>, BlockOf(w, w.it[i].pos)}
          /\ ~w.it[i].late /\ w.it[i].pos < w.realpos => w.it[i].here = BlockOf(w, w.it[i].pos)
      BY DEF Streaming, Shown
    <3>2. CASE i \in todo
      BY <2>6, <3>2
    <3>3. CASE i \notin todo /\ w.it[i].pos < w.realpos
      BY <2>6, <3>1, <3>3
    <3>4. CASE i \notin todo /\ ~(w.it[i].pos < w.realpos)
      <4>1. topos < w.it[i].pos /\ ~(w.it[i].pos <= topos)
        BY <1>1, <2>3, <3>4 DEF Numbers
      <4>2. ~(w.it[i].pos < v.realpos)
        <5>1. CASE v.realpos = w.realpos
          BY <3>4, <5>1
        <5>2. CASE \E j \in todo : w.it[j].pos < topos + 1 /\ v.realpos <= w.it[j].pos + w.stride
          <6>1. PICK j \in todo : w.it[j].pos < topos + 1 /\ v.realpos <= w.it[j].pos + w.stride
            BY <5>2
          <6>2. j \in w.iterators /\ w.it[j].pos < w.it[i].pos
            BY <1>1, <2>4, <4>1, <6>1
          <6>3. w.it[j].pos + w.stride <= w.it[i].pos
            BY <6>2 DEF Streaming, Aligned
          <6> QED BY <1>1, <2>5, <6>1, <6>2, <6>3 DEF Numbers
        <5> QED BY <2>2, <5>1, <5>2 DEF Readied
      <4> QED BY <2>6, <3>1, <3>4, <4>1, <4>2
    <3> QED BY <3>2, <3>3, <3>4
  <2>10. Shown(v)
    <3> SUFFICES ASSUME NEW i \in v.iterators
                 PROVE  /\ v.it[i].here \in {<<>>, BlockOf(v, v.it[i].pos)}
                        /\ ~v.it[i].late /\ v.it[i].pos < v.realpos => v.it[i].here = BlockOf(v, v.it[i].pos)
      BY DEF Shown
    <3>1. i \in w.iterators
      BY <2>2 DEF Readied
    <3>2. v.it[i].pos = w.it[i].pos /\ v.it[i].late = w.it[i].late /\ BlockOf(v, w.it[i].pos) = BlockOf(w, w.it[i].pos)
      BY <1>1, <2>6, <2>7, <3>1
    <3> QED BY <2>9, <3>1, <3>2
  <2>11. Placed(v) /\ Streaming(v)
    BY <2>2, <2>8, <2>10 DEF Readied, Streaming
  <2> QED BY <2>2, <2>9, <2>11 DEF Readied, v
<1> QED BY <1>2, <1>3

-----------------------------------------------------------------------------
(* Every step of a program with its cursors *)

CursorInv(w) ==
    /\ w \in CursorType /\ w.at <= w.size + 1 /\ w.size \in Rows /\ w.broken = FALSE
    /\ w.as # "none" => InPlace(w)
    /\ w.as = "stateless" => w.pos # Unknown
    /\ w.as = "stream" => Streaming(w)

CursorsRight == KeepsItsPlace /\ RetrievedIsAsked /\ IteratorsSeeTheirBlocks

LEMMA PlacedIsInv ==
    ASSUME NEW w, Placed(w), w.as = "stateless" => w.pos # Unknown, w.as = "stream" => Streaming(w)
    PROVE  CursorInv(w)
  BY DEF CursorInv, Placed, InPlace

LEMMA InvIsPlaced ==
    ASSUME NEW w, CursorInv(w), w.as # "none"
    PROVE  Placed(w)
  BY DEF CursorInv, Placed

LEMMA HandedIsRight ==
    ASSUME CursorInv(c'), NEW w, NEW answer, Hands(w, answer), RetrievedIsAsked',
           got'.call = "read" /\ c'.as = "stream" /\ On(c', got'.of) /\ ~c'.it[got'.of].late
             => got'.rows = BlockOf(c', c'.it[got'.of].pos)
    PROVE  CursorInv(c') /\ CursorsRight'
<1>1. KeepsItsPlace'
  BY DEF CursorInv, InPlace, Sits, KeepsItsPlace
<1>2. IteratorsSeeTheirBlocks'
  BY DEF CursorInv, Streaming, Along, Shown, IteratorsSeeTheirBlocks, BlockOf, Block
<1> QED BY <1>1, <1>2 DEF CursorsRight

LEMMA OtherAnswer ==
    ASSUME NEW w, CursorInv(w), NEW answer, Hands(w, answer), answer.call \notin {"retrieve", "read"}
    PROVE  CursorInv(c') /\ CursorsRight'
<1>1. CursorInv(c') /\ RetrievedIsAsked' /\ got'.call # "read"
  BY DEF Hands, RetrievedIsAsked
<1> QED BY <1>1, HandedIsRight

LEMMA ReturnsKeeps ==
    ASSUME NEW w, CursorInv(w), Returns(w)
    PROVE  CursorInv(c') /\ CursorsRight'
<1>1. Hands(w, NoCall) /\ NoCall.call \notin {"retrieve", "read"}
  BY DEF Hands, Returns, NoCall
<1> QED BY <1>1, OtherAnswer

\* The server's cursor with another object on it.
Located(v, w, at, at_end, pos, endpos) == v = [w EXCEPT !.at = at, !.at_end = at_end, !.pos = pos, !.endpos = endpos]
Owning(v, w, exists, adopted, owned, avoidance) ==
    v = [w EXCEPT !.exists = exists, !.adopted = adopted, !.owned = owned, !.avoidance = avoidance]

LEMMA LocatedIs ==
    ASSUME NEW w \in CursorType, NEW at \in Nat, NEW at_end \in {-1, 0, 1}, NEW pos \in Int, NEW endpos \in Int,
           NEW v, Located(v, w, at, at_end, pos, endpos)
    PROVE  /\ v \in CursorType /\ v.at = at /\ v.at_end = at_end /\ v.pos = pos /\ v.endpos = endpos
           /\ v.size = w.size /\ v.broken = w.broken
  BY DEF CursorType, Located

LEMMA OwningIs ==
    ASSUME NEW w \in CursorType, NEW exists \in BOOLEAN, NEW adopted \in BOOLEAN, NEW owned \in BOOLEAN,
           NEW avoidance \in Int, NEW v, Owning(v, w, exists, adopted, owned, avoidance)
    PROVE  /\ v \in CursorType /\ v.at = w.at /\ v.at_end = w.at_end /\ v.pos = w.pos /\ v.endpos = w.endpos
           /\ v.size = w.size /\ v.broken = w.broken
  BY ZenonT(60) DEF CursorType, Owning

LEMMA sql_cursorIs ==
    ASSUME NEW w, CursorInv(w), NEW hold \in BOOLEAN, NEW owned \in BOOLEAN
    PROVE  LET v == sql_cursor(w, hold, owned) IN Placed(v) /\ v.pos = 0 /\ v.at = 0
<1>1. w \in CursorType /\ w.size \in Nat /\ w.size \in Rows /\ w.broken = FALSE
  BY DEF CursorInv, CursorType
<1> DEFINE avoidance == IF hold THEN w.avoidance + 1 ELSE w.avoidance
           v == sql_cursor(w, hold, owned)
<1>2. avoidance \in Int
  BY <1>1 DEF CursorType
<1>3. v = [w EXCEPT !.at = 0, !.exists = TRUE, !.pos = 0, !.at_end = -1, !.endpos = -1,
                    !.adopted = FALSE, !.owned = owned, !.avoidance = avoidance]
  BY DEF sql_cursor, Unknown
<1> DEFINE u == [w EXCEPT !.at = 0, !.at_end = -1, !.pos = 0, !.endpos = -1]
<1> HIDE DEF v, avoidance
<1>4. u \in CursorType /\ u.at = 0 /\ u.at_end = -1 /\ u.pos = 0 /\ u.endpos = -1 /\ u.size = w.size /\ u.broken = w.broken
  <2>1. Located(u, w, 0, -1, 0, -1) /\ 0 \in Nat /\ 0 \in Int /\ -1 \in Int /\ -1 \in {-1, 0, 1}
    BY DEF Located
  <2> HIDE DEF u
  <2> QED BY <1>1, <2>1, LocatedIs
<1>5. v \in CursorType /\ v.at = 0 /\ v.at_end = -1 /\ v.pos = 0 /\ v.endpos = -1 /\ v.size = w.size /\ v.broken = FALSE
  <2> DEFINE yes == TRUE
             no == FALSE
  <2>1. Owning(v, u, yes, no, owned, avoidance) /\ yes \in BOOLEAN /\ no \in BOOLEAN
    BY <1>1, <1>3 DEF CursorType, Owning
  <2> HIDE DEF u, yes, no
  <2>3. /\ v \in CursorType /\ v.at = u.at /\ v.at_end = u.at_end /\ v.pos = u.pos /\ v.endpos = u.endpos
        /\ v.size = u.size /\ v.broken = u.broken
    BY <1>2, <1>4, <2>1, OwningIs
  <2> QED BY <1>1, <1>4, <2>3
<1>6. InPlace(v)
  BY <1>1, <1>5 DEF InPlace, Sits, Unknown
<1> QED BY <1>1, <1>5, <1>6 DEF Placed, v

LEMMA adoptIs ==
    ASSUME NEW w, CursorInv(w), NEW owned \in BOOLEAN
    PROVE  LET v == adopt(w, owned) IN Placed(v) /\ v.at = w.at /\ v.size = w.size
<1>1. w \in CursorType /\ w.size \in Nat /\ w.size \in Rows /\ w.broken = FALSE /\ w.at <= w.size + 1
  BY DEF CursorInv, CursorType
<1> DEFINE avoidance == IF owned THEN w.avoidance - 1 ELSE w.avoidance
           v == adopt(w, owned)
<1>2. avoidance \in Int
  BY <1>1 DEF CursorType
<1>3. v = [w EXCEPT !.pos = -1, !.at_end = 0, !.endpos = -1,
                    !.adopted = TRUE, !.owned = owned, !.avoidance = avoidance]
  BY DEF adopt, Unknown
<1> DEFINE u == [w EXCEPT !.at = w.at, !.at_end = 0, !.pos = -1, !.endpos = -1]
<1> HIDE DEF v, avoidance
<1>4. /\ u \in CursorType /\ u.at = w.at /\ u.at_end = 0 /\ u.pos = -1 /\ u.endpos = -1
      /\ u.size = w.size /\ u.broken = w.broken
  <2>1. Located(u, w, w.at, 0, -1, -1) /\ w.at \in Nat /\ -1 \in Int /\ 0 \in {-1, 0, 1}
    BY <1>1 DEF CursorType, Located
  <2> HIDE DEF u
  <2> QED BY <1>1, <2>1, LocatedIs
<1>5. v \in CursorType /\ v.at = w.at /\ v.at_end = 0 /\ v.pos = -1 /\ v.endpos = -1 /\ v.size = w.size /\ v.broken = FALSE
  <2> DEFINE exists == w.exists
             yes == TRUE
  <2>1. Owning(v, u, exists, yes, owned, avoidance) /\ exists \in BOOLEAN /\ yes \in BOOLEAN
    BY <1>1, <1>3 DEF CursorType, Owning
  <2> HIDE DEF u, exists, yes
  <2>3. /\ v \in CursorType /\ v.at = u.at /\ v.at_end = u.at_end /\ v.pos = u.pos /\ v.endpos = u.endpos
        /\ v.size = u.size /\ v.broken = u.broken
    BY <1>2, <1>4, <2>1, OwningIs
  <2> QED BY <1>1, <1>4, <2>3
<1>6. InPlace(v)
  BY <1>1, <1>5 DEF InPlace, Sits, Unknown
<1> QED BY <1>1, <1>5, <1>6 DEF Placed, v

\* w under another class.
LEMMA AsIs ==
    ASSUME NEW w, Placed(w), w.pos # Unknown, NEW v, v = [w EXCEPT !.as = "stateless"]
    PROVE  CursorInv(v)
<1>1. v \in CursorType /\ v.as = "stateless" /\ v.pos # Unknown
  BY DEF Placed, CursorType
<1>2. Placed(v)
  BY <1>1 DEF Placed, CursorType, InPlace
<1> QED BY <1>1, <1>2, PlacedIsInv

LEMMA OpenStatelessKeeps == ASSUME CursorInv(c), OpenStateless PROVE CursorInv(c') /\ CursorsRight'
<1>1. PICK hold \in BOOLEAN : \E owned \in BOOLEAN : InBounds([sql_cursor(c, hold, owned) EXCEPT !.as = "stateless"])
  BY DEF OpenStateless
<1>2. PICK owned \in BOOLEAN : InBounds([sql_cursor(c, hold, owned) EXCEPT !.as = "stateless"])
  BY <1>1
<1> DEFINE w == sql_cursor(c, hold, owned)
           v == [w EXCEPT !.as = "stateless"]
<1>3. Placed(w) /\ w.pos # Unknown
  BY sql_cursorIs DEF Unknown
<1>4. Returns(v)
  BY <1>2 DEF InBounds
<1> HIDE DEF w
<1>5. CursorInv(v)
  BY <1>3, AsIs
<1> QED BY <1>4, <1>5, ReturnsKeeps

LEMMA AdoptStatelessKeeps == ASSUME CursorInv(c), AdoptStateless PROVE CursorInv(c') /\ CursorsRight'
<1>1. PICK owned \in BOOLEAN : InBounds([move(adopt(c, owned), backward_all).w EXCEPT !.as = "stateless"])
  BY DEF AdoptStateless
<1> DEFINE u == adopt(c, owned)
           w == move(u, backward_all).w
           v == [w EXCEPT !.as = "stateless"]
<1>2. Placed(u) /\ Numbers(u) /\ u.size \in Rows
  BY adoptIs, PlacedIsNumbers DEF Placed
<1>3. backward_all \in Int /\ backward_all # 0 /\ u.size + 2 <= -backward_all
  BY <1>2, allIs DEF backward_all, Numbers
<1> HIDE DEF u
<1>4. MovedTo(w, u, backward_all)
  BY <1>2, <1>3, moveIs
<1>5. Target(u.size, u.at, backward_all) = 0
  BY <1>2, <1>3 DEF Target, Most, Least, Numbers
<1> HIDE DEF w
<1>6. Placed(w) /\ w.pos # Unknown
  BY <1>3, <1>4, <1>5 DEF MovedTo
<1>7. Returns(v)
  BY <1>1 DEF InBounds, w, u
<1>8. CursorInv(v)
  BY <1>6, AsIs
<1> QED BY <1>7, <1>8, ReturnsKeeps

\* A stream begins where the cursor is, without iterators.
LEMMA icursorstreamIs ==
    ASSUME NEW w, Placed(w), NEW n \in Strides
    PROVE  CursorInv(icursorstream(w, n))
<1> DEFINE v == icursorstream(w, n)
           u == [w EXCEPT !.as = "stream", !.realpos = 0, !.reqpos = 0, !.done = FALSE,
                          !.iterators = {}, !.base = w.at]
<1>1. w \in CursorType /\ w.at \in Nat /\ w.size \in Nat /\ w.at <= w.size + 1 /\ w.size \in Rows /\ n \in Nat \ {0}
  BY StridesAssumption DEF Placed, CursorType
<1>2. v = [u EXCEPT !.stride = n]
  BY DEF icursorstream, set_stride
<1>3. u \in CursorType /\ u.at = w.at /\ u.size = w.size /\ u.as = "stream" /\ u.realpos = 0 /\ u.done = FALSE
      /\ u.iterators = {} /\ u.base = w.at /\ InPlace(u)
  <2>1. \A m \in Nat : LET x == [w EXCEPT !.as = "stream", !.realpos = m, !.reqpos = m, !.done = FALSE,
                                          !.iterators = {}, !.base = w.at]
                       IN  /\ x \in CursorType /\ x.at = w.at /\ x.size = w.size /\ x.as = "stream"
                           /\ x.realpos = m /\ x.done = FALSE
                           /\ x.iterators = {} /\ x.base = w.at /\ InPlace(x)
    BY <1>1, ZenonT(60) DEF CursorType, Placed, InPlace
  <2>2. 0 \in Nat
    OBVIOUS
  <2> QED BY <2>1, <2>2, Zenon
<1> HIDE DEF u, v
<1>4. v \in CursorType /\ v.at = w.at /\ v.size = w.size /\ v.as = "stream" /\ v.realpos = 0 /\ v.done = FALSE
      /\ v.iterators = {} /\ v.base = w.at /\ InPlace(v)
  BY <1>1, <1>2, <1>3 DEF CursorType, InPlace
<1>5. Along(v)
  BY <1>1, <1>4 DEF Along, Most
<1>6. Aligned(v) /\ Shown(v)
  BY <1>4 DEF Aligned, Shown
<1>7. Placed(v)
  BY <1>1, <1>4 DEF Placed
<1>8. CursorInv(v)
  BY <1>4, <1>5, <1>6, <1>7, PlacedIsInv DEF Streaming
<1> QED BY <1>8 DEF v

LEMMA OpenStreamKeeps == ASSUME CursorInv(c), OpenStream PROVE CursorInv(c') /\ CursorsRight'
<1>1. PICK n \in Strides : Returns(icursorstream(sql_cursor(c, FALSE, TRUE), n))
  BY DEF OpenStream
<1>2. Placed(sql_cursor(c, FALSE, TRUE))
  BY sql_cursorIs
<1>3. CursorInv(icursorstream(sql_cursor(c, FALSE, TRUE), n))
  BY <1>2, icursorstreamIs
<1> QED BY <1>1, <1>3, ReturnsKeeps

LEMMA AdoptStreamKeeps == ASSUME CursorInv(c), AdoptStream PROVE CursorInv(c') /\ CursorsRight'
<1>1. PICK n \in Strides : \E owned \in BOOLEAN : InBounds(icursorstream(adopt(c, owned), n))
  BY DEF AdoptStream
<1>2. PICK owned \in BOOLEAN : InBounds(icursorstream(adopt(c, owned), n))
  BY <1>1
<1>3. Placed(adopt(c, owned))
  BY adoptIs
<1>4. CursorInv(icursorstream(adopt(c, owned), n)) /\ Returns(icursorstream(adopt(c, owned), n))
  BY <1>2, <1>3, icursorstreamIs DEF InBounds
<1> QED BY <1>4, ReturnsKeeps

LEMMA SomeoneDeclaresKeeps == ASSUME CursorInv(c), SomeoneDeclares PROVE CursorInv(c') /\ CursorsRight'
<1>1. PICK at \in 0 .. c.size + 1 : Returns([c EXCEPT !.exists = TRUE, !.at = at]) /\ c.as = "none"
  BY DEF SomeoneDeclares
<1> DEFINE v == [c EXCEPT !.exists = TRUE, !.at = at]
<1>2. c \in CursorType /\ c.size \in Nat /\ at \in Nat /\ at <= c.size + 1 /\ c.size \in Rows /\ c.broken = FALSE
  BY <1>1 DEF CursorInv, CursorType
<1>3. v \in CursorType /\ v.at = at /\ v.size = c.size /\ v.as = "none" /\ v.broken = FALSE
  BY <1>1, <1>2 DEF CursorType
<1>4. CursorInv(v)
  BY <1>2, <1>3 DEF CursorInv
<1> QED BY <1>1, <1>4, ReturnsKeeps

LEMMA NoCursorIs ==
    ASSUME NEW size \in Rows, NEW at \in Nat, at <= size + 1, NEW exists \in BOOLEAN, NEW avoidance \in Int
    PROVE  CursorInv(NoCursor(size, at, exists, avoidance))
<1> DEFINE v == NoCursor(size, at, exists, avoidance)
           chain == [i \in Iterators |-> Adrift]
<1>1. size \in Nat /\ <<>> \in Seq(Int)
  BY RowsAssumption
<1>2. chain \in [Iterators -> [pos : Nat, here : Seq(Int), late : BOOLEAN]]
  BY <1>1 DEF Adrift
<1> HIDE DEF chain
<1>3. v = [size |-> size, at |-> at, exists |-> exists, pos |-> 0, endpos |-> -1, at_end |-> 0,
           adopted |-> FALSE, owned |-> FALSE, avoidance |-> avoidance, stride |-> 1, realpos |-> 0, reqpos |-> 0,
           done |-> FALSE, iterators |-> {}, it |-> chain, as |-> "none", base |-> 0,
           broken |-> FALSE]
  BY DEF NoCursor, Unknown, chain
<1> HIDE DEF v
<1>4. v \in CursorType /\ v.at = at /\ v.size = size /\ v.as = "none" /\ v.broken = FALSE
  BY <1>1, <1>2, <1>3 DEF CursorType
<1> QED BY <1>4 DEF CursorInv, v

LEMMA CloseKeeps == ASSUME CursorInv(c), Close PROVE CursorInv(c') /\ CursorsRight'
<1> DEFINE w == close(c)
           avoidance == IF c.adopted THEN c.avoidance - 1 ELSE c.avoidance
<1>1. Returns(NoCursor(w.size, w.at, w.exists, w.avoidance))
  BY DEF Close
<1>2. c \in CursorType /\ c.size \in Nat /\ c.at \in Nat /\ c.at <= c.size + 1 /\ c.size \in Rows
      /\ avoidance \in Int
  BY DEF CursorInv, CursorType
<1>3. w = IF ~c.owned THEN c ELSE [c EXCEPT !.exists = FALSE, !.owned = FALSE, !.avoidance = avoidance]
  BY DEF close
<1> HIDE DEF w, avoidance
<1>4. w.size = c.size /\ w.at = c.at /\ w.exists \in BOOLEAN /\ w.avoidance \in Int
  BY <1>2, <1>3 DEF CursorType
<1>5. CursorInv(NoCursor(w.size, w.at, w.exists, w.avoidance))
  BY <1>2, <1>4, NoCursorIs
<1> QED BY <1>1, <1>5, ReturnsKeeps

LEMMA NextProgramKeeps == ASSUME NextProgram PROVE CursorInv(c') /\ CursorsRight'
<1>1. PICK size \in Rows : Returns(NoCursor(size, 0, FALSE, 0))
  BY DEF NextProgram
<1>2. 0 \in Nat /\ 0 \in Int /\ 0 <= size + 1
  BY RowsAssumption
<1>3. CursorInv(NoCursor(size, 0, FALSE, 0))
  BY <1>2, NoCursorIs
<1> QED BY <1>1, <1>3, ReturnsKeeps

LEMMA SizeKeeps == ASSUME CursorInv(c), Size PROVE CursorInv(c') /\ CursorsRight'
<1> DEFINE s == obtain_stateless_cursor_size(c)
<1>1. Hands(s.w, [call |-> "size", size |-> s.size]) /\ c.as = "stateless"
  BY DEF Size
<1>2. Placed(c) /\ c.pos # Unknown
  BY <1>1, InvIsPlaced DEF CursorInv
<1>3. Placed(s.w) /\ SameStream(s.w, c) /\ s.w.pos = s.w.at
  BY <1>2, obtainIs
<1> HIDE DEF s
<1>4. s.w.pos # Unknown /\ s.w.as = "stateless"
  BY <1>1, <1>3 DEF Placed, CursorType, Unknown, SameStream
<1>5. CursorInv(s.w)
  BY <1>3, <1>4, PlacedIsInv
<1> QED BY <1>1, <1>5, OtherAnswer

LEMMA RetrieveKeeps == ASSUME CursorInv(c), Retrieve PROVE CursorInv(c') /\ CursorsRight'
<1> DEFINE s == obtain_stateless_cursor_size(c)
<1>1. PICK from \in -1 .. c.size + 1 : \E to \in -2 .. c.size + 1 :
        \E o1 \in {stateless_cursor_retrieve(s.w, s.size, from, to)} :
          Hands(o1.w, [call |-> "retrieve", from |-> from, to |-> to, res |-> o1.res, rows |-> o1.rows])
  BY DEF Retrieve
<1>2. PICK to \in -2 .. c.size + 1 :
        \E o1 \in {stateless_cursor_retrieve(s.w, s.size, from, to)} :
          Hands(o1.w, [call |-> "retrieve", from |-> from, to |-> to, res |-> o1.res, rows |-> o1.rows])
  BY <1>1
<1> DEFINE o1 == stateless_cursor_retrieve(s.w, s.size, from, to)
           answer == [call |-> "retrieve", from |-> from, to |-> to, res |-> o1.res, rows |-> o1.rows]
<1>3. Hands(o1.w, answer)
  BY <1>2
<1>4. Placed(c) /\ c.pos # Unknown /\ c.as = "stateless"
  BY InvIsPlaced DEF CursorInv, Retrieve
<1>5. Placed(s.w) /\ SameStream(s.w, c) /\ s.w.pos = s.w.at /\ s.size = c.size
  BY <1>4, obtainIs
<1> HIDE DEF s
<1>6. from \in Int /\ to \in Int /\ s.w.size = c.size
  BY <1>1, <1>2, <1>5 DEF SameStream
<1>7. /\ Placed(o1.w) /\ SameStream(o1.w, s.w) /\ o1.w.pos # Unknown
      /\ IF from \in 0 .. c.size THEN o1.res = "ok" /\ o1.rows = WantedOf(c.size, from, to)
         ELSE o1.res = "range_error"
  BY <1>5, <1>6, retrieveIs
<1> HIDE DEF o1
<1>8. o1.w.as = "stateless" /\ o1.w.size = c.size
  BY <1>4, <1>5, <1>7 DEF SameStream
<1>9. CursorInv(o1.w)
  BY <1>7, <1>8, PlacedIsInv
<1>10. c' = o1.w /\ got' = answer /\ CursorInv(c')
  BY <1>3, <1>9 DEF Hands
<1>11. /\ got'.call = "retrieve" /\ got'.from = from /\ got'.to = to /\ got'.res = o1.res /\ got'.rows = o1.rows
       /\ c'.size = c.size
  BY <1>8, <1>10
<1>12. RetrievedIsAsked'
  BY <1>7, <1>11 DEF RetrievedIsAsked, Wanted, WantedOf
<1> QED BY <1>3, <1>10, <1>11, <1>12, HandedIsRight

LEMMA AloneIs ==
    ASSUME NEW v, ReadOn(v, c), Alone
    PROVE  CursorInv(v)
<1>1. Placed(v) /\ Along(v) /\ v.iterators = {} /\ v.as = "stream"
  BY DEF ReadOn, Alone
<1>2. Streaming(v)
  BY <1>1 DEF Streaming, Aligned, Shown
<1> QED BY <1>1, <1>2, PlacedIsInv

LEMMA GetKeeps == ASSUME CursorInv(c), Get PROVE CursorInv(c') /\ CursorsRight'
<1> DEFINE b == fetchblock(c)
<1>1. Hands(b.w, [call |-> "get", from |-> c.at, rows |-> b.r]) /\ Alone
  BY DEF Get
<1>2. Placed(c) /\ Along(c)
  BY <1>1, InvIsPlaced DEF CursorInv, Streaming, Alone
<1>3. CursorInv(b.w)
  BY <1>1, <1>2, fetchblockIs, AloneIs
<1> QED BY <1>1, <1>3, OtherAnswer

LEMMA IgnoreKeeps == ASSUME CursorInv(c), Ignore PROVE CursorInv(c') /\ CursorsRight'
<1>1. PICK n \in 1 .. 2 : Returns(ignore(c, n))
  BY DEF Ignore
<1>2. Placed(c) /\ Along(c) /\ Alone
  BY InvIsPlaced DEF CursorInv, Streaming, Alone, Ignore
<1>3. n \in Nat /\ n > 0
  BY <1>1
<1>4. ReadOn(ignore(c, n), c)
  BY <1>2, <1>3, ignoreIs
<1>5. CursorInv(ignore(c, n))
  BY <1>2, <1>4, AloneIs
<1> QED BY <1>1, <1>5, ReturnsKeeps

LEMMA SetStrideKeeps == ASSUME CursorInv(c), SetStride PROVE CursorInv(c') /\ CursorsRight'
<1>1. PICK n \in Strides : Returns(set_stride(c, n))
  BY DEF SetStride
<1> DEFINE v == set_stride(c, n)
<1>2. Placed(c) /\ Along(c) /\ n \in Nat \ {0} /\ c.iterators = {} /\ c.as = "stream"
  BY InvIsPlaced, StridesAssumption DEF CursorInv, Streaming, Alone, SetStride
<1>3. v = [c EXCEPT !.stride = n]
  BY DEF set_stride
<1> HIDE DEF v
<1>4. v \in CursorType /\ v.at = c.at /\ v.size = c.size /\ v.as = "stream" /\ v.realpos = c.realpos /\ v.done = c.done
      /\ v.iterators = {} /\ v.base = c.base /\ InPlace(v)
  BY <1>2, <1>3 DEF Placed, CursorType, InPlace
<1>5. Placed(v)
  BY <1>2, <1>4 DEF Placed
<1>6. Streaming(v)
  BY <1>2, <1>4 DEF Streaming, Along, Aligned, Shown
<1>7. CursorInv(v)
  BY <1>4, <1>5, <1>6, PlacedIsInv
<1> QED BY <1>1, <1>7, ReturnsKeeps DEF v

-----------------------------------------------------------------------------
(* The steps of the icursor_iterators *)

Spots == [pos : Nat, here : Seq(Int), late : BOOLEAN]

\* w with other iterators, one of them placed anew; the chain may change.
Chained(v, w, it, iterators, reqpos) == v = [w EXCEPT !.it = it, !.iterators = iterators, !.reqpos = reqpos]

LEMMA ChainedIs ==
    ASSUME NEW w, CursorInv(w), w.as = "stream", NEW it \in [Iterators -> Spots], NEW iterators \in SUBSET Iterators,
           NEW reqpos \in Nat, NEW v, Chained(v, w, it, iterators, reqpos)
    PROVE  /\ Placed(v) /\ Along(v) /\ v.it = it /\ v.iterators = iterators /\ v.reqpos = reqpos
           /\ v.realpos = w.realpos /\ v.stride = w.stride
           /\ v.as = "stream" /\ v.base = w.base /\ v.size = w.size
<1>1. Placed(w) /\ Along(w) /\ w \in CursorType
  BY InvIsPlaced DEF CursorInv, Streaming
<1>2. /\ v \in CursorType /\ v.it = it /\ v.iterators = iterators /\ v.reqpos = reqpos
      /\ v.realpos = w.realpos /\ v.stride = w.stride
      /\ v.as = "stream" /\ v.base = w.base /\ v.size = w.size /\ v.at = w.at /\ v.done = w.done
      /\ v.pos = w.pos /\ v.endpos = w.endpos /\ v.at_end = w.at_end /\ v.broken = w.broken
  BY <1>1 DEF CursorType, Chained, Spots
<1>3. Placed(v)
  BY <1>1, <1>2 DEF Placed, InPlace, Sits
<1>4. Along(v)
  BY <1>1, <1>2 DEF Along
<1> QED BY <1>2, <1>3, <1>4

\* Each iterator is where one was, or begins at the end.
Fresh(spot, reqpos, realpos) == spot.pos = reqpos /\ spot.here = <<>> /\ spot.late = (reqpos < realpos)
Succeeds(w, it, iterators, reqpos) ==
    /\ reqpos = w.reqpos \/ w.reqpos + w.stride <= reqpos
    /\ \A i \in iterators : Fresh(it[i], reqpos, w.realpos) \/ \E j \in w.iterators : it[i] = w.it[j]

LEMMA ChainedKeeps ==
    ASSUME NEW w, CursorInv(w), NEW it \in [Iterators -> Spots], NEW iterators \in SUBSET Iterators,
           NEW reqpos \in Nat, NEW v, Chained(v, w, it, iterators, reqpos), Succeeds(w, it, iterators, reqpos)
    PROVE  CursorInv(v)
<1> SUFFICES ASSUME w.as = "stream" PROVE CursorInv(v)
  <2> SUFFICES ASSUME w.as # "stream" PROVE CursorInv(v)
    OBVIOUS
  <2>1. /\ v \in CursorType /\ v.size = w.size /\ v.at = w.at /\ v.pos = w.pos /\ v.endpos = w.endpos
        /\ v.at_end = w.at_end /\ v.broken = w.broken /\ v.as = w.as
    BY DEF CursorInv, CursorType, Chained, Spots
  <2> QED BY <2>1 DEF CursorInv, InPlace, Sits
<1>0. reqpos = w.reqpos \/ w.reqpos + w.stride <= reqpos
  BY DEF Succeeds
<1>1. /\ Placed(v) /\ Along(v) /\ v.it = it /\ v.iterators = iterators /\ v.reqpos = reqpos
      /\ v.realpos = w.realpos /\ v.stride = w.stride
      /\ v.as = "stream" /\ v.base = w.base /\ v.size = w.size
  BY ChainedIs
<1>2. /\ Numbers(w) /\ Aligned(w) /\ Shown(w) /\ Placed(w)
  BY InvIsPlaced, PlacedIsNumbers DEF CursorInv, Streaming
<1>3. \A i \in iterators : i \in Iterators /\ it[i] \in Spots
  OBVIOUS
<1>4. \A i \in iterators : it[i].pos \in Nat
  BY <1>3 DEF Spots
<1>5. \A j \in w.iterators : w.it[j].pos \in Nat
  BY <1>2, IteratorsAre, SpotsAreNumbers
<1>6. ASSUME NEW i \in iterators
      PROVE  it[i].pos = reqpos \/ it[i].pos + w.stride <= reqpos
  <2>1. CASE it[i].pos = reqpos
    BY <2>1
  <2>2. CASE \E j \in w.iterators : it[i] = w.it[j]
    <3>1. PICK j \in w.iterators : it[i] = w.it[j]
      BY <2>2
    <3>2. it[i].pos = w.reqpos \/ it[i].pos + w.stride <= w.reqpos
      BY <1>2, <3>1 DEF Aligned
    <3>3. it[i].pos \in Nat
      BY <1>4
    <3> QED BY <1>0, <1>2, <3>2, <3>3 DEF Numbers
  <2> QED BY <2>1, <2>2 DEF Succeeds, Fresh
<1>7. ASSUME NEW i \in iterators, NEW j \in iterators, it[i].pos < it[j].pos
      PROVE  it[i].pos + w.stride <= it[j].pos
  <2>1. it[i].pos \in Nat /\ it[j].pos \in Nat
    BY <1>4
  <2>2. CASE it[j].pos = reqpos
    BY <1>2, <1>6, <1>7, <2>1, <2>2
  <2>3. CASE it[j].pos # reqpos
    <3>1. PICK k \in w.iterators : it[j] = w.it[k]
      BY <2>3 DEF Succeeds, Fresh
    <3>2. it[i].pos < reqpos
      BY <1>2, <1>6, <1>7, <2>1, <2>3 DEF Numbers
    <3>3. PICK l \in w.iterators : it[i] = w.it[l]
      BY <2>1, <3>2 DEF Succeeds, Fresh
    <3> QED BY <1>2, <1>7, <3>1, <3>3 DEF Aligned
  <2> QED BY <2>2, <2>3
<1>8. Aligned(v)
  BY <1>1, <1>6, <1>7 DEF Aligned
<1>9. \A pos \in Nat : BlockOf(v, pos) = BlockOf(w, pos)
  BY <1>1 DEF BlockOf
<1>10. ASSUME NEW i \in iterators
       PROVE  /\ it[i].here \in {<<>>, BlockOf(v, it[i].pos)}
              /\ ~it[i].late /\ it[i].pos < w.realpos => it[i].here = BlockOf(v, it[i].pos)
  <2>1. CASE Fresh(it[i], reqpos, w.realpos)
    BY <2>1 DEF Fresh
  <2>2. CASE \E j \in w.iterators : it[i] = w.it[j]
    <3>1. PICK j \in w.iterators : it[i] = w.it[j]
      BY <2>2
    <3>2. BlockOf(v, w.it[j].pos) = BlockOf(w, w.it[j].pos)
      BY <1>5, <1>9
    <3>3. /\ w.it[j].here \in {<<>>, BlockOf(w, w.it[j].pos)}
          /\ ~w.it[j].late /\ w.it[j].pos < w.realpos => w.it[j].here = BlockOf(w, w.it[j].pos)
      BY <1>2 DEF Shown
    <3> QED BY <3>1, <3>2, <3>3
  <2> QED BY <2>1, <2>2 DEF Succeeds
<1>11. Shown(v)
  BY <1>1, <1>10 DEF Shown
<1>12. Streaming(v) /\ v.as = "stream"
  BY <1>1, <1>8, <1>11 DEF Streaming
<1> QED BY <1>1, <1>12, PlacedIsInv

\* What the stream keeps of its iterators.
LEMMA StreamIs ==
    ASSUME NEW w, CursorInv(w)
    PROVE  /\ w.it \in [Iterators -> Spots] /\ w.iterators \in SUBSET Iterators /\ w.reqpos \in Nat
           /\ w.realpos \in Nat /\ w.stride \in Nat
  BY DEF CursorInv, CursorType, Spots

LEMMA NewPlace ==
    ASSUME NEW pos \in Nat, NEW realpos \in Nat
    PROVE  LET spot == [pos |-> pos, here |-> <<>>, late |-> pos < realpos]
           IN  spot \in Spots /\ Fresh(spot, pos, realpos)
<1>1. <<>> \in Seq(Int) /\ (pos < realpos) \in BOOLEAN
  OBVIOUS
<1> DEFINE late == pos < realpos
           here == <<>>
<1>2. here \in Seq(Int) /\ late \in BOOLEAN
  BY <1>1
<1> HIDE DEF late, here
<1>3. LET spot == [pos |-> pos, here |-> here, late |-> late]
      IN  spot \in Spots /\ spot.pos = pos /\ spot.here = here /\ spot.late = late
  BY <1>2 DEF Spots
<1> QED BY <1>3 DEF late, here, Fresh

LEMMA NewIteratorKeeps == ASSUME CursorInv(c), NewIterator PROVE CursorInv(c') /\ CursorsRight'
<1>1. PICK i \in Iterators : Returns(icursor_iterator(c, i)) /\ c.as = "stream"
  BY DEF NewIterator
<1> DEFINE v == icursor_iterator(c, i)
           spot == [pos |-> c.reqpos, here |-> <<>>, late |-> c.reqpos < c.realpos]
           it == [c.it EXCEPT ![i] = spot]
           iterators == c.iterators \cup {i}
<1>2. /\ c.it \in [Iterators -> Spots] /\ c.iterators \in SUBSET Iterators /\ c.reqpos \in Nat
      /\ c.realpos \in Nat /\ c.stride \in Nat /\ c \in CursorType
  BY StreamIs DEF CursorInv
<1>3. spot \in Spots /\ Fresh(spot, c.reqpos, c.realpos)
  BY <1>2, NewPlace
<1>4. v = [[c EXCEPT !.it[i] = spot] EXCEPT !.iterators = [c EXCEPT !.it[i] = spot].iterators \cup {i}]
  BY DEF icursor_iterator, insert_iterator, Place
<1> HIDE DEF v, spot
<1>5. it \in [Iterators -> Spots] /\ iterators \in SUBSET Iterators
      /\ it[i] = spot /\ \A j \in Iterators : j # i => it[j] = c.it[j]
  BY <1>2, <1>3
<1>6. Chained(v, c, it, iterators, c.reqpos)
  BY <1>2, <1>4 DEF CursorType, Chained
<1>7. Succeeds(c, it, iterators, c.reqpos)
  BY <1>2, <1>3, <1>5 DEF Succeeds
<1> HIDE DEF it, iterators
<1>8. CursorInv(v)
  BY <1>1, <1>2, <1>5, <1>6, <1>7, ChainedKeeps
<1> QED BY <1>1, <1>8, ReturnsKeeps DEF v

LEMMA AssignKeeps == ASSUME CursorInv(c), Assign PROVE CursorInv(c') /\ CursorsRight'
<1>1. PICK i \in Iterators : \E j \in Iterators : i # j /\ Returns(assign(c, i, j))
  BY DEF Assign
<1>2. PICK j \in Iterators : i # j /\ Returns(assign(c, i, j))
  BY <1>1
<1> DEFINE v == assign(c, i, j)
           u == [c EXCEPT !.it[i] = c.it[j]]
           it == [c.it EXCEPT ![i] = c.it[j]]
           iterators == IF (i \in c.iterators) = (j \in c.iterators) THEN c.iterators
                        ELSE IF i \in c.iterators THEN c.iterators \ {i} ELSE c.iterators \cup {i}
<1>3. /\ c.it \in [Iterators -> Spots] /\ c.iterators \in SUBSET Iterators /\ c.reqpos \in Nat
      /\ c \in CursorType /\ c.as = "stream"
  BY StreamIs DEF CursorInv, Assign
<1>4. v = IF (i \in c.iterators) = (j \in c.iterators) THEN u
          ELSE IF i \in c.iterators THEN [u EXCEPT !.iterators = u.iterators \ {i}]
          ELSE [u EXCEPT !.iterators = u.iterators \cup {i}]
  BY DEF assign, On, insert_iterator, remove_iterator
<1> HIDE DEF v
<1>5. it \in [Iterators -> Spots] /\ iterators \in SUBSET Iterators
      /\ it[i] = c.it[j] /\ \A k \in Iterators : k # i => it[k] = c.it[k]
  BY <1>3
<1>6. Chained(v, c, it, iterators, c.reqpos)
  <2>1. u = [c EXCEPT !.it = it] /\ u.iterators = c.iterators
    BY <1>3 DEF CursorType
  <2>2. \A s : [u EXCEPT !.iterators = s] = [c EXCEPT !.it = it, !.iterators = s, !.reqpos = c.reqpos]
    BY <1>3, <2>1 DEF CursorType
  <2>3. u = [u EXCEPT !.iterators = c.iterators]
    BY <1>3, <2>1 DEF CursorType
  <2> HIDE DEF u, it
  <2> QED BY <1>4, <2>1, <2>2, <2>3 DEF Chained
<1>7. Succeeds(c, it, iterators, c.reqpos)
  <2> SUFFICES ASSUME NEW k \in iterators PROVE \E l \in c.iterators : it[k] = c.it[l]
    BY DEF Succeeds
  <2>1. CASE k = i
    <3>1. j \in c.iterators
      BY <2>1
    <3> QED BY <1>5, <2>1, <3>1
  <2>2. CASE k # i
    <3>1. k \in c.iterators
      BY <2>2
    <3> QED BY <1>3, <1>5, <2>2, <3>1
  <2> QED BY <2>1, <2>2
<1> HIDE DEF it, iterators
<1>8. CursorInv(v)
  BY <1>3, <1>5, <1>6, <1>7, ChainedKeeps
<1> QED BY <1>2, <1>8, ReturnsKeeps DEF v

LEMMA EndIteratorKeeps == ASSUME CursorInv(c), EndIterator PROVE CursorInv(c') /\ CursorsRight'
<1>1. PICK i \in Iterators : On(c, i) /\ Returns([remove_iterator(c, i) EXCEPT !.it[i] = Adrift])
  BY DEF EndIterator
<1> DEFINE v == [remove_iterator(c, i) EXCEPT !.it[i] = Adrift]
           it == [c.it EXCEPT ![i] = Adrift]
           iterators == c.iterators \ {i}
<1>2. /\ c.it \in [Iterators -> Spots] /\ c.iterators \in SUBSET Iterators /\ c.reqpos \in Nat
      /\ c \in CursorType
  BY StreamIs DEF CursorInv
<1>3. Adrift \in Spots
  <2>1. \A m \in Nat, s \in Seq(Int), b \in BOOLEAN : [pos |-> m, here |-> s, late |-> b] \in Spots
    BY DEF Spots
  <2>2. 0 \in Nat /\ <<>> \in Seq(Int) /\ FALSE \in BOOLEAN
    OBVIOUS
  <2> QED BY <2>1, <2>2, Zenon DEF Adrift
<1>4. it \in [Iterators -> Spots] /\ iterators \in SUBSET Iterators
      /\ \A k \in Iterators : k # i => it[k] = c.it[k]
  BY <1>2, <1>3
<1>5. Chained(v, c, it, iterators, c.reqpos)
  BY <1>2, <1>3 DEF CursorType, Chained, remove_iterator
<1>6. Succeeds(c, it, iterators, c.reqpos)
  BY <1>2, <1>4 DEF Succeeds
<1> HIDE DEF v, it, iterators
<1>7. CursorInv(v)
  BY <1>2, <1>4, <1>5, <1>6, ChainedKeeps
<1> QED BY <1>1, <1>7, ReturnsKeeps DEF v

LEMMA AdvanceKeeps == ASSUME CursorInv(c), Advance PROVE CursorInv(c') /\ CursorsRight'
<1>1. PICK i \in Iterators : \E n \in 1 .. 2 : On(c, i) /\ Returns(advance(c, i, n))
  BY DEF Advance
<1>2. PICK n \in 1 .. 2 : On(c, i) /\ Returns(advance(c, i, n))
  BY <1>1
<1> DEFINE v == advance(c, i, n)
           reqpos == c.reqpos + n * c.stride
           spot == [pos |-> reqpos, here |-> <<>>, late |-> reqpos < c.realpos]
           it == [c.it EXCEPT ![i] = spot]
<1>3. /\ c.it \in [Iterators -> Spots] /\ c.iterators \in SUBSET Iterators /\ c.reqpos \in Nat
      /\ c.realpos \in Nat /\ c.stride \in Nat /\ c \in CursorType
  BY StreamIs DEF CursorInv
<1>4. reqpos \in Nat /\ c.reqpos + c.stride <= reqpos
  <2>1. n = 1 \/ n = 2
    OBVIOUS
  <2> QED BY <1>3, <2>1
<1> HIDE DEF reqpos
<1>5. spot \in Spots /\ Fresh(spot, reqpos, c.realpos)
  BY <1>3, <1>4, NewPlace
<1>6. it \in [Iterators -> Spots] /\ it[i] = spot /\ \A j \in Iterators : j # i => it[j] = c.it[j]
  BY <1>3, <1>5
<1>7. Chained(v, c, it, c.iterators, reqpos)
  <2> DEFINE u == [c EXCEPT !.reqpos = reqpos]
  <2>1. u.reqpos = reqpos /\ u.realpos = c.realpos /\ u.it = c.it
    BY <1>3 DEF CursorType
  <2>2. v = [u EXCEPT !.it[i] = [pos |-> u.reqpos, here |-> <<>>, late |-> u.reqpos < u.realpos]]
    BY DEF advance, forward, Place, reqpos
  <2>3. v = [u EXCEPT !.it[i] = spot]
    BY <2>1, <2>2
  <2> HIDE DEF spot, v
  <2> QED BY <1>3, <2>3 DEF CursorType, Chained
<1> HIDE DEF spot
<1>8. Succeeds(c, it, c.iterators, reqpos)
  BY <1>3, <1>4, <1>5, <1>6 DEF Succeeds
<1> HIDE DEF it, v
<1>9. CursorInv(v)
  BY <1>3, <1>4, <1>6, <1>7, <1>8, ChainedKeeps
<1> QED BY <1>2, <1>9, ReturnsKeeps DEF v

\* Reading on for an iterator, which then sees its block.
LEMMA refreshIs ==
    ASSUME NEW w, CursorInv(w), w.as = "stream", NEW i \in Iterators
    PROVE  LET v == refresh(w, i)
           IN  /\ CursorInv(v) /\ v.as = "stream"
               /\ On(v, i) /\ ~v.it[i].late => v.it[i].here = BlockOf(v, v.it[i].pos)
<1> DEFINE v == refresh(w, i)
           pos == w.it[i].pos
<1>1. Placed(w) /\ Streaming(w) /\ pos \in Nat
  BY InvIsPlaced, SpotsAreNumbers DEF CursorInv
<1>2. CASE ~On(w, i)
  <2>1. v = w
    BY <1>2 DEF refresh
  <2> QED BY <1>2, <2>1
<1>3. CASE On(w, i)
  <2>1. v = service_iterators(w, pos)
    BY <1>3 DEF refresh
  <2> HIDE DEF v, pos
  <2>2. /\ Placed(v) /\ Streaming(v) /\ v.as = w.as /\ v.iterators = w.iterators
        /\ v.base = w.base /\ v.size = w.size /\ v.stride = w.stride
        /\ \A k \in Iterators : v.it[k].pos = w.it[k].pos /\ v.it[k].late = w.it[k].late
        /\ \A k \in w.iterators : w.it[k].pos <= pos /\ ~w.it[k].late => v.it[k].here = BlockOf(w, w.it[k].pos)
    BY <1>1, <2>1, ServiceIs
  <2>3. i \in w.iterators /\ w.it[i].pos <= pos /\ v.it[i].pos = pos /\ v.it[i].late = w.it[i].late
    BY <1>1, <1>3, <2>2 DEF On, pos
  <2>4. ~v.it[i].late => v.it[i].here = BlockOf(w, pos)
    BY <2>2, <2>3 DEF pos
  <2>5. BlockOf(v, pos) = BlockOf(w, pos)
    BY <2>2 DEF BlockOf
  <2>6. CursorInv(v)
    BY <2>2, PlacedIsInv
  <2> QED BY <2>2, <2>3, <2>4, <2>5, <2>6 DEF v
<1> QED BY <1>2, <1>3

LEMMA ReadThroughKeeps == ASSUME CursorInv(c), Read PROVE CursorInv(c') /\ CursorsRight'
<1>1. PICK i \in Iterators :
        c.as = "stream" /\ Hands(refresh(c, i), [call |-> "read", of |-> i, rows |-> refresh(c, i).it[i].here])
  BY DEF Read
<1> DEFINE w == refresh(c, i)
           answer == [call |-> "read", of |-> i, rows |-> w.it[i].here]
<1>2. CursorInv(w) /\ w.as = "stream" /\ (On(w, i) /\ ~w.it[i].late => w.it[i].here = BlockOf(w, w.it[i].pos))
  BY <1>1, refreshIs
<1> HIDE DEF w
<1>3. Hands(w, answer) /\ answer.call = "read" /\ answer.of = i /\ answer.rows = w.it[i].here
  BY <1>1 DEF w
<1>4. c' = w /\ got' = answer /\ CursorInv(c')
  BY <1>2, <1>3 DEF Hands
<1>5. RetrievedIsAsked'
  BY <1>3, <1>4 DEF RetrievedIsAsked
<1> HIDE DEF answer
<1>6. got'.call = "read" /\ c'.as = "stream" /\ On(c', got'.of) /\ ~c'.it[got'.of].late
        => got'.rows = BlockOf(c', c'.it[got'.of].pos)
  BY <1>2, <1>3, <1>4
<1> QED BY <1>3, <1>4, <1>5, <1>6, HandedIsRight

LEMMA comparedIs ==
    ASSUME NEW w, CursorInv(w), w.as = "stream", NEW i \in Iterators, NEW j \in Iterators
    PROVE  CursorInv(compared(w, i, j))
<1>1. CursorInv(refresh(w, i)) /\ refresh(w, i).as = "stream"
  BY refreshIs
<1>2. CursorInv(refresh(refresh(w, i), j))
  BY <1>1, refreshIs
<1> QED BY <1>2 DEF compared

LEMMA CompareKeeps == ASSUME CursorInv(c), Compare PROVE CursorInv(c') /\ CursorsRight'
<1>1. PICK i \in Iterators : \E j \in Iterators :
        /\ c.as = "stream"
        /\ Hands(compared(c, i, j), [call |-> "equal", of |-> i, with |-> j, is |-> equal(compared(c, i, j), i, j)])
  BY DEF Compare
<1>2. PICK j \in Iterators :
        /\ c.as = "stream"
        /\ Hands(compared(c, i, j), [call |-> "equal", of |-> i, with |-> j, is |-> equal(compared(c, i, j), i, j)])
  BY <1>1
<1> DEFINE w == compared(c, i, j)
           is == equal(w, i, j)
           answer == [call |-> "equal", of |-> i, with |-> j, is |-> is]
<1>3. CursorInv(w)
  BY <1>2, comparedIs
<1>4. Hands(w, answer)
  BY <1>2
<1> HIDE DEF w, is
<1>5. answer.call \notin {"retrieve", "read"}
  OBVIOUS
<1> QED BY <1>3, <1>4, <1>5, OtherAnswer

LEMMA OrderKeeps == ASSUME CursorInv(c), Order PROVE CursorInv(c') /\ CursorsRight'
<1>1. PICK i \in Iterators : \E j \in Iterators :
        /\ c.as = "stream"
        /\ Hands(compared(c, i, j), [call |-> "less", of |-> i, with |-> j, is |-> less(compared(c, i, j), i, j)])
  BY DEF Order
<1>2. PICK j \in Iterators :
        /\ c.as = "stream"
        /\ Hands(compared(c, i, j), [call |-> "less", of |-> i, with |-> j, is |-> less(compared(c, i, j), i, j)])
  BY <1>1
<1> DEFINE w == compared(c, i, j)
           is == less(w, i, j)
           answer == [call |-> "less", of |-> i, with |-> j, is |-> is]
<1>3. CursorInv(w)
  BY <1>2, comparedIs
<1>4. Hands(w, answer)
  BY <1>2
<1> HIDE DEF w, is
<1>5. answer.call \notin {"retrieve", "read"}
  OBVIOUS
<1> QED BY <1>3, <1>4, <1>5, OtherAnswer

LEMMA CursorNextKeeps == ASSUME CursorInv(c), CursorNext PROVE CursorInv(c') /\ CursorsRight'
  BY OpenStatelessKeeps, AdoptStatelessKeeps, OpenStreamKeeps, AdoptStreamKeeps, SomeoneDeclaresKeeps, CloseKeeps,
     NextProgramKeeps, SizeKeeps, RetrieveKeeps, GetKeeps, IgnoreKeeps, SetStrideKeeps, NewIteratorKeeps, AssignKeeps,
     EndIteratorKeeps, AdvanceKeeps, ReadThroughKeeps, CompareKeeps, OrderKeeps DEF CursorNext

LEMMA CursorInductive == CursorSpec => [](CursorInv(c) /\ CursorsRight)
<1>1. CursorInit => CursorInv(c) /\ CursorsRight
  <2> SUFFICES ASSUME CursorInit PROVE CursorInv(c) /\ CursorsRight
    OBVIOUS
  <2>1. PICK size \in Rows : c = NoCursor(size, 0, FALSE, 0)
    BY DEF CursorInit
  <2>2. 0 \in Nat /\ 0 \in Int /\ 0 <= size + 1 /\ FALSE \in BOOLEAN
    BY RowsAssumption
  <2>3. CursorInv(c)
    BY <2>1, <2>2, NoCursorIs
  <2>4. c.as = "none" /\ got.call = "none"
    BY <2>1 DEF CursorInit, NoCursor, NoCall
  <2> QED BY <2>3, <2>4 DEF CursorsRight, KeepsItsPlace, RetrievedIsAsked, IteratorsSeeTheirBlocks
<1>2. (CursorInv(c) /\ CursorsRight) /\ [CursorNext]_<<c, got>> => (CursorInv(c) /\ CursorsRight)'
  <2> SUFFICES ASSUME CursorInv(c), CursorsRight, [CursorNext]_<<c, got>> PROVE CursorInv(c') /\ CursorsRight'
    OBVIOUS
  <2>1. CASE CursorNext
    BY <2>1, CursorNextKeeps
  <2>2. CASE UNCHANGED <<c, got>>
    BY <2>2 DEF CursorsRight, KeepsItsPlace, RetrievedIsAsked, IteratorsSeeTheirBlocks, Wanted, Block, On
  <2> QED BY <2>1, <2>2
<1> QED BY <1>1, <1>2, PTL DEF CursorSpec

\* Whatever a program does with its cursors, for results and strides of any
\* size and any number of iterators: sql_cursor knows where it is, and none of
\* the internal_errors of adjust is thrown.
THEOREM CursorsKeepTheirPlace == CursorSpec => []KeepsItsPlace
<1>1. CursorInv(c) /\ CursorsRight => KeepsItsPlace
  BY DEF CursorsRight
<1> QED BY <1>1, CursorInductive, PTL

\* stateless_cursor::retrieve hands over the rows that were asked for, wherever
\* earlier calls have left the cursor.
THEOREM RetrievedRowsAreAsked == CursorSpec => []RetrievedIsAsked
<1>1. CursorInv(c) /\ CursorsRight => RetrievedIsAsked
  BY DEF CursorsRight
<1> QED BY <1>1, CursorInductive, PTL

\* icursor_iterators see the rows of their own places, however far the others
\* have made the stream read.
THEOREM IteratorsAlwaysSeeTheirBlocks == CursorSpec => []IteratorsSeeTheirBlocks
<1>1. CursorInv(c) /\ CursorsRight => IteratorsSeeTheirBlocks
  BY DEF CursorsRight
<1> QED BY <1>1, CursorInductive, PTL

-----------------------------------------------------------------------------
(* Large objects.  The fields of o and their types: *)

Byte == 0 .. 255

World == [data : Seq(Byte) \cup {Missing}, at : Nat, tx : {"open", "failed"},
          as : {"none", "access", "ilostream", "olostream", "lostream"},
          get : Seq(Byte), next : Nat, put : Seq(Byte), want : Seq(Byte), spot : Nat, apart : BOOLEAN]

\* Where the program is, and what there is, although a part of it is in the areas.
Areas(w) ==
    /\ w.spot = w.at - (Len(w.get) - w.next) + Len(w.put)
    /\ w.next = Len(w.get) \/ w.put = <<>>
    /\ w.want = IF w.put = <<>> THEN w.data ELSE Overwritten(w.data, w.at, w.put)
    /\ \A i \in w.next + 1 .. Len(w.get) :
           /\ w.at - Len(w.get) + i \in 1 .. Len(w.data)
           /\ w.get[i] = w.data[w.at - Len(w.get) + i]

Whole(w) == w.as # "none" /\ w.tx = "open" /\ w.data # Missing /\ ~w.apart

ObjectInv(w) ==
    /\ w \in World /\ w.next <= Len(w.get)
    /\ w.put # <<>> => Writable(w)
    /\ w.get # <<>> => Readable(w)
    /\ Whole(w) => Areas(w)

-----------------------------------------------------------------------------
(* Bytes written over others *)

ByteAt(bytes, at, new, i) ==
    IF i \in at + 1 .. at + Len(new) THEN new[i - at] ELSE IF i <= Len(bytes) THEN bytes[i] ELSE 0

Longer(m, n) == IF m > n THEN m ELSE n

LEMMA OverwrittenIsBytes ==
    ASSUME NEW bytes \in Seq(Byte), NEW at \in Nat, NEW new \in Seq(Byte)
    PROVE  /\ Overwritten(bytes, at, new) \in Seq(Byte)
           /\ Len(Overwritten(bytes, at, new)) = Longer(at + Len(new), Len(bytes))
           /\ \A i \in 1 .. Longer(at + Len(new), Len(bytes)) :
                  Overwritten(bytes, at, new)[i] = ByteAt(bytes, at, new, i)
<1> DEFINE n == Longer(at + Len(new), Len(bytes))
<1>1. n \in Nat /\ Overwritten(bytes, at, new) = [i \in 1 .. n |-> ByteAt(bytes, at, new, i)]
  BY DEF Overwritten, Longer, ByteAt
<1>2. \A i \in 1 .. n : ByteAt(bytes, at, new, i) \in Byte
  <2> TAKE i \in 1 .. n
  <2>0. n \in Nat
    BY <1>1
  <2> HIDE DEF n
  <2>1. CASE i \in at + 1 .. at + Len(new)
    <3>1. i - at \in 1 .. Len(new)
      BY <2>1
    <3>2. new[i - at] \in Byte
      BY <3>1
    <3> QED BY <2>1, <3>2 DEF ByteAt
  <2>2. CASE i \notin at + 1 .. at + Len(new) /\ i <= Len(bytes)
    <3>1. i \in 1 .. Len(bytes)
      BY <2>0, <2>2
    <3>2. bytes[i] \in Byte
      BY <3>1
    <3> QED BY <2>2, <3>2 DEF ByteAt
  <2>3. CASE i \notin at + 1 .. at + Len(new) /\ ~(i <= Len(bytes))
    BY <2>3 DEF ByteAt, Byte
  <2> QED BY <2>1, <2>2, <2>3
<1> HIDE DEF n
<1>3. /\ [i \in 1 .. n |-> ByteAt(bytes, at, new, i)] \in Seq(Byte)
      /\ Len([i \in 1 .. n |-> ByteAt(bytes, at, new, i)]) = n
  BY <1>1, <1>2
<1> QED BY <1>1, <1>3 DEF n

\* One more byte after those written.
LEMMA OneMoreByte ==
    ASSUME NEW bytes \in Seq(Byte), NEW at \in Nat, NEW new \in Seq(Byte), NEW byte \in Byte, new # <<>>
    PROVE  Overwritten(bytes, at, Append(new, byte))
             = Overwritten(Overwritten(bytes, at, new), at + Len(new), <<byte>>)
<1> DEFINE more == Append(new, byte)
           one == <<byte>>
           a == Overwritten(bytes, at, more)
           m == Overwritten(bytes, at, new)
           b == Overwritten(m, at + Len(new), one)
<1>1. /\ more \in Seq(Byte) /\ Len(more) = Len(new) + 1
      /\ \A i \in 1 .. Len(new) : more[i] = new[i]
      /\ more[Len(new) + 1] = byte
      /\ one \in Seq(Byte) /\ Len(one) = 1 /\ one[1] = byte
      /\ Len(new) \in Nat /\ Len(bytes) \in Nat /\ at + Len(new) \in Nat
  OBVIOUS
<1> HIDE DEF more, one
<1>2. /\ a \in Seq(Byte) /\ Len(a) = Longer(at + Len(more), Len(bytes))
      /\ \A i \in 1 .. Longer(at + Len(more), Len(bytes)) : a[i] = ByteAt(bytes, at, more, i)
  BY <1>1, OverwrittenIsBytes
<1>3. /\ m \in Seq(Byte) /\ Len(m) = Longer(at + Len(new), Len(bytes))
      /\ \A i \in 1 .. Longer(at + Len(new), Len(bytes)) : m[i] = ByteAt(bytes, at, new, i)
  BY OverwrittenIsBytes
<1> HIDE DEF a, m
<1>4. /\ b \in Seq(Byte)
      /\ Len(b) = Longer(at + Len(new) + Len(one), Len(m))
      /\ \A i \in 1 .. Longer(at + Len(new) + Len(one), Len(m)) : b[i] = ByteAt(m, at + Len(new), one, i)
  BY <1>1, <1>3, OverwrittenIsBytes
<1> HIDE DEF b
<1>5. Len(a) = Len(b) /\ Len(a) = Longer(at + Len(more), Len(bytes))
  BY <1>1, <1>2, <1>3, <1>4, SMTT(40) DEF Longer
<1>6. ASSUME NEW i \in 1 .. Len(a) PROVE a[i] = b[i]
  <2>0. a[i] = ByteAt(bytes, at, more, i) /\ b[i] = ByteAt(m, at + Len(new), one, i) /\ i \in Nat /\ i >= 1
    BY <1>1, <1>2, <1>4, <1>5
  <2>1. CASE i = at + Len(new) + 1
    <3>1. i - at = Len(new) + 1 /\ i - (at + Len(new)) = 1
      BY <1>1, <2>1
    <3>2. ByteAt(bytes, at, more, i) = more[i - at]
      BY <1>1, <2>1 DEF ByteAt
    <3>3. ByteAt(m, at + Len(new), one, i) = one[i - (at + Len(new))]
      BY <1>1, <2>1 DEF ByteAt
    <3> QED BY <1>1, <2>0, <3>1, <3>2, <3>3
  <2>2. CASE i \in at + 1 .. at + Len(new)
    <3>1. i - at \in 1 .. Len(new) /\ i <= Len(m) /\ i \in 1 .. Longer(at + Len(new), Len(bytes))
      BY <1>1, <1>3, <2>0, <2>2, SMTT(40) DEF Longer
    <3>2. ByteAt(bytes, at, more, i) = more[i - at] /\ ByteAt(bytes, at, new, i) = new[i - at]
      BY <1>1, <2>2 DEF ByteAt
    <3>3. ByteAt(m, at + Len(new), one, i) = m[i]
      BY <1>1, <2>2, <3>1 DEF ByteAt
    <3>4. m[i] = ByteAt(bytes, at, new, i)
      BY <1>3, <3>1
    <3> QED BY <1>1, <2>0, <3>1, <3>2, <3>3, <3>4
  <2>3. CASE i # at + Len(new) + 1 /\ i \notin at + 1 .. at + Len(new)
    <3>1. ByteAt(bytes, at, more, i) = IF i <= Len(bytes) THEN bytes[i] ELSE 0
      <4>1. i \notin at + 1 .. at + Len(more)
        <5>1. Len(more) \in Nat /\ at + Len(more) = at + Len(new) + 1
          BY <1>1
        <5>2. \A x, y, n \in Int : y # x + n + 1 /\ y \notin x + 1 .. x + n => y \notin x + 1 .. x + n + 1
          OBVIOUS
        <5>3. at \in Int /\ i \in Int /\ Len(new) \in Int
          BY <1>1, <2>0
        <5> QED BY <2>3, <5>1, <5>2, <5>3
      <4> QED BY <4>1 DEF ByteAt
    <3>2. ByteAt(m, at + Len(new), one, i) = IF i <= Len(m) THEN m[i] ELSE 0
      BY <1>1, <2>0, <2>3 DEF ByteAt
    <3>3. i <= Len(m) => m[i] = IF i <= Len(bytes) THEN bytes[i] ELSE 0
      <4>1. i <= Len(m) => i \in 1 .. Longer(at + Len(new), Len(bytes))
        BY <1>1, <1>3, <2>0 DEF Longer
      <4>2. ByteAt(bytes, at, new, i) = IF i <= Len(bytes) THEN bytes[i] ELSE 0
        BY <2>3 DEF ByteAt
      <4> QED BY <1>3, <4>1, <4>2
    <3>4. i <= Len(bytes) => i <= Len(m)
      BY <1>1, <1>3, <2>0 DEF Longer
    <3> QED BY <2>0, <3>1, <3>2, <3>3, <3>4
  <2> QED BY <2>1, <2>2, <2>3
<1>7. a = b
  BY <1>2, <1>4, <1>5, <1>6, SeqEqual
<1> QED BY <1>7 DEF a, b, m, more, one

-----------------------------------------------------------------------------
(* The functions of libpq *)

Tidy(w) ==
    /\ w \in World /\ w.next <= Len(w.get)
    /\ w.put # <<>> => Writable(w)
    /\ w.get # <<>> => Readable(w)

LEMMA TidyOrWhole == \A w : ObjectInv(w) <=> Tidy(w) /\ (Whole(w) => Areas(w))
  BY DEF ObjectInv, Tidy

\* After a failure the transaction is lost, and the areas with it.
LEMMA FailureIsTidy ==
    ASSUME NEW w, Tidy(w)
    PROVE  /\ Tidy(Fails(w).w) /\ Fails(w).w.tx = "failed" /\ Fails(w).n = -1 /\ Fails(w).r = <<>>
           /\ Fails(w).w.as = w.as /\ Fails(w).w.get = w.get /\ Fails(w).w.put = w.put
  BY DEF Tidy, World, Fails, Readable, Writable

LEMMA BytesAreThere ==
    ASSUME NEW s \in Seq(Byte)
    PROVE  s # Missing
<1> SUFFICES ASSUME s = <<-1>> PROVE FALSE
  BY DEF Missing
<1>1. Len(s) = 1 /\ s[1] = -1
  OBVIOUS
<1>2. s[1] \in Byte
  BY <1>1
<1> QED BY <1>1, <1>2 DEF Byte

LEMMA EitherIs ==
    ASSUME NEW w, NEW possible, NEW answer, NEW a \in Either(w, possible, answer)
    PROVE  a = Fails(w) \/ (w.tx = "open" /\ possible /\ a = answer)
  BY DEF Either

\* What a call leaves: unless the transaction has failed or the areas are in
\* each other's way, just what it has done.
LEMMA EndsKeeps ==
    ASSUME NEW w, ObjectInv(w), NEW call, NEW n, Ends(call, w, n)
    PROVE  /\ ObjectInv(o')
           /\ Whole(o') => o' = w
           /\ ~o'.apart /\ o'.tx = "open" => o' = w
           /\ latest'.call = call /\ (call = "get" => latest'.n = n)
<1>1. CASE w.apart \/ w.tx = "failed"
  <2>1. o' = [w EXCEPT !.want = <<>>, !.spot = 0] /\ <<>> \in Seq(Byte)
    BY <1>1 DEF Ends
  <2>2. /\ o' \in World /\ o'.next = w.next /\ o'.get = w.get /\ o'.put = w.put /\ o'.as = w.as
        /\ o'.apart = w.apart /\ o'.tx = w.tx
    BY <2>1 DEF ObjectInv, World
  <2>3. ObjectInv(o')
    BY <1>1, <2>2 DEF ObjectInv, Whole, Readable, Writable
  <2> QED BY <1>1, <2>2, <2>3 DEF Whole, Ends
<1>2. CASE ~(w.apart \/ w.tx = "failed")
  BY <1>2 DEF Ends
<1> QED BY <1>1, <1>2

\* Only get and close are looked at.
LEMMA OtherCall ==
    ASSUME NEW w, ObjectInv(w), NEW call, NEW n, Ends(call, w, n), call \notin {"get", "close"}
    PROVE  ObjectInv(o') /\ AreasDoNotShow'
  BY EndsKeeps DEF AreasDoNotShow

LEMMA NotWholeIsInv ==
    ASSUME NEW w, Tidy(w), ~Whole(w)
    PROVE  ObjectInv(w)
  BY TidyOrWhole

\* A failed call, whatever is noted about it for the properties.
LEMMA FailedIsInv ==
    ASSUME NEW w, Tidy(w), w.tx = "failed"
    PROVE  ObjectInv(w)
  BY NotWholeIsInv DEF Whole

-----------------------------------------------------------------------------
(* largeobject and largeobjectaccess *)

LEMMA CreateKeeps == ASSUME ObjectInv(o), Create PROVE ObjectInv(o') /\ AreasDoNotShow'
<1>1. PICK a \in lo_creat(o) : Ends("create", a.w, a.n) /\ o.as = "none"
  BY DEF Create
<1>2. Tidy(o)
  BY TidyOrWhole
<1>3. CASE a = Fails(o)
  BY <1>1, <1>2, <1>3, FailureIsTidy, FailedIsInv, OtherCall
<1>4. CASE a = Answer([o EXCEPT !.data = <<>>], 1, <<>>)
  <2>1. a.w = [o EXCEPT !.data = <<>>] /\ <<>> \in Seq(Byte)
    BY <1>4 DEF Answer
  <2>2. Tidy(a.w) /\ a.w.as = "none"
    BY <1>1, <1>2, <2>1 DEF Tidy, World, Readable, Writable
  <2>3. ObjectInv(a.w)
    BY <2>2, NotWholeIsInv DEF Whole
  <2> QED BY <1>1, <2>3, OtherCall
<1> QED BY <1>1, <1>3, <1>4, EitherIs DEF lo_creat

LEMMA ImportKeeps == ASSUME ObjectInv(o), Import PROVE ObjectInv(o') /\ AreasDoNotShow'
<1>0. PICK byte \in Bytes : \E a \in lo_import(o, <<byte, byte>>) : Ends("import", a.w, a.n) /\ o.as = "none"
  BY DEF Import
<1>1. PICK a \in lo_import(o, <<byte, byte>>) : Ends("import", a.w, a.n) /\ o.as = "none"
  BY <1>0
<1>2. Tidy(o)
  BY TidyOrWhole
<1>3. CASE a = Fails(o)
  BY <1>1, <1>2, <1>3, FailureIsTidy, FailedIsInv, OtherCall
<1>4. CASE a = Answer([o EXCEPT !.data = <<byte, byte>>], 1, <<>>)
  <2>1. a.w = [o EXCEPT !.data = <<byte, byte>>] /\ <<byte, byte>> \in Seq(Byte)
    BY <1>4, BytesAssumption DEF Answer, Byte
  <2>2. Tidy(a.w) /\ a.w.as = "none"
    BY <1>1, <1>2, <2>1 DEF Tidy, World, Readable, Writable
  <2>3. ObjectInv(a.w)
    BY <2>2, NotWholeIsInv DEF Whole
  <2> QED BY <1>1, <2>3, OtherCall
<1> QED BY <1>1, <1>3, <1>4, EitherIs DEF lo_import

LEMMA RemoveKeeps == ASSUME ObjectInv(o), RemoveObject PROVE ObjectInv(o') /\ AreasDoNotShow'
<1>1. PICK a \in lo_unlink(o) : Ends("remove", a.w, a.n)
  BY DEF RemoveObject
<1>2. Tidy(o)
  BY TidyOrWhole
<1>3. CASE a = Fails(o)
  BY <1>1, <1>2, <1>3, FailureIsTidy, FailedIsInv, OtherCall
<1>4. CASE a = Answer([o EXCEPT !.data = Missing], 1, <<>>)
  <2>1. a.w = [o EXCEPT !.data = Missing]
    BY <1>4 DEF Answer
  <2>2. Tidy(a.w) /\ a.w.data = Missing
    BY <1>2, <2>1 DEF Tidy, World, Readable, Writable
  <2>3. ObjectInv(a.w)
    BY <2>2, NotWholeIsInv DEF Whole
  <2> QED BY <1>1, <2>3, OtherCall
<1> QED BY <1>1, <1>3, <1>4, EitherIs DEF lo_unlink

LEMMA ToFileKeeps == ASSUME ObjectInv(o), ToFile PROVE ObjectInv(o') /\ AreasDoNotShow'
<1>1. PICK a \in lo_export(o) : Ends("to_file", a.w, a.n)
  BY DEF ToFile
<1>2. Tidy(o)
  BY TidyOrWhole
<1>3. CASE a = Fails(o)
  BY <1>1, <1>2, <1>3, FailureIsTidy, FailedIsInv, OtherCall
<1>4. CASE a = Answer(o, 1, o.data)
  BY <1>1, <1>4, OtherCall DEF Answer
<1> QED BY <1>1, <1>3, <1>4, EitherIs DEF lo_export

\* An object just opened has empty areas.
LEMMA OpenKeeps == ASSUME ObjectInv(o), Open PROVE ObjectInv(o') /\ AreasDoNotShow'
<1> DEFINE Ways == {"access", "ilostream", "olostream", "lostream"}
<1>0. PICK as \in Ways : \E a \in lo_open(o) :
        Ends("open", IF a.n < 0 THEN a.w ELSE Opened(a.w, as), a.n) /\ o.as = "none"
  BY DEF Open
<1>1. PICK a \in lo_open(o) : Ends("open", IF a.n < 0 THEN a.w ELSE Opened(a.w, as), a.n) /\ o.as = "none"
  BY <1>0
<1>2. Tidy(o)
  BY TidyOrWhole
<1>3. CASE a = Fails(o)
  <2>1. a.n < 0 /\ ObjectInv(a.w)
    BY <1>2, <1>3, FailureIsTidy, FailedIsInv
  <2> QED BY <1>1, <2>1, OtherCall
<1>4. CASE o.data # Missing /\ a = Answer([o EXCEPT !.at = 0], 0, <<>>)
  <2> DEFINE w == Opened(a.w, as)
  <2>1. a.w = [o EXCEPT !.at = 0] /\ ~(a.n < 0) /\ <<>> \in Seq(Byte) /\ Len(<<>>) = 0
    BY <1>4 DEF Answer
  <2>5. a.w \in World /\ a.w.data = o.data /\ a.w.at = 0 /\ o.data \in Seq(Byte)
    <3>1. o \in World /\ o.data \in Seq(Byte) \cup {Missing}
      BY <1>2 DEF Tidy, World
    <3>2. \A n \in Nat : LET v == [o EXCEPT !.at = n] IN v \in World /\ v.data = o.data /\ v.at = n
      BY <3>1 DEF World
    <3>3. a.w \in World /\ a.w.data = o.data /\ a.w.at = 0
      <4>1. 0 \in Nat
        OBVIOUS
      <4> QED BY <2>1, <3>2, <4>1, Zenon
    <3> QED BY <1>4, <3>1, <3>3
  <2>6. initialize(a.w, as) \in World /\ initialize(a.w, as) = [a.w EXCEPT !.as = as, !.get = <<>>, !.next = 0, !.put = <<>>]
    BY <2>1, <2>5 DEF World, initialize
  <2>2. /\ w \in World /\ w.as = as /\ w.get = <<>> /\ w.next = 0 /\ w.put = <<>> /\ w.at = 0 /\ w.spot = 0
        /\ w.data = o.data /\ w.want = o.data
    BY <2>1, <2>5, <2>6 DEF Opened, World
  <2> HIDE DEF w
  <2>3. ObjectInv(w)
    BY <2>1, <2>2 DEF ObjectInv, Areas
  <2>4. Ends("open", w, a.n)
    BY <1>1, <2>1 DEF w
  <2> QED BY <2>3, <2>4, OtherCall
<1>5. a = Fails(o) \/ (o.data # Missing /\ a = Answer([o EXCEPT !.at = 0], 0, <<>>))
  <2>1. a \in Either(o, o.data # Missing, Answer([o EXCEPT !.at = 0], 0, <<>>))
    BY <1>1, Zenon DEF lo_open
  <2> DEFINE answer == Answer([o EXCEPT !.at = 0], 0, <<>>)
  <2>2. a \in Either(o, o.data # Missing, answer)
    BY <2>1
  <2> HIDE DEF answer
  <2>3. a = Fails(o) \/ (o.data # Missing /\ a = answer)
    BY <2>2, EitherIs
  <2> QED BY <2>3 DEF answer
<1> QED BY <1>3, <1>4, <1>5

\* w with other notes for the properties.
Renoted(v, w) ==
    /\ v \in World /\ v.data = w.data /\ v.at = w.at /\ v.tx = w.tx /\ v.as = w.as
    /\ v.get = w.get /\ v.next = w.next /\ v.put = w.put

LEMMA RenotedIsTidy ==
    ASSUME NEW w, NEW v, Tidy(w), Renoted(v, w)
    PROVE  Tidy(v) /\ (w.tx = "failed" => ObjectInv(v))
<1>1. Tidy(v)
  BY DEF Tidy, Renoted, Readable, Writable
<1> QED BY <1>1, FailedIsInv DEF Renoted

LEMMA NoArea ==
    ASSUME NEW w, Tidy(w)
    PROVE  /\ w.as \notin {"ilostream", "lostream"} => w.get = <<>> /\ w.next = 0
           /\ w.as \notin {"olostream", "lostream"} => w.put = <<>>
  BY DEF Tidy, World, Readable, Writable

LEMMA ReadIsBytes ==
    ASSUME NEW data \in Seq(Byte), NEW at \in Nat, NEW n \in Nat \ {0}
    PROVE  LET r == SubSeq(data, at + 1, IF at + n < Len(data) THEN at + n ELSE Len(data))
           IN  /\ r \in Seq(Byte) /\ Len(r) \in Nat
               /\ Len(r) = 0 <=> at >= Len(data)
               /\ Len(r) > 0 => at + Len(r) <= Len(data)
               /\ \A i \in 1 .. Len(r) : r[i] = data[at + i] /\ at + i \in 1 .. Len(data)
<1> DEFINE stop == IF at + n < Len(data) THEN at + n ELSE Len(data)
<1>1. Len(data) \in Nat /\ stop \in Nat /\ stop <= Len(data) /\ (stop < at + 1 <=> at >= Len(data))
  OBVIOUS
<1> HIDE DEF stop
<1>2. CASE stop < at + 1
  <2>1. SubSeq(data, at + 1, stop) = <<>>
    BY <1>1, <1>2
  <2> QED BY <1>1, <1>2, <2>1 DEF stop
<1>3. CASE stop >= at + 1
  <2> DEFINE r == SubSeq(data, at + 1, stop)
  <2>1. r \in Seq(Byte) /\ Len(r) = stop - at /\ \A i \in 1 .. Len(r) : r[i] = data[at + i]
    BY <1>1, <1>3, SMTT(40)
  <2> HIDE DEF r
  <2>2. /\ r \in Seq(Byte) /\ Len(r) \in Nat /\ Len(r) # 0 /\ at < Len(data)
        /\ at + Len(r) <= Len(data)
        /\ \A i \in 1 .. Len(r) : r[i] = data[at + i] /\ at + i \in 1 .. Len(data)
    BY <1>1, <1>3, <2>1
  <2> QED BY <2>2 DEF r, stop
<1> QED BY <1>1, <1>2, <1>3

\* Neither area is touched, so both must be empty for the position to be right.
LEMMA SeekKeeps == ASSUME ObjectInv(o), Seek PROVE ObjectInv(o') /\ AreasDoNotShow'
<1>0. PICK dest \in -1 .. 1 : \E dir \in {"beg", "cur", "end"} : \E a \in seekoff(o, dest, dir) :
        Ends("seek", [a.w EXCEPT !.spot = a.w.at, !.apart = @ \/ ~Drained(o)], a.n)
  BY DEF Seek
<1>1. PICK dir \in {"beg", "cur", "end"} : \E a \in seekoff(o, dest, dir) :
        Ends("seek", [a.w EXCEPT !.spot = a.w.at, !.apart = @ \/ ~Drained(o)], a.n)
  BY <1>0
<1>2. PICK a \in seekoff(o, dest, dir) :
        Ends("seek", [a.w EXCEPT !.spot = a.w.at, !.apart = @ \/ ~Drained(o)], a.n)
  BY <1>1
<1>3. Tidy(o) /\ (Whole(o) => Areas(o)) /\ Drained(o) \in BOOLEAN
  BY TidyOrWhole DEF Drained
<1> DEFINE v == [a.w EXCEPT !.spot = a.w.at, !.apart = @ \/ ~Drained(o)]
           to == dest + (CASE dir = "beg" -> 0 [] dir = "cur" -> o.at [] dir = "end" -> Len(o.data))
<1>4. ASSUME Tidy(a.w)
      PROVE  Renoted(v, a.w) /\ v.spot = a.w.at /\ v.want = a.w.want /\ v.apart = (a.w.apart \/ ~Drained(o))
  <2>1. (a.w.apart \/ ~Drained(o)) \in BOOLEAN
    BY <1>3, <1>4 DEF Tidy, World
  <2> QED BY <1>4, <2>1 DEF Renoted, Tidy, World
<1> HIDE DEF v
<1>5. CASE a = Fails(o)
  <2>1. Tidy(a.w) /\ a.w.tx = "failed"
    BY <1>3, <1>5, FailureIsTidy
  <2>2. ObjectInv(v)
    BY <1>4, <2>1, RenotedIsTidy
  <2> QED BY <1>2, <2>2, OtherCall DEF v
<1>6. CASE to >= 0 /\ o.data # Missing /\ a = Answer([o EXCEPT !.at = to], to, <<>>)
  <2>1. o \in World /\ o.data \in Seq(Byte) /\ to \in Nat
    <3>1. o \in World /\ o.data \in Seq(Byte) /\ o.at \in Nat
      BY <1>3, <1>6 DEF Tidy, World
    <3>2. Len(o.data) \in Nat
      BY <3>1
    <3> QED BY <1>6, <3>1, <3>2
  <2> HIDE DEF to
  <2>2. /\ a.w \in World /\ a.w.at = to /\ a.w.data = o.data /\ a.w.tx = o.tx /\ a.w.as = o.as
        /\ a.w.get = o.get /\ a.w.next = o.next /\ a.w.put = o.put /\ a.w.want = o.want /\ a.w.apart = o.apart
    BY <1>6, <2>1 DEF Answer, World
  <2>3. Tidy(a.w)
    BY <1>3, <2>2 DEF Tidy, Readable, Writable
  <2>4. Whole(v) => Whole(o) /\ Areas(o) /\ Drained(o)
    BY <1>3, <1>4, <2>2, <2>3 DEF Whole, Renoted
  <2>5. Whole(v) => Areas(v)
    <3> SUFFICES ASSUME Whole(v) PROVE Areas(v)
      OBVIOUS
    <3>1. /\ v.put = <<>> /\ v.next = Len(v.get) /\ v.want = v.data /\ v.spot = v.at /\ v.at \in Nat
          /\ v.next \in Nat
      BY <1>4, <2>2, <2>3, <2>4 DEF Areas, Drained, Renoted, World
    <3>2. Len(<<>>) = 0 /\ v.next + 1 .. Len(v.get) = {}
      BY <3>1
    <3> QED BY <3>1, <3>2 DEF Areas
  <2>6. ObjectInv(v)
    BY <1>4, <2>3, <2>5, RenotedIsTidy, TidyOrWhole
  <2> QED BY <1>2, <2>6, OtherCall DEF v
<1>7. a = Fails(o) \/ (to >= 0 /\ o.data # Missing /\ a = Answer([o EXCEPT !.at = to], to, <<>>))
  <2> DEFINE answer == Answer([o EXCEPT !.at = to], to, <<>>)
             possible == o.data # Missing /\ to >= 0
  <2>1. a \in Either(o, possible, answer)
    BY <1>2 DEF seekoff, lo_lseek
  <2> HIDE DEF answer, possible
  <2>2. a = Fails(o) \/ (possible /\ a = answer)
    BY <2>1, EitherIs
  <2> QED BY <2>2 DEF answer, possible
<1> QED BY <1>5, <1>6, <1>7

\* The calls of libpq that move bytes change nothing but data and at.
SameAreas(v, w) ==
    /\ v \in World /\ v.tx = w.tx /\ v.as = w.as /\ v.get = w.get /\ v.next = w.next /\ v.put = w.put
    /\ v.want = w.want /\ v.spot = w.spot /\ v.apart = w.apart

LEMMA lo_writeIs ==
    ASSUME NEW w, Tidy(w), NEW bytes \in Seq(Byte), NEW a \in lo_write(w, bytes)
    PROVE  \/ Tidy(a.w) /\ a.w.tx = "failed" /\ a.w.as = w.as
           \/ /\ w.data \in Seq(Byte) /\ SameAreas(a.w, w) /\ Tidy(a.w)
              /\ a.n \in 1 .. Len(bytes)
              /\ a.w.data = Overwritten(w.data, w.at, SubSeq(bytes, 1, a.n))
              /\ a.w.at = w.at + a.n
<1> DEFINE took(n) == Answer([w EXCEPT !.data = Overwritten(@, w.at, SubSeq(bytes, 1, n)), !.at = @ + n], n, <<>>)
<1>1. PICK n \in 1 .. Len(bytes) : a \in Either(w, w.data # Missing, took(n))
  BY DEF lo_write
<1> DEFINE answer == took(n)
<1>a. a \in Either(w, w.data # Missing, answer)
  BY <1>1
<1> HIDE DEF answer
<1>2. a = Fails(w) \/ (w.data # Missing /\ a = answer)
  BY <1>a, EitherIs
<1>3. CASE a = Fails(w)
  BY <1>3, FailureIsTidy
<1>4. CASE w.data # Missing /\ a = answer
  <2> DEFINE taken == SubSeq(bytes, 1, n)
  <2>1. w \in World /\ w.data \in Seq(Byte) /\ w.at + n \in Nat /\ w.at \in Nat /\ taken \in Seq(Byte)
    <3>1. Len(bytes) \in Nat
      OBVIOUS
    <3> QED BY <1>1, <1>4, <3>1 DEF Tidy, World
  <2>a. a = Answer([w EXCEPT !.data = Overwritten(w.data, w.at, taken), !.at = w.at + n], n, <<>>)
    BY <1>4 DEF answer
  <2> HIDE DEF taken
  <2>2. Overwritten(w.data, w.at, taken) \in Seq(Byte)
    BY <2>1, OverwrittenIsBytes
  <2>3. /\ SameAreas(a.w, w) /\ a.w.data = Overwritten(w.data, w.at, taken) /\ a.w.at = w.at + n /\ a.n = n
    BY <2>a, <2>1, <2>2 DEF Answer, World, SameAreas
  <2>4. Tidy(a.w)
    BY <2>3 DEF Tidy, SameAreas, Readable, Writable
  <2> QED BY <1>1, <2>1, <2>2, <2>3, <2>4 DEF taken
<1> QED BY <1>2, <1>3, <1>4

LEMMA lo_readIs ==
    ASSUME NEW w, Tidy(w), NEW n \in Nat \ {0}, NEW a \in lo_read(w, n)
    PROVE  \/ Tidy(a.w) /\ a.w.tx = "failed" /\ a.n = -1 /\ a.r = <<>> /\ a.w.as = w.as
           \/ /\ w.data \in Seq(Byte) /\ SameAreas(a.w, w) /\ Tidy(a.w) /\ a.w.data = w.data
              /\ a.r \in Seq(Byte) /\ a.n = Len(a.r) /\ Len(a.r) \in Nat
              /\ a.w.at = w.at + Len(a.r)
              /\ Len(a.r) = 0 => w.at >= Len(w.data)
              /\ \A i \in 1 .. Len(a.r) : a.r[i] = w.data[w.at + i] /\ w.at + i \in 1 .. Len(w.data)
<1> DEFINE r == SubSeq(w.data, w.at + 1, IF w.at + n < Len(w.data) THEN w.at + n ELSE Len(w.data))
           answer == Answer([w EXCEPT !.at = @ + Len(r)], Len(r), r)
<1>1. a \in Either(w, w.data # Missing, answer)
  BY DEF lo_read
<1> HIDE DEF answer
<1>2. a = Fails(w) \/ (w.data # Missing /\ a = answer)
  BY <1>1, EitherIs
<1>3. CASE a = Fails(w)
  BY <1>3, FailureIsTidy
<1>4. CASE w.data # Missing /\ a = answer
  <2>1. w \in World /\ w.data \in Seq(Byte) /\ w.at \in Nat
    BY <1>4 DEF Tidy, World
  <2>2. /\ r \in Seq(Byte) /\ Len(r) \in Nat /\ (Len(r) = 0 => w.at >= Len(w.data))
        /\ \A i \in 1 .. Len(r) : r[i] = w.data[w.at + i] /\ w.at + i \in 1 .. Len(w.data)
    BY <2>1, ReadIsBytes
  <2> HIDE DEF r
  <2>3. w.at + Len(r) \in Nat
    BY <2>1, <2>2
  <2>4. /\ SameAreas(a.w, w) /\ a.w.data = w.data /\ a.w.at = w.at + Len(r) /\ a.n = Len(r) /\ a.r = r
    BY <1>4, <2>1, <2>3 DEF answer, Answer, World, SameAreas
  <2>5. Tidy(a.w)
    BY <2>4 DEF Tidy, SameAreas, Readable, Writable
  <2> QED BY <2>1, <2>2, <2>4, <2>5
<1> QED BY <1>2, <1>3, <1>4

LEMMA WithoutAreas ==
    ASSUME NEW w, w.put = <<>>, w.get = <<>>, w.next = 0, w.want = w.data, w.spot = w.at, w.at \in Nat
    PROVE  Areas(w)
<1>1. Len(<<>>) = 0 /\ 0 + 1 .. 0 = {}
  OBVIOUS
<1> QED BY <1>1 DEF Areas

LEMMA OneIsWhole == ASSUME NEW byte PROVE Len(<<byte>>) = 1 /\ SubSeq(<<byte>>, 1, 1) = <<byte>>
<1> DEFINE one == <<byte>>
<1>1. one \in Seq({byte}) /\ Len(one) = 1 /\ one[1] = byte
  OBVIOUS
<1> HIDE DEF one
<1>2. \A i \in 1 .. 1 : one[i] \in {byte}
  BY <1>1
<1>3. /\ SubSeq(one, 1, 1) \in Seq({byte}) /\ Len(SubSeq(one, 1, 1)) = 1
      /\ \A i \in 1 .. 1 : SubSeq(one, 1, 1)[i] = one[i]
  <2>1. /\ SubSeq(one, 1, 1) \in Seq({byte})
        /\ Len(SubSeq(one, 1, 1)) = IF 1 <= 1 THEN 1 - 1 + 1 ELSE 0
        /\ \A i \in 1 .. 1 - 1 + 1 : SubSeq(one, 1, 1)[i] = one[1 + i - 1]
    BY <1>2, SubSeqProperties
  <2> QED BY <2>1
<1>4. SubSeq(one, 1, 1) = one
  BY <1>1, <1>3, SeqEqual
<1> QED BY <1>1, <1>4 DEF one

LEMMA WriteKeeps == ASSUME ObjectInv(o), WriteBytes PROVE ObjectInv(o') /\ AreasDoNotShow'
<1>1. PICK byte \in Bytes : \E a \in lo_write(o, <<byte>>) :
        Ends("write", [a.w EXCEPT !.want = Overwritten(@, o.at, <<byte>>), !.spot = a.w.at], a.n)
  BY DEF WriteBytes
<1> DEFINE one == <<byte>>
<1>2. PICK a \in lo_write(o, one) :
        Ends("write", [a.w EXCEPT !.want = Overwritten(@, o.at, one), !.spot = a.w.at], a.n)
  BY <1>1
<1> DEFINE v == [a.w EXCEPT !.want = Overwritten(@, o.at, one), !.spot = a.w.at]
<1>3. one \in Seq(Byte)
  BY BytesAssumption DEF Byte
<1> HIDE DEF one
<1>4. /\ Tidy(o) /\ (Whole(o) => Areas(o)) /\ o.at \in Nat
      /\ o.get = <<>> /\ o.put = <<>> /\ o.next = 0
  <2>1. Tidy(o) /\ (Whole(o) => Areas(o))
    BY TidyOrWhole
  <2>2. o.as = "access"
    BY DEF WriteBytes
  <2> QED BY <2>1, <2>2, NoArea DEF Tidy, World
<1>5. ASSUME Tidy(a.w)
      PROVE  /\ Renoted(v, a.w) /\ v.spot = a.w.at /\ v.want = Overwritten(a.w.want, o.at, one)
             /\ v.apart = a.w.apart /\ v.at \in Nat
  <2>1. a.w.want \in Seq(Byte)
    BY <1>5 DEF Tidy, World
  <2>2. Overwritten(a.w.want, o.at, one) \in Seq(Byte)
    BY <1>3, <1>4, <2>1, OverwrittenIsBytes
  <2> QED BY <1>5, <2>2 DEF Renoted, Tidy, World
<1> HIDE DEF v
<1>6. ObjectInv(v)
  <2>1. CASE Tidy(a.w) /\ a.w.tx = "failed"
    BY <1>5, <2>1, RenotedIsTidy
  <2>2. CASE /\ o.data \in Seq(Byte) /\ SameAreas(a.w, o) /\ Tidy(a.w)
             /\ a.w.data = Overwritten(o.data, o.at, one)
    <3>1. Whole(v) => Whole(o) /\ o.want = o.data
      <4>1. o.data # Missing
        BY <2>2, BytesAreThere
      <4> QED BY <1>4, <1>5, <2>2, <4>1 DEF Whole, Renoted, Areas, SameAreas
    <3>2. Whole(v) => v.want = v.data
      BY <1>5, <2>2, <3>1 DEF Renoted, SameAreas
    <3>3. Whole(v) => Areas(v)
      BY <1>4, <1>5, <2>2, <3>2, WithoutAreas DEF Renoted, SameAreas
    <3> QED BY <1>5, <2>2, <3>3, RenotedIsTidy, TidyOrWhole
  <2>3. \/ Tidy(a.w) /\ a.w.tx = "failed"
        \/ /\ o.data \in Seq(Byte) /\ SameAreas(a.w, o) /\ Tidy(a.w)
           /\ a.w.data = Overwritten(o.data, o.at, one)
    <3>1. Len(one) = 1 /\ SubSeq(one, 1, 1) = one
      BY OneIsWhole DEF one
    <3>2. \/ Tidy(a.w) /\ a.w.tx = "failed"
          \/ /\ o.data \in Seq(Byte) /\ SameAreas(a.w, o) /\ Tidy(a.w)
             /\ a.n \in 1 .. Len(one)
             /\ a.w.data = Overwritten(o.data, o.at, SubSeq(one, 1, a.n))
      BY <1>2, <1>3, <1>4, lo_writeIs
    <3>3. a.n \in 1 .. Len(one) => a.n = 1
      BY <3>1
    <3> QED BY <3>1, <3>2, <3>3
  <2> QED BY <2>1, <2>2, <2>3
<1> QED BY <1>2, <1>6, OtherCall DEF v

LEMMA ReadKeeps == ASSUME ObjectInv(o), ReadBytes PROVE ObjectInv(o') /\ AreasDoNotShow'
<1>1. PICK n \in 1 .. bufsize : \E a \in lo_read(o, n) : Ends("read", [a.w EXCEPT !.spot = a.w.at], a.n)
  BY DEF ReadBytes
<1>2. PICK a \in lo_read(o, n) : Ends("read", [a.w EXCEPT !.spot = a.w.at], a.n)
  BY <1>1
<1> DEFINE v == [a.w EXCEPT !.spot = a.w.at]
<1>3. n \in Nat \ {0}
  BY bufsizeAssumption
<1>4. Tidy(o) /\ (Whole(o) => Areas(o)) /\ o.get = <<>> /\ o.put = <<>> /\ o.next = 0
  <2>1. o.as = "access"
    BY DEF ReadBytes
  <2> QED BY <2>1, NoArea, TidyOrWhole
<1>5. ASSUME Tidy(a.w)
      PROVE  Renoted(v, a.w) /\ v.spot = a.w.at /\ v.want = a.w.want /\ v.apart = a.w.apart /\ v.at \in Nat
  BY <1>5 DEF Renoted, Tidy, World
<1> HIDE DEF v
<1>6. ObjectInv(v)
  <2>1. CASE Tidy(a.w) /\ a.w.tx = "failed"
    BY <1>5, <2>1, RenotedIsTidy
  <2>2. CASE SameAreas(a.w, o) /\ Tidy(a.w) /\ a.w.data = o.data
    <3>1. Whole(v) => Whole(o) /\ o.want = o.data
      BY <1>4, <1>5, <2>2 DEF Whole, Renoted, Areas, SameAreas
    <3>2. Whole(v) => v.want = v.data
      BY <1>5, <2>2, <3>1 DEF Renoted, SameAreas
    <3>3. Whole(v) => Areas(v)
      BY <1>4, <1>5, <2>2, <3>2, WithoutAreas DEF Renoted, SameAreas
    <3> QED BY <1>5, <2>2, <3>3, RenotedIsTidy, TidyOrWhole
  <2> QED BY <1>2, <1>3, <1>4, <2>1, <2>2, lo_readIs
<1> QED BY <1>2, <1>6, OtherCall DEF v

-----------------------------------------------------------------------------
(* The streams *)

\* Of such a world the property says nothing more.
Excused(w) == w.tx = "failed" \/ w.apart

LEMMA ExcusedIsInv ==
    ASSUME NEW w, Tidy(w), Excused(w)
    PROVE  ObjectInv(w)
  BY NotWholeIsInv DEF Whole, Excused

\* overflow: what is in the put area is written, and ch put in its place.
LEMMA overflowIs ==
    ASSUME NEW w, Tidy(w), Writable(w), NEW ch \in Seq(Byte), NEW b \in overflow(w, ch)
    PROVE  \/ Tidy(b.w) /\ Excused(b.w)
           \/ /\ Tidy(b.w) /\ b.w.tx = w.tx /\ b.w.as = w.as /\ b.w.get = w.get /\ b.w.next = w.next
              /\ b.w.put = ch /\ b.w.want = w.want /\ b.w.spot = w.spot /\ b.w.apart = w.apart
              /\ w.put = <<>> => b.w.data = w.data /\ b.w.at = w.at
              /\ w.put # <<>> => /\ w.data \in Seq(Byte) /\ b.w.data = Overwritten(w.data, w.at, w.put)
                                 /\ b.w.at = w.at + Len(w.put)
<1> DEFINE from == IF w.put = <<>> THEN {Answer(w, 0, <<>>)} ELSE lo_write(w, w.put)
<1>1. PICK a \in from : b = Answer([a.w EXCEPT !.put = ch, !.apart = @ \/ a.n < Len(w.put)], a.n, <<>>)
  BY DEF overflow
<1> DEFINE short == a.n < Len(w.put)
<1>2. ASSUME Tidy(a.w), a.w.as = w.as
      PROVE  /\ Tidy(b.w) /\ b.w.tx = a.w.tx /\ b.w.as = a.w.as /\ b.w.get = a.w.get /\ b.w.next = a.w.next
             /\ b.w.put = ch /\ b.w.want = a.w.want /\ b.w.spot = a.w.spot /\ b.w.apart = (a.w.apart \/ short)
             /\ b.w.data = a.w.data /\ b.w.at = a.w.at
  <2>1. b.w = [a.w EXCEPT !.put = ch, !.apart = (a.w.apart \/ short)]
    BY <1>1 DEF Answer
  <2> HIDE DEF short
  <2>2. (a.w.apart \/ short) \in BOOLEAN
    OBVIOUS
  <2> QED BY <1>2, <2>1, <2>2 DEF Tidy, World, Readable, Writable
<1>3. CASE w.put = <<>>
  <2>1. a.w = w /\ ~short
    <3>1. Len(<<>>) = 0
      OBVIOUS
    <3> QED BY <1>1, <1>3, <3>1 DEF Answer
  <2>2. w.apart \in BOOLEAN
    BY DEF Tidy, World
  <2> QED BY <1>2, <1>3, <2>1, <2>2
<1>4. CASE w.put # <<>>
  <2>1. a \in lo_write(w, w.put) /\ w.put \in Seq(Byte)
    BY <1>1, <1>4 DEF Tidy, World
  <2>2. \/ Tidy(a.w) /\ a.w.tx = "failed" /\ a.w.as = w.as
        \/ /\ w.data \in Seq(Byte) /\ SameAreas(a.w, w) /\ Tidy(a.w)
           /\ a.n \in 1 .. Len(w.put)
           /\ a.w.data = Overwritten(w.data, w.at, SubSeq(w.put, 1, a.n)) /\ a.w.at = w.at + a.n
    BY <2>1, lo_writeIs
  <2>3. CASE Tidy(a.w) /\ a.w.tx = "failed" /\ a.w.as = w.as
    BY <1>2, <2>3 DEF Excused
  <2>4. CASE SameAreas(a.w, w) /\ Tidy(a.w) /\ short
    BY <1>2, <2>4 DEF Excused, SameAreas
  <2>5. CASE /\ w.data \in Seq(Byte) /\ SameAreas(a.w, w) /\ Tidy(a.w)
             /\ a.w.data = Overwritten(w.data, w.at, w.put) /\ a.w.at = w.at + Len(w.put)
             /\ ~short
    <3>1. w.apart \in BOOLEAN
      BY DEF Tidy, World
    <3> HIDE DEF short
    <3> QED BY <1>2, <1>4, <2>5, <3>1 DEF SameAreas
  <2>6. a.n \in 1 .. Len(w.put) /\ ~short => a.n = Len(w.put) /\ SubSeq(w.put, 1, a.n) = w.put
    <3>1. Len(w.put) \in Nat
      BY <2>1
    <3>2. SubSeq(w.put, 1, Len(w.put)) = w.put
      BY <2>1
    <3> QED BY <3>1, <3>2
  <2> QED BY <2>2, <2>3, <2>4, <2>5, <2>6
<1> QED BY <1>3, <1>4

\* One byte is taken from the get area, after a block is read into it when it
\* has none left; and a block that begins with byte 255 passes for none.
Refilled(v, w) ==
    /\ w.next = Len(w.get) /\ w.data \in Seq(Byte) /\ v.at = w.at + Len(v.get)
    /\ \A i \in 1 .. Len(v.get) : v.get[i] = w.data[w.at + i] /\ w.at + i \in 1 .. Len(w.data)

Bumped(v, w) ==
    /\ Tidy(v) /\ v.tx = w.tx /\ v.as = w.as /\ v.put = w.put /\ v.data = w.data
    /\ v.want = w.want /\ v.spot = w.spot /\ v.apart = w.apart

LEMMA BumpIs ==
    ASSUME NEW w, Tidy(w), w.next < Len(w.get)
    PROVE  /\ Bumped(Bump(w).w, w) /\ Bump(w).w.get = w.get /\ Bump(w).w.at = w.at
           /\ Bump(w).w.next = w.next + 1 /\ Bump(w).n = w.get[w.next + 1] /\ Bump(w).n \in Byte
<1>1. w \in World /\ w.next \in Nat /\ w.get \in Seq(Byte) /\ w.next <= Len(w.get)
  BY DEF Tidy, World
<1>2. Len(w.get) \in Nat
  BY <1>1
<1>3. w.next + 1 \in 1 .. Len(w.get) /\ w.next + 1 \in Nat
  BY <1>1, <1>2
<1>4. w.get[w.next + 1] \in Byte
  BY <1>1, <1>3
<1> DEFINE v == Bump(w).w
<1>5. v = [w EXCEPT !.next = w.next + 1] /\ Bump(w).n = w.get[w.next + 1]
  BY DEF Bump, Answer
<1> HIDE DEF v
<1>6. /\ v \in World /\ v.tx = w.tx /\ v.as = w.as /\ v.put = w.put /\ v.data = w.data /\ v.want = w.want
      /\ v.spot = w.spot /\ v.apart = w.apart /\ v.at = w.at /\ v.get = w.get /\ v.next = w.next + 1
  BY <1>1, <1>3, <1>5 DEF World
<1>7. Tidy(v)
  BY <1>1, <1>2, <1>3, <1>6 DEF Tidy, Readable, Writable
<1>8. Bumped(v, w)
  BY <1>6, <1>7 DEF Bumped
<1> QED BY <1>4, <1>5, <1>6, <1>8 DEF v

LEMMA underflowIs ==
    ASSUME NEW w, Tidy(w), Readable(w), w.next = Len(w.get), NEW u \in underflow(w)
    PROVE  \/ Tidy(u.w) /\ u.w.tx = "failed" /\ u.n = EoF
           \/ /\ Bumped(u.w, w) /\ Refilled(u.w, w) /\ u.w.next = 0
              /\ u.n = EoF => w.at >= Len(w.data) \/ w.data[w.at + 1] = 255
              /\ u.n # EoF => Len(u.w.get) > 0
<1>1. PICK a \in lo_read(w, bufsize) :
         u = Answer([a.w EXCEPT !.get = a.r, !.next = 0], IF a.n < 1 THEN EoF ELSE as_char(a.r[1]), <<>>)
  BY DEF underflow
<1>2. bufsize \in Nat \ {0}
  BY bufsizeAssumption
<1>3. ASSUME Tidy(a.w), a.r \in Seq(Byte), a.w.as = w.as
      PROVE  /\ Tidy(u.w) /\ u.w.tx = a.w.tx /\ u.w.as = a.w.as /\ u.w.put = a.w.put /\ u.w.data = a.w.data
             /\ u.w.want = a.w.want /\ u.w.spot = a.w.spot /\ u.w.apart = a.w.apart /\ u.w.at = a.w.at
             /\ u.w.get = a.r /\ u.w.next = 0
  <2> DEFINE v == [a.w EXCEPT !.get = a.r, !.next = 0]
  <2>1. u.w = v
    BY <1>1 DEF Answer
  <2>2. \A n \in Nat : LET y == [a.w EXCEPT !.get = a.r, !.next = n]
                       IN  /\ y \in World /\ y.tx = a.w.tx /\ y.as = a.w.as /\ y.put = a.w.put /\ y.data = a.w.data
                           /\ y.want = a.w.want /\ y.spot = a.w.spot /\ y.apart = a.w.apart /\ y.at = a.w.at
                           /\ y.get = a.r /\ y.next = n
    BY <1>3 DEF Tidy, World
  <2>3. 0 \in Nat
    OBVIOUS
  <2>4. /\ v \in World /\ v.tx = a.w.tx /\ v.as = a.w.as /\ v.put = a.w.put /\ v.data = a.w.data
        /\ v.want = a.w.want /\ v.spot = a.w.spot /\ v.apart = a.w.apart /\ v.at = a.w.at
        /\ v.get = a.r /\ v.next = 0
    BY <2>2, <2>3, Zenon
  <2>5. Len(a.r) \in Nat
    BY <1>3
  <2> HIDE DEF v
  <2>6. Tidy(v)
    BY <1>3, <2>4, <2>5 DEF Tidy, Readable, Writable
  <2> QED BY <2>1, <2>4, <2>6
<1>4. CASE Tidy(a.w) /\ a.w.tx = "failed" /\ a.n = -1 /\ a.r = <<>> /\ a.w.as = w.as
  <2>1. u.n = EoF
    BY <1>1, <1>4 DEF Answer
  <2>2. a.r \in Seq(Byte)
    BY <1>4
  <2> QED BY <1>3, <1>4, <2>1, <2>2
<1>5. CASE /\ w.data \in Seq(Byte) /\ SameAreas(a.w, w) /\ Tidy(a.w) /\ a.w.data = w.data
           /\ a.r \in Seq(Byte) /\ a.n = Len(a.r) /\ Len(a.r) \in Nat
           /\ a.w.at = w.at + Len(a.r)
           /\ Len(a.r) = 0 => w.at >= Len(w.data)
           /\ \A i \in 1 .. Len(a.r) : a.r[i] = w.data[w.at + i] /\ w.at + i \in 1 .. Len(w.data)
  <2>1. Bumped(u.w, w) /\ u.w.next = 0 /\ u.w.get = a.r
    BY <1>3, <1>5 DEF SameAreas, Bumped
  <2>2. Refilled(u.w, w)
    BY <1>3, <1>5 DEF SameAreas, Refilled
  <2>3. CASE Len(a.r) = 0
    <3>1. u.n = EoF
      BY <1>1, <1>5, <2>3 DEF Answer
    <3> QED BY <1>5, <2>1, <2>2, <2>3, <3>1
  <2>4. CASE Len(a.r) # 0
    <3>1. 1 \in 1 .. Len(a.r) /\ Len(a.r) > 0
      BY <1>5, <2>4
    <3>2. a.r[1] \in Byte /\ a.r[1] = w.data[w.at + 1]
      BY <1>5, <3>1
    <3>3. u.n = as_char(a.r[1])
      BY <1>1, <1>5, <2>4 DEF Answer
    <3>4. u.n = EoF => w.data[w.at + 1] = 255
      <4>1. \A x \in Byte : as_char(x) = EoF => x = 255
        BY DEF as_char, EoF, Byte
      <4> QED BY <3>2, <3>3, <4>1
    <3> QED BY <2>1, <2>2, <3>1, <3>4
  <2> QED BY <2>3, <2>4
<1> QED BY <1>1, <1>2, <1>4, <1>5, lo_readIs

LEMMA sbumpcIs ==
    ASSUME NEW w, Tidy(w), Readable(w), NEW a \in sbumpc(w)
    PROVE  \/ Tidy(a.w) /\ a.w.tx = "failed"
           \/ /\ Bumped(a.w, w) /\ a.n \in Byte
              /\ w.next < Len(w.get) /\ a.w.get = w.get /\ a.w.at = w.at
              /\ a.w.next = w.next + 1 /\ a.n = w.get[w.next + 1]
           \/ /\ Bumped(a.w, w) /\ Refilled(a.w, w) /\ a.w.next = 0 /\ a.n = EoF
              /\ w.at >= Len(w.data) \/ w.data[w.at + 1] = 255
           \/ /\ Bumped(a.w, w) /\ Refilled(a.w, w) /\ a.w.next = 1 /\ Len(a.w.get) > 0
              /\ a.n = a.w.get[1] /\ a.n \in Byte
<1>1. CASE w.next < Len(w.get)
  <2>1. a = Bump(w)
    BY <1>1 DEF sbumpc
  <2> QED BY <1>1, <2>1, BumpIs
<1>2. CASE ~(w.next < Len(w.get))
  <2>1. w.next = Len(w.get)
    <3>1. w.next \in Nat /\ w.get \in Seq(Byte) /\ w.next <= Len(w.get)
      BY DEF Tidy, World
    <3>2. Len(w.get) \in Nat
      BY <3>1
    <3> QED BY <1>2, <3>1, <3>2
  <2>2. PICK u \in underflow(w) : a = IF u.n = EoF THEN u ELSE Bump(u.w)
    BY <1>2 DEF sbumpc
  <2>3. \/ Tidy(u.w) /\ u.w.tx = "failed" /\ u.n = EoF
        \/ /\ Bumped(u.w, w) /\ Refilled(u.w, w) /\ u.w.next = 0
           /\ u.n = EoF => w.at >= Len(w.data) \/ w.data[w.at + 1] = 255
           /\ u.n # EoF => Len(u.w.get) > 0
    BY <2>1, underflowIs
  <2>4. CASE u.n = EoF
    BY <2>2, <2>3, <2>4
  <2>5. CASE u.n # EoF
    <3>1. a = Bump(u.w)
      BY <2>2, <2>5
    <3>2. Tidy(u.w) /\ u.w.next < Len(u.w.get) /\ u.w.next = 0 /\ Bumped(u.w, w) /\ Refilled(u.w, w)
      BY <2>3, <2>5 DEF Bumped
    <3>3. /\ Bumped(a.w, u.w) /\ a.w.get = u.w.get /\ a.w.at = u.w.at
          /\ a.w.next = u.w.next + 1 /\ a.n = u.w.get[u.w.next + 1] /\ a.n \in Byte
      BY <3>1, <3>2, BumpIs
    <3>4. Bumped(a.w, w)
      BY <3>2, <3>3 DEF Bumped
    <3>5. Refilled(a.w, w)
      BY <3>2, <3>3 DEF Refilled
    <3>6. a.w.next = 1 /\ Len(a.w.get) > 0 /\ a.n = a.w.get[1]
      BY <2>3, <2>5, <3>2, <3>3
    <3> QED BY <3>3, <3>4, <3>5, <3>6
  <2> QED BY <2>4, <2>5
<1> QED BY <1>1, <1>2

LEMMA EoFIsNoByte == \A n \in Byte : n # EoF
  BY DEF Byte, EoF

\* What is got is the byte that would be got without the areas.
Got(v, n) ==
    /\ n # EoF => n = v.want[v.spot]
    /\ n = EoF => v.spot >= Len(v.want) \/ v.want[v.spot + 1] = 255

LEMMA BumpedIsGot ==
    ASSUME NEW w, NEW v, NEW x, Tidy(w), Areas(w), w.put = <<>>, w.data # Missing, Tidy(v), NEW n, Bumped(x, w),
           v.put = w.put, v.data = w.data, v.want = w.want, v.get = x.get, v.at = x.at, v.next = x.next,
           v.spot = IF n = EoF THEN w.spot ELSE w.spot + 1,
           \/ /\ w.next < Len(w.get) /\ x.get = w.get /\ x.at = w.at
              /\ x.next = w.next + 1 /\ n = w.get[w.next + 1] /\ n \in Byte
           \/ /\ Refilled(x, w) /\ x.next = 0 /\ n = EoF
              /\ w.at >= Len(w.data) \/ w.data[w.at + 1] = 255
           \/ /\ Refilled(x, w) /\ x.next = 1 /\ Len(x.get) > 0
              /\ n = x.get[1] /\ n \in Byte
    PROVE  Areas(v) /\ Got(v, n)
<1>1. /\ w.want = w.data /\ w.data \in Seq(Byte) /\ w.get \in Seq(Byte) /\ w.next \in Nat /\ w.at \in Nat /\ w.spot \in Nat
      /\ v.get \in Seq(Byte) /\ w.next <= Len(w.get)
      /\ \A i \in w.next + 1 .. Len(w.get) :
           /\ w.at - Len(w.get) + i \in 1 .. Len(w.data)
           /\ w.get[i] = w.data[w.at - Len(w.get) + i]
  BY DEF Tidy, World, Areas
<1>2. /\ Len(w.get) \in Nat /\ Len(w.data) \in Nat /\ Len(v.get) \in Nat /\ Len(<<>>) = 0
      /\ w.spot = w.at - (Len(w.get) - w.next)
  <2>1. Len(w.get) \in Nat /\ Len(w.data) \in Nat /\ Len(v.get) \in Nat /\ Len(<<>>) = 0
    BY <1>1
  <2> QED BY <1>1, <2>1 DEF Areas
<1>3. n \in Byte => n # EoF
  BY EoFIsNoByte
<1>4. /\ v.want = IF v.put = <<>> THEN v.data ELSE Overwritten(v.data, v.at, v.put)
      /\ v.next = Len(v.get) \/ v.put = <<>>
      /\ v.want = v.data
  BY <1>1
<1>5. CASE /\ w.next < Len(w.get) /\ x.get = w.get /\ x.at = w.at
           /\ x.next = w.next + 1 /\ n = w.get[w.next + 1] /\ n \in Byte
  <2>0. v.spot = w.spot + 1 /\ v.get = w.get /\ v.at = w.at /\ v.next = w.next + 1 /\ Len(v.put) = 0
    BY <1>2, <1>3, <1>5
  <2>1. v.spot = v.at - (Len(v.get) - v.next) + Len(v.put)
    <3>1. \A at, len, next \in Nat : at - (len - next) + 1 = at - (len - (next + 1)) + 0
      OBVIOUS
    <3>2. w.spot + 1 = w.at - (Len(w.get) - w.next) + 1
      BY <1>2
    <3> QED BY <1>1, <1>2, <2>0, <3>1, <3>2, SMTT(40)
  <2>2. v.next + 1 .. Len(v.get) \subseteq w.next + 1 .. Len(w.get)
    BY <1>1, <1>2, <1>5
  <2>3. Areas(v)
    BY <1>1, <1>4, <1>5, <2>1, <2>2, SMTT(40) DEF Areas
  <2>4. w.next + 1 \in w.next + 1 .. Len(w.get) /\ v.spot = w.at - Len(w.get) + (w.next + 1)
    <3>1. \A at, len, next \in Nat : at - (len - next) + 1 = at - len + (next + 1)
      OBVIOUS
    <3>2. w.spot + 1 = w.at - Len(w.get) + (w.next + 1)
      BY <1>1, <1>2, <3>1, SMTT(40)
    <3>3. w.next + 1 \in w.next + 1 .. Len(w.get)
      BY <1>1, <1>2, <1>5
    <3> QED BY <2>0, <3>2, <3>3
  <2>5. n = w.data[v.spot]
    BY <1>1, <1>5, <2>4
  <2> QED BY <1>1, <1>3, <1>5, <2>3, <2>5 DEF Got
<1>6. CASE Refilled(x, w) /\ x.next = 0 /\ n = EoF /\ (w.at >= Len(w.data) \/ w.data[w.at + 1] = 255)
  <2>1. v.spot = v.at - (Len(v.get) - v.next) + Len(v.put) /\ v.spot = w.at
    BY <1>1, <1>2, <1>6 DEF Refilled
  <2>2. \A i \in v.next + 1 .. Len(v.get) : /\ v.at - Len(v.get) + i \in 1 .. Len(v.data)
                                            /\ v.get[i] = v.data[v.at - Len(v.get) + i]
    <3> TAKE i \in v.next + 1 .. Len(v.get)
    <3>1. i \in 1 .. Len(v.get) /\ v.at - Len(v.get) + i = w.at + i
      BY <1>1, <1>2, <1>6 DEF Refilled
    <3> QED BY <1>6, <3>1 DEF Refilled
  <2>3. Areas(v)
    BY <1>4, <2>1, <2>2 DEF Areas
  <2> QED BY <1>1, <1>6, <2>1, <2>3 DEF Got
<1>7. CASE Refilled(x, w) /\ x.next = 1 /\ Len(x.get) > 0 /\ n = x.get[1] /\ n \in Byte
  <2>1. v.spot = v.at - (Len(v.get) - v.next) + Len(v.put) /\ v.spot = w.at + 1
    BY <1>1, <1>2, <1>3, <1>7 DEF Refilled
  <2>2. \A i \in v.next + 1 .. Len(v.get) : /\ v.at - Len(v.get) + i \in 1 .. Len(v.data)
                                            /\ v.get[i] = v.data[v.at - Len(v.get) + i]
    <3> TAKE i \in v.next + 1 .. Len(v.get)
    <3>1. i \in 1 .. Len(v.get) /\ v.at - Len(v.get) + i = w.at + i
      BY <1>1, <1>2, <1>7 DEF Refilled
    <3> QED BY <1>7, <3>1 DEF Refilled
  <2>3. Areas(v)
    BY <1>4, <2>1, <2>2 DEF Areas
  <2>4. 1 \in 1 .. Len(x.get)
    BY <1>2, <1>7
  <2>5. n = w.data[w.at + 1]
    BY <1>7, <2>4 DEF Refilled
  <2> QED BY <1>1, <1>3, <1>7, <2>1, <2>3, <2>5 DEF Got
<1> QED BY <1>5, <1>6, <1>7

LEMMA GetCharKeeps == ASSUME ObjectInv(o), GetChar PROVE ObjectInv(o') /\ AreasDoNotShow'
<1>1. PICK a \in sbumpc(o) :
        Ends("get", [a.w EXCEPT !.spot = IF a.n = EoF THEN @ ELSE @ + 1, !.apart = @ \/ o.put # <<>>], a.n)
  BY DEF GetChar
<1> DEFINE v == [a.w EXCEPT !.spot = IF a.n = EoF THEN @ ELSE @ + 1, !.apart = @ \/ o.put # <<>>]
           n == a.n
<1>2. Tidy(o) /\ (Whole(o) => Areas(o)) /\ Readable(o)
  BY TidyOrWhole DEF GetChar
<1>3. ASSUME Tidy(a.w)
      PROVE  /\ Renoted(v, a.w) /\ v.spot = (IF n = EoF THEN a.w.spot ELSE a.w.spot + 1)
             /\ v.want = a.w.want /\ v.apart = (a.w.apart \/ o.put # <<>>)
  <2>1. (a.w.apart \/ o.put # <<>>) \in BOOLEAN /\ (IF n = EoF THEN a.w.spot ELSE a.w.spot + 1) \in Nat
    BY <1>3 DEF Tidy, World
  <2> QED BY <1>3, <2>1 DEF Renoted, Tidy, World
<1>4. Ends("get", v, n)
  BY <1>1
<1> HIDE DEF v, n
<1>5. CASE Tidy(a.w) /\ a.w.tx = "failed"
  <2>1. ObjectInv(v) /\ v.tx = "failed"
    BY <1>3, <1>5, RenotedIsTidy DEF Renoted
  <2>2. o'.tx # "open"
    BY <1>4, <2>1 DEF Ends
  <2> QED BY <1>4, <2>1, <2>2, EndsKeeps DEF AreasDoNotShow
<1> DEFINE Outcome ==
             \/ /\ o.next < Len(o.get) /\ a.w.get = o.get /\ a.w.at = o.at
                /\ a.w.next = o.next + 1 /\ n = o.get[o.next + 1] /\ n \in Byte
             \/ /\ Refilled(a.w, o) /\ a.w.next = 0 /\ n = EoF
                /\ o.at >= Len(o.data) \/ o.data[o.at + 1] = 255
             \/ /\ Refilled(a.w, o) /\ a.w.next = 1 /\ Len(a.w.get) > 0
                /\ n = a.w.get[1] /\ n \in Byte
<1>6. CASE Bumped(a.w, o) /\ Outcome
  <2>1. Tidy(a.w) /\ Tidy(v)
    BY <1>3, <1>6, RenotedIsTidy DEF Bumped
  <2>2. ASSUME Whole(v) PROVE Areas(v) /\ Got(v, n)
    <3>1. Whole(o) /\ o.put = <<>> /\ o.data # Missing
      BY <1>3, <1>6, <2>1, <2>2 DEF Whole, Renoted, Bumped
    <3>2. /\ v.put = o.put /\ v.data = o.data /\ v.want = o.want /\ v.get = a.w.get /\ v.at = a.w.at /\ v.next = a.w.next
          /\ v.spot = IF n = EoF THEN o.spot ELSE o.spot + 1
      BY <1>3, <1>6, <2>1 DEF Renoted, Bumped
    <3>3. Areas(o) /\ Bumped(a.w, o) /\ Outcome
      BY <1>2, <1>6, <3>1
    <3> QED BY <1>2, <2>1, <3>1, <3>2, <3>3, BumpedIsGot
  <2>3. ObjectInv(v)
    BY <2>1, <2>2, TidyOrWhole
  <2>4. v.as # "none"
    BY <1>2, <1>3, <1>6, <2>1 DEF Renoted, Bumped, Readable
  <2>5. ~o'.apart /\ o'.tx = "open" /\ o'.data # Missing => o' = v /\ Got(v, n)
    BY <1>4, <2>2, <2>3, <2>4, EndsKeeps DEF Whole
  <2> QED BY <1>4, <2>3, <2>5, EndsKeeps DEF AreasDoNotShow, Got
<1>7. (Tidy(a.w) /\ a.w.tx = "failed") \/ (Bumped(a.w, o) /\ Outcome)
  BY <1>2, sbumpcIs DEF n
<1> QED BY <1>5, <1>6, <1>7

\* A byte that is put is put where it would be put without the areas.
Put(v, w, byte) ==
    /\ v.want = Overwritten(w.want, w.spot, <<byte>>) /\ v.spot = w.spot + 1
    /\ v.get = w.get /\ v.next = w.next

Appended(more, put, byte) == more = Append(put, byte)

LEMMA AppendedIs ==
    ASSUME NEW put \in Seq(Byte), NEW byte \in Byte, NEW more, Appended(more, put, byte)
    PROVE  more # <<>> /\ Len(more) = Len(put) + 1 /\ (put = <<>> => more = <<byte>>)
<1>1. Len(more) = Len(put) + 1 /\ Len(put) \in Nat /\ Len(<<>>) = 0
  BY DEF Appended
<1>2. more # <<>>
  BY <1>1
<1>3. ASSUME put = <<>> PROVE more = <<byte>>
  BY <1>3 DEF Appended
<1> QED BY <1>1, <1>2, <1>3

LEMMA RoomIsKept ==
    ASSUME NEW w, NEW v, NEW byte \in Byte, Tidy(w), Areas(w), w.next = Len(w.get), w.data # Missing,
           Put(v, w, byte), v.data = w.data, v.at = w.at, Appended(v.put, w.put, byte)
    PROVE  Areas(v)
<1>1. /\ w.data \in Seq(Byte) /\ w.put \in Seq(Byte) /\ w.at \in Nat /\ w.next \in Nat
      /\ w.spot = w.at - (Len(w.get) - w.next) + Len(w.put)
  BY DEF Tidy, World, Areas
<1>2. Len(w.put) \in Nat /\ w.spot = w.at + Len(w.put) /\ v.next + 1 .. Len(v.get) = {} /\ v.next = Len(v.get)
  BY <1>1 DEF Put
<1>3. v.put # <<>> /\ Len(v.put) = Len(w.put) + 1
  BY <1>1, AppendedIs
<1>4. v.spot = v.at - (Len(v.get) - v.next) + Len(v.put)
  <2>1. v.spot = w.at + Len(w.put) + 1 /\ Len(v.get) - v.next = 0
    BY <1>1, <1>2 DEF Put
  <2>2. \A at, len \in Nat : at + len + 1 = at - 0 + (len + 1)
    OBVIOUS
  <2>3. w.at + Len(w.put) + 1 = v.at - (Len(v.get) - v.next) + Len(v.put)
    <3>1. w.at + Len(w.put) + 1 = w.at - 0 + (Len(w.put) + 1)
      BY <1>1, <1>2, <2>2
    <3> QED BY <1>3, <2>1, <3>1, Zenon
  <2> QED BY <2>1, <2>3, Zenon
<1>5. v.want = Overwritten(v.data, v.at, v.put)
  <2>1. CASE w.put = <<>>
    <3>1. w.want = w.data /\ w.spot = w.at
      BY <1>1, <1>2, <2>1 DEF Areas
    <3>2. v.put = <<byte>>
      BY <1>1, <2>1, AppendedIs
    <3> QED BY <3>1, <3>2 DEF Put
  <2>2. CASE w.put # <<>>
    <3>1. w.want = Overwritten(w.data, w.at, w.put)
      BY <2>2 DEF Areas
    <3>2. Overwritten(w.data, w.at, Append(w.put, byte))
            = Overwritten(Overwritten(w.data, w.at, w.put), w.at + Len(w.put), <<byte>>)
      BY <1>1, <2>2, OneMoreByte
    <3> QED BY <1>2, <3>1, <3>2 DEF Put, Appended
  <2> QED BY <2>1, <2>2
<1> QED BY <1>2, <1>3, <1>4, <1>5 DEF Areas

LEMMA FullIsWritten ==
    ASSUME NEW w, NEW v, NEW byte \in Byte, Tidy(w), Areas(w), w.next = Len(w.get), w.put # <<>>,
           Put(v, w, byte), v.data = Overwritten(w.data, w.at, w.put), v.at = w.at + Len(w.put), v.put = <<byte>>
    PROVE  Areas(v)
<1>1. /\ w.put \in Seq(Byte) /\ w.at \in Nat /\ w.next \in Nat
      /\ w.spot = w.at - (Len(w.get) - w.next) + Len(w.put) /\ w.want = Overwritten(w.data, w.at, w.put)
  BY DEF Tidy, World, Areas
<1>2. Len(w.put) \in Nat /\ w.spot = w.at + Len(w.put) /\ v.next + 1 .. Len(v.get) = {} /\ v.next = Len(v.get)
  BY <1>1 DEF Put
<1>3. v.put # <<>> /\ Len(v.put) = 1
  BY <1>1
<1>4. v.spot = v.at - (Len(v.get) - v.next) + Len(v.put)
  BY <1>1, <1>2, <1>3 DEF Put
<1>5. v.want = Overwritten(v.data, v.at, v.put)
  BY <1>1, <1>2 DEF Put
<1> QED BY <1>2, <1>3, <1>4, <1>5 DEF Areas

LEMMA PutCharKeeps == ASSUME ObjectInv(o), PutChar PROVE ObjectInv(o') /\ AreasDoNotShow'
<1>1. PICK byte \in Bytes : \E a \in sputc(o, byte) :
        Ends("put", [a.w EXCEPT !.want = Overwritten(@, o.spot, <<byte>>), !.spot = @ + 1,
                                !.apart = @ \/ o.next < Len(o.get)], a.n)
  BY DEF PutChar
<1> DEFINE one == <<byte>>
<1>2. PICK a \in sputc(o, byte) :
        Ends("put", [a.w EXCEPT !.want = Overwritten(@, o.spot, one), !.spot = @ + 1,
                                !.apart = @ \/ o.next < Len(o.get)], a.n)
  BY <1>1
<1> DEFINE v == [a.w EXCEPT !.want = Overwritten(@, o.spot, one), !.spot = @ + 1,
                            !.apart = @ \/ o.next < Len(o.get)]
<1>3. byte \in Byte /\ one \in Seq(Byte) /\ one = <<byte>>
  BY BytesAssumption DEF Byte
<1> HIDE DEF one
<1>4. /\ Tidy(o) /\ (Whole(o) => Areas(o)) /\ Writable(o) /\ o \in World /\ o.spot \in Nat
      /\ o.put \in Seq(Byte) /\ Len(o.put) \in Nat
  <2>1. Tidy(o) /\ (Whole(o) => Areas(o)) /\ Writable(o)
    BY TidyOrWhole DEF PutChar
  <2>2. o \in World /\ o.spot \in Nat /\ o.put \in Seq(Byte)
    BY <2>1 DEF Tidy, World
  <2> QED BY <2>1, <2>2
<1>5. ASSUME Tidy(a.w)
      PROVE  /\ Renoted(v, a.w) /\ v.spot = a.w.spot + 1 /\ v.want = Overwritten(a.w.want, o.spot, one)
             /\ v.apart = (a.w.apart \/ o.next < Len(o.get))
  <2>1. a.w.want \in Seq(Byte) /\ a.w.spot + 1 \in Nat /\ (a.w.apart \/ o.next < Len(o.get)) \in BOOLEAN
    BY <1>5 DEF Tidy, World
  <2>2. Overwritten(a.w.want, o.spot, one) \in Seq(Byte)
    BY <1>3, <1>4, <2>1, OverwrittenIsBytes
  <2> QED BY <1>5, <2>1, <2>2 DEF Renoted, Tidy, World
<1> HIDE DEF v
<1>6. ASSUME Tidy(a.w), a.w.tx = o.tx, a.w.as = o.as, a.w.get = o.get, a.w.next = o.next,
             a.w.want = o.want, a.w.spot = o.spot, a.w.apart = o.apart, Whole(v), o.data # Missing
      PROVE  Areas(o) /\ o.next = Len(o.get) /\ Put(v, o, byte)
  <2>1. Whole(o) /\ ~(o.next < Len(o.get))
    BY <1>5, <1>6 DEF Whole, Renoted
  <2>2. o.next = Len(o.get)
    <3>1. o.next \in Nat /\ o.get \in Seq(Byte) /\ o.next <= Len(o.get)
      BY <1>4 DEF Tidy, World
    <3>2. Len(o.get) \in Nat
      BY <3>1
    <3> QED BY <2>1, <3>1, <3>2
  <2> QED BY <1>3, <1>4, <1>5, <1>6, <2>1, <2>2 DEF Put, Renoted
<1>7. CASE Len(o.put) < bufsize
  <2>1. a.w = [o EXCEPT !.put = Append(o.put, byte)] /\ Append(o.put, byte) \in Seq(Byte)
    BY <1>2, <1>3, <1>4, <1>7 DEF sputc, Answer
  <2>2. /\ a.w \in World /\ a.w.tx = o.tx /\ a.w.as = o.as /\ a.w.get = o.get /\ a.w.next = o.next
        /\ a.w.want = o.want /\ a.w.spot = o.spot /\ a.w.apart = o.apart /\ a.w.data = o.data /\ a.w.at = o.at
        /\ a.w.put = Append(o.put, byte)
    BY <1>4, <2>1 DEF World
  <2>3. Tidy(a.w)
    BY <1>4, <2>2 DEF Tidy, Readable, Writable
  <2>4. Renoted(v, a.w)
    BY <1>5, <2>3
  <2>5. ASSUME Whole(v) PROVE Areas(v)
    <3>1. o.data # Missing
      BY <2>2, <2>4, <2>5 DEF Whole, Renoted
    <3>2. Areas(o) /\ o.next = Len(o.get) /\ Put(v, o, byte)
      BY <1>6, <2>2, <2>3, <2>5, <3>1
    <3>3. v.data = o.data /\ v.at = o.at /\ Appended(v.put, o.put, byte)
      BY <2>2, <2>4 DEF Renoted, Appended
    <3> QED BY <1>3, <1>4, <3>1, <3>2, <3>3, RoomIsKept
  <2>6. ObjectInv(v)
    BY <2>3, <2>4, <2>5, RenotedIsTidy, TidyOrWhole
  <2> QED BY <1>2, <2>6, OtherCall DEF v
<1>8. CASE ~(Len(o.put) < bufsize)
  <2>1. a \in overflow(o, one) /\ o.put # <<>>
    <3>1. a \in overflow(o, one)
      BY <1>2, <1>3, <1>8 DEF sputc
    <3>2. Len(<<>>) = 0 /\ bufsize > 0
      BY bufsizeAssumption
    <3> QED BY <1>8, <3>1, <3>2
  <2>2. \/ Tidy(a.w) /\ Excused(a.w)
        \/ /\ Tidy(a.w) /\ a.w.tx = o.tx /\ a.w.as = o.as /\ a.w.get = o.get /\ a.w.next = o.next
           /\ a.w.put = one /\ a.w.want = o.want /\ a.w.spot = o.spot /\ a.w.apart = o.apart
           /\ o.data \in Seq(Byte) /\ a.w.data = Overwritten(o.data, o.at, o.put)
           /\ a.w.at = o.at + Len(o.put)
    <3>1. \/ Tidy(a.w) /\ Excused(a.w)
          \/ /\ Tidy(a.w) /\ a.w.tx = o.tx /\ a.w.as = o.as /\ a.w.get = o.get /\ a.w.next = o.next
             /\ a.w.put = one /\ a.w.want = o.want /\ a.w.spot = o.spot /\ a.w.apart = o.apart
             /\ o.put = <<>> => a.w.data = o.data /\ a.w.at = o.at
             /\ o.put # <<>> => /\ o.data \in Seq(Byte) /\ a.w.data = Overwritten(o.data, o.at, o.put)
                                /\ a.w.at = o.at + Len(o.put)
      <4>1. Tidy(o) /\ Writable(o) /\ one \in Seq(Byte) /\ a \in overflow(o, one)
        BY <1>3, <1>4, <2>1
      <4> QED BY <4>1, overflowIs, Zenon
    <3> QED BY <2>1, <3>1
  <2>3. CASE Tidy(a.w) /\ Excused(a.w)
    <3>1. Tidy(v) /\ Excused(v)
      BY <1>5, <2>3, RenotedIsTidy DEF Renoted, Excused
    <3>2. ObjectInv(v)
      BY <3>1, ExcusedIsInv
    <3> QED BY <1>2, <3>2, OtherCall DEF v
  <2>4. CASE /\ Tidy(a.w) /\ a.w.tx = o.tx /\ a.w.as = o.as /\ a.w.get = o.get /\ a.w.next = o.next
             /\ a.w.put = one /\ a.w.want = o.want /\ a.w.spot = o.spot /\ a.w.apart = o.apart
             /\ o.data \in Seq(Byte) /\ a.w.data = Overwritten(o.data, o.at, o.put)
             /\ a.w.at = o.at + Len(o.put)
    <3>1. Renoted(v, a.w) /\ o.data # Missing
      BY <1>5, <2>4, BytesAreThere
    <3>2. ASSUME Whole(v) PROVE Areas(v)
      <4>1. Areas(o) /\ o.next = Len(o.get) /\ Put(v, o, byte)
        BY <1>6, <2>4, <3>1, <3>2
      <4>2. v.data = Overwritten(o.data, o.at, o.put) /\ v.at = o.at + Len(o.put) /\ v.put = <<byte>>
        BY <1>3, <2>4, <3>1 DEF Renoted
      <4> QED BY <1>3, <1>4, <2>1, <4>1, <4>2, FullIsWritten
    <3>3. ObjectInv(v)
      BY <2>4, <3>1, <3>2, RenotedIsTidy, TidyOrWhole
    <3> QED BY <1>2, <3>3, OtherCall DEF v
  <2> QED BY <2>2, <2>3, <2>4
<1> QED BY <1>7, <1>8

\* sync: the get area is dropped, and the put area written.
LEMMA syncIs ==
    ASSUME NEW w, Tidy(w), NEW a \in sync(w)
    PROVE  \/ Tidy(a.w) /\ Excused(a.w)
           \/ /\ Tidy(a.w) /\ a.w.tx = w.tx /\ a.w.as = w.as /\ a.w.get = w.get /\ a.w.next = 0
              /\ a.w.put = <<>> /\ a.w.want = w.want /\ a.w.spot = w.spot /\ a.w.apart = w.apart
              /\ w.put = <<>> => a.w.data = w.data /\ a.w.at = w.at
              /\ w.put # <<>> => /\ w.data \in Seq(Byte) /\ a.w.data = Overwritten(w.data, w.at, w.put)
                                 /\ a.w.at = w.at + Len(w.put)
<1> DEFINE x == [w EXCEPT !.next = 0]
<1>1. a \in overflow(x, <<>>)
  BY DEF sync
<1>2. /\ x \in World /\ x.tx = w.tx /\ x.as = w.as /\ x.put = w.put /\ x.data = w.data /\ x.want = w.want
      /\ x.spot = w.spot /\ x.apart = w.apart /\ x.at = w.at /\ x.get = w.get /\ x.next = 0
  <2>1. \A n \in Nat : LET y == [w EXCEPT !.next = n]
                       IN  /\ y \in World /\ y.tx = w.tx /\ y.as = w.as /\ y.put = w.put /\ y.data = w.data
                           /\ y.want = w.want /\ y.spot = w.spot /\ y.apart = w.apart /\ y.at = w.at
                           /\ y.get = w.get /\ y.next = n
    BY DEF Tidy, World
  <2>2. 0 \in Nat
    OBVIOUS
  <2> QED BY <2>1, <2>2, Zenon
<1> HIDE DEF x
<1>3. Tidy(x)
  <2>1. w.get \in Seq(Byte)
    BY DEF Tidy, World
  <2>2. Len(w.get) \in Nat
    BY <2>1
  <2> QED BY <1>2, <2>2 DEF Tidy, Readable, Writable
<1>4. CASE Writable(x)
  <2>1. <<>> \in Seq(Byte)
    OBVIOUS
  <2>2. \/ Tidy(a.w) /\ Excused(a.w)
        \/ /\ Tidy(a.w) /\ a.w.tx = x.tx /\ a.w.as = x.as /\ a.w.get = x.get /\ a.w.next = x.next
           /\ a.w.put = <<>> /\ a.w.want = x.want /\ a.w.spot = x.spot /\ a.w.apart = x.apart
           /\ x.put = <<>> => a.w.data = x.data /\ a.w.at = x.at
           /\ x.put # <<>> => /\ x.data \in Seq(Byte) /\ a.w.data = Overwritten(x.data, x.at, x.put)
                              /\ a.w.at = x.at + Len(x.put)
    BY <1>1, <1>3, <1>4, <2>1, overflowIs
  <2> QED BY <1>2, <2>2
<1>5. CASE ~Writable(x)
  <2>1. a.w = x
    BY <1>1, <1>5 DEF overflow, Answer
  <2>2. w.put = <<>>
    BY <1>2, <1>3, <1>5 DEF Tidy
  <2> QED BY <1>2, <1>3, <2>1, <2>2
<1> QED BY <1>4, <1>5

\* What was in the put area is in the object.
LEMMA SyncedIsWanted ==
    ASSUME NEW w, NEW v, Tidy(w), Areas(w), v.want = w.want,
           w.put = <<>> => v.data = w.data,
           w.put # <<>> => v.data = Overwritten(w.data, w.at, w.put)
    PROVE  v.data = v.want
  BY DEF Areas

LEMMA SyncKeeps == ASSUME ObjectInv(o), Sync PROVE ObjectInv(o') /\ AreasDoNotShow'
<1>1. PICK a \in sync(o) : Ends("sync", [a.w EXCEPT !.apart = @ \/ o.next > 0], a.n)
  BY DEF Sync
<1> DEFINE v == [a.w EXCEPT !.apart = @ \/ o.next > 0]
<1>2. Tidy(o) /\ (Whole(o) => Areas(o))
  BY TidyOrWhole
<1>3. /\ o.put \in Seq(Byte) /\ o.get \in Seq(Byte) /\ o.at \in Nat /\ o.next \in Nat /\ o.next <= Len(o.get)
      /\ Len(o.put) \in Nat /\ Len(o.get) \in Nat /\ Len(<<>>) = 0
  <2>1. /\ o.put \in Seq(Byte) /\ o.get \in Seq(Byte) /\ o.at \in Nat /\ o.next \in Nat /\ o.next <= Len(o.get)
    BY <1>2 DEF Tidy, World
  <2> QED BY <2>1
<1>4. ASSUME Tidy(a.w)
      PROVE  /\ Renoted(v, a.w) /\ v.spot = a.w.spot /\ v.want = a.w.want /\ v.apart = (a.w.apart \/ o.next > 0)
  <2>1. (a.w.apart \/ o.next > 0) \in BOOLEAN
    BY <1>4 DEF Tidy, World
  <2> QED BY <1>4, <2>1 DEF Renoted, Tidy, World
<1> HIDE DEF v
<1>5. CASE Tidy(a.w) /\ Excused(a.w)
  <2>1. Tidy(v) /\ Excused(v)
    BY <1>4, <1>5, RenotedIsTidy DEF Renoted, Excused
  <2> QED BY <1>1, <2>1, ExcusedIsInv, OtherCall DEF v
<1>6. CASE /\ Tidy(a.w) /\ a.w.tx = o.tx /\ a.w.as = o.as /\ a.w.get = o.get /\ a.w.next = 0
           /\ a.w.put = <<>> /\ a.w.want = o.want /\ a.w.spot = o.spot /\ a.w.apart = o.apart
           /\ o.put = <<>> => a.w.data = o.data /\ a.w.at = o.at
           /\ o.put # <<>> => /\ o.data \in Seq(Byte) /\ a.w.data = Overwritten(o.data, o.at, o.put)
                              /\ a.w.at = o.at + Len(o.put)
  <2>1. Renoted(v, a.w)
    BY <1>4, <1>6
  <2>2. ASSUME Whole(v) PROVE Areas(v)
    <3>1. o.put # <<>> => o.data # Missing
      BY <1>6, BytesAreThere
    <3>2. Whole(o) /\ ~(o.next > 0)
      BY <1>4, <1>6, <2>1, <2>2, <3>1 DEF Whole, Renoted
    <3>3. Areas(o) /\ o.next = 0
      BY <1>2, <1>3, <3>2
    <3>4. v.data = v.want
      <4>1. /\ v.want = o.want /\ (o.put = <<>> => v.data = o.data)
            /\ (o.put # <<>> => v.data = Overwritten(o.data, o.at, o.put))
        BY <1>4, <1>6, <2>1 DEF Renoted
      <4> QED BY <1>2, <3>3, <4>1, SyncedIsWanted
    <3>5. v.spot = o.spot /\ v.get = o.get /\ v.next = o.next /\ v.put = <<>>
      BY <1>4, <1>6, <2>1, <3>3 DEF Renoted
    <3>6. CASE o.put = <<>>
      <4>1. v.at = o.at /\ v.data = o.data
        BY <1>6, <2>1, <3>6 DEF Renoted
      <4> QED BY <3>3, <3>4, <3>5, <3>6, <4>1 DEF Areas
    <3>7. CASE o.put # <<>>
      <4>1. Len(o.get) = 0 /\ o.spot = o.at - (Len(o.get) - o.next) + Len(o.put)
        BY <3>3, <3>7 DEF Areas
      <4>2. v.at = o.at + Len(o.put)
        BY <1>6, <2>1, <3>7 DEF Renoted
      <4>3. v.spot = v.at - (Len(v.get) - v.next) + Len(v.put) /\ v.next + 1 .. Len(v.get) = {}
        BY <1>3, <3>3, <3>5, <4>1, <4>2
      <4> QED BY <3>4, <3>5, <4>3 DEF Areas
    <3> QED BY <3>6, <3>7
  <2>3. ObjectInv(v)
    BY <1>6, <2>1, <2>2, RenotedIsTidy, TidyOrWhole
  <2> QED BY <1>1, <2>3, OtherCall DEF v
<1> QED BY <1>1, <1>2, <1>5, <1>6, syncIs

\* Nothing is left of what was opened, and the object is what it should be.
LEMMA ClosedIs ==
    ASSUME NEW w, Tidy(w)
    PROVE  /\ ObjectInv(Closed(w)) /\ Closed(w).tx = w.tx /\ Closed(w).data = w.data
           /\ Closed(w).want = w.want /\ Closed(w).apart = w.apart
<1> DEFINE v == Closed(w)
           x == initialize(w, "none")
<1>0. v = [x EXCEPT !.at = 0] /\ x = [w EXCEPT !.as = "none", !.get = <<>>, !.next = 0, !.put = <<>>]
  BY DEF Closed, initialize
<1> HIDE DEF v, x
<1>1. /\ v \in World /\ v.as = "none" /\ v.get = <<>> /\ v.next = 0 /\ v.put = <<>> /\ v.tx = w.tx /\ v.data = w.data
      /\ v.want = w.want /\ v.apart = w.apart
  <2>1. <<>> \in Seq(Byte) /\ 0 \in Nat
    OBVIOUS
  <2>2. \A n \in Nat : LET y == [w EXCEPT !.as = "none", !.get = <<>>, !.next = n, !.put = <<>>]
                       IN  /\ y \in World /\ y.as = "none" /\ y.get = <<>> /\ y.next = n /\ y.put = <<>>
                           /\ y.tx = w.tx /\ y.data = w.data /\ y.want = w.want /\ y.apart = w.apart
    BY <2>1 DEF Tidy, World
  <2>3. /\ x \in World /\ x.as = "none" /\ x.get = <<>> /\ x.next = 0 /\ x.put = <<>> /\ x.tx = w.tx /\ x.data = w.data
        /\ x.want = w.want /\ x.apart = w.apart
    BY <2>1, <2>2, <1>0, Zenon
  <2>4. \A n \in Nat : LET y == [x EXCEPT !.at = n]
                       IN  /\ y \in World /\ y.as = x.as /\ y.get = x.get /\ y.next = x.next /\ y.put = x.put
                           /\ y.tx = x.tx /\ y.data = x.data /\ y.want = x.want /\ y.apart = x.apart
    BY <2>3 DEF World
  <2>5. /\ v \in World /\ v.as = x.as /\ v.get = x.get /\ v.next = x.next /\ v.put = x.put
        /\ v.tx = x.tx /\ v.data = x.data /\ v.want = x.want /\ v.apart = x.apart
    BY <2>1, <1>0, <2>4, Zenon
  <2> QED BY <2>3, <2>5
<1>2. Tidy(v)
  BY <1>1 DEF Tidy
<1>3. ObjectInv(v)
  BY <1>1, <1>2, NotWholeIsInv DEF Whole
<1> QED BY <1>1, <1>3 DEF v

LEMMA DestroyKeeps == ASSUME ObjectInv(o), Destroy PROVE ObjectInv(o') /\ AreasDoNotShow'
<1>1. Tidy(o) /\ (Whole(o) => Areas(o)) /\ o.as # "none"
  BY TidyOrWhole DEF Destroy
<1>2. ASSUME NEW w, NEW n, Tidy(w), Ends("close", Closed(w), n),
             ~w.apart /\ w.tx = "open" /\ w.data # Missing => w.data = w.want
      PROVE  ObjectInv(o') /\ AreasDoNotShow'
  <2>1. /\ ObjectInv(Closed(w)) /\ Closed(w).tx = w.tx /\ Closed(w).data = w.data
        /\ Closed(w).want = w.want /\ Closed(w).apart = w.apart
    BY <1>2, ClosedIs
  <2>2. /\ ObjectInv(o') /\ latest'.call = "close"
        /\ ~o'.apart /\ o'.tx = "open" => o' = Closed(w)
    BY <1>2, <2>1, EndsKeeps
  <2> QED BY <1>2, <2>1, <2>2 DEF AreasDoNotShow
<1>3. CASE ~Writable(o)
  <2>1. Ends("close", Closed(o), 0) /\ o.put = <<>>
    BY <1>1, <1>3 DEF Destroy, Tidy
  <2>2. ~o.apart /\ o.tx = "open" /\ o.data # Missing => o.data = o.want
    BY <1>1, <2>1 DEF Whole, Areas
  <2> QED BY <1>1, <1>2, <2>1, <2>2
<1>4. CASE Writable(o)
  <2>1. PICK a \in sync(o) : \E b \in sync(a.w) : Ends("close", Closed(b.w), b.n)
    BY <1>4 DEF Destroy
  <2>2. PICK b \in sync(a.w) : Ends("close", Closed(b.w), b.n)
    BY <2>1
  <2>3. \/ Tidy(a.w) /\ Excused(a.w)
        \/ /\ Tidy(a.w) /\ a.w.tx = o.tx
           /\ a.w.put = <<>> /\ a.w.want = o.want /\ a.w.apart = o.apart
           /\ o.put = <<>> => a.w.data = o.data
           /\ o.put # <<>> => o.data \in Seq(Byte) /\ a.w.data = Overwritten(o.data, o.at, o.put)
    BY <1>1, syncIs
  <2>4. \/ Tidy(b.w) /\ Excused(b.w)
        \/ /\ Tidy(b.w) /\ b.w.tx = a.w.tx /\ b.w.want = a.w.want /\ b.w.apart = a.w.apart
           /\ a.w.put = <<>> => b.w.data = a.w.data
    BY <2>3, syncIs
  <2>5. ASSUME ~b.w.apart, b.w.tx = "open", b.w.data # Missing PROVE b.w.data = b.w.want
    <3>1. /\ o.tx = "open" /\ ~o.apart /\ b.w.want = o.want /\ b.w.data = a.w.data
          /\ o.put = <<>> => b.w.data = o.data
          /\ o.put # <<>> => o.data \in Seq(Byte) /\ b.w.data = Overwritten(o.data, o.at, o.put)
      BY <2>3, <2>4, <2>5 DEF Excused
    <3>2. o.data # Missing
      BY <2>5, <3>1, BytesAreThere
    <3>3. Areas(o)
      BY <1>1, <3>1, <3>2 DEF Whole
    <3> QED BY <1>1, <3>1, <3>3, SyncedIsWanted
  <2>6. Tidy(b.w)
    BY <2>4
  <2> QED BY <1>2, <2>2, <2>5, <2>6
<1> QED BY <1>3, <1>4

-----------------------------------------------------------------------------
(* Every step *)

LEMMA NoObjectIs == ObjectInv(NoObject)
<1>1. <<>> \in Seq(Byte) /\ 0 \in Nat /\ Len(<<>>) = 0
  OBVIOUS
<1>2. NoObject \in World
  BY <1>1 DEF NoObject, World
<1>3. NoObject.get = <<>> /\ NoObject.next = 0 /\ NoObject.put = <<>> /\ NoObject.as = "none"
  BY DEF NoObject
<1>4. Tidy(NoObject)
  BY <1>1, <1>2, <1>3 DEF Tidy
<1> QED BY <1>3, <1>4, NotWholeIsInv DEF Whole

LEMMA EndTransactionKeeps == ASSUME EndTransaction PROVE ObjectInv(o') /\ AreasDoNotShow'
  BY NoObjectIs, OtherCall DEF EndTransaction

LEMMA ObjectNextKeeps == ASSUME ObjectInv(o), ObjectNext PROVE ObjectInv(o') /\ AreasDoNotShow'
  BY CreateKeeps, ImportKeeps, RemoveKeeps, ToFileKeeps, OpenKeeps, WriteKeeps, ReadKeeps, SeekKeeps, GetCharKeeps,
     PutCharKeeps, SyncKeeps, DestroyKeeps, EndTransactionKeeps DEF ObjectNext

\* The areas of largeobject_streambuf do not show: whatever the program does
\* with its streams and its access objects, and whichever calls the server
\* refuses, for bytes of every value, blocks of every size and objects of any
\* length.
THEOREM AreasNeverShow == ObjectSpec => []AreasDoNotShow
<1> DEFINE Inv == ObjectInv(o) /\ AreasDoNotShow
<1>1. ObjectInit => Inv
  BY NoObjectIs DEF ObjectInit, AreasDoNotShow, NoObject
<1>2. Inv /\ [ObjectNext]_<<o, latest>> => Inv'
  <2> SUFFICES ASSUME Inv, [ObjectNext]_<<o, latest>> PROVE Inv'
    OBVIOUS
  <2>1. CASE ObjectNext
    BY <2>1, ObjectNextKeeps
  <2>2. CASE UNCHANGED <<o, latest>>
    BY <2>2 DEF AreasDoNotShow, ObjectInv, World, Readable, Writable, Whole, Areas
  <2> QED BY <2>1, <2>2
<1> QED BY <1>1, <1>2, PTL DEF ObjectSpec
=============================================================================
