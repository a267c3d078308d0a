------------------------------ MODULE Cursors ------------------------------
(***************************************************************************)
(* libpqxx: an SQL cursor, and what is built on it: stateless_cursor,      *)
(* which retrieves any range of the rows, and icursorstream with its       *)
(* icursor_iterators, which share one cursor that only moves forward.      *)
(* The rows of the query are numbered from 1; before them and after them   *)
(* the cursor has a place of its own.                                      *)
(***************************************************************************)
EXTENDS Integers, SequencesExt

CONSTANTS Rows,        \* the sizes of the query's result
          Strides,     \* rows per block
          Iterators,   \* the icursor_iterators of the program
          MaxPos,      \* bound: how far icursorstream::forward goes
          MaxAvoidance \* bound: the counter, up and down

\* Results are finite; a stride of less than one row is refused by set_stride.
ASSUME RowsAssumption == Rows \subseteq Nat /\ \E most \in Rows : \A size \in Rows : size <= most
ASSUME StridesAssumption == Strides \subseteq Nat \ {0}

VARIABLES c,     \* the cursor: of the server, of the object, and of the stream
          got    \* what the latest call has handed over

(***************************************************************************)
(* Fields of c.  Of the server: size, at, exists.  Of sql_cursor: pos,     *)
(* endpos, at_end, adopted, owned; of its connection avoidance, the        *)
(* reactivation_avoidance_counter.  Of the stream: stride, realpos,        *)
(* reqpos, done, iterators (those in the chain that m_iterators starts),   *)
(* and it, what each iterator keeps: its pos and here.  as is what the     *)
(* object is; base, where the cursor stood when the stream began, and      *)
(* late, whether an iterator was placed behind what the stream has read,   *)
(* are there for the properties; broken is set by an internal_error.       *)
(***************************************************************************)
all == Max(Rows) + 2           \* beyond any result, like INT_MAX - 1
backward_all == -all
Unknown == -1
Adrift == [pos |-> 0, here |-> <<>>, late |-> FALSE]   \* an iterator of no stream
NoCall == [call |-> "none"]

Span(from, to) ==
  IF from <= to THEN [i \in 1 .. to - from + 1 |-> from + i - 1]
  ELSE [i \in 1 .. from - to + 1 |-> from - i + 1]
Least(a, b) == IF a < b THEN a ELSE b
Most(a, b) == IF a > b THEN a ELSE b

(***************************************************************************)
(* FETCH and MOVE: the rows passed, not counting the one the cursor is on. *)
(***************************************************************************)
Passed(w, n) ==
  IF n > 0 THEN IF w.at >= w.size THEN <<>> ELSE Span(w.at + 1, Least(w.at + n, w.size))
  ELSE IF w.at <= 1 THEN <<>> ELSE Span(w.at - 1, Most(w.at + n, 1))
Moved(w, n) == [w EXCEPT !.at = Most(0, Least(@ + n, w.size + 1))]

-----------------------------------------------------------------------------
(* sql_cursor *)

\* Mutant: where the cursor stood before does not matter.
adjust_always(w, hoped, actual) ==
  LET direction == IF hoped < 0 THEN -1 ELSE 1
      short == actual # direction * hoped
      steps == IF short THEN actual + 1 ELSE actual
      pos == IF w.pos = Unknown THEN w.pos ELSE w.pos + direction * steps
  IN  [w EXCEPT !.pos = pos, !.at_end = IF short THEN direction ELSE 0,
                !.endpos = IF short /\ direction > 0 THEN pos ELSE @]

adjust(w, hoped, actual) ==
  LET direction == IF hoped < 0 THEN -1 ELSE 1
      short == actual # direction * hoped
      steps == IF short /\ w.at_end # direction THEN actual + 1 ELSE actual
      start == IF short /\ direction < 0 /\ w.pos = Unknown THEN steps ELSE w.pos
      pos == IF start >= 0 THEN start + direction * steps ELSE start
      wrong == \/ actual > direction * hoped
               \/ short /\ direction < 0 /\ start # steps
               \/ short /\ direction > 0 /\ w.endpos >= 0 /\ pos # w.endpos
  IN  IF wrong THEN [w EXCEPT !.broken = TRUE]
      ELSE [w EXCEPT !.pos = pos, !.at_end = IF short THEN direction ELSE 0,
                     !.endpos = IF short /\ direction > 0 THEN pos ELSE @]

fetch(w, rows) ==
  IF rows = 0 THEN [w |-> w, r |-> <<>>]
  ELSE LET r == Passed(w, rows) IN [w |-> adjust(Moved(w, rows), rows, Len(r)), r |-> r]

\* d is what the server counts, not the displacement
move(w, rows) ==
  IF rows = 0 THEN [w |-> w, d |-> 0]
  ELSE LET d == Len(Passed(w, rows)) IN [w |-> adjust(Moved(w, rows), rows, d), d |-> d]

\* FETCH 0 at the start of a cursor gives no row and leaves it there.
sql_cursor(w, hold, owned) ==
  [w EXCEPT !.at = 0, !.exists = TRUE, !.pos = 0, !.at_end = -1, !.endpos = Unknown,
            !.adopted = FALSE, !.owned = owned, !.avoidance = IF hold THEN @ + 1 ELSE @]
adopt(w, owned) ==
  [w EXCEPT !.pos = Unknown, !.at_end = 0, !.endpos = Unknown,
            !.adopted = TRUE, !.owned = owned, !.avoidance = IF owned THEN @ - 1 ELSE @]
close(w) ==
  IF ~w.owned THEN w
  ELSE [w EXCEPT !.exists = FALSE, !.owned = FALSE, !.avoidance = IF w.adopted THEN @ - 1 ELSE @]

-----------------------------------------------------------------------------
(* stateless_cursor *)

obtain_stateless_cursor_size(w) ==
  LET v == IF w.endpos = Unknown THEN move(w, all).w ELSE w IN [w |-> v, size |-> v.endpos - 1]

\* Mutant: the cursor is moved onto the first row, not in front of it.
stateless_cursor_retrieve_onto(w, size, begin_pos, end_pos) ==
  LET stop == Least(Most(end_pos, -1), size)
      o == fetch(move(w, begin_pos - (w.pos - 1)).w, stop - begin_pos)
  IN  IF begin_pos < 0 \/ begin_pos > size THEN [w |-> w, res |-> "range_error", rows |-> <<>>]
      ELSE [w |-> o.w, res |-> "ok", rows |-> o.r]

stateless_cursor_retrieve(w, size, begin_pos, end_pos) ==
  LET stop == Least(Most(end_pos, -1), size)
      direction == IF begin_pos < stop THEN 1 ELSE -1
      v == move(w, begin_pos - direction - (w.pos - 1)).w
      o == fetch(v, stop - begin_pos)
  IN  IF begin_pos < 0 \/ begin_pos > size THEN [w |-> w, res |-> "range_error", rows |-> <<>>]
      ELSE IF begin_pos = stop THEN [w |-> w, res |-> "ok", rows |-> <<>>]
      ELSE [w |-> o.w, res |-> "ok", rows |-> o.r]

-----------------------------------------------------------------------------
(* icursorstream *)

set_stride(w, n) == [w EXCEPT !.stride = n]

icursorstream(w, n) ==
  set_stride([w EXCEPT !.as = "stream", !.realpos = 0, !.reqpos = 0, !.done = FALSE,
                       !.iterators = {}, !.base = w.at], n)

Fetched(o) == [w |-> [o.w EXCEPT !.realpos = @ + Len(o.r), !.done = @ \/ o.r = <<>>], r |-> o.r]
fetchblock(w) == Fetched(fetch(w, w.stride))

Skipped(o, n) == [o.w EXCEPT !.realpos = @ + o.d, !.done = @ \/ o.d < n]
ignore(w, n) == Skipped(move(w, n), n)

forward(w, n) == [w EXCEPT !.reqpos = @ + n * w.stride]

insert_iterator(w, i) == [w EXCEPT !.iterators = @ \cup {i}]
remove_iterator(w, i) == [w EXCEPT !.iterators = @ \ {i}]

\* The block for the place readpos, and those of the iterators in todo it is for.
BlockAt(w, readpos) == fetchblock(IF readpos > w.realpos THEN ignore(w, readpos - w.realpos) ELSE w)
Served(o, todo, readpos) ==
  [o.w EXCEPT !.it = [i \in Iterators |->
     IF i \in todo /\ @[i].pos = readpos THEN [@[i] EXCEPT !.here = o.r] ELSE @[i]]]

\* Mutant: only the iterators at the very place are given the block.
service_iterators_only(w, topos) ==
  IF topos < w.realpos THEN w ELSE Served(BlockAt(w, topos), w.iterators, topos)

\* Reads on, a block for each place up to topos at which an iterator waits:
\* read[n] is what that leaves once the places below n have been served.
service_iterators(w, topos) ==
  LET todo == {i \in w.iterators : w.realpos <= w.it[i].pos /\ w.it[i].pos <= topos}
      read[n \in 0 .. topos + 1] ==
        IF n = 0 THEN w
        ELSE IF \E i \in todo : w.it[i].pos = n - 1 THEN Served(BlockAt(read[n - 1], n - 1), todo, n - 1)
        ELSE read[n - 1]
  IN  IF topos < w.realpos THEN w ELSE read[topos + 1]

-----------------------------------------------------------------------------
(* icursor_iterator *)

On(w, i) == i \in w.iterators     \* m_stream is set
Place(w, i, pos) == [w EXCEPT !.it[i] = [pos |-> pos, here |-> <<>>, late |-> pos < w.realpos]]

icursor_iterator(w, i) == insert_iterator(Place(w, i, w.reqpos), i)

\* i = j; either may be without a stream.
assign(w, i, j) ==
  LET v == [w EXCEPT !.it[i] = w.it[j]]
  IN  IF On(w, i) = On(w, j) THEN v
      ELSE IF On(w, i) THEN remove_iterator(v, i) ELSE insert_iterator(v, i)

\* ++i (n = 1) and i += n
advance(w, i, n) == LET v == forward(w, n) IN Place(v, i, v.reqpos)

refresh(w, i) == IF On(w, i) THEN service_iterators(w, w.it[i].pos) ELSE w

\* i == j and i < j: what they make the stream read, and what they say then
compared(w, i, j) == IF On(w, i) = On(w, j) THEN w ELSE refresh(refresh(w, i), j)
equal(w, i, j) ==
  IF On(w, i) = On(w, j) THEN ~On(w, i) \/ w.it[i].pos = w.it[j].pos
  ELSE w.it[i].here = <<>> /\ w.it[j].here = <<>>
less(w, i, j) ==
  IF On(w, i) = On(w, j) THEN On(w, i) /\ w.it[i].pos < w.it[j].pos ELSE w.it[i].here # <<>>

-----------------------------------------------------------------------------
(* One program with one cursor at a time.                                  *)

\* No cursor object, on a connection's server.
NoCursor(size, at, exists, avoidance) ==
  [size |-> size, at |-> at, exists |-> exists, pos |-> 0, endpos |-> Unknown, at_end |-> 0,
   adopted |-> FALSE, owned |-> FALSE, avoidance |-> avoidance, stride |-> 1, realpos |-> 0, reqpos |-> 0,
   done |-> FALSE, iterators |-> {}, it |-> [i \in Iterators |-> Adrift], as |-> "none", base |-> 0,
   broken |-> FALSE]

CursorInit == /\ \E size \in Rows : c = NoCursor(size, 0, FALSE, 0)
              /\ got = NoCall

Returns(w) == c' = w /\ got' = NoCall
Hands(w, answer) == c' = w /\ got' = answer
InBounds(w) == w.avoidance \in -MaxAvoidance .. MaxAvoidance /\ Returns(w)

\* Cursors: made, adopted where an earlier program left them, and closed.
OpenStateless ==
  /\ c.as = "none" /\ ~c.exists
  /\ \E hold, owned \in BOOLEAN : InBounds([sql_cursor(c, hold, owned) EXCEPT !.as = "stateless"])
AdoptStateless ==
  /\ c.as = "none" /\ c.exists
  /\ \E owned \in BOOLEAN : InBounds([move(adopt(c, owned), backward_all).w EXCEPT !.as = "stateless"])
OpenStream ==
  /\ c.as = "none" /\ ~c.exists
  /\ \E n \in Strides : Returns(icursorstream(sql_cursor(c, FALSE, TRUE), n))
AdoptStream ==
  /\ c.as = "none" /\ c.exists
  /\ \E n \in Strides, owned \in BOOLEAN : InBounds(icursorstream(adopt(c, owned), n))
SomeoneDeclares ==
  /\ c.as = "none" /\ ~c.exists
  /\ \E at \in 0 .. c.size + 1 : Returns([c EXCEPT !.exists = TRUE, !.at = at])
Close ==
  /\ c.as # "none" /\ c.iterators = {}
  /\ LET w == close(c) IN Returns(NoCursor(w.size, w.at, w.exists, w.avoidance))
NextProgram == c.as = "none" /\ \E size \in Rows : Returns(NoCursor(size, 0, FALSE, 0))

Size ==
  /\ c.as = "stateless"
  /\ \E o \in {obtain_stateless_cursor_size(c)} : Hands(o.w, [call |-> "size", size |-> o.size])
Retrieve ==
  /\ c.as = "stateless"
  /\ \E s \in {obtain_stateless_cursor_size(c)}, from \in -1 .. c.size + 1, to \in -2 .. c.size + 1 :
       \E o \in {stateless_cursor_retrieve(s.w, s.size, from, to)} :
          Hands(o.w, [call |-> "retrieve", from |-> from, to |-> to, res |-> o.res, rows |-> o.rows])

\* The stream itself, while no iterator is on it: with one, the
\* documentation asks not to read, move or change the stride.
Alone == c.as = "stream" /\ c.iterators = {}
Get == /\ Alone
       /\ \E o \in {fetchblock(c)} : Hands(o.w, [call |-> "get", from |-> c.at, rows |-> o.r])
Ignore == Alone /\ \E n \in 1 .. 2 : Returns(ignore(c, n))
SetStride == Alone /\ \E n \in Strides : Returns(set_stride(c, n))

NewIterator == c.as = "stream" /\ \E i \in Iterators : ~On(c, i) /\ Returns(icursor_iterator(c, i))
Assign == c.as = "stream" /\ \E i, j \in Iterators : i # j /\ Returns(assign(c, i, j))
EndIterator == \E i \in Iterators : On(c, i) /\ Returns([remove_iterator(c, i) EXCEPT !.it[i] = Adrift])
Advance ==
  \E i \in Iterators, n \in 1 .. 2 :
    On(c, i) /\ forward(c, n).reqpos <= MaxPos /\ Returns(advance(c, i, n))
\* *i, which may be an iterator of no stream
Read ==
  \E i \in Iterators :
    /\ c.as = "stream"
    /\ \E w \in {refresh(c, i)} : Hands(w, [call |-> "read", of |-> i, rows |-> w.it[i].here])
Compare ==
  \E i, j \in Iterators :
    /\ c.as = "stream" /\ i # j
    /\ \E w \in {compared(c, i, j)} :
         Hands(w, [call |-> "equal", of |-> i, with |-> j, is |-> equal(w, i, j)])
Order ==
  \E i, j \in Iterators :
    /\ c.as = "stream" /\ i # j
    /\ \E w \in {compared(c, i, j)} :
         Hands(w, [call |-> "less", of |-> i, with |-> j, is |-> less(w, i, j)])

CursorNext ==
  \/ OpenStateless \/ AdoptStateless \/ OpenStream \/ AdoptStream \/ SomeoneDeclares \/ Close \/ NextProgram
  \/ Size \/ Retrieve \/ Get \/ Ignore \/ SetStride
  \/ NewIterator \/ Assign \/ EndIterator \/ Advance \/ Read \/ Compare \/ Order

CursorSpec == CursorInit /\ [][CursorNext]_<<c, got>>

-----------------------------------------------------------------------------
(* Properties                                                              *)

\* sql_cursor computes where it is from what it asked for and the rows the
\* server counted, which is not enough to tell a place at either end.  It is
\* right all the same, it knows the end once it has met it, and none of the
\* internal_errors of adjust can happen.
KeepsItsPlace ==
  c.as # "none" =>
    /\ ~c.broken
    /\ c.pos # Unknown => c.pos = c.at
    /\ c.endpos # Unknown => c.endpos = c.size + 1
    /\ c.at_end = 1 => c.at = c.size + 1
    /\ c.at_end = -1 => c.at = 0

\* stateless_cursor::retrieve, wherever earlier calls have left the cursor,
\* hands over the rows from begin_pos up to but without end_pos, in that
\* order (rows are numbered from 0 there).  Not so when begin_pos is the size
\* of the result and end_pos a row: that row comes too (see the README).
Wanted(from, to) ==
  LET stop == Least(Most(to, -1), c.size)
  IN  IF from <= stop THEN IF from = stop THEN <<>> ELSE Span(from + 1, stop)
      ELSE IF from = c.size /\ stop >= 0 THEN Span(c.size, stop + 1)
      ELSE IF Least(from + 1, c.size) < stop + 2 THEN <<>> ELSE Span(Least(from + 1, c.size), stop + 2)
RetrievedIsAsked ==
  got.call = "retrieve" =>
    IF got.from \in 0 .. c.size THEN got.res = "ok" /\ got.rows = Wanted(got.from, got.to)
    ELSE got.res = "range_error"

\* Whatever the others have made the stream read, an icursor_iterator hands
\* over the rows of its own place and keeps them, an empty result only past
\* the last row; and the stream is done only when no row is left.  Not so for
\* an iterator placed behind what the stream has read: it sees nothing.
Block(pos) ==
  LET from == c.base + pos + 1 IN IF from > c.size THEN <<>> ELSE Span(from, Least(from + c.stride - 1, c.size))
IteratorsSeeTheirBlocks ==
  c.as = "stream" =>
    /\ c.done => c.at = c.size + 1
    /\ \A i \in c.iterators : c.it[i].here \in {<<>>, Block(c.it[i].pos)}
    /\ got.call = "read" /\ On(c, got.of) /\ ~c.it[got.of].late => got.rows = Block(c.it[got.of].pos)
=============================================================================
