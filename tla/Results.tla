------------------------------- MODULE Results -------------------------------
(***************************************************************************)
(* pqxx::result, row, field and their iterators, forward and reverse, of   *)
(* rows and of fields.  A result object refers to what libpq has received  *)
(* (a PGresult), which never changes; rows may be sliced, and slices again. *)
(* An iterator of rows is a row, an iterator of fields is a field.         *)
(***************************************************************************)
EXTENDS Client, Sequences, FiniteSetsExt

VARIABLES received,  \* the PGresults 1 and 2
          results,   \* two result objects of the program
          row,       \* the row or slice it looks at
          it, mark   \* the iterator it moves, and another of the same range

resultVars == <<received, results, row, it, mark>>

PGresults(width, rows) == [names : UNION {[1 .. n -> Names] : n \in 0 .. width}, rows : 0 .. rows, enc : Encodings]

-----------------------------------------------------------------------------
(* result *)

NoData == 0
empty_result == [data |-> NoData, enc |-> MONOBYTE]
columns(r) == IF r.data = NoData THEN 0 ELSE Len(received[r.data].names)
size(r) == IF r.data = NoData THEN 0 ELSE received[r.data].rows

\* libpq counts columns from 0; -1 when there is none of the name
PQfname(r, i) == received[r.data].names[i + 1]
ColumnsCalled(r, name) == {i \in 0 .. columns(r) - 1 : PQfname(r, i) = name}
None == -1
PQfnumber(r, name) == IF ColumnsCalled(r, name) = {} THEN None ELSE Min(ColumnsCalled(r, name))

swap(r, s) == [data |-> s.data, enc |-> r.enc]
clear(r) == [r EXCEPT !.data = NoData]

-----------------------------------------------------------------------------
(* row *)

Row(r, i) == [home |-> r, index |-> i, begin |-> 0, end |-> columns(r)]
argument_error == -1
row_size(R) == R.end - R.begin
operator_index(r, i) == Row(r, i)
field(R, i) == [home |-> R.home, row |-> R.index, col |-> R.begin + i]
slice(R, b, e) == [R EXCEPT !.begin = R.begin + b, !.end = R.begin + e]

\* Mutant: a column of the same name before the slice hides the one in it.
column_numberHidden(R, name) ==
    LET n == PQfnumber(R.home, name)
    IN  IF n = None \/ n >= R.end \/ n < R.begin THEN argument_error ELSE n - R.begin

column_number(R, name) ==
    LET n == PQfnumber(R.home, name)
        again == {i \in R.begin .. R.end - 1 : PQfname(R.home, i) = PQfname(R.home, n)}
    IN  IF n = None \/ n >= R.end THEN argument_error
        ELSE IF n >= R.begin THEN n - R.begin
        ELSE IF again = {} THEN argument_error ELSE Min(again) - R.begin

-----------------------------------------------------------------------------
(* Iterators.  Those of fields compare and subtract col(), which is m_col   *)
(* as a row_size_type; those of rows m_index, which is long.               *)

At(of, home, index, m_col) == [of |-> of, home |-> home, index |-> index, col |-> m_col]
col(i) == i.col % Wrap
num(i) == IF i.of = "rows" THEN i.index ELSE col(i)
difference(n) == IF n >= Wrap \div 2 THEN n - Wrap ELSE n

\* operator*: the row, or the field
dereference(i) ==
    IF i.of = "rows" THEN operator_index(i.home, i.index) ELSE [home |-> i.home, row |-> i.index, col |-> col(i)]

increment(i) == IF i.of = "rows" THEN [i EXCEPT !.index = @ + 1] ELSE [i EXCEPT !.col = @ + 1]
decrement(i) == IF i.of = "rows" THEN [i EXCEPT !.index = @ - 1] ELSE [i EXCEPT !.col = @ - 1]
AdvanceBy(i, n) == IF i.of = "rows" THEN [i EXCEPT !.index = @ + n] ELSE [i EXCEPT !.col = (@ + n) % Wrap]
plus(i, n) ==
    IF i.of = "rows" THEN At("rows", i.home, i.index + n, 0) ELSE At("fields", i.home, i.index, (col(i) + n) % Wrap)
minus(i, j) == IF i.of = "rows" THEN i.index - j.index ELSE difference((num(i) - num(j)) % Wrap)
Equal(i, j) == num(i) = num(j)
Less(i, j) == num(i) < num(j)

\* A reverse iterator is, privately, an iterator of what it stands on.
reverse(i) == decrement(i)
base(i) == increment(i)

\* Mutant: what is added is subtracted from the place, not from the base.
reverse_plusFromPlace(i, n) == reverse(plus(i, -n))

reverse_plus(i, n) == reverse(plus(base(i), -n))

\* The iterators of a walk over a result's rows or a row's fields, k steps from where
\* it began; what they answer to reverse iterators is what they ask forward ones.
Length(w) == IF w.i.of = "rows" THEN size(row.home) ELSE row_size(row)
Starts(R) ==
    LET from(i, back) == [i |-> i, back |-> back, k |-> 0]
    IN  {from(At("rows", R.home, 0, 0), FALSE), from(reverse(At("rows", R.home, size(R.home), 0)), TRUE),
         from(At("fields", R.home, R.index, R.begin), FALSE),
         from(reverse(At("fields", R.home, R.index, R.end)), TRUE)}

\* The ways to go n steps, and one step.
ByAdvance(w, n) == AdvanceBy(w.i, IF w.back THEN -n ELSE n)
ByPlus(w, n) == IF w.back THEN reverse_plus(w.i, n) ELSE plus(w.i, n)
Forth(w) == IF w.back THEN decrement(w.i) ELSE increment(w.i)
Back(w) == IF w.back THEN increment(w.i) ELSE decrement(w.i)
Distance(w, v) == IF w.back THEN minus(v.i, w.i) ELSE minus(w.i, v.i)
Precedes(v, w) == IF w.back THEN Less(w.i, v.i) ELSE Less(v.i, w.i)
Ways(w, n) ==
    {ByAdvance(w, n), ByPlus(w, n)} \cup (IF n = 1 THEN {Forth(w)} ELSE {}) \cup (IF n = -1 THEN {Back(w)} ELSE {})

-----------------------------------------------------------------------------
(* The program *)

Look(R) == row' = R /\ it' \in Starts(R) /\ mark' = it' /\ UNCHANGED <<received, results>>

\* at throws range_error, and front, back and operator[] are called with a row that is there.
TakeRow == \E j \in DOMAIN results : \E i \in 0 .. size(results[j]) - 1 : Look(operator_index(results[j], i))

TakeSlice == \E b \in 0 .. row_size(row) : \E e \in b .. row_size(row) : Look(slice(row, b, e))

TakeRange == Look(row)

Swap == results' = [j \in 1 .. 2 |-> swap(results[j], results[3 - j])] /\ UNCHANGED <<received, row, it, mark>>
AssignResult == \E j \in 1 .. 2 : results' = [results EXCEPT ![j] = results[3 - j]] /\ UNCHANGED <<received, row, it, mark>>
Clear == \E j \in 1 .. 2 : results' = [results EXCEPT ![j] = clear(@)] /\ UNCHANGED <<received, row, it, mark>>

Move ==
    /\ \E k \in 0 .. Length(it) : \E i \in Ways(it, k - it.k) : it' = [it EXCEPT !.i = i, !.k = k]
    /\ UNCHANGED <<received, results, row, mark>>

\* A copy, from the iterator or back to it.
Copy ==
    /\ \/ mark' = it /\ UNCHANGED it
       \/ it' = mark /\ UNCHANGED mark
    /\ UNCHANGED <<received, results, row>>

\* The row that an iterator of rows stands on.
Dereference == it.i.of = "rows" /\ it.k < Length(it) /\ Look(dereference(it.i))

ResultsInit ==
    /\ \E p \in PGresults(MaxColumns, MaxRows), q \in PGresults(Other, Other) : received = <<p, q>>
    /\ results = [j \in 1 .. 2 |-> [data |-> j, enc |-> received[j].enc]]
    /\ row = Row(empty_result, 0)
    /\ it \in Starts(row) /\ mark = it

ResultsNext == TakeRow \/ TakeSlice \/ TakeRange \/ Swap \/ AssignResult \/ Clear \/ Move \/ Copy \/ Dereference

ResultsSpec == ResultsInit /\ [][ResultsNext]_resultVars

-----------------------------------------------------------------------------
\* A row finds every name that one of its columns has, the first of them, and no
\* other: whatever it was sliced from, and whatever has the same name outside of it.
NamesStayInTheSlice ==
    \A name \in Names :
        LET here == {i \in row.begin .. row.end - 1 : PQfname(row.home, i) = name}
        IN  column_number(row, name) = IF here = {} THEN argument_error ELSE Min(here) - row.begin

\* Whichever way an iterator has gone, forward or in reverse, by steps, += or +, it
\* stands on the element it should, is equal to another just when they are at the same
\* place, and is as far from it as it has gone.  (How reverse iterators of fields
\* compare is left out: rbegin() is not less than rend(), row.hxx:347.)
IteratorsKeepStep ==
    /\ it.k < Length(it) =>
        LET place == IF it.back THEN Length(it) - 1 - it.k ELSE it.k
        IN  dereference(it.i) = IF it.i.of = "rows" THEN operator_index(row.home, place) ELSE field(row, place)
    /\ Equal(it.i, mark.i) <=> it.k = mark.k
    /\ Distance(it, mark) = it.k - mark.k
    /\ (it.back /\ it.i.of = "fields") \/ (Precedes(mark, it) <=> mark.k < it.k)
=============================================================================
