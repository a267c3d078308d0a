----------------------------- MODULE JsonValue -----------------------------
(***************************************************************************)
(* json.hpp: what a program does to values in place (basic_json) and with  *)
(* the iterators on them (iter_impl).  A value that is no container can be *)
(* walked like one of a single element, null like an empty one, and null   *)
(* becomes the container that a call asks for.  Exceptions have the        *)
(* numbers of the code.  A program makes its iterators for the call: none  *)
(* is kept over a change that invalidates it.                              *)
(***************************************************************************)
EXTENDS Json, Folds

CONSTANTS Values,      \* the values of the program
          Elements,    \* what it puts into them
          Keys,        \* and under which keys
          MaxLen       \* bound: elements of a value

VARIABLES v,      \* the values
          last    \* the latest call: what it did, its exception or 0, what it gave

valueVars == <<v, last>>

(***************************************************************************)
(* An iterator is the value it is of and its position there: an index, a   *)
(* key, or, on anything else, the number in primitive_iterator_t.          *)
(***************************************************************************)
End == <<256>>       \* the position after the last key
At(x, at) == [of |-> x, at |-> at]

Type(j) == CHOOSE type \in DOMAIN j : TRUE
Of(j, at) == [type \in {Type(j)} |-> at]    \* the member of internal_iterator that counts
IsContainer(j) == Is(j, "array") \/ Is(j, "object")
keys(o) == {o[k].key : k \in DOMAIN o}
First(ks) == IF ks = {} THEN End ELSE CHOOSE k \in ks : \A l \in ks : ~Less(l, k)
Final(ks) == CHOOSE k \in ks : \A l \in ks : ~Less(k, l)
Member(o, key) == o[CHOOSE k \in DOMAIN o : o[k].key = key].value

empty(j) == j \in {Null, Array(<<>>), Object(<<>>)}
size(j) == CASE Is(j, "array")  -> Len(j.array)
             [] Is(j, "object") -> Len(j.object)
             [] OTHER           -> IF j = Null THEN 0 ELSE 1

set_begin(j) ==
  CASE Is(j, "array")  -> 0
    [] Is(j, "object") -> First(keys(j.object))
    [] OTHER           -> IF j = Null THEN 1 ELSE 0
set_end(j) ==
  CASE Is(j, "array") -> Len(j.array) [] Is(j, "object") -> End [] OTHER -> 1

increment(j, at) ==
  IF Is(j, "object") THEN First({k \in keys(j.object) : Less(at, k)}) ELSE at + 1
decrement(j, at) ==
  IF Is(j, "object") THEN Final({k \in keys(j.object) : Less(k, at)}) ELSE at - 1

\* The positions a program may bring an iterator to: one of anything else can
\* be moved beyond its only element.
Positions(j) ==
  CASE Is(j, "array")  -> 0 .. Len(j.array)
    [] Is(j, "object") -> keys(j.object) \union {End}
    [] OTHER           -> 0 .. 2
IteratorsOf(x) == {At(x, at) : at \in Positions(v[x])}
Reaches(j, from, to) ==
  CASE Is(j, "array") -> from <= to [] Is(j, "object") -> ~Less(to, from) [] OTHER -> TRUE

\* What a call on v[x] is given as a position, and any call as a range.  Of an
\* iterator of the wrong value no call asks where it stands: one stands for all.
BeginOf(y) == At(y, set_begin(v[y]))
PositionsFor(x, y) == IF x = y THEN IteratorsOf(x) ELSE {BeginOf(y)}
Ranges(y, z) ==
  IF y = z THEN {r \in IteratorsOf(y) \X IteratorsOf(y) : Reaches(v[y], r[1].at, r[2].at)}
  ELSE {<<BeginOf(y), BeginOf(z)>>}

dereference(j, at) ==
  CASE Is(j, "array")  -> Good(j.array[at + 1], 0)
    [] Is(j, "object") -> Good(Member(j.object, at), 0)
    [] OTHER           -> IF at = 0 /\ j # Null THEN Good(j, 0) ELSE Fail(214)

\* The elements that a walk from one position to another meets.
Walk(j, from, to) ==
  LET w[at \in Positions(j)] ==
        IF at = to \/ (~IsContainer(j) /\ at > to) THEN <<>>
        ELSE <<dereference(j, at).v>> \o w[increment(j, at)]
  IN  w[from]

(***************************************************************************)
(* a == b, a < b, a - b and a[n] of iterators.                             *)
(***************************************************************************)
equal(a, b) == IF a.of # b.of THEN Fail(212) ELSE Good(a.at = b.at, 0)
less(a, b) ==
  IF a.of # b.of THEN Fail(212) ELSE IF Is(v[a.of], "object") THEN Fail(213) ELSE Good(a.at < b.at, 0)
minus(a, b) == IF Is(v[a.of], "object") THEN Fail(209) ELSE Good(a.at - b.at, 0)
plus(a, n) == IF Is(v[a.of], "object") THEN Fail(209) ELSE Good(a.at + n, 0)
subscript(a, n) ==
  LET j == v[a.of]
  IN  CASE Is(j, "object") -> Fail(208)
        [] Is(j, "array")  -> Good(j.array[a.at + n + 1], 0)
        [] OTHER           -> IF j # Null /\ a.at = -n THEN Good(j, 0) ELSE Fail(214)
key(a) == IF Is(v[a.of], "object") THEN Good(a.at, 0) ELSE Fail(207)

-----------------------------------------------------------------------------
(* What a call leaves of the value it is of: the value, and an exception,  *)
(* or the position it gives back.                                          *)

Did(j, at) == [j |-> j, e |-> 0, at |-> at]
Threw(j, e) == [j |-> j, e |-> e, at |-> End]

Become(j, container) == IF j = Null THEN container ELSE j
AsArray(j) == Become(j, Array(<<>>))
AsObject(j) == Become(j, Object(<<>>))

\* object_t::insert and emplace keep the member that is there.
Insert(o, m) == IF m.key \in keys(o) THEN o ELSE Put(o, m.key, m.value)

push_back(j, val, e) ==
  LET a == AsArray(j)
  IN  IF Is(a, "array") THEN Did(Array(Append(a.array, val)), Len(a.array)) ELSE Threw(j, e)
emplace(j, m, e) ==
  LET o == AsObject(j)
  IN  IF Is(o, "object") THEN Did(Object(Insert(o.object, m)), m.key) ELSE Threw(j, e)

IsMember(j) == Is(j, "array") /\ Len(j.array) = 2 /\ Is(j.array[1], "string")
AsMember(j) == [key |-> j.array[1].string, value |-> j.array[2]]
\* basic_json(init, type_deduction, manual_type)
FromList(init, deduced, manual) ==
  LET object == (\A k \in DOMAIN init : IsMember(init[k])) /\ (deduced \/ manual = "object")
  IN  IF ~deduced /\ manual = "object" /\ ~object THEN Fail(301)
      ELSE Good(IF object THEN Object(FoldLeft(Insert, <<>>, [k \in DOMAIN init |-> AsMember(init[k])]))
                ELSE Array(init), 0)
push_back_list(j, init) ==
  IF Is(j, "object") /\ Len(init) = 2 /\ Is(init[1], "string")
  THEN emplace(j, [key |-> init[1].string, value |-> init[2]], 308)
  ELSE push_back(j, FromList(init, TRUE, "array").v, 308)

\* The elements, or the members, between two iterators.
Between(j, from, to) ==
  CASE Is(j, "array")  -> SubSeq(j.array, from + 1, to)
    [] Is(j, "object") -> SelectSeq(j.object, LAMBDA m : ~Less(m.key, from) /\ Less(m.key, to))
    [] OTHER           -> <<>>
\* basic_json(first, last)
FromRange(first, final) ==
  LET j == v[first.of]
  IN  IF first.of # final.of THEN Fail(201)
      ELSE CASE j = Null          -> Fail(206)
             [] Is(j, "object") -> Good(Object(Between(j, first.at, final.at)), 0)
             [] Is(j, "array")  -> Good(Array(Between(j, first.at, final.at)), 0)
             [] OTHER           -> IF first.at = 0 /\ final.at = 1 THEN Good(j, 0) ELSE Fail(204)

\* Mutant: the position is taken when the elements are in.
insert_iterator_after(j, at, vals) ==
  Did(Array(SubSeq(j.array, 1, at) \o vals \o SubSeq(j.array, at + 1, Len(j.array))), at + Len(vals))

insert_iterator(j, at, vals) ==
  Did(Array(SubSeq(j.array, 1, at) \o vals \o SubSeq(j.array, at + 1, Len(j.array))), at)

insert(x, pos, vals) ==
  IF ~Is(v[x], "array") THEN Threw(v[x], 309)
  ELSE IF pos.of # x THEN Threw(v[x], 202)
  ELSE insert_iterator(v[x], pos.at, vals)
insert_range(x, pos, first, final) ==
  IF ~Is(v[x], "array") THEN Threw(v[x], 309)
  ELSE IF pos.of # x THEN Threw(v[x], 202)
  ELSE IF first.of # final.of THEN Threw(v[x], 210)
  ELSE IF first.of = x THEN Threw(v[x], 211)
  ELSE insert_iterator(v[x], pos.at,    \* array_iterator: only iterators of arrays have one
         IF Is(v[first.of], "array") THEN Between(v[first.of], first.at, final.at) ELSE <<>>)
insert_members(x, first, final) ==
  IF ~Is(v[x], "object") THEN Threw(v[x], 309)
  ELSE IF first.of # final.of THEN Threw(v[x], 210)
  ELSE IF ~Is(v[first.of], "object") THEN Threw(v[x], 202)
  ELSE Did(Object(FoldLeft(Insert, v[x].object, Between(v[first.of], first.at, final.at))), End)

Overwrite(o, ms) == FoldLeft(LAMBDA a, m : Put(a, m.key, m.value), o, ms)
\* The argument may be the value itself, which by then is an object.
update(x, y) ==
  LET o == AsObject(v[x])
      j == IF y = x THEN o ELSE v[y]
  IN  IF Is(o, "object") /\ Is(j, "object") THEN Did(Object(Overwrite(o.object, j.object)), End)
      ELSE Threw(o, 312)
update_range(x, first, final) ==
  LET o == AsObject(v[x])
  IN  IF ~Is(o, "object") THEN Threw(o, 312)
      ELSE IF first.of # final.of THEN Threw(o, 210)
      ELSE IF first.of # x /\ ~Is(v[first.of], "object") THEN Threw(o, 202)
      ELSE Did(Object(Overwrite(o.object, Between(v[first.of], first.at, final.at))), End)

\* Mutant: the value is gone before the position is looked at.
erase_at_once(x, first, final) ==
  LET j == v[x]
  IN  IF first.of = x /\ final.of = x /\ ~IsContainer(j) /\ j # Null
      THEN IF first.at = 0 /\ final.at = 1 THEN Did(Null, 1) ELSE Threw(Null, 204)
      ELSE Threw(j, 203)

\* erase(first, last); erase(pos) asks only for the start of a value that is no
\* container, and has exceptions of its own.
erase(x, first, final) ==
  LET j == v[x]
      rest == Between(j, set_begin(j), first.at) \o Between(j, final.at, set_end(j))
  IN  IF first.of # x \/ final.of # x THEN Threw(j, 203)
      ELSE CASE j = Null          -> Threw(j, 307)
             [] Is(j, "array")  -> Did(Array(rest), first.at)
             [] Is(j, "object") -> Did(Object(rest), final.at)
             [] OTHER           -> IF first.at = 0 /\ final.at = 1 THEN Did(Null, 1) ELSE Threw(j, 204)
erase_one(x, pos) ==
  LET j == v[x]
  IN  IF pos.of # x THEN Threw(j, 202)
      ELSE IF ~IsContainer(j) /\ j # Null /\ pos.at # 0 THEN Threw(j, 205)
      ELSE erase(x, pos, At(x, IF j = Null THEN 1 ELSE increment(j, pos.at)))
erase_key(j, k) ==
  IF Is(j, "object") THEN Did(Object(SelectSeq(j.object, LAMBDA m : m.key # k)), End) ELSE Threw(j, 307)
erase_index(j, i) ==
  IF ~Is(j, "array") THEN Threw(j, 307)
  ELSE IF i >= Len(j.array) THEN Threw(j, 401)
  ELSE Did(Array(RemoveAt(j.array, i + 1)), i)

clear(j) ==
  CASE Is(j, "array")   -> Array(<<>>)
    [] Is(j, "object")  -> Object(<<>>)
    [] Is(j, "string")  -> String(<<>>)
    [] Is(j, "boolean") -> Boolean(FALSE)
    [] j = Null         -> Null
    [] OTHER            -> [type \in {Type(j)} |-> 0]    \* a number

\* v[i] = val and v[k] = val: reads that make room for what they refer to.
put_index(j, i, val) ==
  LET a == AsArray(j)
      filled == a.array \o [k \in 1 .. i - Len(a.array) + 1 |-> Null]
  IN  IF Is(a, "array") THEN Did(Array([filled EXCEPT ![i + 1] = val]), i) ELSE Threw(j, 305)
put_key(j, k, val) ==
  LET o == AsObject(j)
  IN  IF Is(o, "object") THEN Did(Object(Put(o.object, k, val)), k) ELSE Threw(j, 305)

at_index(j, i) ==
  IF ~Is(j, "array") THEN Fail(304) ELSE IF i >= Len(j.array) THEN Fail(401) ELSE Good(j.array[i + 1], 0)
at_key(j, k) ==
  IF ~Is(j, "object") THEN Fail(304)
  ELSE IF k \notin keys(j.object) THEN Fail(403) ELSE Good(Member(j.object, k), 0)
find(j, k) == IF Is(j, "object") /\ k \in keys(j.object) THEN k ELSE set_end(j)
contains(j, k) == Is(j, "object") /\ find(j, k) # End
value(j, k, default) ==
  IF ~Is(j, "object") THEN Fail(306)
  ELSE Good(IF find(j, k) # set_end(j) THEN Member(j.object, k) ELSE default, 0)
front(j) == dereference(j, set_begin(j))
back(j) == dereference(j, decrement(j, set_end(j)))

-----------------------------------------------------------------------------
(* The calls *)

\* Bounds: how many elements, and that only one is itself a container, alone.
Fits(j) ==
  CASE Is(j, "array")  -> /\ Len(j.array) <= MaxLen
                          /\ \/ ToSet(j.array) \subseteq Elements \union {Null}
                             \/ Len(j.array) = 1 /\ empty(j.array[1])
    [] Is(j, "object") -> /\ Len(j.object) <= MaxLen
                          /\ \A k \in DOMAIN j.object : j.object[k].value \in Elements
    [] OTHER           -> TRUE

Quiet == [does |-> "other", e |-> 0]
Refused(e) == [does |-> "other", e |-> e]

Holds(x, j) == Fits(j) /\ v' = [v EXCEPT ![x] = j]

\* A call that may throw leaves what it has of the value by then.
Change(x, did) == Holds(x, did.j) /\ last' = Refused(did.e)
\* One that puts elements in the place of others of an array or an object, and
\* gives the position it goes on from.
Splice(x, did, from, to, put) ==
  /\ Holds(x, did.j)
  /\ last' = IF did.e # 0 THEN Refused(did.e)
             ELSE [does |-> "splice", e |-> 0, x |-> x, put |-> put,
                   from |-> Of(v[x], from), to |-> Of(v[x], to), at |-> Of(did.j, did.at)]
\* One that makes a value: the value that is assigned to stays if that throws.
Make(x, made) == Change(x, IF made.ok THEN Did(made.v, End) ELSE Threw(v[x], made.v))
\* One that only looks.
Look(r) == UNCHANGED v /\ last' = Refused(IF r.ok THEN 0 ELSE r.v)

ValueInit ==
  /\ v = [x \in Values |-> Null]
  /\ last = Quiet

Assign(x) ==
  \/ \E j \in Elements \union Range(v) : Make(x, Good(j, 0))
  \/ \E y \in Values \ {x} : v' = [v EXCEPT ![x] = v[y], ![y] = Null] /\ last' = Quiet    \* std::move
  \/ \E n \in 0 .. MaxLen, j \in Elements : Make(x, Good(Array([k \in 1 .. n |-> j]), 0))
  \/ \E y, z \in Values : \E r \in Ranges(y, z) : Make(x, FromRange(r[1], r[2]))
Lists == {<<>>} \union {<<j, k>> : j, k \in Elements}
           \union {<<Array(<<String(k), j>>)>> : k \in Keys, j \in Elements}
AssignList(x) ==
  \E init \in Lists, deduced \in BOOLEAN, manual \in {"array", "object"} :
    Make(x, FromList(init, deduced, manual))

PushBack(x) ==
  \/ \E val \in Elements, e \in {308, 311} :      \* push_back, emplace_back
       Splice(x, push_back(v[x], val, e), set_end(v[x]), set_end(v[x]), <<val>>)
  \/ \E y \in Values \ {x} :
       Splice(x, push_back(v[x], v[y], 308), set_end(v[x]), set_end(v[x]), <<v[y]>>)
  \/ \E init \in Lists : Change(x, push_back_list(v[x], init))
\* push_back(std::move(v[y])): the other value is moved from after the check.
PushBackMoved(x) ==
  \E y \in Values \ {x} :
    LET did == push_back(v[x], v[y], 308)
    IN  /\ Fits(did.j)
        /\ v' = [v EXCEPT ![x] = did.j, ![y] = IF did.e = 0 THEN Null ELSE @]
        /\ last' = Refused(did.e)
\* push_back(v[x]) of the value itself: null is an array by then.
PushBackItself(x) == Change(x, push_back(v[x], AsArray(v[x]), 308))

Emplace(x) ==
  \E k \in Keys, val \in Elements, e \in {308, 311} :
    LET old == AsObject(v[x])
        there == Is(old, "object") /\ k \in keys(old.object)
        from == IF v[x] = Null THEN 1
                ELSE IF there \/ ~Is(old, "object") THEN k
                ELSE First({l \in keys(old.object) : Less(k, l)})
    IN  Splice(x, emplace(v[x], [key |-> k, value |-> val], e), from, from,
               IF there THEN <<>> ELSE <<val>>)

InsertBefore(x) ==
  \E y \in Values, val \in Elements, n \in 0 .. 2 : \E pos \in PositionsFor(x, y) :
    LET vals == [k \in 1 .. n |-> val] IN Splice(x, insert(x, pos, vals), pos.at, pos.at, vals)
InsertRange(x) ==
  \E y, z \in Values : \E r \in Ranges(y, z) :
    \/ LET j == v[r[1].of]
           vals == IF Is(j, "array") THEN Between(j, r[1].at, r[2].at) ELSE <<>>
       IN  \E u \in Values : \E pos \in PositionsFor(x, u) :
             Splice(x, insert_range(x, pos, r[1], r[2]), pos.at, pos.at, vals)
    \/ Change(x, insert_members(x, r[1], r[2]))
Update(x) ==
  \/ \E y \in Values : \E did \in {update(x, y)} :
       /\ Holds(x, did.j)
       /\ last' = [does |-> "update", e |-> did.e]
  \/ \E y, z \in Values : \E r \in Ranges(y, z) : \E did \in {update_range(x, r[1], r[2])} :
       /\ Holds(x, did.j)
       /\ last' = [does |-> "update", e |-> did.e]

Erase(x) ==
  \/ \E y \in Values : \E pos \in PositionsFor(x, y) :
       /\ pos.of = x /\ IsContainer(v[x]) => pos.at # set_end(v[x])
       /\ Splice(x, erase_one(x, pos), pos.at,
                 IF IsContainer(v[x]) THEN increment(v[x], pos.at) ELSE 1, <<>>)
  \/ \E y, z \in Values : \E r \in Ranges(y, z) : Splice(x, erase(x, r[1], r[2]), r[1].at, r[2].at, <<>>)
  \/ \E k \in Keys : Change(x, erase_key(v[x], k))
  \/ \E i \in 0 .. MaxLen : Change(x, erase_index(v[x], i))
Clear(x) == Holds(x, clear(v[x])) /\ last' = Quiet

Write(x) ==
  \/ \E i \in 0 .. MaxLen, val \in Elements :
       \/ Change(x, put_index(v[x], i, val))
       \/ Change(x, IF at_index(v[x], i).ok THEN put_index(v[x], i, val)
                    ELSE Threw(v[x], at_index(v[x], i).v))
  \/ \E k \in Keys, val \in Elements :
       \/ Change(x, put_key(v[x], k, val))
       \/ Change(x, IF at_key(v[x], k).ok THEN put_key(v[x], k, val)
                    ELSE Threw(v[x], at_key(v[x], k).v))

\* swap(other), and swap with a container or a string, here that of v[y].
Swap(x) ==
  \E y \in Values :
    \/ v' = [v EXCEPT ![x] = v[y], ![y] = v[x]] /\ last' = Quiet
    \/ /\ Type(v[y]) \in {"array", "object", "string"}
       /\ IF Is(v[x], Type(v[y])) THEN v' = [v EXCEPT ![x] = v[y], ![y] = v[x]] /\ last' = Quiet
          ELSE UNCHANGED v /\ last' = Refused(310)

Read(x) ==
  \/ \E k \in Keys, default \in Elements : Look(value(v[x], k, default))
  \/ \E k \in Keys : Look(Good(contains(v[x], k), 0))
  \/ (IsContainer(v[x]) => ~empty(v[x])) /\ (Look(front(v[x])) \/ Look(back(v[x])))
  \/ \E y \in Values : \E a \in IteratorsOf(x), b \in PositionsFor(x, y) :
       Look(equal(a, b)) \/ Look(less(a, b)) \/ (a.of = b.of /\ Look(minus(a, b)))
  \/ \E a \in IteratorsOf(x), n \in -1 .. 1 :
       \/ (Is(v[x], "object") => a.at # End) /\ Look(key(a))
       \/ /\ Is(v[x], "array") => a.at + n \in 0 .. size(v[x]) - 1
          /\ Look(plus(a, n)) \/ Look(subscript(a, n))

ValueNext ==
  \E x \in Values :
    \/ Assign(x) \/ AssignList(x) \/ PushBack(x) \/ PushBackMoved(x) \/ PushBackItself(x)
    \/ Emplace(x) \/ InsertBefore(x) \/ InsertRange(x) \/ Update(x) \/ Erase(x) \/ Clear(x)
    \/ Write(x) \/ Swap(x) \/ Read(x)

ValueSpec == ValueInit /\ [][ValueNext]_valueVars

-----------------------------------------------------------------------------
(***************************************************************************)
(* The position that insert, emplace and erase give back, and the one of   *)
(* what push_back appends, is where the change was: what comes before it   *)
(* is what came before, and from it on come the new elements and then      *)
(* those that followed, also if null has become a container, or another    *)
(* value null, on the way (json.hpp:16443-16604, 17576-18047).             *)
(***************************************************************************)
FollowsOn ==
  [][last'.does = "splice" =>
       LET old == v[last'.x]
           new == v'[last'.x]
           at  == last'.at[Type(new)]
       IN  /\ Walk(new, set_begin(new), at) = Walk(old, set_begin(old), last'.from[Type(old)])
           /\ Walk(new, at, set_end(new))
                = last'.put \o Walk(old, last'.to[Type(old)], set_end(old))]_valueVars

(***************************************************************************)
(* A call that throws leaves every value as it was, those it was to move   *)
(* from as well; all but update(), which has made an object of null before *)
(* it looks at its arguments (json.hpp:18118-18132, 18169-18192).          *)
(***************************************************************************)
ThrowsChangeNothing == [][last'.e # 0 /\ last'.does # "update" => v' = v]_valueVars
=============================================================================
