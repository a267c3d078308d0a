----------------------------- MODULE JsonPatch -----------------------------
(***************************************************************************)
(* json.hpp, json_pointer and what is built on it: patch and diff,         *)
(* merge_patch, flatten and unflatten.  A pointer is the sequence of its   *)
(* reference tokens.  A reference into a value is a pointer that has been  *)
(* followed; to assign to it is to make the value again with that place    *)
(* changed.  An operation of a patch is a record of the members it has.    *)
(***************************************************************************)
EXTENDS JsonText

Slash == \h2F
Tilde == \h7E
DashToken == <<\h2D>>
ZeroToken == <<\h30>>
\* std::stoi and assert end otherwise than by an exception of json.hpp
invalid_argument == Fail(1)
assertion        == Fail(2)

(***************************************************************************)
(* json_pointer: its text.                                                 *)
(***************************************************************************)
RECURSIVE replace_substring(_, _, _)
replace_substring(s, f, t) ==
  CASE s = <<>>       -> <<>>
    [] IsPrefix(f, s) -> t \o replace_substring(SubSeq(s, Len(f) + 1, Len(s)), f, t)
    [] OTHER          -> <<s[1]>> \o replace_substring(Tail(s), f, t)
escape(s)   == replace_substring(replace_substring(s, <<Tilde>>, <<Tilde, \h30>>), <<Slash>>, <<Tilde, \h31>>)
unescape(s) == replace_substring(replace_substring(s, <<Tilde, \h31>>, <<Slash>>), <<Tilde, \h30>>, <<Tilde>>)

pointer_text(ptr) == FoldLeft(LAMBDA text, token : Append(text, Slash) \o escape(token), <<>>, ptr)
properly_escaped(token) ==
  \A k \in DOMAIN token : token[k] = Tilde => At(token, k + 1) \in {\h30, \h31}
split(text) ==
  LET raw == FoldLeft(LAMBDA ts, c : IF c = Slash THEN Append(ts, <<>>) ELSE [ts EXCEPT ![Len(ts)] = Append(@, c)],
                      <<>>, text)
  IN  CASE text = <<>>       -> Good(<<>>, 0)
        [] text # <<>> /\ text[1] # Slash -> Fail(107)
        [] text # <<>> /\ text[1] = Slash ->
             IF \A k \in DOMAIN raw : properly_escaped(raw[k])
             THEN Good([k \in DOMAIN raw |-> unescape(raw[k])], 0) ELSE Fail(108)

(***************************************************************************)
(* Members and elements.  array_index: stoi stops at what is not a digit   *)
(* and takes nothing else for a number; signs and blanks are left out.     *)
(***************************************************************************)
AllDigits(token) == \A k \in DOMAIN token : IsDigit(token[k])
array_index(token) ==
  CASE token = <<>> \/ ~IsDigit(token[1]) -> invalid_argument
    [] token # <<>> /\ AllDigits(token)   -> Good(decimal(token), 0)
    [] OTHER                              -> Fail(404)

find(o, key) == SelectSeq(o, LAMBDA m : m.key = key)
erase_key(j, key) == Object(SelectSeq(j.object, LAMBDA m : m.key # key))
erase_index(j, idx) == IF idx >= Len(j.array) THEN Fail(401) ELSE Good(Array(RemoveAt(j.array, idx + 1)), 0)
insert(j, idx, val) == Array(InsertAt(j.array, idx + 1, val))
\* operator[](idx) = val and operator[](key) = val
set_index(j, idx, val) ==
  Array([k \in 1 .. Max({Len(j.array), idx + 1}) |->
           IF k = idx + 1 THEN val ELSE IF k \in DOMAIN j.array THEN j.array[k] ELSE Null])
set_key(j, key, val) == Object(Put(j.object, key, val))

(***************************************************************************)
(* json_pointer::get_checked: the value that is pointed to.                *)
(***************************************************************************)
\* the index of an existing or a new element; 109 where stoi was caught
index_of(token) ==
  LET idx == array_index(token)
  IN  IF Len(token) > 1 /\ token[1] = \h30 THEN Fail(106) ELSE IF idx = invalid_argument THEN Fail(109) ELSE idx
at(j, token) ==
  CASE Is(j, "object") ->
         LET found == find(j.object, token) IN IF found = <<>> THEN Fail(403) ELSE Good(found[1].value, 0)
    [] Is(j, "array")  ->
         IF token = DashToken THEN Fail(402)
         ELSE Bind(index_of(token), LAMBDA idx, k :
                IF idx >= Len(j.array) THEN Fail(401) ELSE Good(j.array[idx + 1], 0))
    [] OTHER -> Fail(404)
RECURSIVE get_checked(_, _)
get_checked(j, ptr) ==
  IF ptr = <<>> THEN Good(j, 0) ELSE Bind(at(j, ptr[1]), LAMBDA v, k : get_checked(v, Tail(ptr)))
\* what a place holds, or will hold once it is there
Held(j, ptr) == LET v == get_checked(j, ptr) IN IF v.ok THEN v.v ELSE Null

(***************************************************************************)
(* json_pointer::get_unchecked and get_and_create: val assigned to the     *)
(* place that is pointed to, which is made on the way if need be.          *)
(***************************************************************************)
Made(token, unflattening) ==
  IF (IF unflattening THEN token = ZeroToken ELSE AllDigits(token) \/ token = DashToken) THEN Array(<<>>) ELSE Object(<<>>)
new_index(j, token, unflattening) ==
  CASE unflattening  -> IF array_index(token) = invalid_argument THEN Fail(109) ELSE array_index(token)
    [] ~unflattening -> IF token = DashToken THEN Good(Len(j.array), 0) ELSE index_of(token)
RECURSIVE assign(_, _, _, _)
assign(j, ptr, val, unflattening) ==
  LET token == ptr[1]
      here  == IF Is(j, "null") THEN Made(token, unflattening) ELSE j
      below(v) == assign(v, Tail(ptr), val, unflattening)
  IN  CASE ptr = <<>> -> Good(val, 0)
        [] ptr # <<>> /\ Is(here, "object") ->
             Map(below(Held(here, <<token>>)), LAMBDA v : set_key(here, token, v))
        [] ptr # <<>> /\ Is(here, "array") ->
             Bind(new_index(here, token, unflattening), LAMBDA idx, k :
               Map(below(IF idx < Len(here.array) THEN here.array[idx + 1] ELSE Null),
                   LAMBDA v : set_index(here, idx, v)))
        [] OTHER -> Fail(IF unflattening THEN 313 ELSE 404)
get_unchecked(j, ptr, val)  == assign(j, ptr, val, FALSE)
get_and_create(j, ptr, val) == assign(j, ptr, val, TRUE)

(***************************************************************************)
(* flatten and unflatten.                                                  *)
(***************************************************************************)
RECURSIVE flat_members(_, _)
flat_members(text, value) ==
  CASE Is(value, "array") /\ value.array # <<>> ->
         FlattenSeq([k \in DOMAIN value.array |->
           flat_members(Append(text, Slash) \o dump_integer(k - 1), value.array[k])])
    [] Is(value, "object") /\ value.object # <<>> ->
         FlattenSeq([k \in DOMAIN value.object |->
           flat_members(Append(text, Slash) \o escape(value.object[k].key), value.object[k].value)])
    [] OTHER -> <<[key |-> text, value |-> IF Is(value, "array") \/ Is(value, "object") THEN Null ELSE value]>>
flatten(value) == Object(FoldLeft(LAMBDA o, m : Put(o, m.key, m.value), <<>>, flat_members(<<>>, value)))

unflatten(value) ==
  IF ~Is(value, "object") THEN Fail(314)
  ELSE FoldLeft(LAMBDA r, m : Bind(r, LAMBDA result, k :
                  IF Is(m.value, "array") \/ Is(m.value, "object") THEN Fail(315)
                  ELSE Bind(split(m.key), LAMBDA ptr, l : get_and_create(result, ptr, m.value))),
                Good(Null, 0), value.object)

(***************************************************************************)
(* operator==: an unsigned number is cast to a signed one, and both to a   *)
(* double, before they are compared.                                       *)
(***************************************************************************)
AsSigned(n) == IF n > Smax(8) THEN n - (Umax(8) + 1) ELSE n
RECURSIVE Equal(_, _)
Equal(lhs, rhs) ==
  CASE Is(lhs, "array") /\ Is(rhs, "array") ->
         Len(lhs.array) = Len(rhs.array) /\ \A k \in DOMAIN lhs.array : Equal(lhs.array[k], rhs.array[k])
    [] Is(lhs, "object") /\ Is(rhs, "object") ->
         /\ Len(lhs.object) = Len(rhs.object)
         /\ \A k \in DOMAIN lhs.object : lhs.object[k].key = rhs.object[k].key
                                           /\ Equal(lhs.object[k].value, rhs.object[k].value)
    [] Is(lhs, "number_unsigned") /\ Is(rhs, "number_integer") -> AsSigned(lhs.number_unsigned) = rhs.number_integer
    [] Is(lhs, "number_integer") /\ Is(rhs, "number_unsigned") -> lhs.number_integer = AsSigned(rhs.number_unsigned)
    [] Is(lhs, "number_float") /\ DOMAIN rhs \subseteq {"number_integer", "number_unsigned"} ->
         \E t \in DOMAIN rhs : lhs.number_float = rhs[t]
    [] Is(rhs, "number_float") /\ DOMAIN lhs \subseteq {"number_integer", "number_unsigned"} ->
         \E t \in DOMAIN lhs : lhs[t] = rhs.number_float
    [] OTHER -> DOMAIN lhs = DOMAIN rhs /\ lhs = rhs

(***************************************************************************)
(* patch.                                                                  *)
(***************************************************************************)
add_child(parent, last_path, val) ==
  CASE Is(parent, "null")   -> Good(set_key(Object(<<>>), last_path, val), 0)
    [] Is(parent, "object") -> Good(set_key(parent, last_path, val), 0)
    [] Is(parent, "array")  ->
         IF last_path = DashToken THEN Good(Array(Append(parent.array, val)), 0)
         ELSE Bind(array_index(last_path), LAMBDA idx, k :
                IF idx > Len(parent.array) THEN Fail(401) ELSE Good(insert(parent, idx, val), 0))
    [] OTHER -> assertion
operation_add(result, ptr, val) ==
  LET up == Front(ptr)
  IN  IF ptr = <<>> THEN Good(val, 0)
      ELSE Bind(IF Len(ptr) > 1 THEN at(result, ptr[1]) ELSE Good(result, 0), LAMBDA top, k :
             Bind(add_child(Held(result, up), Last(ptr), val), LAMBDA parent, l :
               get_unchecked(result, up, parent)))

remove_child(parent, last_path) ==
  CASE Is(parent, "object") ->
         IF find(parent.object, last_path) = <<>> THEN Fail(403) ELSE Good(erase_key(parent, last_path), 0)
    [] Is(parent, "array")  -> Bind(array_index(last_path), LAMBDA idx, k : erase_index(parent, idx))
    [] OTHER -> Good(parent, 0)
operation_remove(result, ptr) ==
  IF ptr = <<>> THEN Fail(405)
  ELSE Bind(get_checked(result, Front(ptr)), LAMBDA parent, k :
         Bind(remove_child(parent, Last(ptr)), LAMBDA rest, l : get_unchecked(result, Front(ptr), rest)))

out_of_range == {401, 402, 403, 404, 405}
get_value(val, member, F(_)) == IF member \in DOMAIN val THEN F(val[member]) ELSE Fail(105)
get_pointer(val, member, F(_)) ==
  get_value(val, member, LAMBDA text : Bind(split(text), LAMBDA ptr, k : F(ptr)))
operation(result, val, ptr) ==
  CASE val.op = "add"     -> get_value(val, "value", LAMBDA v : operation_add(result, ptr, v))
    [] val.op = "remove"  -> operation_remove(result, ptr)
    [] val.op = "replace" ->
         Bind(get_checked(result, ptr), LAMBDA old, k :
           get_value(val, "value", LAMBDA v : get_unchecked(result, ptr, v)))
    [] val.op = "move"    -> get_pointer(val, "from", LAMBDA from_ptr :
         Bind(get_checked(result, from_ptr), LAMBDA v, k :
           Bind(operation_remove(result, from_ptr), LAMBDA rest, l : operation_add(rest, ptr, v))))
    [] val.op = "copy"    -> get_pointer(val, "from", LAMBDA from_ptr :
         Bind(get_checked(result, from_ptr), LAMBDA v, k : operation_add(result, ptr, v)))
    [] val.op = "test"    ->
         LET there == get_checked(result, ptr)
         IN  IF ~there.ok /\ there.v \notin out_of_range THEN there
             ELSE get_value(val, "value", LAMBDA v :
                    IF there.ok /\ Equal(there.v, v) THEN Good(result, 0) ELSE Fail(501))
    [] OTHER -> Fail(105)
patch(j, json_patch) ==
  FoldLeft(LAMBDA r, val : Bind(r, LAMBDA result, k :
             get_pointer(val, "path", LAMBDA ptr : operation(result, val, ptr))),
           Good(j, 0), json_patch)

(***************************************************************************)
(* diff.                                                                   *)
(***************************************************************************)
ReplaceOp(path, val) == [op |-> "replace", path |-> path, value |-> val]
AddOp(path, val)     == [op |-> "add", path |-> path, value |-> val]
RemoveOp(path)       == [op |-> "remove", path |-> path]
At_index(path, k)  == Append(path, Slash) \o dump_integer(k - 1)
At_key(path, m)    == Append(path, Slash) \o escape(m.key)

RECURSIVE diff(_, _, _)
diff_arrays(s, t, path) ==
  LET common == Min({Len(s), Len(t)})
  IN  FlattenSeq([k \in 1 .. common |-> diff(s[k], t[k], At_index(path, k))])
        \o Reverse([k \in 1 .. Len(s) - common |-> RemoveOp(At_index(path, common + k))])
        \o [k \in 1 .. Len(t) - common |-> AddOp(At_index(path, common + k), t[common + k])]
diff_objects(s, t, path) ==
  LET added == SelectSeq(t, LAMBDA m : find(s, m.key) = <<>>)
  IN  FlattenSeq([k \in DOMAIN s |->
        LET other == find(t, s[k].key)
        IN  IF other = <<>> THEN <<RemoveOp(At_key(path, s[k]))>>
            ELSE diff(s[k].value, other[1].value, At_key(path, s[k]))])
        \o [k \in DOMAIN added |-> AddOp(At_key(path, added[k]), added[k].value)]
diff(source, target, path) ==
  CASE Equal(source, target) -> <<>>
    [] ~Equal(source, target) /\ Is(source, "array") /\ Is(target, "array") ->
         diff_arrays(source.array, target.array, path)
    [] ~Equal(source, target) /\ Is(source, "object") /\ Is(target, "object") ->
         diff_objects(source.object, target.object, path)
    [] OTHER -> <<ReplaceOp(path, target)>>

(***************************************************************************)
(* merge_patch; and the merge patch that makes target of source as RFC     *)
(* 7396 has it, which whoever calls merge_patch has worked out (external). *)
(***************************************************************************)
RECURSIVE merge_patch(_, _)
merge_patch(j, apply_patch) ==
  IF ~Is(apply_patch, "object") THEN apply_patch
  ELSE FoldLeft(LAMBDA o, m : IF Is(m.value, "null") THEN erase_key(o, m.key)
                              ELSE set_key(o, m.key, merge_patch(Held(o, <<m.key>>), m.value)),
                IF Is(j, "object") THEN j ELSE Object(<<>>), apply_patch.object)

RECURSIVE merge_of(_, _)
merge_of(source, target) ==
  LET s == IF Is(source, "object") THEN source.object ELSE <<>>
      t == target.object
      gone    == SelectSeq(s, LAMBDA m : find(t, m.key) = <<>>)
      changed == SelectSeq(t, LAMBDA m : find(s, m.key) = <<>> \/ find(s, m.key)[1] # m)
  IN  IF ~Is(target, "object") THEN target
      ELSE Object(FoldLeft(LAMBDA o, m : Put(o, m.key, merge_of(Held(Object(s), <<m.key>>), m.value)),
                           FoldLeft(LAMBDA o, m : Put(o, m.key, Null), <<>>, gone), changed))

(***************************************************************************)
(* The formats of a change, or of a value taken apart.                     *)
(***************************************************************************)
Change(source, target) == [change |-> [source |-> source, target |-> target]]
ChangeFormats == {"patch", "merge"}
PatchFormats  == ChangeFormats \cup {"flat", "pointer"}
PatchWritten(f, j) ==
  CASE f = "patch"   -> diff(j.change.source, j.change.target, <<>>)
    [] f = "merge"   -> merge_of(j.change.source, j.change.target)
    [] f = "flat"    -> flatten(j)
    [] f = "pointer" -> pointer_text(j.pointer)
PatchReadAs(f, j, in) ==
  CASE f = "patch"   -> patch(j.change.source, in)
    [] f = "merge"   -> Good(merge_patch(j.change.source, in), 0)
    [] f = "flat"    -> unflatten(in)
    [] f = "pointer" -> Map(split(in), LAMBDA ptr : [pointer |-> ptr])
=============================================================================
