------------------------------- MODULE Json -------------------------------
(***************************************************************************)
(* The values of json.hpp (basic_json) that its readers build and its      *)
(* writers walk.  A value is a record with one field, named after its      *)
(* value_t; a string is the sequence of its bytes; an object is std::map:  *)
(* the sequence of its members in the order of their keys.  A float is a   *)
(* number that stands for one of the doubles; nan_or_inf for those that    *)
(* JSON cannot write.                                                      *)
(***************************************************************************)
EXTENDS Readers, Integers, Sequences, SequencesExt

Null        == [null |-> 0]
Boolean(b)  == [boolean |-> b]
Integer(n)  == [number_integer |-> n]
Unsigned(n) == [number_unsigned |-> n]
Float(f)    == [number_float |-> f]
String(s)   == [string |-> s]
Array(a)    == [array |-> a]
Object(o)   == [object |-> o]
Discarded   == [discarded |-> 0]

Is(j, type) == type \in DOMAIN j

(* std::less on std::string: the first byte that differs decides, and a    *)
(* string comes before those it starts.                                    *)
Less(a, b) ==
  LET diff == {i \in DOMAIN a \intersect DOMAIN b : a[i] # b[i]}
      first == CHOOSE i \in diff : \A k \in diff : i <= k
  IN  IF diff = {} THEN Len(a) < Len(b) ELSE a[first] < b[first]

(* object->operator[](key) = value: the member of that key, new or not.    *)
Put(o, key, value) ==
  SelectSeq(o, LAMBDA m : Less(m.key, key))
    \o <<[key |-> key, value |-> value]>>
    \o SelectSeq(o, LAMBDA m : Less(key, m.key))
=============================================================================
