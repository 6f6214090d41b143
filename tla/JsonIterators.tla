---------------------------- MODULE JsonIterators ----------------------------
(***************************************************************************)
(* The iterators of json.hpp, and what works by them.  An iterator of the  *)
(* value v is its position i: how many elements of v come before it.  The  *)
(* iterator of a primitive value is a number that happens to be 0 at the   *)
(* value and 1 behind it; null has nothing to be at.  To be of another     *)
(* value, which every operation tests for, is left out; where an assertion *)
(* says that an iterator must not be at the end, an operator Throws.       *)
(***************************************************************************)
EXTENDS JsonPatch

\* What the vector or the map of v holds, and under which keys.
MapKeys(v) == InOrder(DOMAIN v.object)
Held(v) ==
  IF v.type = "array" THEN v.array
  ELSE [i \in DOMAIN MapKeys(v) |-> v.object[MapKeys(v)[i]]]

size(v) ==
  CASE v.type = "null" -> 0
    [] ~is_primitive(v) -> Len(Held(v))
    [] OTHER -> 1

empty(v) ==
  CASE v.type = "null" -> TRUE
    [] ~is_primitive(v) -> Held(v) = <<>>
    [] OTHER -> FALSE

BeginOfAny(v) == 0
set_begin(v) == IF v.type = "null" THEN 1 ELSE 0
set_end(v) == IF is_primitive(v) THEN 1 ELSE Len(Held(v))

-----------------------------------------------------------------------------
(* const_iterator *)

ElementAt(v, i) == IF i + 1 \in DOMAIN Held(v) THEN Returns(Held(v)[i + 1]) ELSE Throws
WholeIf(v, here) == IF here /\ v.type # "null" THEN Returns(v) ELSE Throws
Dereferenced(v, i) == IF is_primitive(v) THEN WholeIf(v, i = 0) ELSE ElementAt(v, i)

\* operator-> does not look whether a primitive value is null.
Arrow(v, i) ==
  IF ~is_primitive(v) THEN ElementAt(v, i) ELSE IF i = 0 THEN Returns(v) ELSE Throws

\* operator++ and operator-- go to any element, operator+= not within objects.
Increment(v, i) == i + 1
Decrement(v, i) == i - 1
Offset(v, x) == IF v.type = "object" THEN Throws ELSE Returns(x)
Plus(v, i, n) == Offset(v, i + n)
Minus(v, i, j) == Offset(v, i - j)
LessThan(v, i, j) == Offset(v, i < j)
Successor(v, i, n) ==
  CASE v.type = "object" -> Throws
    [] v.type = "array" -> ElementAt(v, i + n)
    [] OTHER -> WholeIf(v, i = -n)

KeyAt(v, i) ==
  IF v.type = "object" /\ i + 1 \in DOMAIN Held(v) THEN Returns(MapKeys(v)[i + 1]) ELSE Throws

\* A reverse iterator is at what comes before its base.
ReverseDereferenced(v, base) == Dereferenced(v, Decrement(v, base))
ReverseKey(v, base) == KeyAt(v, Decrement(v, base))
ReversePlus(v, base, n) == Plus(v, base, -n)

\* iterator_wrapper counts the steps from begin, to name an array's elements.
WrappedKey(v, i, array_index) ==
  CASE v.type = "array" -> Decimal(array_index)
    [] v.type = "object" -> MapKeys(v)[i + 1]
    [] OTHER -> <<>>

-----------------------------------------------------------------------------
(* Lookup *)

front(v) == Dereferenced(v, set_begin(v))
back(v) == Dereferenced(v, Decrement(v, set_end(v)))

HasKey(v, k) == v.type = "object" /\ k \in DOMAIN v.object
find(v, k) ==
  IF HasKey(v, k) THEN (CHOOSE i \in DOMAIN MapKeys(v) : MapKeys(v)[i] = k) - 1 ELSE set_end(v)
count(v, k) == IF HasKey(v, k) THEN 1 ELSE 0
AtOfKey(v, k) == IF HasKey(v, k) THEN Returns(v.object[k]) ELSE Throws
AtOfIndex(v, n) == IF v.type = "array" THEN ElementAt(v, n) ELSE Throws
value(v, k, default_value) ==
  CASE v.type # "object" -> Throws
    [] v.type = "object" /\ find(v, k) # set_end(v) -> Dereferenced(v, find(v, k))
    [] OTHER -> Returns(default_value)

-----------------------------------------------------------------------------
(* Changes.  What the value becomes, and the iterator that is returned. *)

Left(v, i) == [value |-> v, next |-> i]

\* Without the elements from position first to before last.
Without(v, first, last) ==
  IF v.type = "array"
  THEN Array(SubSeq(v.array, 1, first) \o SubSeq(v.array, last + 1, Len(v.array)))
  ELSE Object([k \in DOMAIN v.object \ {MapKeys(v)[i] : i \in first + 1 .. last} |-> v.object[k]])

\* A primitive value becomes null; the iterator that is returned was its end.
erase(v, pos) ==
  CASE v.type = "null" -> Throws
    [] ~is_primitive(v) -> Returns(Left(Without(v, pos, pos + 1), pos))
    [] OTHER -> IF pos = 0 THEN Returns(Left(Null, set_end(v))) ELSE Throws
EraseFromTo(v, first, last) ==
  CASE v.type = "null" -> Throws
    [] ~is_primitive(v) -> Returns(Left(Without(v, first, last), first))
    [] OTHER -> IF first = 0 /\ last = 1 THEN Returns(Left(Null, set_end(v))) ELSE Throws

InsertBefore(v, pos, val) ==
  IF v.type = "array" THEN Returns(Left(Array(insert(v.array, pos, val)), pos)) ELSE Throws

\* The value constructed from the elements between two iterators of v.
FromRange(v, first, last) ==
  CASE v.type = "null" -> Throws
    [] v.type = "array" -> Returns(Array(SubSeq(v.array, first + 1, last)))
    [] v.type = "object" ->
         Returns(Object([k \in {MapKeys(v)[i] : i \in first + 1 .. last} |-> v.object[k]]))
    [] OTHER -> WholeIf(v, first = 0 /\ last = 1)
=============================================================================
