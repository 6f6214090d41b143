------------------------------ MODULE JsonTrees ------------------------------
(***************************************************************************)
(* What json.hpp promises of patches, pointers and flattened values, on    *)
(* all pairs of values up to a size.                                       *)
(***************************************************************************)
EXTENDS JsonIterators, FiniteSets

CONSTANTS Keys,       \* the keys of objects
          MaxSource,  \* values in the one tree, and
          MaxTarget   \* in the other: bounds

VARIABLES source, target

Primitives == {Null, NumberOf("number_unsigned", 1)}
\* Those that operator== and operator< cast to compare them with it.
SignedNumbers == {NumberOf("number_integer", -1), NumberOf("number_integer", 1)}

RECURSIVE Size(_)
Size(v) ==
  CASE v.type = "array" -> 1 + FoldSeq(LAMBDA w, n : Size(w) + n, 0, v.array)
    [] v.type = "object" ->
         1 + FoldSeq(LAMBDA k, n : Size(v.object[k]) + n, 0, InOrder(DOMAIN v.object))
    [] OTHER -> 1

\* What v can become by one change.
RECURSIVE Grown(_)
Grown(v) ==
  CASE v.type = "array" ->
         {Array(Append(v.array, p)) : p \in Primitives}
         \cup UNION {{Array([v.array EXCEPT ![i] = w]) : w \in Grown(v.array[i])} :
                     i \in DOMAIN v.array}
    [] v.type = "object" ->
         {Object(AtKey(v.object, k, p)) : k \in Keys \ DOMAIN v.object, p \in Primitives}
         \cup UNION {{Object([v.object EXCEPT ![k] = w]) : w \in Grown(v.object[k])} :
                     k \in DOMAIN v.object}
    [] OTHER -> {Array(<<>>), Object(<<>>)}

TreesInit ==
  /\ source \in Primitives \cup SignedNumbers
  /\ target \in Primitives \cup SignedNumbers

GrowSource == \E v \in Grown(source) :
  Size(v) <= MaxSource /\ source' = v /\ UNCHANGED target
GrowTarget == \E v \in Grown(target) :
  Size(v) <= MaxTarget /\ target' = v /\ UNCHANGED source

TreesNext == GrowSource \/ GrowTarget

-----------------------------------------------------------------------------
\* The invariant that diff's comment states: the patch it computes turns the
\* one value into the other, in whatever order it removes and adds.
Gives(r, v) == r.ok /\ Equal(r.value, v)
PatchOfDiff == Gives(patch(source, diff(source, target)), target)

\* The pointers into v.
RECURSIVE PointersInto(_)
PointersInto(v) ==
  {<<>>} \cup
  CASE v.type = "array" -> UNION {{<<Decimal(i - 1)>> \o p : p \in PointersInto(v.array[i])} :
                                  i \in DOMAIN v.array}
    [] v.type = "object" -> UNION {{<<k>> \o p : p \in PointersInto(v.object[k])} :
                                   k \in DOMAIN v.object}
    [] OTHER -> {}

\* A pointer is read back from its text, whatever characters the keys have.
PointersReadBack == \A p \in PointersInto(source) : split(to_string(p)) = Returns(p)

\* Nothing is empty, and no object's first member would be taken for the
\* first element of an array: what unflatten can restore.
RECURSIVE Restorable(_)
Restorable(v) ==
  CASE v.type = "array" -> v.array # <<>> /\ \A i \in DOMAIN v.array : Restorable(v.array[i])
    [] v.type = "object" ->
         LET firsts == InOrder({escape(k) \o <<SLASH>> : k \in DOMAIN v.object}) IN
         /\ DOMAIN v.object # {}
         /\ \A k \in DOMAIN v.object : Restorable(v.object[k])
         /\ firsts[1] # <<ZERO, SLASH>>
    [] OTHER -> TRUE

\* Flattened to a list of pointers and unflattened, a value is what it was.
FlattenRestores == Restorable(source) => unflatten(flatten(source)) = Returns(source)

\* Within an object, moving a member away and back restores the value, and so
\* does copying it, testing the copy and removing it.
Fresh == <<122>>
WithFrom(operation, from) == Object((FROM :> Text(from)) @@ operation.object)
MovesUndone ==
  source.type = "object" => \A k \in DOMAIN source.object :
    LET here == to_string(<<k>>)
        there == to_string(<<Fresh>>)
        move(a, b) == WithFrom(Operation(MOVE, b), a)
        copied == <<WithFrom(Operation(COPY, there), here),
                    WithValue(Operation(TEST, there), source.object[k]),
                    Operation(REMOVE, there)>> IN
    \A operations \in {<<move(here, there), move(there, here)>>, copied} :
      patch(source, Array(operations)) = Returns(source)

\* Of two values either one is less or they are equal, and less is transitive,
\* whichever of the integer types the numbers have.
Ordered ==
  /\ Less(source, target) => ~Less(target, source)
  /\ Equal(source, target) <=> ~Less(source, target) /\ ~Less(target, source)
  /\ Less(source, target) => \A v \in Grown(target) \cup Grown(source) \cup SignedNumbers :
       Less(target, v) => Less(source, v)
-----------------------------------------------------------------------------
(* Iterators *)

\* What v consists of, in order.
Contents(v) ==
  CASE v.type = "null" -> <<>>
    [] v.type = "array" -> v.array
    [] v.type = "object" -> LET keys == InOrder(DOMAIN v.object) IN
                            [i \in DOMAIN keys |-> v.object[keys[i]]]
    [] OTHER -> <<v>>

\* The loops of a program: over all elements, either way, and one that erases
\* each element it comes to.
RECURSIVE Forwards(_, _), Backwards(_, _), Erasing(_, _)
Forwards(v, i) ==
  IF i = set_end(v) THEN <<>> ELSE <<Dereferenced(v, i)>> \o Forwards(v, Increment(v, i))
Backwards(v, base) ==
  IF base = set_begin(v) THEN <<>>
  ELSE <<ReverseDereferenced(v, base)>> \o Backwards(v, Decrement(v, base))
Erasing(v, i) ==
  LET r == erase(v, i) IN
  IF i = set_end(v) THEN v ELSE Erasing(r.value.value, r.value.next)

Positions(v) == set_begin(v) .. set_end(v)
LoopsVisitAll(v) ==
  LET found == [i \in DOMAIN Contents(v) |-> Returns(Contents(v)[i])] IN
  /\ Forwards(v, set_begin(v)) = found
  /\ Backwards(v, set_end(v)) = Reverse(found)
  /\ size(v) = Len(found) /\ (empty(v) <=> found = <<>>)
  /\ \A i \in set_begin(v) .. set_end(v) - 1 : Arrow(v, i) = Dereferenced(v, i)
  /\ found # <<>> => front(v) = found[1] /\ back(v) = Last(found)
  /\ Contents(Erasing(v, set_begin(v))) = <<>>
  /\ ~is_primitive(v) => \A i \in 0 .. size(v) - 1 :
       get_checked(v, <<WrappedKey(v, i, i)>>) = Dereferenced(v, i)

\* Going a distance, either way, is going that many steps.
DistancesAgree(v) == v.type # "object" =>
  \A i, j \in Positions(v) :
    LET n == Minus(v, j, i).value IN
    /\ Plus(v, i, n) = Returns(j)
    /\ Successor(v, i, n) = Dereferenced(v, j)
    /\ v.type = "array" => AtOfIndex(v, j) = Dereferenced(v, j)
    /\ ReversePlus(v, j, n) = Returns(i)
    /\ LessThan(v, i, j).value <=> j \notin set_begin(v) .. i

\* What the ways to look a key or an index up find, is one.
LookupsAgree(v) == \A k \in Keys :
  LET i == find(v, k) IN
  IF count(v, k) = 0
  THEN i = set_end(v) /\ ~AtOfKey(v, k).ok /\ value(v, k, Null).ok = (v.type = "object")
  ELSE /\ KeyAt(v, i) = Returns(k) /\ ReverseKey(v, Increment(v, i)) = Returns(k)
       /\ \A r \in {AtOfKey(v, k), value(v, k, Null)} : r = Dereferenced(v, i)

\* A range that is erased is what is constructed from it, and is erased, as
\* well, element by element; what is inserted is found, and can be erased again.
RangesAgree(v, w) ==
  /\ \A i, j \in Positions(v) : i < j =>
       LET rest == EraseFromTo(v, i, j)
           shorter == EraseFromTo(v, i, j - 1) IN
       /\ rest.ok /\ Contents(FromRange(v, i, j).value) = SubSeq(Contents(v), i + 1, j)
       /\ Contents(rest.value.value) = SubSeq(Contents(v), 1, i) \o SubSeq(Contents(v), j + 1, size(v))
       /\ j > i + 1 => erase(shorter.value.value, shorter.value.next) = rest
  /\ v.type = "array" => \A i \in Positions(v) :
       LET r == InsertBefore(v, i, w).value IN
       /\ Dereferenced(r.value, r.next) = Returns(w)
       /\ erase(r.value, r.next) = Returns(Left(v, i))

\* An iterator is at what its position says: loops visit every element once,
\* distances, lookups and ranges agree, for null and primitive values as well.
IteratorsAgree ==
  /\ LoopsVisitAll(source)
  /\ DistancesAgree(source)
  /\ LookupsAgree(source)
  /\ RangesAgree(source, target)
=============================================================================
