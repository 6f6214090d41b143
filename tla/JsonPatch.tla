------------------------------ MODULE JsonPatch ------------------------------
(***************************************************************************)
(* The part of json.hpp that works on trees: JSON pointers, flatten and    *)
(* unflatten, patch and diff.  A pointer is its sequence of reference      *)
(* tokens.  Where the code follows a reference into a value and changes    *)
(* it there, the operators give the changed value.                         *)
(***************************************************************************)
EXTENDS Json

SLASH == 47
TILDE == 126
PAST_END == <<MINUS>>
OP == <<111, 112>>
PATH == <<112, 97, 116, 104>>
FROM == <<102, 114, 111, 109>>
VALUE == <<118, 97, 108, 117, 101>>
ADD == <<97, 100, 100>>
REMOVE == <<114, 101, 109, 111, 118, 101>>
REPLACE == <<114, 101, 112, 108, 97, 99, 101>>
MOVE == <<109, 111, 118, 101>>
COPY == <<99, 111, 112, 121>>
TEST == <<116, 101, 115, 116>>

is_primitive(v) == v.type \notin {"array", "object"}

-----------------------------------------------------------------------------
(* Pointers and their texts *)

RECURSIVE replace_substring(_, _, _)
replace_substring(s, f, t) ==
  CASE s = <<>> -> <<>>
    [] s # <<>> /\ IsPrefix(f, s) ->
         t \o replace_substring(SubSeq(s, Len(f) + 1, Len(s)), f, t)
    [] OTHER -> <<Head(s)>> \o replace_substring(Tail(s), f, t)

SlashFirst(s) ==
  replace_substring(replace_substring(s, <<SLASH>>, <<TILDE, 49>>), <<TILDE>>, <<TILDE, 48>>)
escape(s) ==
  replace_substring(replace_substring(s, <<TILDE>>, <<TILDE, 48>>), <<SLASH>>, <<TILDE, 49>>)
TildeFirst(s) ==
  replace_substring(replace_substring(s, <<TILDE, 48>>, <<TILDE>>), <<TILDE, 49>>, <<SLASH>>)
unescape(s) ==
  replace_substring(replace_substring(s, <<TILDE, 49>>, <<SLASH>>), <<TILDE, 48>>, <<TILDE>>)

to_string(ptr) == FlattenSeq([i \in DOMAIN ptr |-> <<SLASH>> \o escape(ptr[i])])

\* The pieces of s that slashes separate.
RECURSIVE Between(_)
Between(s) ==
  LET cut == After(s, 1, 1 .. 255 \ {SLASH}) IN
  <<SubSeq(s, 1, cut - 1)>>
  \o IF cut > Len(s) THEN <<>> ELSE Between(SubSeq(s, cut + 1, Len(s)))
EscapesOk(s) == \A i \in DOMAIN s : s[i] = TILDE => At(s, i + 1) \in {48, 49}
split(s) ==
  LET pieces == Between(Tail(s)) IN
  CASE s = <<>> -> Returns(<<>>)
    [] s # <<>> /\ s[1] = SLASH /\ EscapesOk(s) ->
         Returns([i \in DOMAIN pieces |-> unescape(pieces[i])])
    [] OTHER -> Throws

\* std::stoi as an index: the digits at the beginning count, and a negative
\* number is out of every range.
stoi(t) ==
  LET sign == After(t, 1, Blank \cup {11, 12})
      first == IF At(t, sign) \in {PLUS, MINUS} THEN sign + 1 ELSE sign
      end == After(t, first, Digit)
      n == FoldLeft(LAMBDA m, c : 10 * m + c - 48, 0, SubSeq(t, first, end - 1)) IN
  IF end = first \/ (At(t, sign) = MINUS /\ n > 0) THEN Throws ELSE Returns(n)

LeadingZero(t) == Len(t) > 1 /\ t[1] = ZERO

-----------------------------------------------------------------------------
(* Element access *)

\* j[index] = v of an array that grows with nulls up to the index.
AtIndex(array, n, v) ==
  [i \in 1 .. (IF n < Len(array) THEN Len(array) ELSE n + 1) |->
     IF i = n + 1 THEN v ELSE IF i <= Len(array) THEN array[i] ELSE Null]
AtKey(object, k, v) == (k :> v) @@ object

ChildAt(array, n) == IF n < Len(array) THEN array[n + 1] ELSE Null
ChildOf(object, k) == IF k \in DOMAIN object THEN object[k] ELSE Null

insert(array, n, v) == SubSeq(array, 1, n) \o <<v>> \o SubSeq(array, n + 1, Len(array))
EraseAt(array, n) == SubSeq(array, 1, n) \o SubSeq(array, n + 2, Len(array))
EraseKey(object, k) == [x \in DOMAIN object \ {k} |-> object[x]]

\* The value at ptr, where every step must exist.
RECURSIVE get_checked(_, _)
get_checked(v, ptr) ==
  LET t == Head(ptr)
      n == stoi(t) IN
  CASE ptr = <<>> -> Returns(v)
    [] ptr # <<>> /\ v.type = "object" ->
         IF t \in DOMAIN v.object THEN get_checked(v.object[t], Tail(ptr)) ELSE Throws
    [] ptr # <<>> /\ v.type = "array" ->
         IF t = PAST_END \/ LeadingZero(t) THEN Throws
         ELSE IF ~n.ok THEN Throws
         ELSE IF n.value < Len(v.array) THEN get_checked(v.array[n.value + 1], Tail(ptr))
         ELSE Throws
    [] OTHER -> Throws

\* A null on the way of operator[] becomes what the token can index.
Opened(v, t) ==
  IF v.type # "null" THEN v
  ELSE IF t = PAST_END \/ \A i \in DOMAIN t : t[i] \in Digit THEN Array(<<>>) ELSE Object(<<>>)
UncheckedIndex(array, t) ==
  IF t = PAST_END THEN Returns(Len(array)) ELSE IF LeadingZero(t) THEN Throws ELSE stoi(t)

\* The value at ptr, where missing steps are created as nulls.
RECURSIVE get_unchecked(_, _)
get_unchecked(v, ptr) ==
  LET o == Opened(v, Head(ptr))
      n == UncheckedIndex(o.array, Head(ptr)) IN
  CASE ptr = <<>> -> Returns(v)
    [] ptr # <<>> /\ o.type = "object" ->
         get_unchecked(ChildOf(o.object, Head(ptr)), Tail(ptr))
    [] ptr # <<>> /\ o.type = "array" ->
         IF n.ok THEN get_unchecked(ChildAt(o.array, n.value), Tail(ptr)) ELSE Throws
    [] OTHER -> Throws

\* v after v[ptr] = w, which does not throw.
RECURSIVE Put(_, _, _)
Put(v, ptr, w) ==
  LET o == Opened(v, Head(ptr))
      n == UncheckedIndex(o.array, Head(ptr)).value IN
  CASE ptr = <<>> -> w
    [] ptr # <<>> /\ o.type = "object" ->
         Object(AtKey(o.object, Head(ptr), Put(ChildOf(o.object, Head(ptr)), Tail(ptr), w)))
    [] OTHER ->
         Array(AtIndex(o.array, n, Put(ChildAt(o.array, n), Tail(ptr), w)))

-----------------------------------------------------------------------------
(* patch.  "add" cannot add to a primitive value: an assertion ends the
   program, which is a Throws here as well. *)

\* v with what became of the value at ptr.
Changed(v, ptr, r) == IF r.ok THEN Returns(Put(v, ptr, r.value)) ELSE Throws

AddedTo(parent, last, w) ==
  LET n == stoi(last) IN
  CASE parent.type = "null" -> Returns(Object(last :> w))
    [] parent.type = "object" -> Returns(Object(AtKey(parent.object, last, w)))
    [] parent.type = "array" ->
         IF last = PAST_END THEN Returns(Array(Append(parent.array, w)))
         ELSE IF ~n.ok THEN Throws
         ELSE IF n.value > Len(parent.array) THEN Throws
         ELSE Returns(Array(insert(parent.array, n.value, w)))
    [] OTHER -> Throws

operation_add(v, ptr, w) ==
  LET above == Front(ptr)
      parent == get_unchecked(v, above) IN
  IF ptr = <<>> THEN Returns(w)
  ELSE IF above # <<>> /\ ~get_checked(v, <<ptr[1]>>).ok THEN Throws
  ELSE IF parent.ok THEN Changed(v, above, AddedTo(parent.value, Last(ptr), w)) ELSE Throws

\* Of a primitive parent nothing is removed, and nothing said.
RemovedFrom(parent, last) ==
  LET n == stoi(last) IN
  CASE parent.type = "object" ->
         IF last \in DOMAIN parent.object THEN Returns(Object(EraseKey(parent.object, last)))
                                          ELSE Throws
    [] parent.type = "array" ->
         IF ~n.ok THEN Throws
         ELSE IF n.value >= Len(parent.array) THEN Throws
         ELSE Returns(Array(EraseAt(parent.array, n.value)))
    [] OTHER -> Returns(parent)

operation_remove(v, ptr) ==
  LET above == Front(ptr)
      parent == get_checked(v, above) IN
  IF ptr = <<>> THEN Throws
  ELSE IF parent.ok THEN Changed(v, above, RemovedFrom(parent.value, Last(ptr))) ELSE Throws

\* A member of an operation: a string where one is needed.
get_value(op, member, string_type) ==
  IF member \in DOMAIN op.object /\ (string_type => op.object[member].type = "string")
  THEN Returns(op.object[member]) ELSE Throws
PointerIn(op, member) ==
  LET text == get_value(op, member, TRUE) IN
  IF text.ok THEN split(text.value.string) ELSE Throws

\* v after one operation of a patch.  "move" removes, then adds; "copy"
\* overwrites what is at its target.
AddedIf(r, ptr, w) == IF r.ok THEN operation_add(r.value, ptr, w) ELSE Throws
MoveKeeps(v, from, ptr, w) == operation_add(v, ptr, w)
Moved(v, from, ptr, w) == AddedIf(operation_remove(v, from), ptr, w)

\* "copy" reads its source before the target is made; C++ leaves that open.
Copied(v, ptr, source) ==
  IF source.ok /\ get_unchecked(v, ptr).ok THEN Returns(Put(v, ptr, source.value)) ELSE Throws
Tested(v, target, value) ==
  IF target.ok /\ value.ok /\ Equal(target.value, value.value) THEN Returns(v) ELSE Throws
FromTo(v, kind, from, ptr) ==
  LET source == get_checked(v, from.value) IN
  CASE ~from.ok -> Throws
    [] from.ok /\ kind = COPY -> Copied(v, ptr, source)
    [] OTHER -> IF source.ok THEN Moved(v, from.value, ptr, source.value) ELSE Throws

Operate(v, op, kind, ptr, value) ==
  CASE kind = ADD -> IF value.ok THEN operation_add(v, ptr, value.value) ELSE Throws
    [] kind = REMOVE -> operation_remove(v, ptr)
    [] kind = REPLACE -> IF get_checked(v, ptr).ok /\ value.ok
         THEN Returns(Put(v, ptr, value.value)) ELSE Throws
    [] kind \in {MOVE, COPY} -> FromTo(v, kind, PointerIn(op, FROM), ptr)
    [] kind = TEST -> Tested(v, get_checked(v, ptr), value)
    [] OTHER -> Throws

Apply(v, op) ==
  LET kind == get_value(op, OP, TRUE)
      ptr == PointerIn(op, PATH) IN
  IF op.type # "object" THEN Throws
  ELSE IF ~kind.ok \/ ~ptr.ok THEN Throws
  ELSE Operate(v, op, kind.value.string, ptr.value, get_value(op, VALUE, FALSE))

patch(v, json_patch) ==
  IF json_patch.type # "array" THEN Throws
  ELSE FoldLeft(LAMBDA r, op : IF r.ok THEN Apply(r.value, op) ELSE Throws,
                Returns(v), json_patch.array)

-----------------------------------------------------------------------------
(* diff *)

Operation(op, path) == Object(OP :> Text(op) @@ PATH :> Text(path))
WithValue(operation, v) == Object((VALUE :> v) @@ operation.object)
Below(path, key) == path \o <<SLASH>> \o key

\* The operations at the ends of arrays of different lengths.
RemoveForwards(source, target, path) ==
  [i \in 1 .. Len(source) - Len(target) |->
     Operation(REMOVE, Below(path, Decimal(Len(target) + i - 1)))]
RemoveFrom(source, target, path) ==
  [i \in 1 .. Len(source) - Len(target) |->
     Operation(REMOVE, Below(path, Decimal(Len(source) - i)))]
AddFrom(source, target, path) ==
  [i \in 1 .. Len(target) - Len(source) |->
     WithValue(Operation(ADD, Below(path, Decimal(Len(source) + i - 1))),
               target[Len(source) + i])]

RECURSIVE Difference(_, _, _)
Difference(source, target, path) ==
  LET replace == <<WithValue(Operation(REPLACE, path), target)>>
      a == source.array
      b == target.array
      old == InOrder(DOMAIN source.object)
      new == InOrder(DOMAIN target.object \ DOMAIN source.object)
      shorter == IF Len(a) < Len(b) THEN Len(a) ELSE Len(b) IN
  CASE Equal(source, target) -> <<>>
    [] ~Equal(source, target) /\ (source.type # target.type \/ is_primitive(source)) -> replace
    [] ~Equal(source, target) /\ source.type = "array" /\ target.type = "array" ->
         FlattenSeq([i \in 1 .. shorter |-> Difference(a[i], b[i], Below(path, Decimal(i - 1)))])
         \o RemoveFrom(a, b, path) \o AddFrom(a, b, path)
    [] OTHER ->
         FlattenSeq([i \in DOMAIN old |->
           LET k == old[i] IN
           IF k \in DOMAIN target.object
           THEN Difference(source.object[k], target.object[k], Below(path, escape(k)))
           ELSE <<Operation(REMOVE, Below(path, escape(k)))>>])
         \o [i \in DOMAIN new |->
              WithValue(Operation(ADD, Below(path, escape(new[i]))), target.object[new[i]])]
diff(source, target) == Array(Difference(source, target, <<>>))

-----------------------------------------------------------------------------
(* flatten and unflatten *)

\* The texts of the pointers to v's primitive values, each with its value;
\* what is empty counts as null.
RECURSIVE Flat(_, _)
Flat(path, v) ==
  LET maps == CASE v.type = "array" ->
                     {Flat(Below(path, Decimal(i - 1)), v.array[i]) : i \in DOMAIN v.array}
                [] v.type = "object" ->
                     {Flat(Below(path, escape(k)), v.object[k]) : k \in DOMAIN v.object}
                [] OTHER -> {path :> v} IN
  IF maps = {} THEN path :> Null
  ELSE [p \in UNION {DOMAIN m : m \in maps} |-> (CHOOSE m \in maps : p \in DOMAIN m)[p]]
flatten(v) == Object(Flat(<<>>, v))

\* v after get_and_create(v) = w: the token "0" makes a null an array.
RECURSIVE get_and_create(_, _, _)
get_and_create(v, ptr, w) ==
  LET t == Head(ptr)
      n == stoi(t)
      a == IF v.type = "null" THEN <<>> ELSE v.array
      o == IF v.type = "null" THEN <<>> ELSE v.object
      child == IF v.type = "object" THEN ChildOf(o, t)
               ELSE IF v.type = "array" THEN ChildAt(a, n.value) ELSE Null
      r == get_and_create(child, Tail(ptr), w) IN
  CASE ptr = <<>> -> Returns(w)
    [] ptr # <<>> /\ (v.type = "array" \/ (v.type = "null" /\ t = <<ZERO>>)) ->
         IF ~n.ok THEN Throws
         ELSE IF r.ok THEN Returns(Array(AtIndex(a, n.value, r.value))) ELSE Throws
    [] ptr # <<>> /\ (v.type = "object" \/ (v.type = "null" /\ t # <<ZERO>>)) ->
         IF r.ok THEN Returns(Object(AtKey(o, t, r.value))) ELSE Throws
    [] OTHER -> Throws

unflatten(v) ==
  LET keys == InOrder(DOMAIN v.object)
      assign(r, k) ==
        LET ptr == split(k) IN
        IF ~r.ok THEN Throws
        ELSE IF ~ptr.ok \/ ~is_primitive(v.object[k]) THEN Throws
        ELSE get_and_create(r.value, ptr.value, v.object[k]) IN
  IF v.type = "object" THEN FoldLeft(assign, Returns(Null), keys) ELSE Throws
=============================================================================
