----------------------------- MODULE JsonValues -----------------------------
(***************************************************************************)
(* What the operations of JsonHeap promise: that a basic_json is a value.  *)
(* Here is no heap, only trees; each operation of JsonHeap is compared     *)
(* with what it should do to the trees, in every reachable memory.         *)
(***************************************************************************)
EXTENDS JsonHeap

\* The tree of a cell, and those of the variables.
RECURSIVE Tree(_, _)
Tree(m, c) ==
  CASE c.type = "string" -> [type |-> c.type, text |-> m[c.at].text]
    [] c.type \in Containers -> LET cells == m[c.at].cells IN
         [type |-> c.type, inner |-> [i \in DOMAIN cells |-> Tree(m, cells[i])]]
    [] OTHER -> c
Trees(m) == [n \in Name |-> Tree(m, m[0].cells[n])]

\* The variable, indices and keys that lead to a place.
RECURSIVE Path(_)
Path(p) ==
  IF p[1] = 0 THEN <<p[2]>>
  ELSE Append(Path(CHOOSE q \in Owners : CellAt(memory, q).at = p[1]), p[2])

Array(s) == [type |-> "array", inner |-> s]
Object(f) == [type |-> "object", inner |-> f]

\* The tree at the end of a path in v, and v with another tree there.
RECURSIVE Get(_, _)
Get(v, p) == IF p = <<>> THEN v ELSE Get(v.inner[Head(p)], Tail(p))
RECURSIVE Put(_, _, _)
Put(v, p, w) ==
  IF p = <<>> THEN w ELSE [v EXCEPT !.inner[Head(p)] = Put(@, Tail(p), w)]

\* Null is an empty container to the operations that need one.
Inner(v, p) == LET w == Get(v, p) IN IF w = Null THEN <<>> ELSE w.inner
Spliced(v, p, i, j, elements) ==
  LET s == Inner(v, p) IN
  Put(v, p, Array(SubSeq(s, 1, i - 1) \o elements \o SubSeq(s, j, Len(s))))

\* A list of pairs with a text first is an object, of equal keys the first.
TreeOfList(ts) ==
  LET pair(t) == t.type = "array" /\ Len(t.inner) = 2 /\ t.inner[1].type = "string"
      key(i) == ts[i].inner[1].text
      value(k) == CHOOSE w \in {ts[i].inner[2] : i \in {i \in DOMAIN ts :
                    key(i) = k /\ \A j \in 1 .. i - 1 : key(j) # k}} : TRUE IN
  IF \A i \in DOMAIN ts : pair(ts[i])
  THEN Object([k \in {key(i) : i \in DOMAIN ts} |-> value(k)]) ELSE Array(ts)

-----------------------------------------------------------------------------
v == [inner |-> Trees(memory)]
Here(p) == Get(v, Path(p))
Means(m, w) == [inner |-> Trees(m)] = w
Repeated(cnt, t) == [i \in 1 .. cnt |-> t]

\* An assignment changes its target into what the source was, even when one is
\* a part of the other, and a move leaves null; nothing else changes.
AssignmentsCopy ==
  \A p, q \in Places(memory) :
    LET to == Path(p)
        from == Path(q) IN
    /\ Means(CopyAssigned(p, q), Put(v, to, Here(q)))
    /\ Movable(p, q) => Means(MoveAssigned(p, q), Put(Put(v, from, Null), to, Here(q)))
    /\ Apart(p, q) => Means(Swapped(p, q), Put(Put(v, from, Here(p)), to, Here(q)))
    /\ Means(Filled(p, MaxLen, q), Put(v, to, Array(Repeated(MaxLen, Here(q)))))
    /\ p[1] = 0 => \A r \in Places(memory) :
         Means(ListAssigned(p, <<q, r>>, "any"), Put(v, to, TreeOfList(<<Here(q), Here(r)>>)))

\* An array grows and shrinks where it is told to, by copies of what the
\* arguments are when the element is made.
ArraysSplice ==
  \A p \in {p \in Places(memory) : Usable(p, "array")} :
    LET to == Path(p)
        n == Len(Inner(v, to))
        u == Put(v, to, Array(Inner(v, to))) IN
    /\ \A q \in Places(memory) :
         /\ Means(CopyPushed(p, q), Spliced(v, to, n + 1, n + 1, <<Get(u, Path(q))>>))
         /\ Apart(p, q) => Means(MovePushed(p, q),
              Spliced(Put(v, Path(q), Null), to, n + 1, n + 1, <<Here(q)>>))
         /\ IsArray(p) => \A i \in 1 .. n + 1 :
              Means(CopiesInserted(p, i, 1, q), Spliced(v, to, i, i, <<Here(q)>>))
    /\ \A i \in 1 .. MaxLen :
         Means(Indexed(p, i), IF i <= n THEN u
                              ELSE Spliced(v, to, n + 1, n + 1, Repeated(i - n, Null)))
    /\ IsArray(p) => \A i \in 1 .. n + 1 : \A j \in i .. n + 1 :
         Means(RangeErased(p, i, j), Spliced(v, to, i, j, <<>>))

\* A key that is there already keeps its value when a pair is added, and a
\* reference to its value creates it only when it is not.
ObjectsKeepFirst ==
  \A p \in {p \in Places(memory) : Usable(p, "object")}, k \in Text :
    LET to == Path(p)
        f == Inner(v, to)
        with(w) == IF k \in DOMAIN f THEN Object(f) ELSE Object(f @@ (k :> w)) IN
    /\ Means(Keyed(p, k), Put(v, to, with(Null)))
    /\ \A q \in Places(memory) : Means(PairPushed(p, k, q), Put(v, to, with(Here(q))))
    /\ k \in DOMAIN f => Means(KeyErased(p, k), Put(v, to, Object(Restrict(f, DOMAIN f \ {k}))))
=============================================================================
