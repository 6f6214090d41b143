------------------------------ MODULE JsonHeap ------------------------------
(***************************************************************************)
(* Who owns what in json.hpp.  A basic_json is a cell: its type and, in a  *)
(* union, a scalar or a pointer to a string, a vector of cells or a map of *)
(* cells that the cell alone owns.  The operations below create, copy,     *)
(* move, swap and destroy these by hand, on cells that may lie inside each *)
(* other.                                                                  *)
(*                                                                         *)
(* One scalar stands for all values that need no storage.  A call that     *)
(* throws changes nothing and is no action; memory does not run out.       *)
(***************************************************************************)
EXTENDS Integers, Functions, SequencesExt

CONSTANTS Name,       \* the basic_json variables of a program, and
          Text,       \* strings, which are the keys of objects too: numbered
          empty,      \* the empty one
          MaxBlocks,  \* strings, vectors and maps that live at a time,
          MaxCells,   \* cells in all of them, and
          MaxLen      \* in one of them: bounds

ASSUME HeapAssumption ==
  empty \in Text /\ Name \cup Text \cup {MaxBlocks, MaxCells, MaxLen} \subseteq Nat

VARIABLE memory  \* the blocks by address; at 0 is the one of the variables

\* A function of one argument, and two functions as one.
At(i, x) == [j \in {i} |-> x]
Joined(f, g) == [i \in DOMAIN f \cup DOMAIN g |-> IF i \in DOMAIN f THEN f[i] ELSE g[i]]

Cells == [type : {"null", "scalar", "string", "array", "object"}, at : Nat]
Cell(type, at) == [type |-> type, at |-> at]
Null == Cell("null", 0)
Scalar == Cell("scalar", 0)
Containers == {"array", "object"}
Owning == Containers \cup {"string"}

Block(type, text, cells) == [type |-> type, text |-> text, cells |-> cells]
Vector(cells) == Block("array", empty, cells)
Map(cells) == Block("object", empty, cells)
String(text) == Block("string", text, <<>>)

\* What a call leaves: the memory, and a cell or cells that it returns.
Result(m, c) == [memory |-> m, cell |-> c]
Results(m, cells) == [memory |-> m, cells |-> cells]

\* A place is the address of a block and an index (from 1) or key in it.
Places(m) == UNION {{<<a, i>> : i \in DOMAIN m[a].cells} : a \in DOMAIN m}
CellAt(m, p) == m[p[1]].cells[p[2]]
Written(m, p, c) == [m EXCEPT ![p[1]].cells[p[2]] = c]
CellsAt(m, p) == m[CellAt(m, p).at].cells
Refilled(m, p, cells) == [m EXCEPT ![CellAt(m, p).at].cells = cells]

\* The addresses of the blocks that cells own,
Owned(cells) == {cells[i].at : i \in {i \in DOMAIN cells : cells[i].type \in Owning}}
\* of the blocks of a set and those that their cells own,
WithOwned(m, A) == (A \cup UNION {Owned(m[a].cells) : a \in A}) \cap DOMAIN m
\* and of all blocks beneath some cells.
Beneath(m, cells) ==
  LET all[A \in SUBSET DOMAIN m] == IF WithOwned(m, A) = A THEN A ELSE all[WithOwned(m, A)] IN
  all[Owned(cells) \cap DOMAIN m]

\* One place is inside what is at another.
Inside(p, q) == p[1] \in Beneath(memory, <<CellAt(memory, q)>>)
Apart(p, q) == p # q /\ ~Inside(p, q) /\ ~Inside(q, p)

-----------------------------------------------------------------------------
(* Constructors, destructor, assignment *)

Top(m) == Max(DOMAIN m)
create(m, block) == Result(Joined(At(Top(m) + 1, block), m), Cell(block.type, Top(m) + 1))

\* The value that basic_json(value_t) begins with.
Default(m, type) ==
  IF type \in Owning THEN create(m, Block(type, empty, <<>>)) ELSE Result(m, Cell(type, 0))

\* The copy constructor on each of some cells, numbered from 1: what is beneath
\* the i-th is copied to addresses i times above Top.
Sources(m, cells) ==
  UNION {{<<i, a>> : a \in Beneath(m, <<cells[i]>>)} : i \in DOMAIN cells}
CopyTo(top, i, a) == a + i * top
CopyOf(top, i, c) == IF c.type \in Owning THEN Cell(c.type, CopyTo(top, i, c.at)) ELSE c
BlockCopy(top, i, block) ==
  Block(block.type, block.text, [j \in DOMAIN block.cells |-> CopyOf(top, i, block.cells[j])])
Copies(m, cells) ==
  LET top == Top(m)
      sources == Sources(m, cells)
      to(s) == CopyTo(top, s[1], s[2])
      from(b) == CHOOSE s \in sources : to(s) = b IN
  Results(Joined(m, [b \in {to(s) : s \in sources} |-> BlockCopy(top, from(b)[1], m[from(b)[2]])]),
          [i \in DOMAIN cells |-> CopyOf(top, i, cells[i])])
Copied(m, c) == LET r == Copies(m, <<c>>) IN Result(r.memory, r.cells[1])

\* The move constructor leaves null behind.
Moved(m, p) == Result(Written(m, p, Null), CellAt(m, p))

\* The destructor on each of some cells.
StringsKept(m, cells) ==
  Restrict(m, {a \in DOMAIN m : a \in Beneath(m, cells) => m[a].type = "string"})
Destroyed(m, cells) == Restrict(m, DOMAIN m \ Beneath(m, cells))

\* operator=: its parameter is swapped with the object and then destroyed.
Assigned(p, r) == Destroyed(Written(r.memory, p, r.cell), <<CellAt(r.memory, p)>>)

-----------------------------------------------------------------------------
(* The operations on a place p of the memory.  All but the assignments turn
   null into the container they need. *)

Ready(m, p, type) ==
  IF CellAt(m, p).type = "null"
  THEN LET r == Default(m, type) IN Written(r.memory, p, r.cell) ELSE m
Usable(p, type) == CellAt(memory, p).type \in {"null", type}
IsArray(p) == CellAt(memory, p).type = "array"
IsObject(p) == CellAt(memory, p).type = "object"

Bounded(m) ==
  /\ Cardinality(DOMAIN m \ {0}) <= MaxBlocks
  /\ \A a \in DOMAIN m \ {0} : Cardinality(DOMAIN m[a].cells) <= MaxLen
  /\ Cardinality({p \in Places(m) : p[1] # 0}) <= MaxCells
\* Addresses mean nothing but which block: they are numbered anew, level by
\* level in the order of the cells that own them.
Numberings(m) ==
  LET blocks == DOMAIN m \ {0}
      owned == {<<p, CellAt(m, p).at>> : p \in {p \in Places(m) : CellAt(m, p).type \in Owning}} IN
  {f \in {Joined(At(0, 0), f) : f \in [blocks -> 1 .. Cardinality(blocks)]} :
     /\ IsInjective(f)
     /\ \A r, s \in owned :
          f[r[1][1]] < f[s[1][1]] \/ (r[1][1] = s[1][1] /\ r[1][2] < s[1][2])
            => f[r[2]] < f[s[2]]}
Renumbered(m, f) ==
  LET cell(c) == IF c.type \in Owning THEN Cell(c.type, f[c.at]) ELSE c
      block(b) == Block(b.type, b.text, [i \in DOMAIN b.cells |-> cell(b.cells[i])]) IN
  [n \in Range(f) |-> block(m[CHOOSE a \in DOMAIN m : f[a] = n])]
Becomes(m) == Bounded(m) /\ \E f \in Numberings(m) : memory' = Renumbered(m, f)

Construct(p) == \E type \in Owning \cup {"scalar", "null"} :
  Becomes(Assigned(p, Default(memory, type)))
ConstructText(p) == \E x \in Text :
  Becomes(Assigned(p, create(memory, String(x))))

\* basic_json(cnt, val)
Filled(p, cnt, q) ==
  LET r == Copies(memory, [i \in 1 .. cnt |-> CellAt(memory, q)]) IN
  Assigned(p, create(r.memory, Vector(r.cells)))
Fill(p) == \E q \in Places(memory), cnt \in 0 .. MaxLen : Becomes(Filled(p, cnt, q))

DestroysFirst(p, q) ==
  LET m == Destroyed(Written(memory, p, Null), <<CellAt(memory, p)>>) IN
  Assigned(p, Copied(m, CellAt(m, q)))
CopyAssigned(p, q) == Assigned(p, Copied(memory, CellAt(memory, q)))
CopyAssign(p) == \E q \in Places(memory) : Becomes(CopyAssigned(p, q))

\* Not into a part of what is moved.
Movable(p, q) == ~Inside(p, q)
MoveAssigned(p, q) == Assigned(p, Moved(memory, q))
MoveAssign(p) == \E q \in Places(memory) : Movable(p, q) /\ Becomes(MoveAssigned(p, q))

Swapped(p, q) == Written(Written(memory, p, CellAt(memory, q)), q, CellAt(memory, p))
swap(p) == \E q \in Places(memory) : Apart(p, q) /\ Becomes(Swapped(p, q))

\* operator[] of an index fills up with null; both return a reference.
Indexed(p, i) ==
  LET m == Ready(memory, p, "array")
      missing == i - Len(CellsAt(m, p)) IN
  IF missing <= 0 THEN m
  ELSE Refilled(m, p, CellsAt(m, p) \o [j \in 1 .. missing |-> Null])
Index(p) == \E i \in 1 .. MaxLen : Usable(p, "array") /\ Becomes(Indexed(p, i))
Keyed(p, k) ==
  LET m == Ready(memory, p, "object") IN Refilled(m, p, Joined(CellsAt(m, p), At(k, Null)))
AtKey(p) == \E k \in Text : Usable(p, "object") /\ Becomes(Keyed(p, k))

\* The copy is made after null has become an array: it may be of p itself.
Pushed(p, r) == Refilled(r.memory, p, Append(CellsAt(r.memory, p), r.cell))
CopiedTooEarly(p, q) ==
  LET r == Copied(memory, CellAt(memory, q)) IN
  Pushed(p, Result(Ready(r.memory, p, "array"), r.cell))
CopyPushed(p, q) == LET m == Ready(memory, p, "array") IN Pushed(p, Copied(m, CellAt(m, q)))
PushCopy(p) == \E q \in Places(memory) : Usable(p, "array") /\ Becomes(CopyPushed(p, q))
MovePushed(p, q) == Pushed(p, Moved(Ready(memory, p, "array"), q))
PushMove(p) == \E q \in Places(memory) :
  Usable(p, "array") /\ Apart(p, q) /\ Becomes(MovePushed(p, q))

\* A pair is a copy already; map::insert and emplace keep a key's first value.
Overwrites(m, p, k, c) ==
  IF k \in DOMAIN CellsAt(m, p) THEN Assigned(<<CellAt(m, p).at, k>>, Result(m, c))
  ELSE Refilled(m, p, Joined(CellsAt(m, p), At(k, c)))
Emplaced(m, p, k, c) ==
  IF k \in DOMAIN CellsAt(m, p) THEN Destroyed(m, <<c>>)
  ELSE Refilled(m, p, Joined(CellsAt(m, p), At(k, c)))
PairPushed(p, k, q) ==
  LET r == Copied(memory, CellAt(memory, q)) IN
  Emplaced(Ready(r.memory, p, "object"), p, k, r.cell)
PushPair(p) == \E q \in Places(memory), k \in Text :
  Usable(p, "object") /\ Becomes(PairPushed(p, k, q))

-----------------------------------------------------------------------------
(* Initializer lists hold copies of their elements *)

TextOf(m, c) == m[c.at].text
IsPair(m, c) ==
  c.type = "array" /\ LET cells == m[c.at].cells IN Len(cells) = 2 /\ cells[1].type = "string"

\* The object of a list of pairs, or the array of any list; the list stays.
FromList(m, list, wanted) ==
  LET pairs == \A i \in DOMAIN list : IsPair(m, list[i])
      all == Copies(m, list)
      inner(i) == m[list[i].at].cells
      key(i) == TextOf(m, inner(i)[1])
      first == {i \in DOMAIN list : \A j \in 1 .. i - 1 : key(j) # key(i)}
      values == Copies(m, [i \in first |-> inner(i)[2]])
      value(k) == values.cells[CHOOSE i \in first : key(i) = k] IN
  IF pairs /\ wanted # "array"
  THEN create(values.memory, Map([k \in {key(i) : i \in first} |-> value(k)]))
  ELSE create(all.memory, Vector(all.cells))

Lists == UNION {[1 .. n -> Places(memory)] : n \in 0 .. MaxLen}
ListOf(ps) == Copies(memory, [i \in DOMAIN ps |-> CellAt(memory, ps[i])])

ListAssigned(p, ps, wanted) ==
  LET list == ListOf(ps) IN
  Destroyed(Assigned(p, FromList(list.memory, list.cells, wanted)), list.cells)
InitList(p) == \E ps \in Lists, wanted \in {"any"} \cup Containers :
  /\ p[1] = 0  \* a bound: elements are assigned to by CopyAssign
  /\ wanted = "object" => \A i \in DOMAIN ps : IsPair(memory, CellAt(memory, ps[i]))
  /\ Becomes(ListAssigned(p, ps, wanted))

\* push_back of a list: a pair goes into an object, else one more element.
PushList(p) == \E ps \in Lists :
  LET list == ListOf(ps)
      cells == list.cells
      value == Copied(list.memory, cells[2])
      made == FromList(list.memory, cells, "any") IN
  \/ /\ IsObject(p) /\ Len(ps) = 2 /\ cells[1].type = "string"
     /\ Becomes(Destroyed(Emplaced(value.memory, p, TextOf(list.memory, cells[1]), value.cell), cells))
  \/ /\ Usable(p, "array")
     /\ Becomes(Destroyed(Pushed(p, [made EXCEPT !.memory = Ready(@, p, "array")]), cells))

-----------------------------------------------------------------------------
(* insert, erase, clear *)

Inserted(m, p, i, cells) ==
  LET old == CellsAt(m, p) IN
  Refilled(m, p, SubSeq(old, 1, i - 1) \o cells \o SubSeq(old, i, Len(old)))
Positions(p) == 1 .. Len(CellsAt(memory, p)) + 1

CopiesInserted(p, i, cnt, q) ==
  LET r == Copies(memory, [j \in 1 .. cnt |-> CellAt(memory, q)]) IN
  Inserted(r.memory, p, i, r.cells)
InsertCopies(p) ==
  /\ IsArray(p)
  /\ \E q \in Places(memory), cnt \in 0 .. MaxLen, i \in Positions(p) :
       Becomes(CopiesInserted(p, i, cnt, q))
\* The range must not be p's own; a range that p is part of is left out.
InsertRange(p) == \E q \in Places(memory) :
  /\ IsArray(p) /\ IsArray(q) /\ p # q /\ ~Inside(p, q)
  /\ \E i \in Positions(p), first \in Positions(q), last \in Positions(q) :
       LET r == Copies(memory, SubSeq(CellsAt(memory, q), first, last - 1)) IN
       first <= last /\ Becomes(Inserted(r.memory, p, i, r.cells))
InsertList(p) ==
  /\ IsArray(p)
  /\ \E ps \in Lists, i \in Positions(p) :
       LET list == ListOf(ps)
           r == Copies(list.memory, list.cells) IN
       Becomes(Destroyed(Inserted(r.memory, p, i, r.cells), list.cells))

EraseScalar(p) ==
  /\ CellAt(memory, p).type \in {"scalar", "string"}
  /\ Becomes(Destroyed(Written(memory, p, Null), <<CellAt(memory, p)>>))
RangeErased(p, first, last) ==
  LET cells == CellsAt(memory, p)
      kept == SubSeq(cells, 1, first - 1) \o SubSeq(cells, last, Len(cells)) IN
  Destroyed(Refilled(memory, p, kept), SubSeq(cells, first, last - 1))
EraseRange(p) ==
  /\ IsArray(p)
  /\ \E first \in Positions(p), last \in Positions(p) :
       first <= last /\ Becomes(RangeErased(p, first, last))
KeyErased(p, k) ==
  LET cells == CellsAt(memory, p) IN
  Destroyed(Refilled(memory, p, Restrict(cells, DOMAIN cells \ {k})), <<cells[k]>>)
EraseKey(p) == IsObject(p) /\ \E k \in DOMAIN CellsAt(memory, p) : Becomes(KeyErased(p, k))

clear(p) ==
  LET c == CellAt(memory, p) IN
  \/ c.type = "scalar" /\ Becomes(Written(memory, p, Scalar))
  \/ c.type = "string" /\ Becomes([memory EXCEPT ![c.at].text = empty])
  \/ /\ c.type \in Containers
     /\ Becomes(Destroyed(Refilled(memory, p, <<>>), CellsAt(memory, p)))

-----------------------------------------------------------------------------
Init == memory = At(0, Block("variables", empty, [n \in Name |-> Null]))

Next == \E p \in Places(memory) :
  \/ Construct(p) \/ ConstructText(p) \/ Fill(p)
  \/ CopyAssign(p) \/ MoveAssign(p) \/ swap(p)
  \/ Index(p) \/ AtKey(p) \/ PushCopy(p) \/ PushMove(p) \/ PushPair(p)
  \/ InitList(p) \/ PushList(p)
  \/ InsertCopies(p) \/ InsertRange(p) \/ InsertList(p)
  \/ EraseScalar(p) \/ EraseRange(p) \/ EraseKey(p) \/ clear(p)

Spec == Init /\ [][Next]_memory

-----------------------------------------------------------------------------
(* What is promised *)

\* A vector has the indices up to its length, a map keys, a string no cells.
Shaped(a, block) ==
  CASE a = 0 -> block.type = "variables" /\ DOMAIN block.cells = Name
    [] a # 0 /\ block.type = "array" -> block.cells \in Seq(Cells)
    [] a # 0 /\ block.type = "object" -> DOMAIN block.cells \subseteq Text
    [] OTHER -> block.type = "string" /\ block.cells = <<>>

Owners == {p \in Places(memory) : CellAt(memory, p).type \in Owning}

\* Every block but that of the variables has exactly one owner, of the type
\* that is stored there, and is part of a variable: nothing leaks, is shared,
\* freed twice or used after.
OwnedOnce ==
  /\ \A a \in DOMAIN memory : Shaped(a, memory[a])
  /\ \A p \in Owners : LET c == CellAt(memory, p) IN
       /\ c.at \in DOMAIN memory \ {0}
       /\ memory[c.at].type = c.type
  /\ \A p, q \in Owners : CellAt(memory, p).at = CellAt(memory, q).at => p = q
  /\ DOMAIN memory = {0} \cup Beneath(memory, memory[0].cells)
=============================================================================
