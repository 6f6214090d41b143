--------------------------- MODULE JsonHeapProofs ---------------------------
(***************************************************************************)
(* Proof that json.hpp owns its memory: each block has one owner, and is   *)
(* destroyed with it, after any sequence of calls on values of any size.   *)
(*                                                                         *)
(* While an operation works, temporary objects own blocks besides those in *)
(* the memory.  Good(m, H) says that m is well-formed when temporaries own *)
(* H; each operation is followed through its temporaries back to           *)
(* Good(m, {}), which is the inductive invariant.                          *)
(***************************************************************************)
EXTENDS JsonHeap, FiniteSetTheorems, TLAPS

\* A set of blocks that has all that its blocks own.
Closed(m, S) == \A a \in S : \A b \in Owned(m[a].cells) \cap DOMAIN m : b \in S

\* The recursion in Beneath is one: there is a function that satisfies it.
LEMMA BeneathDefined ==
  ASSUME NEW m, NEW cells
  PROVE  \E all :
           /\ all = [A \in SUBSET DOMAIN m |->
                       IF WithOwned(m, A) = A THEN A ELSE all[WithOwned(m, A)]]
           /\ Beneath(m, cells) = all[Owned(cells) \cap DOMAIN m]
<1> DEFINE F(h) == [A \in SUBSET DOMAIN m |->
                      IF WithOwned(m, A) = A THEN A ELSE h[WithOwned(m, A)]]
           all == CHOOSE h : h = F(h)
           Least(A) == {d \in DOMAIN m : \A S \in SUBSET DOMAIN m :
                          A \subseteq S /\ Closed(m, S) => d \in S}
           least == [A \in SUBSET DOMAIN m |-> Least(A)]
<1>1. ASSUME NEW A \in SUBSET DOMAIN m
      PROVE  least[A] = F(least)[A]
  <2>1. /\ WithOwned(m, A) \in SUBSET DOMAIN m
        /\ A \subseteq WithOwned(m, A)
    BY DEF WithOwned
  <2>2. CASE WithOwned(m, A) = A
    <3>1. Closed(m, A)
      BY <2>2 DEF Closed, WithOwned
    <3>2. Least(A) = A
      BY <3>1
    <3> QED
      BY <2>2, <3>2
  <2>3. CASE WithOwned(m, A) # A
    <3>1. ASSUME NEW S \in SUBSET DOMAIN m, A \subseteq S, Closed(m, S)
          PROVE  WithOwned(m, A) \subseteq S
      BY <3>1 DEF Closed, WithOwned
    <3>2. Least(A) = Least(WithOwned(m, A))
      BY <2>1, <3>1
    <3> QED
      BY <2>1, <2>3, <3>2
  <2> QED
    BY <2>2, <2>3
<1>2. least = F(least)
  BY <1>1
<1>3. all = F(all)
  <2> HIDE DEF F, least
  <2> QED
    BY <1>2, Zenon
<1>4. Beneath(m, cells) = all[Owned(cells) \cap DOMAIN m]
  BY Zenon DEF Beneath
<1> QED
  BY <1>3, <1>4

\* What is beneath some cells: the blocks they own and what these own, no more.
LEMMA BeneathLeast ==
  ASSUME NEW m, IsFiniteSet(DOMAIN m), NEW cells
  PROVE  /\ Beneath(m, cells) \in SUBSET DOMAIN m
         /\ Owned(cells) \cap DOMAIN m \subseteq Beneath(m, cells)
         /\ Closed(m, Beneath(m, cells))
         /\ \A S : Owned(cells) \cap DOMAIN m \subseteq S /\ Closed(m, S)
              => Beneath(m, cells) \subseteq S
<1> DEFINE D == DOMAIN m
           Fits(A, B) == /\ B \in SUBSET D
                         /\ A \subseteq B
                         /\ Closed(m, B)
                         /\ \A S : A \subseteq S /\ Closed(m, S) => B \subseteq S
<1>1. PICK all :
        /\ all = [A \in SUBSET D |-> IF WithOwned(m, A) = A THEN A ELSE all[WithOwned(m, A)]]
        /\ Beneath(m, cells) = all[Owned(cells) \cap D]
  BY BeneathDefined
<1>2. ASSUME NEW A \in SUBSET D, WithOwned(m, A) = A
      PROVE  Fits(A, all[A])
  BY <1>1, <1>2 DEF Closed, WithOwned
<1>3. ASSUME NEW A \in SUBSET D, WithOwned(m, A) # A, Fits(WithOwned(m, A), all[WithOwned(m, A)])
      PROVE  Fits(A, all[A])
  <2>1. A \subseteq WithOwned(m, A)
    BY DEF WithOwned
  <2>2. all[A] = all[WithOwned(m, A)]
    BY <1>1, <1>3
  <2>3. ASSUME NEW S, A \subseteq S, Closed(m, S)
        PROVE  WithOwned(m, A) \subseteq S
    BY <2>3 DEF Closed, WithOwned
  <2> QED
    BY <1>3, <2>1, <2>2, <2>3
<1>4. \A A \in SUBSET D : Fits(A, all[A])
  <2> DEFINE Rest == {T \in SUBSET D : ~Fits(D \ T, all[D \ T])}
  <2>1. SUFFICES Rest = {}
    <3>1. ASSUME NEW A \in SUBSET D PROVE D \ (D \ A) = A
      OBVIOUS
    <3>2. ASSUME NEW A \in SUBSET D PROVE D \ A \notin Rest
      BY <2>1
    <3> QED
      BY <3>1, <3>2
  <2>2. SUFFICES ASSUME Rest # {} PROVE FALSE
    OBVIOUS
  <2>3. FiniteSubsetsOf(D) = SUBSET D
    BY FS_FiniteSubsetsOfFinite
  <2>4. IsWellFoundedOn(StrictSubsetOrdering(D), SUBSET D)
    BY <2>3, FS_StrictSubsetOrderingWellFounded
  <2>5. PICK T \in Rest : \A U \in Rest : <<U, T>> \notin StrictSubsetOrdering(D)
    <3>1. Rest \subseteq SUBSET D
      OBVIOUS
    <3> HIDE DEF Rest
    <3> QED
      BY <2>2, <2>4, <3>1, WFMin
  <2> DEFINE A == D \ T
             B == WithOwned(m, A)
  <2>6. A \in SUBSET D /\ B \in SUBSET D /\ A \subseteq B /\ ~Fits(A, all[A])
    BY <2>5 DEF WithOwned
  <2>7. B # A /\ ~Fits(B, all[B])
    BY <1>2, <1>3, <2>6
  <2>8. D \ B \in Rest /\ D \ B \subseteq T /\ D \ B # T
    BY <2>5, <2>6, <2>7
  <2> QED
    BY <2>5, <2>8 DEF StrictSubsetOrdering
<1>5. Owned(cells) \cap D \in SUBSET D
  OBVIOUS
<1>6. Fits(Owned(cells) \cap D, Beneath(m, cells))
  <2> HIDE DEF Fits
  <2> QED
    BY <1>1, <1>4, <1>5
<1> QED
  BY <1>6

\* What a memory is while an operation works on it: H are the addresses of the
\* blocks that temporary objects own.
IsBlock(a, block) ==
  /\ block \in [type : {"variables", "array", "object", "string"}, text : Text,
                cells : UNION {[K -> Cells] : K \in SUBSET Nat}]
  /\ Shaped(a, block)
IsMemory(m) ==
  /\ IsFiniteSet(DOMAIN m) /\ DOMAIN m \subseteq Nat /\ 0 \in DOMAIN m
  /\ \A a \in DOMAIN m : IsBlock(a, m[a])

\* Cells that own blocks of the types they say.
Fit(m, cells) ==
  \A i \in DOMAIN cells :
    /\ cells[i] \in Cells
    /\ cells[i].type \in Owning => /\ cells[i].at \in DOMAIN m \ {0}
                                   /\ m[cells[i].at].type = cells[i].type
Single(cells) ==
  \A i, j \in DOMAIN cells :
    cells[i].type \in Owning /\ cells[j].type \in Owning /\ cells[i].at = cells[j].at => i = j

Unshared(m, H) ==
  /\ \A a \in DOMAIN m : /\ Fit(m, m[a].cells) /\ Single(m[a].cells)
                         /\ Owned(m[a].cells) \cap H = {}
  /\ \A a, b \in DOMAIN m : a # b => Owned(m[a].cells) \cap Owned(m[b].cells) = {}
Rooted(m, H) ==
  \A S \in SUBSET (DOMAIN m \ {0}) : S # {} =>
    \E a \in S : a \in H \/ \E b \in DOMAIN m \ S : a \in Owned(m[b].cells)
Good(m, H) ==
  /\ IsMemory(m)
  /\ H \subseteq DOMAIN m \ {0}
  /\ Unshared(m, H)
  /\ Rooted(m, H)

\* A block is a record with cells at indices or keys.
LEMMA BlockCells ==
  ASSUME NEW m, IsMemory(m), NEW a \in DOMAIN m
  PROVE  /\ m[a].type \in {"variables", "array", "object", "string"}
         /\ m[a].text \in Text
         /\ DOMAIN m[a] = {"type", "text", "cells"}
         /\ m[a] = Block(m[a].type, m[a].text, m[a].cells)
         /\ DOMAIN m[a].cells \subseteq Nat
         /\ m[a].cells \in [DOMAIN m[a].cells -> Cells]
<1>1. m[a] \in [type : {"variables", "array", "object", "string"}, text : Text,
                 cells : UNION {[K -> Cells] : K \in SUBSET Nat}]
  BY DEF IsMemory, IsBlock
<1>2. PICK K \in SUBSET Nat : m[a].cells \in [K -> Cells]
  <2>1. m[a].cells \in UNION {[K -> Cells] : K \in SUBSET Nat}
    BY <1>1
  <2> QED
    BY <2>1
<1>3. /\ m[a].type \in {"variables", "array", "object", "string"} /\ m[a].text \in Text
      /\ m[a] = [type |-> m[a].type, text |-> m[a].text, cells |-> m[a].cells]
  BY <1>1
<1>4. DOMAIN m[a] = {"type", "text", "cells"}
  BY <1>1
<1> QED
  BY <1>2, <1>3, <1>4 DEF Block

\* The cells of a block are replaced by some of them and some temporary ones,
\* none of which has the block beneath it; those left over become temporary.
LEMMA RefillGood ==
  ASSUME NEW m, NEW H, Good(m, H), NEW a \in DOMAIN m, NEW f,
         IsBlock(a, Block(m[a].type, m[a].text, f)),
         Fit(m, f), Single(f), Owned(f) \subseteq H \cup Owned(m[a].cells),
         NEW C, Closed(m, C), Owned(f) \cap H \subseteq C, a \notin C
  PROVE  Good([m EXCEPT ![a].cells = f], (H \cup Owned(m[a].cells)) \ Owned(f))
<1> DEFINE n == [m EXCEPT ![a].cells = f]
           G == (H \cup Owned(m[a].cells)) \ Owned(f)
<1>0. /\ DOMAIN n = DOMAIN m /\ IsMemory(m) /\ H \subseteq DOMAIN m \ {0}
      /\ Unshared(m, H) /\ Rooted(m, H)
  BY DEF Good
<1>1. /\ n[a] = Block(m[a].type, m[a].text, f)
      /\ \A b \in DOMAIN m \ {a} : n[b] = m[b]
  BY <1>0, BlockCells DEF Block
<1>2. \A b \in DOMAIN m : n[b].type = m[b].type
  BY <1>1 DEF Block
<1>3. n[a].cells = f
  BY <1>1 DEF Block
<1> HIDE DEF n
<1>4. IsMemory(n)
  BY <1>0, <1>1 DEF IsMemory
<1>5. \A g : Fit(m, g) => Fit(n, g)
  BY <1>0, <1>2 DEF Fit
<1>6. Owned(m[a].cells) \subseteq DOMAIN m \ {0}
  BY <1>0 DEF Unshared, Fit, Owned
<1>7. G \subseteq DOMAIN n \ {0}
  BY <1>0, <1>6
<1>8. Unshared(n, G)
  <2>1. ASSUME NEW b \in DOMAIN n
        PROVE  Fit(n, n[b].cells) /\ Single(n[b].cells) /\ Owned(n[b].cells) \cap G = {}
    <3>1. CASE b = a
      BY <1>3, <1>5, <3>1
    <3>2. CASE b # a
      <4>1. Owned(m[b].cells) \cap Owned(m[a].cells) = {}
        BY <1>0, <3>2, <2>1 DEF Unshared
      <4> QED
        BY <1>0, <1>1, <1>5, <3>2, <2>1, <4>1 DEF Unshared
    <3> QED
      BY <3>1, <3>2
  <2>2. ASSUME NEW b \in DOMAIN n, NEW c \in DOMAIN n, b # c
        PROVE  Owned(n[b].cells) \cap Owned(n[c].cells) = {}
    <3>1. \A d \in DOMAIN m \ {a} : Owned(m[d].cells) \cap Owned(f) = {}
      BY <1>0 DEF Unshared
    <3> QED
      BY <1>0, <1>1, <1>3, <2>2, <3>1 DEF Unshared
  <2> QED
    BY <2>1, <2>2 DEF Unshared
<1>9. Rooted(n, G)
  <2> SUFFICES ASSUME NEW S \in SUBSET (DOMAIN n \ {0}), S # {}
               PROVE  \E d \in S : d \in G \/ \E b \in DOMAIN n \ S : d \in Owned(n[b].cells)
    BY DEF Rooted
  <2>1. CASE a \notin S
    <3>1. PICK d \in S : d \in H \/ \E b \in DOMAIN m \ S : d \in Owned(m[b].cells)
      BY <1>0 DEF Rooted
    <3>2. CASE d \in Owned(f)
      BY <1>0, <1>3, <2>1, <3>2
    <3>3. CASE d \notin Owned(f)
      BY <1>0, <1>1, <3>1, <3>3
    <3> QED
      BY <3>2, <3>3
  <2>2. CASE a \in S
    <3>1. S \ C \in SUBSET (DOMAIN m \ {0}) /\ S \ C # {}
      BY <1>0, <2>2
    <3>2. PICK d \in S \ C : d \in H \/ \E b \in DOMAIN m \ (S \ C) : d \in Owned(m[b].cells)
      BY <1>0, <3>1 DEF Rooted
    <3>3. CASE d \in H
      BY <3>2, <3>3
    <3>4. CASE d \notin H
      <4>1. PICK b \in DOMAIN m \ (S \ C) : d \in Owned(m[b].cells)
        BY <3>2, <3>4
      <4>2. b \notin C
        BY <4>1, <1>0, <3>2 DEF Closed
      <4>3. b \notin S /\ b # a
        BY <4>1, <4>2, <2>2
      <4> QED
        BY <1>0, <1>1, <3>2, <4>1, <4>3
    <3> QED
      BY <3>3, <3>4
  <2> QED
    BY <2>1, <2>2
<1> QED
  BY <1>4, <1>7, <1>8, <1>9 DEF Good, n

\* A block of one of the three types, if its cells are.
LEMMA MakesBlock ==
  ASSUME NEW a \in Nat, NEW type, NEW text \in Text,
         NEW f, DOMAIN f \subseteq Nat, f \in [DOMAIN f -> Cells],
         \/ type = "variables" /\ a = 0 /\ DOMAIN f = Name
         \/ type = "array" /\ a # 0 /\ f \in Seq(Cells)
         \/ type = "object" /\ a # 0 /\ DOMAIN f \subseteq Text
         \/ type = "string" /\ a # 0 /\ f = <<>>
  PROVE  IsBlock(a, Block(type, text, f))
<1>1. f \in UNION {[K -> Cells] : K \in SUBSET Nat}
  OBVIOUS
<1>2. Block(type, text, f) \in
        [type : {"variables", "array", "object", "string"}, text : Text,
         cells : UNION {[K -> Cells] : K \in SUBSET Nat}]
  <2>1. type \in {"variables", "array", "object", "string"}
    OBVIOUS
  <2> QED
    BY <1>1, <2>1 DEF Block
<1>3. Shaped(a, Block(type, text, f))
  BY DEF Shaped, Block
<1> QED
  BY <1>2, <1>3 DEF IsBlock

\* What a block's type says of its cells.
LEMMA BlockShape ==
  ASSUME NEW m, IsMemory(m), NEW a \in DOMAIN m
  PROVE  /\ a \in Nat
         /\ a = 0 => m[a].type = "variables" /\ DOMAIN m[a].cells = Name
         /\ a # 0 => m[a].type \in Owning
         /\ m[a].type = "array" => m[a].cells \in Seq(Cells)
         /\ m[a].type = "object" => DOMAIN m[a].cells \subseteq Text
         /\ m[a].type = "string" => m[a].cells = <<>>
<1>1. Shaped(a, m[a]) /\ m[a].type \in {"variables", "array", "object", "string"} /\ a \in Nat
  BY BlockCells DEF IsMemory, IsBlock
<1> QED
  BY <1>1 DEF Shaped, Owning, Containers

-----------------------------------------------------------------------------
(* Addresses above all others *)

\* A finite set of numbers has a greatest one.
LEMMA MaxIsThere ==
  ASSUME NEW S \in SUBSET Nat, IsFiniteSet(S), S # {}
  PROVE  Max(S) \in S /\ \A x \in S : x <= Max(S)
<1> DEFINE Above(x) == {y \in S : y > x}
           All == {Above(x) : x \in S}
<1>1. FiniteSubsetsOf(S) = SUBSET S
  BY FS_FiniteSubsetsOfFinite
<1>2. IsWellFoundedOn(StrictSubsetOrdering(S), SUBSET S)
  BY <1>1, FS_StrictSubsetOrderingWellFounded
<1>3. PICK T \in All : \A U \in All : <<U, T>> \notin StrictSubsetOrdering(S)
  <2>1. All \subseteq SUBSET S /\ All # {}
    OBVIOUS
  <2> HIDE DEF All
  <2> QED
    BY <1>2, <2>1, WFMin
<1>4. PICK x \in S : T = Above(x)
  BY <1>3
<1>5. ASSUME NEW y \in S, y > x
      PROVE  FALSE
  <2>1. x \in Nat /\ y \in Nat /\ \A z \in S : z \in Nat
    OBVIOUS
  <2>2. Above(y) \subseteq Above(x) /\ y \in Above(x) /\ y \notin Above(y)
    <3>1. ASSUME NEW z \in S, z > y
          PROVE  z > x
      BY <1>5, <2>1, <3>1
    <3>2. Above(y) \subseteq Above(x)
      BY <3>1
    <3>3. y \in Above(x)
      BY <1>5
    <3>4. ~(y > y)
      BY <2>1
    <3>5. y \notin Above(y)
      BY <3>4
    <3> QED
      BY <3>2, <3>3, <3>5
  <2>3. Above(y) \in All
    OBVIOUS
  <2>4. Above(y) \in SUBSET S /\ Above(x) \in SUBSET S
    OBVIOUS
  <2> HIDE DEF Above, All
  <2>5. <<Above(y), Above(x)>> \in StrictSubsetOrdering(S)
    BY <2>2, <2>4 DEF StrictSubsetOrdering
  <2> QED
    BY <1>3, <1>4, <2>3, <2>5
<1>6. \A y \in S : x >= y
  <2>1. \A y \in S : y \in Nat /\ x \in Nat
    OBVIOUS
  <2> QED
    BY <1>5, <2>1
<1>7. \E z \in S : \A y \in S : z >= y
  BY <1>6
<1>8. Max(S) \in S /\ \A y \in S : Max(S) >= y
  BY <1>7 DEF Max
<1> QED
  BY <1>8

\* Top is above all addresses.
LEMMA TopBound ==
  ASSUME NEW m, IsMemory(m)
  PROVE  /\ Top(m) \in Nat
         /\ \A a \in DOMAIN m : a <= Top(m)
         /\ Top(m) + 1 \notin DOMAIN m
<1>1. DOMAIN m \in SUBSET Nat /\ DOMAIN m # {} /\ IsFiniteSet(DOMAIN m)
  BY DEF IsMemory
<1>2. Top(m) \in DOMAIN m /\ \A a \in DOMAIN m : a <= Top(m)
  BY <1>1, MaxIsThere DEF Top
<1> QED
  BY <1>1, <1>2

-----------------------------------------------------------------------------
(* create and the destructor *)

\* A memory that has grown.
Extends(n, m) == DOMAIN m \subseteq DOMAIN n /\ \A a \in DOMAIN m : n[a] = m[a]

\* What a block may hold.
Storable(type, text, f) ==
  /\ type \in Owning /\ text \in Text
  /\ DOMAIN f \subseteq Nat /\ f \in [DOMAIN f -> Cells]
  /\ \/ type = "array" /\ f \in Seq(Cells)
     \/ type = "object" /\ DOMAIN f \subseteq Text
     \/ type = "string" /\ f = <<>>

\* What a single cell owns.
LEMMA OneOwned ==
  ASSUME NEW c
  PROVE  Owned(<<c>>) = IF c.type \in Owning THEN {c.at} ELSE {}
BY DEF Owned

\* The cells f are temporary objects, besides others that own H.
Held(m, H, f) ==
  /\ Good(m, H \cup Owned(f)) /\ \A a \in H : a \notin Owned(f)
  /\ Fit(m, f) /\ Single(f)

\* One more block.
Grown(n, m, t, block) ==
  /\ DOMAIN n = DOMAIN m \cup {t} /\ t \in Nat \ DOMAIN m
  /\ n[t] = block /\ \A a \in DOMAIN m : n[a] = m[a]

\* create gives a temporary cell that owns what the temporary cells of the new
\* block own.
LEMMA CreateGood ==
  ASSUME NEW m, NEW H, NEW type, NEW text, NEW f, Storable(type, text, f),
         Held(m, H, f),
         NEW r, r = create(m, Block(type, text, f))
  PROVE  /\ Held(r.memory, H, <<r.cell>>)
         /\ Grown(r.memory, m, r.cell.at, Block(type, text, f))
         /\ r.cell \in Cells /\ r.cell.type = type
<1> DEFINE n == r.memory
           t == Top(m) + 1
           b == Block(type, text, f)
           J == H \cup Owned(f)
           G == H \cup {t}
<1>0. /\ IsMemory(m) /\ Unshared(m, J) /\ Rooted(m, J) /\ J \subseteq DOMAIN m \ {0}
      /\ H \cap Owned(f) = {} /\ Fit(m, f) /\ Single(f)
  BY DEF Good, Held
<1>1. t \in Nat /\ t \notin DOMAIN m /\ t # 0 /\ \A a \in DOMAIN m : a <= t
  BY <1>0, TopBound DEF IsMemory
<1>2. n = Joined(At(t, b), m) /\ r.cell = Cell(type, t)
  BY DEF create, Result, Block
<1>3. DOMAIN n = DOMAIN m \cup {t} /\ n[t] = b /\ \A a \in DOMAIN m : n[a] = m[a]
  BY <1>1, <1>2 DEF At, Joined
<1> HIDE DEF n, t
<1>4. b.type = type /\ b.cells = f
  BY DEF Block
<1>5. IsBlock(t, b)
  BY <1>1, MakesBlock DEF Storable
<1> HIDE DEF b
<1>6. IsMemory(n)
  <2>1. IsFiniteSet(DOMAIN n)
    BY <1>0, <1>3, FS_AddElement DEF IsMemory
  <2> QED
    BY <1>0, <1>1, <1>3, <1>5, <2>1 DEF IsMemory
<1>7. \A g : Fit(m, g) => Fit(n, g)
  BY <1>3 DEF Fit
<1>8. \A a \in DOMAIN m : t \notin Owned(m[a].cells)
  BY <1>0, <1>1 DEF Unshared, Fit, Owned
<1>9. Unshared(n, G)
  <2>1. ASSUME NEW a \in DOMAIN n
        PROVE  Fit(n, n[a].cells) /\ Single(n[a].cells) /\ Owned(n[a].cells) \cap G = {}
    <3>1. CASE a = t
      BY <1>0, <1>1, <1>3, <1>4, <1>7, <3>1
    <3>2. CASE a # t
      BY <1>0, <1>3, <1>7, <1>8, <2>1, <3>2 DEF Unshared
    <3> QED
      BY <3>1, <3>2
  <2>2. ASSUME NEW a \in DOMAIN n, NEW c \in DOMAIN n, a # c
        PROVE  Owned(n[a].cells) \cap Owned(n[c].cells) = {}
    BY <1>0, <1>1, <1>3, <1>4, <2>2 DEF Unshared
  <2> QED
    BY <2>1, <2>2 DEF Unshared
<1>10. Rooted(n, G)
  <2> SUFFICES ASSUME NEW S \in SUBSET (DOMAIN n \ {0}), S # {}
               PROVE  \E d \in S : d \in G \/ \E a \in DOMAIN n \ S : d \in Owned(n[a].cells)
    BY DEF Rooted
  <2>1. CASE t \in S
    BY <2>1
  <2>2. CASE t \notin S
    <3>1. PICK d \in S : d \in J \/ \E a \in DOMAIN m \ S : d \in Owned(m[a].cells)
      BY <1>0, <1>3, <2>2 DEF Rooted
    <3>2. CASE d \in Owned(f)
      BY <1>3, <1>4, <2>2, <3>2
    <3>3. CASE d \notin Owned(f)
      BY <1>3, <3>1, <3>3
    <3> QED
      BY <3>2, <3>3
  <2> QED
    BY <2>1, <2>2
<1>11. G \subseteq DOMAIN n \ {0}
  BY <1>0, <1>1, <1>3
<1>12. Good(n, G)
  BY <1>6, <1>9, <1>10, <1>11 DEF Good
<1>13. Grown(n, m, t, b)
  BY <1>1, <1>3 DEF Grown
<1>14. r.cell \in Cells /\ r.cell.type = type /\ r.cell.at = t
  BY <1>1, <1>2 DEF Cell, Cells, Storable, Owning, Containers
<1>15. Owned(<<r.cell>>) = {t}
  BY <1>14, OneOwned DEF Storable
<1>16. Fit(n, <<r.cell>>) /\ Single(<<r.cell>>)
  BY <1>1, <1>3, <1>4, <1>14 DEF Fit, Single
<1>17. \A a \in H : a # t
  BY <1>0, <1>1
<1>18. Held(n, H, <<r.cell>>)
  BY <1>12, <1>15, <1>16, <1>17 DEF Held
<1> QED
  BY <1>13, <1>14, <1>18 DEF n, b

\* What is beneath cells is owned by these or by something beneath them.
LEMMA BeneathOwned ==
  ASSUME NEW m, IsFiniteSet(DOMAIN m), NEW f, NEW b \in Beneath(m, f), b \notin Owned(f)
  PROVE  \E a \in Beneath(m, f) : b \in Owned(m[a].cells)
<1> DEFINE S == {c \in Beneath(m, f) :
                   c \in Owned(f) \/ \E a \in Beneath(m, f) : c \in Owned(m[a].cells)}
<1>1. Closed(m, S) /\ Owned(f) \cap DOMAIN m \subseteq S
  BY BeneathLeast DEF Closed
<1>2. Beneath(m, f) \subseteq S
  <2> HIDE DEF S
  <2> QED
    BY <1>1, BeneathLeast
<1> QED
  BY <1>2

\* No cell has the variables beneath it.
LEMMA BeneathNotVariables ==
  ASSUME NEW m, NEW H, Good(m, H), NEW f, 0 \notin Owned(f)
  PROVE  0 \notin Beneath(m, f)
<1>1. IsFiniteSet(DOMAIN m) /\ \A a \in DOMAIN m : 0 \notin Owned(m[a].cells)
  BY DEF Good, IsMemory, Unshared, Fit, Owned
<1>2. Closed(m, DOMAIN m \ {0})
  BY <1>1 DEF Closed
<1> QED
  BY <1>1, <1>2, BeneathLeast

\* The destructor of temporary cells removes what only they own, all of it.
LEMMA DestroyGood ==
  ASSUME NEW m, NEW H, Good(m, H), NEW f, Owned(f) \subseteq H
  PROVE  /\ Good(Destroyed(m, f), H \ Owned(f))
         /\ Extends(m, Destroyed(m, f))
<1> DEFINE n == Destroyed(m, f)
           B == Beneath(m, f)
           G == H \ Owned(f)
<1>0. /\ IsMemory(m) /\ Unshared(m, H) /\ Rooted(m, H)
      /\ H \subseteq DOMAIN m \ {0} /\ IsFiniteSet(DOMAIN m)
  BY DEF Good, IsMemory
<1>1. B \subseteq DOMAIN m /\ Owned(f) \subseteq B /\ Closed(m, B)
  BY <1>0, BeneathLeast
<1>2. 0 \notin B
  BY <1>0, BeneathNotVariables
<1>3. ASSUME NEW b \in B
      PROVE  b \in Owned(f) \/ \E a \in B : b \in Owned(m[a].cells)
  BY <1>0, BeneathOwned
<1>4. DOMAIN n = DOMAIN m \ B /\ \A a \in DOMAIN m \ B : n[a] = m[a]
  BY DEF Destroyed, Restrict
<1> HIDE DEF n, B
<1>5. ASSUME NEW a \in DOMAIN n
      PROVE  Owned(m[a].cells) \cap B = {}
  BY <1>0, <1>1, <1>3, <1>4 DEF Unshared
<1>6. G \cap B = {}
  BY <1>0, <1>1, <1>3 DEF Unshared
<1>7. IsMemory(n)
  <2>1. IsFiniteSet(DOMAIN n)
    BY <1>0, <1>4, FS_Subset
  <2> QED
    BY <1>0, <1>2, <1>4, <2>1 DEF IsMemory
<1>8. ASSUME NEW a \in DOMAIN n
      PROVE  Fit(n, n[a].cells) /\ Single(n[a].cells) /\ Owned(n[a].cells) \cap G = {}
  <2>1. n[a] = m[a] /\ Fit(m, m[a].cells) /\ Single(m[a].cells) /\ Owned(m[a].cells) \cap H = {}
    BY <1>0, <1>4 DEF Unshared
  <2>2. Owned(m[a].cells) \cap B = {}
    BY <1>5
  <2>3. Fit(n, m[a].cells)
    BY <1>4, <2>1, <2>2 DEF Fit, Owned
  <2> QED
    BY <2>1, <2>3
<1>9. Unshared(n, G)
  BY <1>0, <1>4, <1>8 DEF Unshared
<1>10. Rooted(n, G)
  <2> SUFFICES ASSUME NEW S \in SUBSET (DOMAIN n \ {0}), S # {}
               PROVE  \E d \in S : d \in G \/ \E a \in DOMAIN n \ S : d \in Owned(n[a].cells)
    BY DEF Rooted
  <2>1. PICK d \in S : d \in H \/ \E a \in DOMAIN m \ S : d \in Owned(m[a].cells)
    BY <1>0, <1>4 DEF Rooted
  <2>2. d \notin B
    BY <1>4
  <2>3. CASE d \in H
    BY <1>1, <2>2, <2>3
  <2>4. CASE d \notin H
    <3>1. PICK a \in DOMAIN m \ S : d \in Owned(m[a].cells)
      BY <2>1, <2>4
    <3>2. a \notin B
      BY <1>1, <1>4, <2>2, <3>1 DEF Closed
    <3> QED
      BY <1>4, <3>1, <3>2
  <2> QED
    BY <2>3, <2>4
<1>11. G \subseteq DOMAIN n \ {0}
  BY <1>0, <1>4, <1>6
<1> QED
  BY <1>4, <1>7, <1>9, <1>10, <1>11 DEF Good, Extends, n

\* Multiples of a number are at least that number apart.
LEMMA TimesMonotone ==
  ASSUME NEW x \in Nat, NEW y \in Nat, NEW t \in Nat, x < y
  PROVE  x * t + t <= y * t
<1>1. PICK d \in Nat : y = x + 1 + d
  <2>1. y - x - 1 \in Nat /\ y = x + 1 + (y - x - 1)
    OBVIOUS
  <2> QED
    BY <2>1
<1>2. y * t = x * t + t + d * t
  BY <1>1
<1>3. d * t \in Nat /\ x * t \in Nat
  OBVIOUS
<1> QED
  BY <1>2, <1>3

\* The copies of different sources have different addresses,
LEMMA CopyToInjective ==
  ASSUME NEW top \in Nat, NEW i \in Nat, NEW j \in Nat, NEW a \in 1 .. top, NEW b \in 1 .. top,
         CopyTo(top, i, a) = CopyTo(top, j, b)
  PROVE  i = j /\ a = b
<1>1. a + i * top = b + j * top /\ i * top \in Nat /\ j * top \in Nat /\ a \in Nat /\ b \in Nat
  BY DEF CopyTo
<1>2. CASE i < j
  <2>1. i * top + top <= j * top
    BY <1>2, TimesMonotone
  <2> HIDE DEF CopyTo
  <2> QED
    BY <1>1, <2>1
<1>3. CASE j < i
  <2>1. j * top + top <= i * top
    BY <1>3, TimesMonotone
  <2> QED
    BY <1>1, <2>1
<1>4. CASE i = j
  BY <1>1, <1>4
<1> QED
  BY <1>2, <1>3, <1>4

\* and none is an address in use.
LEMMA CopyToFresh ==
  ASSUME NEW top \in Nat, NEW i \in Nat \ {0}, NEW a \in 1 .. top
  PROVE  CopyTo(top, i, a) \in Nat /\ CopyTo(top, i, a) > top
<1>1. 0 * top + top <= i * top
  BY TimesMonotone
<1>2. i * top \in Nat /\ 0 * top = 0
  OBVIOUS
<1> QED
  BY <1>1, <1>2 DEF CopyTo

\* No block is beneath itself.
LEMMA NotBeneathItself ==
  ASSUME NEW m, NEW H, Good(m, H), NEW c, c.type \in Owning, Fit(m, <<c>>),
         NEW a \in Beneath(m, <<c>>)
  PROVE  c.at \notin Owned(m[a].cells)
<1> DEFINE B == Beneath(m, <<c>>)
<1>0. Unshared(m, H) /\ Rooted(m, H) /\ IsFiniteSet(DOMAIN m)
  BY DEF Good, IsMemory
<1>1. Owned(<<c>>) = {c.at} /\ c.at \in DOMAIN m \ {0}
  BY DEF Owned, Fit
<1>2. B \in SUBSET (DOMAIN m \ {0}) /\ c.at \in B
  BY <1>0, <1>1, BeneathLeast, BeneathNotVariables
<1>3. PICK d \in B : d \in H \/ \E b \in DOMAIN m \ B : d \in Owned(m[b].cells)
  BY <1>0, <1>2 DEF Rooted
<1>4. CASE d # c.at
  <2>1. PICK b \in B : d \in Owned(m[b].cells)
    BY <1>0, <1>1, <1>4, BeneathOwned
  <2> QED
    BY <1>0, <1>2, <1>3, <2>1 DEF Unshared
<1>5. CASE d = c.at
  BY <1>0, <1>2, <1>3, <1>5 DEF Unshared
<1> QED
  BY <1>4, <1>5

\* Who owns an address.
LEMMA OwnedIff ==
  ASSUME NEW f
  PROVE  \A x : x \in Owned(f) <=> \E i \in DOMAIN f : f[i].type \in Owning /\ f[i].at = x
BY DEF Owned

\* New blocks beneath the cells f, next to the memory m in which temporaries
\* own H.
Made(n, m, H, f) ==
  /\ Good(m, H) /\ Good(n, H \cup Owned(f))
  /\ Extends(n, m)
  /\ Closed(n, DOMAIN n \ DOMAIN m)
  /\ Owned(f) \cap DOMAIN m = {}
  /\ Fit(n, f) /\ Single(f)

\* The copies are new blocks that the returned cells own, and beneath which
\* nothing is shared with the sources.
LEMMA CopyMade ==
  ASSUME NEW m, NEW H, Good(m, H), NEW f, DOMAIN f \subseteq Nat \ {0}, IsFiniteSet(DOMAIN f),
         Fit(m, f), NEW r, r = Copies(m, f)
  PROVE  /\ Made(r.memory, m, H, r.cells)
         /\ r.cells \in [DOMAIN f -> Cells]
         /\ \A i \in DOMAIN f : r.cells[i].type = f[i].type
<1> DEFINE top == Top(m)
           sources == Sources(m, f)
           to(s) == CopyTo(top, s[1], s[2])
           from(b) == CHOOSE s \in sources : to(s) = b
           K == {to(s) : s \in sources}
           n == r.memory
           g == r.cells
           B(i) == Beneath(m, <<f[i]>>)
<1>0. /\ IsMemory(m) /\ Unshared(m, H) /\ Rooted(m, H)
      /\ H \subseteq DOMAIN m \ {0} /\ IsFiniteSet(DOMAIN m)
  BY DEF Good, IsMemory
<1>1. top \in Nat /\ DOMAIN m \subseteq Nat /\ \A a \in DOMAIN m : a <= top
  BY <1>0, TopBound DEF IsMemory
<1>2. ASSUME NEW i \in DOMAIN f
      PROVE  /\ i \in Nat \ {0} /\ f[i] \in Cells
             /\ B(i) \subseteq DOMAIN m \ {0}
             /\ Closed(m, B(i))
             /\ f[i].type \in Owning => f[i].at \in B(i) /\ m[f[i].at].type = f[i].type
             /\ \A S : Owned(<<f[i]>>) \cap DOMAIN m \subseteq S /\ Closed(m, S) => B(i) \subseteq S
             /\ \A b \in B(i) \ {f[i].at} : \E a \in B(i) : b \in Owned(m[a].cells)
             /\ \A a \in B(i) : f[i].at \notin Owned(m[a].cells)
             /\ Owned(<<f[i]>>) = IF f[i].type \in Owning THEN {f[i].at} ELSE {}
  <2>1. Owned(<<f[i]>>) = IF f[i].type \in Owning THEN {f[i].at} ELSE {}
    BY DEF Owned
  <2>2. /\ f[i] \in Cells
        /\ f[i].type \in Owning => f[i].at \in DOMAIN m \ {0} /\ m[f[i].at].type = f[i].type
    BY DEF Fit
  <2>3. /\ B(i) \subseteq DOMAIN m /\ Closed(m, B(i))
        /\ Owned(<<f[i]>>) \cap DOMAIN m \subseteq B(i)
        /\ \A S : Owned(<<f[i]>>) \cap DOMAIN m \subseteq S /\ Closed(m, S) => B(i) \subseteq S
    BY <1>0, BeneathLeast
  <2>4. 0 \notin B(i)
    BY <2>1, <2>2, BeneathNotVariables
  <2>5. \A b \in B(i) \ {f[i].at} : \E a \in B(i) : b \in Owned(m[a].cells)
    BY <1>0, <2>1, BeneathOwned
  <2>6. ASSUME NEW a \in B(i)
        PROVE  f[i].at \notin Owned(m[a].cells)
    <3>1. CASE f[i].type \in Owning
      <4>1. Fit(m, <<f[i]>>)
        BY <2>2 DEF Fit
      <4> QED
        BY <3>1, <4>1, NotBeneathItself
    <3>2. CASE f[i].type \notin Owning
      <4>1. Owned(<<f[i]>>) \cap DOMAIN m \subseteq {} /\ Closed(m, {})
        BY <2>1, <3>2 DEF Closed
      <4> QED
        BY <2>3, <4>1
    <3> QED
      BY <3>1, <3>2
  <2> HIDE DEF B
  <2> QED
    BY <2>1, <2>2, <2>3, <2>4, <2>5, <2>6
<1>3. ASSUME NEW s \in sources
      PROVE  s = <<s[1], s[2]>> /\ s[1] \in DOMAIN f /\ s[2] \in B(s[1]) /\ s[2] \in 1 .. top
  <2>0. PICK i \in DOMAIN f : \E a \in B(i) : s = <<i, a>>
    BY DEF Sources
  <2>1. PICK a \in B(i) : s = <<i, a>>
    BY <2>0
  <2>2. a \in DOMAIN m \ {0}
    BY <1>2
  <2>3. a \in Nat /\ a # 0 /\ a <= top
    BY <1>1, <2>2
  <2>4. a \in 1 .. top
    <3> HIDE DEF top
    <3> QED
      BY <1>1, <2>3
  <2> QED
    BY <2>1, <2>4
<1>4. ASSUME NEW i \in DOMAIN f, NEW a \in B(i)
      PROVE  <<i, a>> \in sources /\ to(<<i, a>>) \in K /\ to(<<i, a>>) = CopyTo(top, i, a)
  <2> DEFINE X == {<<i, b>> : b \in B(i)}
  <2>0. <<i, a>> \in X
    OBVIOUS
  <2>1. <<i, a>> \in sources
    <3>1. X \in {{<<j, b>> : b \in B(j)} : j \in DOMAIN f}
      BY Zenon
    <3>2. sources = UNION {{<<j, b>> : b \in B(j)} : j \in DOMAIN f}
      BY Zenon DEF Sources
    <3> HIDE DEF X
    <3> QED
      BY <2>0, <3>1, <3>2
  <2>2. <<i, a>>[1] = i /\ <<i, a>>[2] = a
    OBVIOUS
  <2> QED
    BY <2>1, <2>2, Zenon
<1>5. \A s, t \in sources : to(s) = to(t) => s = t
  <2> SUFFICES ASSUME NEW s \in sources, NEW t \in sources, to(s) = to(t) PROVE s = t
    OBVIOUS
  <2>1. s[1] \in Nat /\ t[1] \in Nat /\ s[2] \in 1 .. top /\ t[2] \in 1 .. top
    BY <1>2, <1>3
  <2>2. s[1] = t[1] /\ s[2] = t[2]
    BY <1>1, <2>1, CopyToInjective
  <2> QED
    BY <1>3, <2>2
<1>6. ASSUME NEW s \in sources
      PROVE  to(s) \in Nat \ {0} /\ to(s) \notin DOMAIN m /\ from(to(s)) = s
  <2>1. to(s) \in Nat /\ to(s) > top
    BY <1>1, <1>2, <1>3, CopyToFresh
  <2>2. to(s) # 0 /\ to(s) \notin DOMAIN m
    <3> HIDE DEF to, top
    <3> QED
      BY <1>1, <2>1
  <2>3. from(to(s)) = s
    <3> HIDE DEF to, sources
    <3> QED
      BY <1>5
  <2> QED
    BY <2>1, <2>2, <2>3
<1>7. /\ n = Joined(m, [b \in K |-> BlockCopy(top, from(b)[1], m[from(b)[2]])])
      /\ g = [i \in DOMAIN f |-> CopyOf(top, i, f[i])]
  BY DEF Copies, Results
<1>8. /\ DOMAIN n = DOMAIN m \cup K
      /\ \A a \in DOMAIN m : n[a] = m[a]
      /\ \A s \in sources : n[to(s)] = BlockCopy(top, s[1], m[s[2]])
      /\ \A b \in K : \E s \in sources : b = to(s)
      /\ \A s \in sources : to(s) \in K
      /\ K \cap DOMAIN m = {}
  <2>1. \A b \in K : b \notin DOMAIN m /\ \E s \in sources : b = to(s) /\ from(b) = s
    BY <1>6
  <2>2. \A s \in sources : to(s) \in K
    OBVIOUS
  <2>3. \A s \in sources : to(s) \in K /\ from(to(s)) = s
    BY <1>6
  <2> HIDE DEF K, to, from, n, sources
  <2> QED
    BY <1>7, <2>1, <2>3 DEF Joined
<1> HIDE DEF sources, from, n, g, K, to
<1>9. ASSUME NEW i \in DOMAIN f, NEW c \in Cells, c.type \in Owning => c.at \in B(i)
      PROVE  /\ CopyOf(top, i, c) \in Cells /\ CopyOf(top, i, c).type = c.type
             /\ c.type \in Owning => CopyOf(top, i, c).at = to(<<i, c.at>>) /\ to(<<i, c.at>>) \in K
                                      /\ <<i, c.at>> \in sources
  <2>1. CASE c.type \in Owning
    <3>1. CopyOf(top, i, c) = [type |-> c.type, at |-> to(<<i, c.at>>)] /\ <<i, c.at>> \in sources
      BY <1>4, <1>9, <2>1 DEF CopyOf, Cell, to
    <3>2. to(<<i, c.at>>) \in Nat /\ to(<<i, c.at>>) \in K
      BY <1>6, <1>8, <3>1
    <3> QED
      BY <3>1, <3>2 DEF Cells
  <2>2. CASE c.type \notin Owning
    BY <2>2 DEF CopyOf
  <2> QED
    BY <2>1, <2>2
<1>10. ASSUME NEW s \in sources
       PROVE  /\ s[1] \in DOMAIN f /\ s[2] \in DOMAIN m \ {0}
              /\ n[to(s)].type = m[s[2]].type
              /\ n[to(s)].text = m[s[2]].text
              /\ n[to(s)].cells \in [DOMAIN m[s[2]].cells -> Cells]
              /\ \A j \in DOMAIN m[s[2]].cells :
                   LET c == m[s[2]].cells[j]
                       d == n[to(s)].cells[j] IN
                   /\ d.type = c.type
                   /\ c.type \in Owning =>
                        /\ d.at = to(<<s[1], c.at>>)
                        /\ <<s[1], c.at>> \in sources
                        /\ c.at \in Owned(m[s[2]].cells)
  <2> DEFINE i == s[1]
             a == s[2]
             old == m[a].cells
  <2>1. i \in DOMAIN f /\ a \in B(i) /\ a \in DOMAIN m \ {0} /\ Closed(m, B(i))
    BY <1>2, <1>3
  <2>2. n[to(s)] = Block(m[a].type, m[a].text, [j \in DOMAIN old |-> CopyOf(top, i, old[j])])
    BY <1>8 DEF BlockCopy
  <2>3. ASSUME NEW j \in DOMAIN old
        PROVE  /\ old[j] \in Cells
               /\ old[j].type \in Owning => old[j].at \in B(i) /\ old[j].at \in Owned(old)
    <3>1. old[j] \in Cells /\ (old[j].type \in Owning => old[j].at \in DOMAIN m)
      BY <1>0, <2>1 DEF Unshared, Fit
    <3>2. old[j].type \in Owning => old[j].at \in Owned(old)
      BY DEF Owned
    <3> HIDE DEF B, old
    <3> QED
      BY <2>1, <3>1, <3>2 DEF Closed, old
  <2>4. \A j \in DOMAIN old :
          /\ CopyOf(top, i, old[j]) \in Cells /\ CopyOf(top, i, old[j]).type = old[j].type
          /\ old[j].type \in Owning => /\ CopyOf(top, i, old[j]).at = to(<<i, old[j].at>>)
                                       /\ <<i, old[j].at>> \in sources
    <3> HIDE DEF B, old, top
    <3> QED
      BY <1>9, <2>1, <2>3
  <2>5. /\ n[to(s)].type = m[a].type /\ n[to(s)].text = m[a].text
        /\ n[to(s)].cells = [j \in DOMAIN old |-> CopyOf(top, i, old[j])]
    BY <2>2 DEF Block
  <2> HIDE DEF B, top
  <2> QED
    BY <2>1, <2>3, <2>4, <2>5
<1>11. ASSUME NEW s \in sources
       PROVE  /\ Owned(n[to(s)].cells) = {to(<<s[1], c>>) : c \in Owned(m[s[2]].cells)}
              /\ \A c \in Owned(m[s[2]].cells) : <<s[1], c>> \in sources
              /\ Single(n[to(s)].cells)
              /\ Fit(n, n[to(s)].cells)
  <2> DEFINE i == s[1]
             old == m[s[2]].cells
             new == n[to(s)].cells
  <2>1. /\ new \in [DOMAIN old -> Cells]
        /\ \A j \in DOMAIN old :
             /\ new[j].type = old[j].type
             /\ old[j].type \in Owning => /\ new[j].at = to(<<i, old[j].at>>)
                                          /\ <<i, old[j].at>> \in sources
                                          /\ old[j].at \in Owned(old)
    BY <1>10
  <2>2. DOMAIN new = DOMAIN old
    BY <2>1
  <2>3. Fit(m, old) /\ Single(old)
    BY <1>0, <1>10 DEF Unshared
  <2> HIDE DEF new, old
  <2>4. Owned(new) = {to(<<i, c>>) : c \in Owned(old)} /\ \A c \in Owned(old) : <<i, c>> \in sources
    <3>1. ASSUME NEW x \in Owned(new)
          PROVE  \E c \in Owned(old) : x = to(<<i, c>>)
      <4>1. PICK j \in DOMAIN new : new[j].type \in Owning /\ new[j].at = x
        BY OwnedIff
      <4> QED
        BY <2>1, <2>2, <4>1
    <3>2. ASSUME NEW c \in Owned(old)
          PROVE  to(<<i, c>>) \in Owned(new) /\ <<i, c>> \in sources
      <4>1. PICK j \in DOMAIN old : old[j].type \in Owning /\ old[j].at = c
        BY OwnedIff
      <4>2. new[j].type \in Owning /\ new[j].at = to(<<i, c>>) /\ <<i, c>> \in sources
        BY <2>1, <4>1
      <4> QED
        BY <2>2, <4>2, OwnedIff
    <3> QED
      BY <3>1, <3>2
  <2>5. Single(new)
    <3> SUFFICES ASSUME NEW j \in DOMAIN new, NEW k \in DOMAIN new, new[j].type \in Owning,
                        new[k].type \in Owning, new[j].at = new[k].at
                 PROVE  j = k
      BY DEF Single
    <3>1. <<i, old[j].at>> = <<i, old[k].at>>
      BY <1>5, <2>1, <2>2
    <3> QED
      BY <2>1, <2>2, <2>3, <3>1 DEF Single
  <2>6. Fit(n, new)
    <3> SUFFICES ASSUME NEW j \in DOMAIN new, new[j].type \in Owning
                 PROVE  new[j].at \in DOMAIN n \ {0} /\ n[new[j].at].type = new[j].type
      BY <2>1, <2>2 DEF Fit
    <3>1. /\ new[j].at = to(<<i, old[j].at>>) /\ <<i, old[j].at>> \in sources
          /\ new[j].type = old[j].type /\ m[old[j].at].type = old[j].type
      BY <2>1, <2>2, <2>3 DEF Fit
    <3>2. n[new[j].at].type = m[old[j].at].type
      BY <1>10, <3>1
    <3> QED
      BY <1>6, <1>8, <3>1, <3>2
  <2> QED
    BY <2>4, <2>5, <2>6 DEF new, old
<1>12. IsMemory(n)
  <2>1. IsFiniteSet(DOMAIN n)
    <3>1. IsFiniteSet((DOMAIN f) \X (DOMAIN m))
      BY <1>0, FS_Product
    <3>2. sources \subseteq (DOMAIN f) \X (DOMAIN m)
      <4> SUFFICES ASSUME NEW s \in sources PROVE s \in (DOMAIN f) \X (DOMAIN m)
        OBVIOUS
      <4>1. s = <<s[1], s[2]>> /\ s[1] \in DOMAIN f /\ s[2] \in DOMAIN m
        BY <1>3, <1>10
      <4> QED
        BY <4>1
    <3>3. IsFiniteSet(sources)
      BY <3>1, <3>2, FS_Subset
    <3> DEFINE h == [s \in sources |-> to(s)]
    <3>4. h \in Surjection(sources, K)
      BY <1>8 DEF Surjection
    <3>5. IsFiniteSet(K)
      BY <3>3, <3>4, FS_Surjection
    <3>6. IsFiniteSet(DOMAIN m)
      BY <1>0
    <3> QED
      <4>1. IsFiniteSet(DOMAIN m \cup K)
        BY <3>5, <3>6, FS_Union
      <4> QED
        BY <1>8, <4>1
  <2>2. ASSUME NEW s \in sources
        PROVE  IsBlock(to(s), n[to(s)])
    <3> DEFINE old == m[s[2]].cells
               new == n[to(s)].cells
    <3>1. /\ s[2] \in DOMAIN m \ {0} /\ new \in [DOMAIN old -> Cells] /\ DOMAIN new = DOMAIN old
          /\ n[to(s)].type = m[s[2]].type /\ n[to(s)].text = m[s[2]].text
          /\ n[to(s)] = Block(n[to(s)].type, n[to(s)].text, new)
      <4>1. n[to(s)] = Block(n[to(s)].type, n[to(s)].text, new)
        <5>1. PICK k : n[to(s)] = [type |-> m[s[2]].type, text |-> m[s[2]].text, cells |-> k]
          BY <1>8 DEF BlockCopy, Block
        <5> QED
          BY <5>1 DEF Block
      <4>2. DOMAIN new = DOMAIN old
        BY <1>10
      <4> HIDE DEF new, old
      <4> QED
        BY <1>10, <4>1, <4>2 DEF new, old
    <3>2. /\ m[s[2]].type \in Owning /\ m[s[2]].text \in Text /\ DOMAIN old \subseteq Nat
          /\ m[s[2]].type = "array" => old \in Seq(Cells)
          /\ m[s[2]].type = "object" => DOMAIN old \subseteq Text
          /\ m[s[2]].type = "string" => old = <<>>
      BY <1>0, <3>1, BlockCells, BlockShape
    <3>3. m[s[2]].type = "array" => new \in Seq(Cells)
      BY <3>1, <3>2
    <3>4. m[s[2]].type = "string" => new = <<>>
      BY <3>1, <3>2
    <3>5. to(s) \in Nat /\ to(s) # 0
      BY <1>6
    <3> HIDE DEF new, old
    <3> QED
      BY <3>1, <3>2, <3>3, <3>4, <3>5, MakesBlock DEF Owning, Containers
  <2> QED
    BY <1>0, <1>6, <1>8, <2>1, <2>2 DEF IsMemory
<1>13. ASSUME NEW i \in DOMAIN f
       PROVE  /\ DOMAIN g = DOMAIN f
              /\ g[i] \in Cells /\ g[i].type = f[i].type
              /\ f[i].type \in Owning => /\ g[i].at = to(<<i, f[i].at>>)
                                         /\ <<i, f[i].at>> \in sources
                                         /\ g[i].at \in DOMAIN n \ {0} /\ g[i].at \notin DOMAIN m
                                         /\ n[g[i].at].type = f[i].type
  <2>1. f[i] \in Cells /\ (f[i].type \in Owning => f[i].at \in B(i) /\ m[f[i].at].type = f[i].type)
    BY <1>2
  <2>2. /\ CopyOf(top, i, f[i]) \in Cells /\ CopyOf(top, i, f[i]).type = f[i].type
        /\ f[i].type \in Owning =>
             /\ CopyOf(top, i, f[i]).at = to(<<i, f[i].at>>) /\ <<i, f[i].at>> \in sources
    <3> HIDE DEF B, top
    <3> QED
      BY <1>9, <2>1
  <2>3. DOMAIN g = DOMAIN f /\ g[i] = CopyOf(top, i, f[i])
    BY <1>7
  <2>4. CASE f[i].type \in Owning
    <3>1. <<i, f[i].at>>[2] = f[i].at
      OBVIOUS
    <3>2. n[g[i].at].type = f[i].type
      BY <1>10, <2>1, <2>2, <2>3, <2>4, <3>1
    <3> QED
      BY <1>6, <1>8, <2>2, <2>3, <2>4, <3>2
  <2> QED
    BY <2>2, <2>3, <2>4
<1>14. /\ Single(g) /\ Fit(n, g)
       /\ \A x : x \in Owned(g)
                 <=> \E i \in DOMAIN f : f[i].type \in Owning /\ x = to(<<i, f[i].at>>)
       /\ Owned(g) \cap DOMAIN m = {} /\ Owned(g) \subseteq DOMAIN n \ {0}
  <2>1. DOMAIN g = DOMAIN f
    BY <1>7
  <2>2. Single(g)
    <3> SUFFICES ASSUME NEW i \in DOMAIN g, NEW j \in DOMAIN g, g[i].type \in Owning,
                        g[j].type \in Owning, g[i].at = g[j].at
                 PROVE  i = j
      BY DEF Single
    <3>1. f[i].type \in Owning /\ <<i, f[i].at>> \in sources /\ g[i].at = to(<<i, f[i].at>>)
      <4>1. i \in DOMAIN f
        BY <2>1
      <4> QED
        BY <1>13, <4>1
    <3>2. f[j].type \in Owning /\ <<j, f[j].at>> \in sources /\ g[j].at = to(<<j, f[j].at>>)
      <4>1. j \in DOMAIN f
        BY <2>1
      <4> QED
        BY <1>13, <4>1
    <3>3. <<i, f[i].at>> = <<j, f[j].at>>
      BY <1>5, <3>1, <3>2
    <3> QED
      BY <3>3
  <2>3. Fit(n, g)
    BY <1>13, <2>1 DEF Fit
  <2>4. \A x : x \in Owned(g) <=> \E i \in DOMAIN f : f[i].type \in Owning /\ x = to(<<i, f[i].at>>)
    <3> DEFINE copy(i) == to(<<i, f[i].at>>)
    <3>1. \A i \in DOMAIN f :
            /\ g[i].type = f[i].type
            /\ f[i].type \in Owning => g[i].at = copy(i)
      BY <1>13
    <3> HIDE DEF copy
    <3>2. \A x : x \in Owned(g) <=> \E i \in DOMAIN f : f[i].type \in Owning /\ x = copy(i)
      BY <2>1, <3>1, OwnedIff
    <3> QED
      BY <3>2 DEF copy
  <2>5. ASSUME NEW x \in Owned(g)
        PROVE  x \in DOMAIN n \ {0} /\ x \notin DOMAIN m
    <3>1. PICK i \in DOMAIN f : f[i].type \in Owning /\ x = to(<<i, f[i].at>>)
      BY <2>4
    <3> QED
      BY <1>13, <3>1
  <2> QED
    BY <2>2, <2>3, <2>4, <2>5
<1>15. Unshared(n, H \cup Owned(g))
  <2>1. ASSUME NEW a \in DOMAIN m
        PROVE  /\ n[a] = m[a] /\ Fit(n, n[a].cells) /\ Single(n[a].cells)
               /\ Owned(n[a].cells) \subseteq DOMAIN m /\ Owned(n[a].cells) \cap H = {}
    <3>1. n[a] = m[a] /\ Fit(m, m[a].cells) /\ Single(m[a].cells) /\ Owned(m[a].cells) \cap H = {}
      BY <1>0, <1>8 DEF Unshared
    <3>2. Owned(m[a].cells) \subseteq DOMAIN m
      BY <3>1 DEF Owned, Fit
    <3>3. Fit(n, m[a].cells)
      BY <1>8, <3>1 DEF Fit
    <3> QED
      BY <3>1, <3>2, <3>3
  <2>2. ASSUME NEW s \in sources
        PROVE  /\ Fit(n, n[to(s)].cells) /\ Single(n[to(s)].cells)
               /\ Owned(n[to(s)].cells) \subseteq K
               /\ Owned(n[to(s)].cells) \cap Owned(g) = {}
    <3>1. \A x \in Owned(n[to(s)].cells) :
            \E c \in Owned(m[s[2]].cells) : x = to(<<s[1], c>>) /\ <<s[1], c>> \in sources
      BY <1>11
    <3>2. ASSUME NEW x \in Owned(n[to(s)].cells), x \in Owned(g)
          PROVE  FALSE
      <4>1. PICK c \in Owned(m[s[2]].cells) : x = to(<<s[1], c>>) /\ <<s[1], c>> \in sources
        BY <3>1
      <4>2. PICK i \in DOMAIN f : f[i].type \in Owning /\ x = to(<<i, f[i].at>>)
        BY <1>14, <3>2
      <4>3. <<i, f[i].at>> \in sources
        BY <1>13, <4>2
      <4>4. <<i, f[i].at>> = <<s[1], c>>
        BY <1>5, <4>1, <4>2, <4>3
      <4>5. s[1] = i /\ f[i].at = c
        BY <4>4
      <4>6. s[2] \in B(i)
        BY <1>3, <4>5
      <4>7. f[i].at \notin Owned(m[s[2]].cells)
        BY <1>2, <4>6
      <4> QED
        BY <4>1, <4>5, <4>7
    <3> QED
      BY <1>8, <1>11, <3>1, <3>2
  <2>3. ASSUME NEW s \in sources, NEW t \in sources, NEW x,
               x \in Owned(n[to(s)].cells), x \in Owned(n[to(t)].cells)
        PROVE  to(s) = to(t)
    <3>0. ASSUME NEW u \in sources, NEW y \in Owned(n[to(u)].cells)
          PROVE  \E c \in Owned(m[u[2]].cells) : y = to(<<u[1], c>>) /\ <<u[1], c>> \in sources
      <4>1. /\ Owned(n[to(u)].cells) = {to(<<u[1], c>>) : c \in Owned(m[u[2]].cells)}
            /\ \A c \in Owned(m[u[2]].cells) : <<u[1], c>> \in sources
        BY <1>11
      <4> QED
        BY <4>1
    <3>1. PICK c \in Owned(m[s[2]].cells) : x = to(<<s[1], c>>) /\ <<s[1], c>> \in sources
      BY <3>0, <2>3
    <3>2. PICK d \in Owned(m[t[2]].cells) : x = to(<<t[1], d>>) /\ <<t[1], d>> \in sources
      BY <3>0, <2>3
    <3>3. <<s[1], c>> = <<t[1], d>>
      BY <1>5, <3>1, <3>2
    <3>4. s[1] = t[1] /\ c = d
      BY <3>3
    <3>5. s[2] \in DOMAIN m /\ t[2] \in DOMAIN m
      BY <1>10
    <3>6. s[2] = t[2]
      BY <1>0, <3>1, <3>2, <3>4, <3>5 DEF Unshared
    <3> QED
      BY <1>3, <3>4, <3>6
  <2>4. ASSUME NEW a \in DOMAIN n
        PROVE  /\ Fit(n, n[a].cells) /\ Single(n[a].cells)
               /\ Owned(n[a].cells) \cap (H \cup Owned(g)) = {}
    <3>1. CASE a \in DOMAIN m
      BY <1>14, <2>1, <3>1
    <3>2. CASE a \in K
      <4>1. PICK s \in sources : a = to(s)
        BY <1>8, <3>2
      <4> QED
        BY <1>0, <1>8, <2>2, <4>1
    <3> QED
      BY <1>8, <3>1, <3>2
  <2>5. ASSUME NEW a \in DOMAIN n, NEW b \in DOMAIN n, NEW x,
               x \in Owned(n[a].cells), x \in Owned(n[b].cells)
        PROVE  a = b
    <3>1. CASE a \in DOMAIN m /\ b \in DOMAIN m
      BY <1>0, <2>1, <2>5, <3>1 DEF Unshared
    <3>2. CASE a \in K /\ b \in K
      BY <1>8, <2>3, <2>5, <3>2
    <3>3. CASE a \in DOMAIN m /\ b \in K
      BY <1>8, <2>1, <2>2, <2>5, <3>3
    <3>4. CASE a \in K /\ b \in DOMAIN m
      BY <1>8, <2>1, <2>2, <2>5, <3>4
    <3> QED
      BY <1>8, <3>1, <3>2, <3>3, <3>4
  <2> QED
    BY <2>4, <2>5 DEF Unshared
<1>16. Rooted(n, H \cup Owned(g))
  <2> SUFFICES ASSUME NEW S \in SUBSET (DOMAIN n \ {0}), S # {}
               PROVE  \E d \in S : \/ d \in H \cup Owned(g)
                                  \/ \E b \in DOMAIN n \ S : d \in Owned(n[b].cells)
    BY DEF Rooted
  <2>1. CASE S \cap DOMAIN m # {}
    <3> DEFINE T == S \cap DOMAIN m
    <3>1. PICK d \in T : d \in H \/ \E b \in DOMAIN m \ T : d \in Owned(m[b].cells)
      BY <1>0, <2>1 DEF Rooted
    <3> QED
      BY <1>8, <3>1
  <2>2. CASE S \cap DOMAIN m = {}
    <3>1. PICK s \in sources : to(s) \in S
      BY <1>8, <2>2
    <3> DEFINE i == s[1]
               A == {a \in B(i) : to(<<i, a>>) \in S}
    <3>2. i \in DOMAIN f /\ s[2] \in B(i) /\ s = <<i, s[2]>>
      BY <1>3
    <3>3. s[2] \in A
      BY <3>1, <3>2
    <3>4. /\ Closed(m, B(i)) /\ B(i) \subseteq DOMAIN m
          /\ \A T : Owned(<<f[i]>>) \cap DOMAIN m \subseteq T /\ Closed(m, T) => B(i) \subseteq T
          /\ Owned(<<f[i]>>) = IF f[i].type \in Owning THEN {f[i].at} ELSE {}
      BY <1>2, <3>2
    <3>5. \A a \in B(i) : <<i, a>> \in sources /\ to(<<i, a>>) \in K
      BY <1>4, <3>2
    <3> HIDE DEF B
    <3>6. CASE f[i].type \in Owning /\ f[i].at \in A
      BY <1>14, <3>2, <3>6
    <3>7. CASE ~(f[i].type \in Owning /\ f[i].at \in A)
      <4>1. Owned(<<f[i]>>) \cap DOMAIN m \subseteq B(i) \ A
        BY <1>2, <3>2, <3>4, <3>7
      <4>2. ~Closed(m, B(i) \ A)
        BY <3>3, <3>4, <4>1
      <4>3. PICK a \in B(i) \ A : \E b \in Owned(m[a].cells) \cap DOMAIN m : b \notin B(i) \ A
        BY <4>2 DEF Closed
      <4>4. PICK b \in Owned(m[a].cells) \cap DOMAIN m : b \notin B(i) \ A
        BY <4>3
      <4>5. b \in A
        BY <3>4, <4>4 DEF Closed
      <4>6. <<i, a>>[1] = i /\ <<i, a>>[2] = a /\ <<i, a>> \in sources
        BY <3>5
      <4>7. to(<<i, b>>) \in Owned(n[to(<<i, a>>)].cells)
        BY <1>11, <4>4, <4>6
      <4>8. to(<<i, b>>) \in S /\ to(<<i, a>>) \in DOMAIN n \ S
        BY <1>8, <3>5, <4>3, <4>5
      <4> QED
        BY <4>7, <4>8
    <3> QED
      BY <3>6, <3>7
  <2> QED
    BY <2>1, <2>2
<1>17. Good(n, H \cup Owned(g))
  BY <1>0, <1>8, <1>12, <1>14, <1>15, <1>16 DEF Good
<1>18. Closed(n, DOMAIN n \ DOMAIN m)
  <2> SUFFICES ASSUME NEW a \in DOMAIN n \ DOMAIN m, NEW b \in Owned(n[a].cells)
               PROVE  b \notin DOMAIN m
    BY DEF Closed
  <2>1. PICK s \in sources : a = to(s)
    BY <1>8
  <2>2. PICK c \in Owned(m[s[2]].cells) : b = to(<<s[1], c>>) /\ <<s[1], c>> \in sources
    BY <1>11, <2>1
  <2> QED
    BY <1>6, <2>2
<1>19. g \in [DOMAIN f -> Cells]
  BY <1>7, <1>13
<1> QED
  BY <1>8, <1>13, <1>14, <1>17, <1>18, <1>19 DEF n, g, Extends, Made

-----------------------------------------------------------------------------
(* Writing to a place *)

\* A place is an address and an index or key in the block there.
LEMMA PlaceIs ==
  ASSUME NEW m, NEW p
  PROVE  p \in Places(m)
           <=> p = <<p[1], p[2]>> /\ p[1] \in DOMAIN m /\ p[2] \in DOMAIN m[p[1]].cells
<1>1. ASSUME p \in Places(m)
      PROVE  p = <<p[1], p[2]>> /\ p[1] \in DOMAIN m /\ p[2] \in DOMAIN m[p[1]].cells
  <2>1. PICK a \in DOMAIN m : p \in {<<a, i>> : i \in DOMAIN m[a].cells}
    BY <1>1 DEF Places
  <2>2. PICK i \in DOMAIN m[a].cells : p = <<a, i>>
    BY <2>1
  <2> QED
    BY <2>2
<1>2. ASSUME p = <<p[1], p[2]>>, p[1] \in DOMAIN m, p[2] \in DOMAIN m[p[1]].cells
      PROVE  p \in Places(m)
  <2> DEFINE X(a) == {<<a, i>> : i \in DOMAIN m[a].cells}
  <2>1. p \in X(p[1])
    BY <1>2
  <2>2. X(p[1]) \in {X(a) : a \in DOMAIN m}
    BY <1>2, Zenon
  <2>3. Places(m) = UNION {X(a) : a \in DOMAIN m}
    BY Zenon DEF Places
  <2> HIDE DEF X
  <2> QED
    BY <2>1, <2>2, <2>3
<1> QED
  BY <1>1, <1>2

\* A cell in the memory owns a block of its type, and no temporary object does.
LEMMA CellFits ==
  ASSUME NEW m, NEW H, Good(m, H), NEW p \in Places(m)
  PROVE  /\ CellAt(m, p) \in Cells
         /\ CellAt(m, p).type \in Owning =>
              /\ CellAt(m, p).at \in Owned(m[p[1]].cells)
              /\ CellAt(m, p).at \in DOMAIN m \ {0}
              /\ CellAt(m, p).at \notin H
              /\ m[CellAt(m, p).at].type = CellAt(m, p).type
         /\ Fit(m, <<CellAt(m, p)>>)
         /\ Owned(<<CellAt(m, p)>>) \subseteq Owned(m[p[1]].cells)
         /\ Owned(<<CellAt(m, p)>>) \cap H = {}
<1>1. p[1] \in DOMAIN m /\ p[2] \in DOMAIN m[p[1]].cells
  BY PlaceIs
<1>2. Fit(m, m[p[1]].cells) /\ Owned(m[p[1]].cells) \cap H = {}
  BY <1>1 DEF Good, Unshared
<1> DEFINE c == CellAt(m, p)
<1>3. /\ c \in Cells
      /\ c.type \in Owning => /\ c.at \in DOMAIN m \ {0}
                              /\ m[c.at].type = c.type
  BY <1>1, <1>2 DEF CellAt, Fit
<1>4. c.type \in Owning => c.at \in Owned(m[p[1]].cells)
  BY <1>1 DEF CellAt, Owned
<1> HIDE DEF c
<1>5. Fit(m, <<c>>)
  BY <1>3 DEF Fit
<1> QED
  BY <1>2, <1>3, <1>4, <1>5, OneOwned DEF c

\* A block has an owner only.
LEMMA OwnerOnly ==
  ASSUME NEW m, NEW H, Good(m, H), NEW p \in Places(m), CellAt(m, p).type \in Owning
  PROVE  /\ \A a \in DOMAIN m : CellAt(m, p).at \in Owned(m[a].cells) => a = p[1]
         /\ \A q \in Places(m) :
              CellAt(m, q).type \in Owning /\ CellAt(m, q).at = CellAt(m, p).at => q = p
<1>1. p = <<p[1], p[2]>> /\ p[1] \in DOMAIN m /\ p[2] \in DOMAIN m[p[1]].cells
  BY PlaceIs
<1>2. CellAt(m, p).at \in Owned(m[p[1]].cells)
  BY CellFits
<1>3. ASSUME NEW a \in DOMAIN m, CellAt(m, p).at \in Owned(m[a].cells)
      PROVE  a = p[1]
  BY <1>1, <1>2, <1>3 DEF Good, Unshared
<1>4. ASSUME NEW q \in Places(m), CellAt(m, q).type \in Owning, CellAt(m, q).at = CellAt(m, p).at
      PROVE  q = p
  <2>1. q = <<q[1], q[2]>> /\ q[1] \in DOMAIN m /\ q[2] \in DOMAIN m[q[1]].cells
    BY PlaceIs
  <2>2. q[1] = p[1]
    BY <1>3, <1>4, <2>1, CellFits
  <2>3. Single(m[p[1]].cells)
    BY <1>1 DEF Good, Unshared
  <2>4. q[2] = p[2]
    BY <1>1, <1>4, <2>1, <2>2, <2>3 DEF Single, CellAt
  <2> QED
    BY <1>1, <2>1, <2>2, <2>4
<1> QED
  BY <1>3, <1>4

\* The memory n is m but for the cell c at p.
Differs(n, m, p, c) ==
  /\ DOMAIN n = DOMAIN m
  /\ \A a \in DOMAIN m \ {p[1]} : n[a] = m[a]
  /\ \A a \in DOMAIN m : /\ n[a] = Block(m[a].type, m[a].text, n[a].cells)
                         /\ n[a].type = m[a].type
                         /\ n[a].text = m[a].text
                         /\ DOMAIN n[a].cells = DOMAIN m[a].cells
  /\ n[p[1]].cells = [m[p[1]].cells EXCEPT ![p[2]] = c]
  /\ Places(n) = Places(m)
  /\ CellAt(n, p) = c
  /\ \A q \in Places(m) \ {p} : CellAt(n, q) = CellAt(m, q)

\* What writing to a place changes.
LEMMA WrittenIs ==
  ASSUME NEW m, IsMemory(m), NEW p \in Places(m), NEW c
  PROVE  Differs(Written(m, p, c), m, p, c)
<1> DEFINE n == Written(m, p, c)
<1>1. p = <<p[1], p[2]>> /\ p[1] \in DOMAIN m /\ p[2] \in DOMAIN m[p[1]].cells
  BY PlaceIs
<1>2. DOMAIN m[p[1]] = {"type", "text", "cells"}
  BY <1>1, BlockCells
<1>3. n = [m EXCEPT ![p[1]].cells = [m[p[1]].cells EXCEPT ![p[2]] = c]]
  BY <1>1, <1>2 DEF Written
<1> HIDE DEF n
<1>4. /\ DOMAIN n = DOMAIN m
      /\ \A a \in DOMAIN m \ {p[1]} : n[a] = m[a]
      /\ n[p[1]] = Block(m[p[1]].type, m[p[1]].text, [m[p[1]].cells EXCEPT ![p[2]] = c])
  BY <1>1, <1>3, BlockCells DEF Block
<1>5. n[p[1]].type = m[p[1]].type /\ n[p[1]].text = m[p[1]].text
      /\ n[p[1]].cells = [m[p[1]].cells EXCEPT ![p[2]] = c]
  BY <1>4 DEF Block
<1>6. \A a \in DOMAIN m : /\ n[a] = Block(m[a].type, m[a].text, n[a].cells)
                          /\ n[a].type = m[a].type
                          /\ n[a].text = m[a].text
                          /\ DOMAIN n[a].cells = DOMAIN m[a].cells
  BY <1>4, <1>5, BlockCells
<1>7. \A q : q \in Places(n) <=> q \in Places(m)
  BY <1>4, <1>6, PlaceIs
<1>8. CellAt(n, p) = c
  BY <1>1, <1>5 DEF CellAt
<1>9. ASSUME NEW q \in Places(m) \ {p}
      PROVE  CellAt(n, q) = CellAt(m, q)
  <2>1. q = <<q[1], q[2]>> /\ q[1] \in DOMAIN m /\ q[2] \in DOMAIN m[q[1]].cells
    BY PlaceIs
  <2>2. CASE q[1] = p[1]
    <3>1. q[2] # p[2]
      BY <1>1, <2>1, <2>2
    <3> QED
      BY <1>5, <2>1, <2>2, <3>1 DEF CellAt
  <2>3. CASE q[1] # p[1]
    BY <1>4, <2>1, <2>3 DEF CellAt
  <2> QED
    BY <2>2, <2>3
<1>10. Places(n) = Places(m)
  BY <1>7
<1>11. Differs(n, m, p, c)
  BY <1>4, <1>5, <1>6, <1>8, <1>9, <1>10 DEF Differs
<1> QED
  BY <1>11 DEF n

\* A temporary value moves into a place that is not beneath it.
LEMMA WrittenGood ==
  ASSUME NEW m, NEW H, Good(m, H), NEW p \in Places(m),
         NEW c, Fit(m, <<c>>), Owned(<<c>>) \subseteq H,
         NEW C, Closed(m, C), Owned(<<c>>) \subseteq C, p[1] \notin C
  PROVE  Good(Written(m, p, c), (H \cup Owned(<<CellAt(m, p)>>)) \ Owned(<<c>>))
<1> DEFINE a == p[1]
           i == p[2]
           old == m[a].cells
           f == [old EXCEPT ![i] = c]
<1>1. a \in DOMAIN m /\ i \in DOMAIN old
  BY PlaceIs
<1>2. IsMemory(m) /\ Fit(m, old) /\ Single(old) /\ Owned(old) \cap H = {}
  BY <1>1 DEF Good, Unshared
<1>3. /\ DOMAIN old \subseteq Nat /\ old \in [DOMAIN old -> Cells]
      /\ m[a].text \in Text /\ a \in Nat
      /\ a = 0 => m[a].type = "variables" /\ DOMAIN old = Name
      /\ a # 0 => m[a].type \in Owning
      /\ m[a].type = "array" => old \in Seq(Cells)
      /\ m[a].type = "object" => DOMAIN old \subseteq Text
      /\ m[a].type = "string" => old = <<>>
  BY <1>1, <1>2, BlockCells, BlockShape
<1>4. c \in Cells /\ (c.type \in Owning => c.at \in DOMAIN m \ {0} /\ m[c.at].type = c.type)
  BY DEF Fit
<1>5. old[i] = CellAt(m, p)
  BY DEF CellAt
<1>6. DOMAIN f = DOMAIN old /\ f[i] = c /\ \A j \in DOMAIN old \ {i} : f[j] = old[j]
  BY <1>1
<1> HIDE DEF old
<1>7. f \in [DOMAIN f -> Cells]
  BY <1>3, <1>4, <1>6
<1>8. m[a].type = "array" => f \in Seq(Cells)
  BY <1>1, <1>3, <1>4
<1>9. m[a].type # "string"
  BY <1>1, <1>3
<1>10. Written(m, p, c) = [m EXCEPT ![a].cells = f]
  <2>1. DOMAIN m[a] = {"type", "text", "cells"}
    BY <1>1, <1>2, BlockCells
  <2> QED
    BY <1>1, <2>1 DEF Written, old
<1> HIDE DEF f, a, i
<1>11. IsBlock(a, Block(m[a].type, m[a].text, f))
  BY <1>3, <1>6, <1>7, <1>8, <1>9, MakesBlock DEF Owning, Containers
<1>12. Fit(m, f)
  BY <1>2, <1>4, <1>6 DEF Fit
<1>13. Owned(<<c>>) = (IF c.type \in Owning THEN {c.at} ELSE {})
  BY OneOwned
<1>14. Owned(<<old[i]>>) = (IF old[i].type \in Owning THEN {old[i].at} ELSE {})
  BY OneOwned
<1>15. c.type \in Owning => c.at \in H /\ c.at \notin Owned(old)
  BY <1>2, <1>13
<1>16. Single(f)
  BY <1>1, <1>2, <1>6, <1>15, OwnedIff DEF Single
<1>17. Owned(f) = (Owned(old) \ Owned(<<old[i]>>)) \cup Owned(<<c>>)
  <2>1. ASSUME NEW x \in Owned(f)
        PROVE  x \in (Owned(old) \ Owned(<<old[i]>>)) \cup Owned(<<c>>)
    <3>1. PICK j \in DOMAIN f : f[j].type \in Owning /\ f[j].at = x
      BY OwnedIff
    <3>2. CASE j = i
      BY <1>6, <1>13, <3>1, <3>2
    <3>3. CASE j # i
      <4>1. x \in Owned(old) /\ old[j].type \in Owning /\ old[j].at = x
        BY <1>6, <3>1, <3>3, OwnedIff
      <4>2. x \notin Owned(<<old[i]>>)
        BY <1>1, <1>2, <1>6, <1>14, <3>3, <4>1 DEF Single
      <4> QED
        BY <4>1, <4>2
    <3> QED
      BY <3>2, <3>3
  <2>2. ASSUME NEW x \in Owned(old), x \notin Owned(<<old[i]>>)
        PROVE  x \in Owned(f)
    <3>1. PICK j \in DOMAIN old : old[j].type \in Owning /\ old[j].at = x
      BY OwnedIff
    <3>2. j # i
      BY <1>14, <2>2, <3>1
    <3> QED
      BY <1>6, <3>1, <3>2, OwnedIff
  <2>3. Owned(<<c>>) \subseteq Owned(f)
    BY <1>1, <1>6, <1>13, OwnedIff
  <2> QED
    BY <2>1, <2>2, <2>3
<1>18. Owned(<<old[i]>>) \subseteq Owned(old)
  BY <1>1, <1>14, OwnedIff
<1>19. Good([m EXCEPT ![a].cells = f], (H \cup Owned(m[a].cells)) \ Owned(f))
  <2>1. Owned(f) \subseteq H \cup Owned(m[a].cells) /\ Owned(f) \cap H \subseteq C
    BY <1>2, <1>17 DEF old
  <2>2. a \in DOMAIN m /\ a \notin C
    BY <1>1 DEF a
  <2> QED
    BY <1>11, <1>12, <1>16, <2>1, <2>2, RefillGood
<1>20. (H \cup Owned(old)) \ Owned(f) = (H \cup Owned(<<old[i]>>)) \ Owned(<<c>>)
  BY <1>2, <1>17, <1>18
<1> QED
  BY <1>5, <1>10, <1>19, <1>20 DEF old

-----------------------------------------------------------------------------
(* What constructors make *)

\* Growing leaves all places as they are.
LEMMA ExtendsPlaces ==
  ASSUME NEW m, NEW n, Extends(n, m)
  PROVE  /\ Places(m) \subseteq Places(n)
         /\ \A p \in Places(m) : CellAt(n, p) = CellAt(m, p)
         /\ \A f : Fit(m, f) => Fit(n, f)
<1>1. \A p \in Places(m) : p \in Places(n) /\ CellAt(n, p) = CellAt(m, p)
  BY PlaceIs DEF Extends, CellAt
<1>2. \A f : Fit(m, f) => Fit(n, f)
  BY DEF Extends, Fit
<1> QED
  BY <1>1, <1>2

\* A memory is what was made when nothing was.
LEMMA NothingMade ==
  ASSUME NEW m, NEW H, Good(m, H)
  PROVE  Made(m, m, H, <<>>)
<1>1. Owned(<<>>) = {} /\ Fit(m, <<>>) /\ Single(<<>>)
  BY DEF Owned, Fit, Single
<1> QED
  BY <1>1 DEF Made, Extends, Closed

\* A block that is created of new cells is new,
LEMMA CreateMade ==
  ASSUME NEW m, NEW H, NEW n, NEW f, Made(n, m, H, f),
         NEW type, NEW text, Storable(type, text, f),
         NEW r, r = create(n, Block(type, text, f))
  PROVE  Made(r.memory, m, H, <<r.cell>>) /\ r.cell \in Cells
<1> DEFINE b == Block(type, text, f)
<1>0. /\ Good(m, H) /\ Good(n, H \cup Owned(f)) /\ Extends(n, m) /\ Closed(n, DOMAIN n \ DOMAIN m)
      /\ Owned(f) \cap DOMAIN m = {} /\ Fit(n, f) /\ Single(f) /\ H \cap Owned(f) = {}
  BY DEF Made, Good
<1> DEFINE t == r.cell.at
<1>1. /\ Held(r.memory, H, <<r.cell>>)
      /\ Grown(r.memory, n, t, b)
      /\ r.cell \in Cells /\ r.cell.type = type
  <2>1. Held(n, H, f)
    BY <1>0 DEF Held
  <2> QED
    BY <2>1, CreateGood
<1>2. /\ DOMAIN r.memory = DOMAIN n \cup {t} /\ t \notin DOMAIN n
      /\ r.memory[t] = b /\ Extends(r.memory, n)
  BY <1>1 DEF Grown, Extends
<1>3. b.cells = f
  BY DEF Block
<1> HIDE DEF b
<1>4. Owned(<<r.cell>>) = {t}
  BY <1>1, OneOwned DEF Storable
<1>7. Extends(r.memory, m)
  BY <1>0, <1>2 DEF Extends
<1>8. Closed(r.memory, DOMAIN r.memory \ DOMAIN m)
  <2> SUFFICES ASSUME NEW a \in DOMAIN r.memory \ DOMAIN m,
                      NEW c \in Owned(r.memory[a].cells) \cap DOMAIN r.memory
               PROVE  c \notin DOMAIN m
    BY DEF Closed
  <2>1. CASE a = t
    BY <1>0, <1>2, <1>3, <2>1
  <2>2. CASE a # t
    <3>1. a \in DOMAIN n \ DOMAIN m /\ c \in Owned(n[a].cells)
      BY <1>2, <2>2 DEF Extends
    <3>2. c \in DOMAIN n
      BY <1>0, <3>1 DEF Good, Unshared, Fit, Owned
    <3> QED
      BY <1>0, <3>1, <3>2 DEF Closed
  <2> QED
    BY <2>1, <2>2
<1>9. t \notin DOMAIN m
  BY <1>0, <1>2 DEF Extends
<1> QED
  BY <1>0, <1>1, <1>4, <1>7, <1>8, <1>9 DEF Made, Held

\* so is what a default constructor makes,
LEMMA DefaultMade ==
  ASSUME NEW m, NEW H, Good(m, H),
         NEW type \in {"null", "scalar", "string", "array", "object"},
         NEW r, r = Default(m, type)
  PROVE  Made(r.memory, m, H, <<r.cell>>) /\ r.cell \in Cells /\ r.cell.type = type
<1>0. Made(m, m, H, <<>>) /\ empty \in Text
  BY NothingMade, HeapAssumption
<1>2. CASE type \in Owning
  <2>1. r = create(m, Block(type, empty, <<>>))
    BY <1>2 DEF Default
  <2>2. Storable(type, empty, <<>>)
    BY <1>0, <1>2 DEF Storable, Owning, Containers
  <2>3. r.cell.type = type
    BY <2>1 DEF create, Result, Cell, Block
  <2> QED
    BY <1>0, <2>1, <2>2, <2>3, CreateMade
<1>3. CASE type \notin Owning
  <2>1. r = Result(m, Cell(type, 0))
    BY <1>3 DEF Default
  <2>2. r.memory = m /\ r.cell = Cell(type, 0) /\ r.cell.type = type /\ r.cell \in Cells
    BY <2>1 DEF Result, Cell, Cells
  <2>3. Owned(<<r.cell>>) = {}
    BY <1>3, <2>2, OneOwned
  <2>4. Fit(m, <<r.cell>>) /\ Single(<<r.cell>>)
    BY <1>3, <2>2 DEF Fit, Single
  <2> QED
    BY <1>0, <2>2, <2>3, <2>4, OneOwned DEF Made, Owned
<1> QED
  BY <1>2, <1>3

\* and a copy of a cell.
LEMMA CopiedMade ==
  ASSUME NEW m, NEW H, Good(m, H), NEW c, Fit(m, <<c>>), NEW r, r = Copied(m, c)
  PROVE  Made(r.memory, m, H, <<r.cell>>) /\ r.cell \in Cells /\ r.cell.type = c.type
<1> DEFINE s == Copies(m, <<c>>)
<1>1. DOMAIN <<c>> = {1} /\ IsFiniteSet({1}) /\ <<c>>[1] = c
  <2>1. DOMAIN <<c>> = {1} /\ <<c>>[1] = c
    OBVIOUS
  <2> QED
    BY <2>1, FS_Singleton
<1>2. /\ Made(s.memory, m, H, s.cells)
      /\ s.cells \in [{1} -> Cells]
      /\ s.cells[1].type = c.type
  <2>1. DOMAIN <<c>> \subseteq Nat \ {0} /\ IsFiniteSet(DOMAIN <<c>>)
    BY <1>1
  <2> HIDE DEF s
  <2> QED
    BY <1>1, <2>1, CopyMade DEF s
<1>3. r.memory = s.memory /\ r.cell = s.cells[1]
  BY DEF Copied, Result
<1> HIDE DEF s
<1>4. s.cells = <<r.cell>>
  BY <1>2, <1>3
<1> QED
  BY <1>2, <1>3, <1>4

-----------------------------------------------------------------------------
(* Putting temporary values into places and containers *)

\* What it means to hold one temporary cell.
LEMMA HeldIs ==
  ASSUME NEW m, NEW H, NEW c, Held(m, H, <<c>>)
  PROVE  /\ Good(m, H \cup Owned(<<c>>)) /\ H \cap Owned(<<c>>) = {}
         /\ Fit(m, <<c>>) /\ c \in Cells
         /\ c.type \in Owning => c.at \in DOMAIN m \ {0}
<1>1. DOMAIN <<c>> = {1} /\ <<c>>[1] = c
  OBVIOUS
<1> QED
  BY <1>1 DEF Held, Fit

\* A temporary cell is written to a place that is not beneath it.
LEMMA HeldWritten ==
  ASSUME NEW m, NEW H, NEW c, Held(m, H, <<c>>), NEW p \in Places(m),
         NEW C, Closed(m, C), Owned(<<c>>) \subseteq C, p[1] \notin C
  PROVE  Good(Written(m, p, c), H \cup Owned(<<CellAt(m, p)>>))
<1> DEFINE J == H \cup Owned(<<c>>)
           old == Owned(<<CellAt(m, p)>>)
<1>1. Good(m, J) /\ Fit(m, <<c>>) /\ Owned(<<c>>) \subseteq J /\ H \cap Owned(<<c>>) = {}
  BY HeldIs
<1> HIDE DEF J
<1>2. old \cap J = {}
  BY <1>1, CellFits
<1>3. Good(Written(m, p, c), (J \cup old) \ Owned(<<c>>))
  BY <1>1, WrittenGood
<1>4. (J \cup old) \ Owned(<<c>>) = H \cup old
  BY <1>1, <1>2 DEF J
<1> QED
  BY <1>3, <1>4

\* operator= with a temporary value that the target is no part of
LEMMA HeldAssigned ==
  ASSUME NEW r, NEW H, Held(r.memory, H, <<r.cell>>), NEW p \in Places(r.memory),
         NEW C, Closed(r.memory, C), Owned(<<r.cell>>) \subseteq C, p[1] \notin C
  PROVE  Good(Assigned(p, r), H)
<1> DEFINE m == r.memory
           c == r.cell
           old == CellAt(m, p)
           J == H \cup Owned(<<old>>)
<1>1. Good(Written(m, p, c), J)
  BY HeldWritten
<1>2. Owned(<<old>>) \subseteq J
  OBVIOUS
<1>3. Owned(<<old>>) \cap H = {}
  <2> DEFINE G == H \cup Owned(<<c>>)
  <2>1. Good(m, G) /\ H \subseteq G
    BY HeldIs
  <2> HIDE DEF G
  <2> QED
    BY <2>1, CellFits
<1>4. J \ Owned(<<old>>) = H
  BY <1>3
<1>5. Assigned(p, r) = Destroyed(Written(m, p, c), <<old>>)
  BY DEF Assigned
<1> HIDE DEF J, old, m, c
<1>6. Good(Destroyed(Written(m, p, c), <<old>>), J \ Owned(<<old>>))
  BY <1>1, <1>2, DestroyGood
<1> QED
  BY <1>4, <1>5, <1>6

\* What was made is held as temporary, and all that was there before still is.
LEMMA MadeHeld ==
  ASSUME NEW n, NEW m, NEW H, NEW f, Made(n, m, H, f)
  PROVE  /\ Good(m, H) /\ Held(n, H, f) /\ Extends(n, m)
         /\ Closed(n, DOMAIN n \ DOMAIN m)
         /\ Owned(f) \subseteq DOMAIN n \ DOMAIN m
         /\ Places(m) \subseteq Places(n)
         /\ \A p \in Places(m) : p[1] \in DOMAIN m /\ CellAt(n, p) = CellAt(m, p)
<1>1. H \cap Owned(f) = {} /\ Owned(f) \subseteq DOMAIN n
  BY DEF Made, Good
<1> QED
  BY <1>1, ExtendsPlaces, PlaceIs DEF Made, Held

\* operator= with a new value
LEMMA MadeAssigned ==
  ASSUME NEW r, NEW m, NEW H, Made(r.memory, m, H, <<r.cell>>), NEW p \in Places(m)
  PROVE  Good(Assigned(p, r), H)
<1> DEFINE C == DOMAIN r.memory \ DOMAIN m
<1>1. /\ Held(r.memory, H, <<r.cell>>) /\ p \in Places(r.memory)
      /\ Closed(r.memory, C) /\ Owned(<<r.cell>>) \subseteq C /\ p[1] \notin C
  BY MadeHeld
<1> HIDE DEF C
<1> QED
  BY <1>1, HeldAssigned

\* The cells of a container.
LEMMA RefilledIs ==
  ASSUME NEW m, NEW H, Good(m, H), NEW p \in Places(m), NEW f,
         CellAt(m, p).type \in Containers
  PROVE  LET a == CellAt(m, p).at IN
         /\ a \in DOMAIN m \ {0} /\ m[a].type = CellAt(m, p).type
         /\ CellsAt(m, p) = m[a].cells
         /\ Refilled(m, p, f) = [m EXCEPT ![a].cells = f]
         /\ Fit(m, CellsAt(m, p)) /\ Single(CellsAt(m, p)) /\ Owned(CellsAt(m, p)) \cap H = {}
         /\ CellsAt(m, p) \in [DOMAIN CellsAt(m, p) -> Cells] /\ DOMAIN CellsAt(m, p) \subseteq Nat
         /\ CellAt(m, p).type = "array" => CellsAt(m, p) \in Seq(Cells)
         /\ CellAt(m, p).type = "object" => DOMAIN CellsAt(m, p) \subseteq Text
<1> DEFINE a == CellAt(m, p).at
<1>1. a \in DOMAIN m \ {0} /\ m[a].type = CellAt(m, p).type
  BY CellFits DEF Owning
<1>2. IsMemory(m) /\ Fit(m, m[a].cells) /\ Single(m[a].cells) /\ Owned(m[a].cells) \cap H = {}
  BY <1>1 DEF Good, Unshared
<1>3. /\ m[a].cells \in [DOMAIN m[a].cells -> Cells] /\ DOMAIN m[a].cells \subseteq Nat
      /\ m[a].type = "array" => m[a].cells \in Seq(Cells)
      /\ m[a].type = "object" => DOMAIN m[a].cells \subseteq Text
  BY <1>1, <1>2, BlockCells, BlockShape
<1> QED
  BY <1>1, <1>2, <1>3 DEF CellsAt, Refilled

\* The temporary cells g join those of a container.
LEMMA HeldJoins ==
  ASSUME NEW m, NEW H, NEW g, Held(m, H, g), NEW p \in Places(m), NEW f,
         CellAt(m, p).type \in Containers,
         Storable(CellAt(m, p).type, empty, f), Fit(m, f), Single(f),
         Owned(f) = Owned(CellsAt(m, p)) \cup Owned(g),
         NEW C, Closed(m, C), Owned(g) \subseteq C, CellAt(m, p).at \notin C
  PROVE  Good(Refilled(m, p, f), H)
<1> DEFINE J == H \cup Owned(g)
           a == CellAt(m, p).at
           old == Owned(CellsAt(m, p))
<1>1. Good(m, J) /\ H \cap Owned(g) = {} /\ Owned(f) \subseteq J \cup old
  BY DEF Held
<1>2. /\ a \in DOMAIN m \ {0} /\ m[a].type = CellAt(m, p).type
      /\ CellsAt(m, p) = m[a].cells /\ old \cap J = {}
      /\ Refilled(m, p, f) = [m EXCEPT ![a].cells = f]
  BY <1>1, RefilledIs
<1>3. (J \cup old) \ Owned(f) = H
  BY <1>1, <1>2
<1>4. Owned(f) \cap J \subseteq C
  BY <1>1, <1>2
<1>5. IsBlock(a, Block(m[a].type, m[a].text, f))
  <2>1. m[a].text \in Text /\ a \in Nat
    BY <1>1, <1>2, BlockCells DEF Good, IsMemory
  <2> QED
    BY <1>2, <2>1, MakesBlock DEF Storable
<1>6. old = Owned(m[a].cells) /\ a \in DOMAIN m /\ a \notin C
  BY <1>2
<1> HIDE DEF J, a, old
<1>7. Owned(f) \subseteq J \cup Owned(m[a].cells)
  BY <1>1, <1>6
<1>8. Good([m EXCEPT ![a].cells = f], (J \cup Owned(m[a].cells)) \ Owned(f))
  BY <1>1, <1>4, <1>5, <1>6, <1>7, RefillGood
<1> QED
  BY <1>2, <1>3, <1>6, <1>8

\* Some cells of a container stay, and what others own is destroyed.
LEMMA RestDestroyed ==
  ASSUME NEW m, NEW H, Good(m, H), NEW p \in Places(m), NEW f, NEW g,
         CellAt(m, p).type \in Containers,
         Storable(CellAt(m, p).type, empty, f), Fit(m, f), Single(f),
         Owned(f) \subseteq Owned(CellsAt(m, p)),
         Owned(g) = Owned(CellsAt(m, p)) \ Owned(f)
  PROVE  Good(Destroyed(Refilled(m, p, f), g), H)
<1> DEFINE a == CellAt(m, p).at
           old == Owned(CellsAt(m, p))
           J == (H \cup old) \ Owned(f)
<1>2. /\ a \in DOMAIN m \ {0} /\ m[a].type = CellAt(m, p).type
      /\ CellsAt(m, p) = m[a].cells /\ old \cap H = {}
      /\ Refilled(m, p, f) = [m EXCEPT ![a].cells = f]
  BY RefilledIs
<1>3. J = H \cup Owned(g) /\ J \ Owned(g) = H /\ Owned(g) \subseteq J
  BY <1>2
<1>4. Owned(f) \cap H \subseteq {} /\ Closed(m, {})
  BY <1>2 DEF Closed
<1>5. IsBlock(a, Block(m[a].type, m[a].text, f))
  <2>1. m[a].text \in Text /\ a \in Nat
    BY <1>2, BlockCells DEF Good, IsMemory
  <2> QED
    BY <1>2, <2>1, MakesBlock DEF Storable
<1>6. old = Owned(m[a].cells) /\ a \in DOMAIN m /\ a \notin {}
  BY <1>2
<1>7. Owned(f) \subseteq H \cup Owned(m[a].cells)
  BY <1>6
<1>8. Good([m EXCEPT ![a].cells = f], (H \cup Owned(m[a].cells)) \ Owned(f))
  <2> HIDE DEF a, old
  <2> QED
    BY <1>4, <1>5, <1>6, <1>7, RefillGood
<1> HIDE DEF J, a, old
<1>9. Good(Refilled(m, p, f), J)
  BY <1>2, <1>6, <1>8 DEF J
<1> QED
  BY <1>3, <1>9, DestroyGood

-----------------------------------------------------------------------------
(* Parts of vectors *)

Part(s, i, j) == SubSeq(s, i, j)
Concat(s, t) == s \o t

\* The part of a vector from one index to another.
IsPart(t, s, i, j) ==
  /\ Len(t) = j - i + 1
  /\ \A k \in 1 .. j - i + 1 : t[k] = s[i + k - 1]

\* SubSeq returns a part.
LEMMA PartIs ==
  ASSUME NEW S, NEW s \in Seq(S), NEW i \in 1 .. Len(s) + 1, NEW j \in 0 .. Len(s), i <= j + 1
  PROVE  Part(s, i, j) \in Seq(S) /\ IsPart(Part(s, i, j), s, i, j)
BY DEF Part, IsPart

\* A vector of two parts.
Joins(f, s, t) ==
  /\ Len(f) = Len(s) + Len(t)
  /\ \A k \in 1 .. Len(s) : f[k] = s[k]
  /\ \A k \in 1 .. Len(t) : f[Len(s) + k] = t[k]

\* \o joins two vectors,
LEMMA ConcatIs ==
  ASSUME NEW S, NEW s \in Seq(S), NEW t \in Seq(S)
  PROVE  Concat(s, t) \in Seq(S) /\ Joins(Concat(s, t), s, t)
BY DEF Concat, Joins

\* A vector of three parts.
Parts(f, a, g, b) ==
  /\ Len(a) \in Nat /\ Len(g) \in Nat /\ Len(b) \in Nat
  /\ Len(f) = Len(a) + Len(g) + Len(b)
  /\ \A k \in 1 .. Len(a) : f[k] = a[k]
  /\ \A k \in 1 .. Len(g) : f[Len(a) + k] = g[k]
  /\ \A k \in 1 .. Len(b) : f[Len(a) + Len(g) + k] = b[k]

\* or three.
LEMMA ThreeParts ==
  ASSUME NEW S, NEW a \in Seq(S), NEW g \in Seq(S), NEW b \in Seq(S)
  PROVE  /\ Concat(Concat(a, g), b) \in Seq(S)
         /\ Parts(Concat(Concat(a, g), b), a, g, b)
<1> DEFINE ag == Concat(a, g)
           f == Concat(ag, b)
<1>1. Len(a) \in Nat /\ Len(g) \in Nat /\ Len(b) \in Nat
  OBVIOUS
<1>2. /\ ag \in Seq(S) /\ Len(ag) = Len(a) + Len(g)
      /\ \A k \in 1 .. Len(a) : ag[k] = a[k]
      /\ \A k \in 1 .. Len(g) : ag[Len(a) + k] = g[k]
  <2>1. ag \in Seq(S) /\ Joins(ag, a, g)
    BY ConcatIs, Zenon
  <2> HIDE DEF ag
  <2> QED
    BY <2>1 DEF Joins
<1> HIDE DEF ag
<1>3. /\ f \in Seq(S) /\ Len(f) = Len(ag) + Len(b)
      /\ \A k \in 1 .. Len(ag) : f[k] = ag[k]
      /\ \A k \in 1 .. Len(b) : f[Len(ag) + k] = b[k]
  <2>1. ag \in Seq(S)
    BY <1>2
  <2>2. f \in Seq(S) /\ Joins(f, ag, b)
    BY <2>1, ConcatIs, Zenon
  <2> HIDE DEF f
  <2> QED
    BY <2>2 DEF Joins
<1> HIDE DEF f
<1>4. ASSUME NEW k \in 1 .. Len(a)
      PROVE  f[k] = a[k]
  BY <1>1, <1>2, <1>3
<1>5. ASSUME NEW k \in 1 .. Len(g)
      PROVE  f[Len(a) + k] = g[k]
  <2>1. Len(a) + k \in 1 .. Len(ag)
    BY <1>1, <1>2
  <2> QED
    BY <1>2, <1>3, <2>1
<1>6. \A k \in 1 .. Len(b) : f[Len(a) + Len(g) + k] = b[k]
  BY <1>2, <1>3
<1>7. f \in Seq(S) /\ Len(f) = Len(a) + Len(g) + Len(b)
  BY <1>1, <1>2, <1>3
<1>8. Parts(f, a, g, b)
  BY <1>1, <1>4, <1>5, <1>6, <1>7 DEF Parts
<1> QED
  BY <1>7, <1>8 DEF f, ag

\* Cells of two kinds, wherever they stand.
Mixed(f, s, g) ==
  \E u \in [DOMAIN s -> DOMAIN f], v \in [DOMAIN g -> DOMAIN f] :
    /\ \A j \in DOMAIN s : f[u[j]] = s[j]
    /\ \A j \in DOMAIN g : f[v[j]] = g[j]
    /\ \A k \in DOMAIN f : (\E j \in DOMAIN s : k = u[j]) \/ \E j \in DOMAIN g : k = v[j]

\* Mixing cells that own different blocks shares none.
LEMMA MixedCells ==
  ASSUME NEW m, NEW f, NEW s, NEW g, Mixed(f, s, g), Fit(m, s), Single(s), Fit(m, g), Single(g),
         Owned(s) \cap Owned(g) = {}
  PROVE  Fit(m, f) /\ Single(f) /\ Owned(f) = Owned(s) \cup Owned(g)
<1>1. PICK u \in [DOMAIN s -> DOMAIN f], v \in [DOMAIN g -> DOMAIN f] :
        /\ \A j \in DOMAIN s : f[u[j]] = s[j]
        /\ \A j \in DOMAIN g : f[v[j]] = g[j]
        /\ \A k \in DOMAIN f : (\E j \in DOMAIN s : k = u[j]) \/ \E j \in DOMAIN g : k = v[j]
  BY DEF Mixed
<1>2. /\ \A j \in DOMAIN s : u[j] \in DOMAIN f
      /\ \A j \in DOMAIN g : v[j] \in DOMAIN f
  OBVIOUS
<1>3. Fit(m, f)
  BY <1>1 DEF Fit
<1>4. Owned(f) = Owned(s) \cup Owned(g)
  <2>1. ASSUME NEW x \in Owned(f)
        PROVE  x \in Owned(s) \cup Owned(g)
    <3>1. PICK k \in DOMAIN f : f[k].type \in Owning /\ f[k].at = x
      BY OwnedIff
    <3> QED
      BY <1>1, <3>1, OwnedIff
  <2>2. Owned(s) \subseteq Owned(f)
    BY <1>1, <1>2, OwnedIff
  <2>3. Owned(g) \subseteq Owned(f)
    BY <1>1, <1>2, OwnedIff
  <2> QED
    BY <2>1, <2>2, <2>3
<1>5. Single(f)
  <2> SUFFICES ASSUME NEW k \in DOMAIN f, NEW l \in DOMAIN f, f[k].type \in Owning,
                      f[l].type \in Owning, f[k].at = f[l].at
               PROVE  k = l
    BY DEF Single
  <2>1. CASE \E j \in DOMAIN s : k = u[j]
    <3>1. PICK j \in DOMAIN s : k = u[j]
      BY <2>1
    <3>2. f[l].at \in Owned(s)
      BY <1>1, <3>1, OwnedIff
    <3>3. ~\E i \in DOMAIN g : l = v[i]
      BY <1>1, <3>2, OwnedIff
    <3>4. PICK i \in DOMAIN s : l = u[i]
      BY <1>1, <3>3
    <3> QED
      BY <1>1, <3>1, <3>4 DEF Single
  <2>2. CASE \E j \in DOMAIN g : k = v[j]
    <3>1. PICK j \in DOMAIN g : k = v[j]
      BY <2>2
    <3>2. f[l].at \in Owned(g)
      BY <1>1, <3>1, OwnedIff
    <3>3. ~\E i \in DOMAIN s : l = u[i]
      BY <1>1, <3>2, OwnedIff
    <3>4. PICK i \in DOMAIN g : l = v[i]
      BY <1>1, <3>3
    <3> QED
      BY <1>1, <3>1, <3>4 DEF Single
  <2> QED
    BY <1>1, <2>1, <2>2
<1> QED
  BY <1>3, <1>4, <1>5

\* Cells that are divided in two, some of them s and the others g.
Divided(f, s, g) ==
  \E u \in [DOMAIN s -> DOMAIN f], v \in [DOMAIN g -> DOMAIN f] :
    /\ \A j \in DOMAIN s : f[u[j]] = s[j]
    /\ \A j \in DOMAIN g : f[v[j]] = g[j]
    /\ \A k \in DOMAIN f : (\E j \in DOMAIN s : k = u[j]) \/ \E j \in DOMAIN g : k = v[j]
    /\ \A i, j \in DOMAIN s : u[i] = u[j] => i = j
    /\ \A i \in DOMAIN s, j \in DOMAIN g : u[i] # v[j]

\* Dividing cells shares none of their blocks and loses none.
LEMMA DividedCells ==
  ASSUME NEW m, NEW f, NEW s, NEW g, Divided(f, s, g), Fit(m, f), Single(f)
  PROVE  /\ Fit(m, s) /\ Single(s)
         /\ Owned(s) \subseteq Owned(f)
         /\ Owned(g) = Owned(f) \ Owned(s)
<1>1. PICK u \in [DOMAIN s -> DOMAIN f], v \in [DOMAIN g -> DOMAIN f] :
        /\ \A j \in DOMAIN s : f[u[j]] = s[j]
        /\ \A j \in DOMAIN g : f[v[j]] = g[j]
        /\ \A k \in DOMAIN f : (\E j \in DOMAIN s : k = u[j]) \/ \E j \in DOMAIN g : k = v[j]
        /\ \A i, j \in DOMAIN s : u[i] = u[j] => i = j
        /\ \A i \in DOMAIN s, j \in DOMAIN g : u[i] # v[j]
  BY DEF Divided
<1>2. /\ \A j \in DOMAIN s : u[j] \in DOMAIN f
      /\ \A j \in DOMAIN g : v[j] \in DOMAIN f
  OBVIOUS
<1>3. Fit(m, s)
  BY <1>1, <1>2 DEF Fit
<1>4. Single(s)
  BY <1>1, <1>2 DEF Single
<1>5. Owned(s) \subseteq Owned(f)
  BY <1>1, <1>2, OwnedIff
<1>6. Owned(g) \subseteq Owned(f)
  BY <1>1, <1>2, OwnedIff
<1>7. Owned(s) \cap Owned(g) = {}
  <2> SUFFICES ASSUME NEW x \in Owned(s), x \in Owned(g) PROVE FALSE
    OBVIOUS
  <2>1. PICK i \in DOMAIN s : s[i].type \in Owning /\ s[i].at = x
    BY OwnedIff
  <2>2. PICK j \in DOMAIN g : g[j].type \in Owning /\ g[j].at = x
    BY OwnedIff
  <2> QED
    BY <1>1, <1>2, <2>1, <2>2 DEF Single
<1>8. Owned(f) \subseteq Owned(s) \cup Owned(g)
  <2> SUFFICES ASSUME NEW x \in Owned(f) PROVE x \in Owned(s) \cup Owned(g)
    OBVIOUS
  <2>1. PICK k \in DOMAIN f : f[k].type \in Owning /\ f[k].at = x
    BY OwnedIff
  <2>2. (\E j \in DOMAIN s : f[k] = s[j]) \/ \E j \in DOMAIN g : f[k] = g[j]
    BY <1>1
  <2> QED
    BY <2>1, <2>2, OwnedIff
<1> QED
  BY <1>3, <1>4, <1>5, <1>6, <1>7, <1>8

\* Inserting mixes the cells of a vector and new ones.
LEMMA SplicedMixed ==
  ASSUME NEW s \in Seq(Cells), NEW g \in Seq(Cells), NEW i \in 1 .. Len(s) + 1
  PROVE  \A f : f = SubSeq(s, 1, i - 1) \o g \o SubSeq(s, i, Len(s))
                  => f \in Seq(Cells) /\ Mixed(f, s, g)
<1>0. SUFFICES ASSUME NEW f, f = SubSeq(s, 1, i - 1) \o g \o SubSeq(s, i, Len(s))
               PROVE  f \in Seq(Cells) /\ Mixed(f, s, g)
  OBVIOUS
<1> DEFINE a == Part(s, 1, i - 1)
           b == Part(s, i, Len(s))
<1>1. Len(s) \in Nat /\ Len(g) \in Nat /\ i \in Nat /\ 1 <= i /\ i <= Len(s) + 1
  OBVIOUS
<1>2. a \in Seq(Cells) /\ Len(a) = i - 1 /\ \A k \in 1 .. i - 1 : a[k] = s[k]
  <2>1. 1 \in 1 .. Len(s) + 1 /\ i - 1 \in 0 .. Len(s) /\ 1 <= (i - 1) + 1
    BY <1>1
  <2>2. a \in Seq(Cells) /\ IsPart(a, s, 1, i - 1)
    BY <2>1, PartIs, Zenon
  <2> HIDE DEF a
  <2> QED
    BY <1>1, <2>2 DEF IsPart
<1>3. /\ b \in Seq(Cells) /\ Len(b) = Len(s) - i + 1
      /\ \A k \in 1 .. Len(s) - i + 1 : b[k] = s[i + k - 1]
  <2>1. i \in 1 .. Len(s) + 1 /\ Len(s) \in 0 .. Len(s) /\ i <= Len(s) + 1
    BY <1>1
  <2>2. b \in Seq(Cells) /\ IsPart(b, s, i, Len(s))
    BY <2>1, PartIs, Zenon
  <2> HIDE DEF b
  <2> QED
    BY <1>1, <2>2 DEF IsPart
<1>4. f = Concat(Concat(a, g), b)
  BY <1>0, Zenon DEF Concat, Part
<1> HIDE DEF a, b
<1>5. f \in Seq(Cells) /\ Parts(f, a, g, b)
  <2>1. a \in Seq(Cells) /\ b \in Seq(Cells)
    BY <1>2, <1>3
  <2> QED
    BY <1>4, <2>1, ThreeParts, Zenon
<1>6. DOMAIN s = 1 .. Len(s) /\ DOMAIN g = 1 .. Len(g) /\ DOMAIN f = 1 .. Len(f)
  BY <1>5
<1> DEFINE u == [j \in 1 .. Len(s) |-> IF j < i THEN j ELSE j + Len(g)]
           v == [j \in 1 .. Len(g) |-> i - 1 + j]
<1>7. Len(f) = Len(s) + Len(g)
  BY <1>1, <1>2, <1>3, <1>5 DEF Parts
<1>8. ASSUME NEW j \in 1 .. Len(s)
      PROVE  u[j] \in 1 .. Len(f) /\ f[u[j]] = s[j]
  <2>1. CASE j < i
    <3>1. j \in 1 .. Len(a) /\ j \in 1 .. i - 1 /\ u[j] = j
      BY <1>1, <1>2, <2>1
    <3>2. f[j] = a[j] /\ a[j] = s[j]
      BY <1>2, <1>5, <3>1 DEF Parts
    <3> QED
      BY <1>1, <1>7, <3>1, <3>2
  <2>2. CASE ~(j < i)
    <3>0. j \in Nat /\ i <= j /\ j <= Len(s) /\ u[j] = j + Len(g)
      BY <1>1, <2>2
    <3> HIDE DEF u, v
    <3>1. /\ u[j] = j + Len(g) /\ j - (i - 1) \in 1 .. Len(b) /\ j - (i - 1) \in 1 .. Len(s) - i + 1
          /\ Len(a) + Len(g) + (j - (i - 1)) = j + Len(g) /\ i + (j - (i - 1)) - 1 = j
      BY <1>1, <1>2, <1>3, <3>0
    <3>2. f[Len(a) + Len(g) + (j - (i - 1))] = b[j - (i - 1)]
      BY <1>5, <3>1 DEF Parts
    <3>3. b[j - (i - 1)] = s[i + (j - (i - 1)) - 1]
      BY <1>3, <3>1
    <3>4. f[u[j]] = s[j]
      BY <3>1, <3>2, <3>3
    <3>5. j + Len(g) \in 1 .. Len(f)
      BY <1>1, <1>7
    <3> QED
      BY <3>1, <3>4, <3>5
  <2> QED
    BY <2>1, <2>2
<1>9. ASSUME NEW j \in 1 .. Len(g)
      PROVE  v[j] \in 1 .. Len(f) /\ f[v[j]] = g[j]
  BY <1>1, <1>2, <1>5, <1>7 DEF Parts
<1>10. ASSUME NEW k \in 1 .. Len(f)
       PROVE  (\E j \in 1 .. Len(s) : k = u[j]) \/ \E j \in 1 .. Len(g) : k = v[j]
  <2>1. CASE k < i
    <3>1. k \in 1 .. Len(s) /\ u[k] = k
      BY <1>1, <1>7, <2>1
    <3> QED
      BY <3>1
  <2>2. CASE i <= k /\ k <= i - 1 + Len(g)
    <3>1. k - (i - 1) \in 1 .. Len(g) /\ v[k - (i - 1)] = k
      BY <1>1, <1>7, <2>2
    <3> QED
      BY <3>1
  <2>3. CASE i - 1 + Len(g) < k
    <3>1. k - Len(g) \in 1 .. Len(s) /\ u[k - Len(g)] = k
      BY <1>1, <1>7, <2>3
    <3> QED
      BY <3>1
  <2> QED
    BY <1>1, <1>7, <2>1, <2>2, <2>3
<1>11. u \in [1 .. Len(s) -> 1 .. Len(f)] /\ v \in [1 .. Len(g) -> 1 .. Len(f)]
  BY <1>8, <1>9
<1> HIDE DEF u, v
<1>12. /\ u \in [DOMAIN s -> DOMAIN f] /\ v \in [DOMAIN g -> DOMAIN f]
       /\ \A j \in DOMAIN s : f[u[j]] = s[j]
       /\ \A j \in DOMAIN g : f[v[j]] = g[j]
       /\ \A k \in DOMAIN f : (\E j \in DOMAIN s : k = u[j]) \/ \E j \in DOMAIN g : k = v[j]
  BY <1>6, <1>8, <1>9, <1>10, <1>11
<1> QED
  BY <1>5, <1>12, Zenon DEF Mixed

\* Erasing divides the cells of a vector.
LEMMA CutDivided ==
  ASSUME NEW s \in Seq(Cells), NEW i \in 1 .. Len(s) + 1, NEW j \in 1 .. Len(s) + 1, i <= j
  PROVE  \A f, g : f = SubSeq(s, 1, i - 1) \o SubSeq(s, j, Len(s)) /\ g = SubSeq(s, i, j - 1)
                     => f \in Seq(Cells) /\ Divided(s, f, g)
<1>0. SUFFICES ASSUME NEW f, f = SubSeq(s, 1, i - 1) \o SubSeq(s, j, Len(s)),
                      NEW g, g = SubSeq(s, i, j - 1)
               PROVE  f \in Seq(Cells) /\ Divided(s, f, g)
  OBVIOUS
<1> DEFINE a == Part(s, 1, i - 1)
           b == Part(s, j, Len(s))
<1>1. /\ Len(s) \in Nat /\ i \in Nat /\ 1 <= i /\ i <= Len(s) + 1
      /\ j \in Nat /\ j <= Len(s) + 1
  OBVIOUS
<1>2. a \in Seq(Cells) /\ Len(a) = i - 1 /\ \A k \in 1 .. i - 1 : a[k] = s[k]
  <2>1. 1 \in 1 .. Len(s) + 1 /\ i - 1 \in 0 .. Len(s) /\ 1 <= (i - 1) + 1
    BY <1>1
  <2>2. a \in Seq(Cells) /\ IsPart(a, s, 1, i - 1)
    BY <2>1, PartIs, Zenon
  <2> HIDE DEF a
  <2> QED
    BY <1>1, <2>2 DEF IsPart
<1>3. /\ b \in Seq(Cells) /\ Len(b) = Len(s) - j + 1
      /\ \A k \in 1 .. Len(s) - j + 1 : b[k] = s[j + k - 1]
  <2>1. j \in 1 .. Len(s) + 1 /\ Len(s) \in 0 .. Len(s) /\ j <= Len(s) + 1
    BY <1>1
  <2>2. b \in Seq(Cells) /\ IsPart(b, s, j, Len(s))
    BY <2>1, PartIs, Zenon
  <2> HIDE DEF b
  <2> QED
    BY <1>1, <2>2 DEF IsPart
<1>4. g \in Seq(Cells) /\ Len(g) = j - i /\ \A k \in 1 .. j - i : g[k] = s[i + k - 1]
  <2> DEFINE t == Part(s, i, j - 1)
  <2>1. j - 1 \in 0 .. Len(s) /\ i <= (j - 1) + 1
    BY <1>1
  <2>2. t \in Seq(Cells) /\ IsPart(t, s, i, j - 1)
    BY <2>1, PartIs, Zenon
  <2>3. g = t
    BY <1>0 DEF Part
  <2> HIDE DEF t
  <2> QED
    BY <1>1, <2>2, <2>3 DEF IsPart
<1>5. f = Concat(a, b)
  BY <1>0, Zenon DEF Concat, Part
<1> HIDE DEF a, b
<1>6. f \in Seq(Cells) /\ Joins(f, a, b)
  <2>1. a \in Seq(Cells) /\ b \in Seq(Cells)
    BY <1>2, <1>3
  <2> QED
    BY <1>5, <2>1, ConcatIs, Zenon
<1>7. Len(f) = Len(s) - (j - i)
  BY <1>1, <1>2, <1>3, <1>6 DEF Joins
<1>8. DOMAIN s = 1 .. Len(s) /\ DOMAIN f = 1 .. Len(f) /\ DOMAIN g = 1 .. j - i
  BY <1>4, <1>6
<1> DEFINE u == [k \in 1 .. Len(f) |-> IF k < i THEN k ELSE k + (j - i)]
           v == [k \in 1 .. j - i |-> i + k - 1]
<1>9. ASSUME NEW k \in 1 .. Len(f)
      PROVE  /\ u[k] \in 1 .. Len(s) /\ s[u[k]] = f[k]
             /\ u[k] < i <=> k < i
             /\ u[k] >= j <=> k >= i
  <2>1. CASE k < i
    <3>1. k \in 1 .. Len(a) /\ k \in 1 .. i - 1 /\ u[k] = k
      BY <1>1, <1>2, <2>1
    <3>2. f[k] = a[k] /\ a[k] = s[k]
      BY <1>2, <1>6, <3>1 DEF Joins
    <3> QED
      BY <1>1, <1>7, <2>1, <3>1, <3>2
  <2>2. CASE ~(k < i)
    <3>0. k \in Nat /\ i <= k /\ k <= Len(s) - (j - i) /\ u[k] = k + (j - i)
      BY <1>1, <1>7, <2>2
    <3> HIDE DEF u, v
    <3>1. /\ k - (i - 1) \in 1 .. Len(b) /\ k - (i - 1) \in 1 .. Len(s) - j + 1
          /\ Len(a) + (k - (i - 1)) = k /\ j + (k - (i - 1)) - 1 = k + (j - i)
      BY <1>1, <1>2, <1>3, <3>0
    <3>2. f[Len(a) + (k - (i - 1))] = b[k - (i - 1)]
      BY <1>6, <3>1 DEF Joins
    <3>3. b[k - (i - 1)] = s[j + (k - (i - 1)) - 1]
      BY <1>3, <3>1
    <3>4. s[u[k]] = f[k]
      BY <3>0, <3>1, <3>2, <3>3
    <3>5. u[k] \in 1 .. Len(s) /\ u[k] >= j /\ ~(u[k] < i) /\ k >= i
      BY <1>1, <3>0
    <3> QED
      BY <2>2, <3>4, <3>5
  <2> QED
    BY <2>1, <2>2
<1>10. ASSUME NEW k \in 1 .. j - i
       PROVE  v[k] \in 1 .. Len(s) /\ s[v[k]] = g[k] /\ v[k] >= i /\ v[k] < j
  <2>1. v[k] = i + k - 1 /\ v[k] \in 1 .. Len(s) /\ v[k] >= i /\ v[k] < j
    BY <1>1
  <2> QED
    BY <1>4, <2>1
<1>11. ASSUME NEW k \in 1 .. Len(s)
       PROVE  (\E l \in 1 .. Len(f) : k = u[l]) \/ \E l \in 1 .. j - i : k = v[l]
  <2>1. CASE k < i
    <3>1. k \in 1 .. Len(f) /\ u[k] = k
      BY <1>1, <1>7, <2>1
    <3> QED
      BY <3>1
  <2>2. CASE i <= k /\ k < j
    <3>1. k - (i - 1) \in 1 .. j - i /\ v[k - (i - 1)] = k
      BY <1>1, <2>2
    <3> QED
      BY <3>1
  <2>3. CASE j <= k
    <3>1. k - (j - i) \in 1 .. Len(f) /\ u[k - (j - i)] = k
      BY <1>1, <1>7, <2>3
    <3> QED
      BY <3>1
  <2> QED
    BY <1>1, <2>1, <2>2, <2>3
<1>12. u \in [1 .. Len(f) -> 1 .. Len(s)] /\ v \in [1 .. j - i -> 1 .. Len(s)]
  BY <1>9, <1>10
<1>13. \A k, l \in 1 .. Len(f) : u[k] = u[l] => k = l
  BY <1>1, <1>7
<1>14. \A k \in 1 .. Len(f), l \in 1 .. j - i : u[k] # v[l]
  <2> SUFFICES ASSUME NEW k \in 1 .. Len(f), NEW l \in 1 .. j - i PROVE u[k] # v[l]
    OBVIOUS
  <2>1. k \in Nat /\ u[k] \in Nat /\ v[l] \in Nat
    BY <1>9, <1>10
  <2>2. (u[k] < i <=> k < i) /\ (u[k] >= j <=> k >= i)
    BY <1>9
  <2>3. v[l] >= i /\ v[l] < j
    BY <1>10
  <2> HIDE DEF u, v
  <2> QED
    BY <1>1, <2>1, <2>2, <2>3
<1> HIDE DEF u, v
<1>15. /\ u \in [DOMAIN f -> DOMAIN s] /\ v \in [DOMAIN g -> DOMAIN s]
       /\ \A k \in DOMAIN f : s[u[k]] = f[k]
       /\ \A k \in DOMAIN g : s[v[k]] = g[k]
       /\ \A k \in DOMAIN s : (\E l \in DOMAIN f : k = u[l]) \/ \E l \in DOMAIN g : k = v[l]
       /\ \A k, l \in DOMAIN f : u[k] = u[l] => k = l
       /\ \A k \in DOMAIN f, l \in DOMAIN g : u[k] # v[l]
  BY <1>8, <1>9, <1>10, <1>11, <1>12, <1>13, <1>14
<1> QED
  BY <1>6, <1>15, Zenon DEF Divided

\* push_back mixes one cell in,
LEMMA AppendMixed ==
  ASSUME NEW s \in Seq(Cells), NEW c \in Cells
  PROVE  \A f : f = Append(s, c) => f \in Seq(Cells) /\ Mixed(f, s, <<c>>)
<1>0. SUFFICES ASSUME NEW f, f = Append(s, c)
               PROVE  f \in Seq(Cells) /\ Mixed(f, s, <<c>>)
  OBVIOUS
<1> DEFINE u == [j \in 1 .. Len(s) |-> j]
           v == [j \in {1} |-> Len(s) + 1]
           g == <<c>>
<1>1. /\ f \in Seq(Cells) /\ Len(f) = Len(s) + 1 /\ Len(s) \in Nat
      /\ \A k \in 1 .. Len(s) : f[k] = s[k]
      /\ f[Len(s) + 1] = c
  BY <1>0
<1>2. DOMAIN s = 1 .. Len(s) /\ DOMAIN f = 1 .. Len(s) + 1 /\ DOMAIN g = {1} /\ g[1] = c
  BY <1>1
<1> HIDE DEF g
<1>3. u \in [DOMAIN s -> DOMAIN f] /\ v \in [DOMAIN g -> DOMAIN f]
  BY <1>1, <1>2
<1>4. /\ \A j \in DOMAIN s : f[u[j]] = s[j]
      /\ \A j \in DOMAIN g : f[v[j]] = g[j]
  BY <1>1, <1>2
<1>5. \A k \in DOMAIN f : (\E j \in DOMAIN s : k = u[j]) \/ \E j \in DOMAIN g : k = v[j]
  <2>1. \A k \in DOMAIN f : k \in 1 .. Len(s) \/ k = Len(s) + 1
    BY <1>1, <1>2
  <2> QED
    BY <1>2, <2>1
<1> HIDE DEF u, v
<1>6. Mixed(f, s, g)
  BY <1>3, <1>4, <1>5 DEF Mixed
<1> QED
  BY <1>1, <1>6 DEF g

\* resize several,
LEMMA ConcatMixed ==
  ASSUME NEW s \in Seq(Cells), NEW g \in Seq(Cells)
  PROVE  \A f : f = s \o g => f \in Seq(Cells) /\ Mixed(f, s, g)
<1>0. SUFFICES ASSUME NEW f, f = s \o g
               PROVE  f \in Seq(Cells) /\ Mixed(f, s, g)
  OBVIOUS
<1>1. f \in Seq(Cells) /\ Joins(f, s, g)
  BY <1>0, ConcatIs, Zenon DEF Concat
<1>2. /\ Len(s) \in Nat /\ Len(g) \in Nat /\ Len(f) = Len(s) + Len(g)
      /\ DOMAIN s = 1 .. Len(s) /\ DOMAIN g = 1 .. Len(g) /\ DOMAIN f = 1 .. Len(f)
  BY <1>1 DEF Joins
<1> DEFINE u == [j \in 1 .. Len(s) |-> j]
           v == [j \in 1 .. Len(g) |-> Len(s) + j]
<1>3. u \in [DOMAIN s -> DOMAIN f] /\ v \in [DOMAIN g -> DOMAIN f]
  BY <1>2
<1>4. /\ \A j \in DOMAIN s : f[u[j]] = s[j]
      /\ \A j \in DOMAIN g : f[v[j]] = g[j]
  BY <1>1, <1>2 DEF Joins
<1>5. ASSUME NEW k \in DOMAIN f
      PROVE  (\E j \in DOMAIN s : k = u[j]) \/ \E j \in DOMAIN g : k = v[j]
  <2>1. CASE k <= Len(s)
    <3>1. k \in DOMAIN s /\ u[k] = k
      BY <1>2, <2>1
    <3> QED
      BY <3>1
  <2>2. CASE ~(k <= Len(s))
    <3>1. k - Len(s) \in DOMAIN g /\ v[k - Len(s)] = k
      BY <1>2, <2>2
    <3> QED
      BY <3>1
  <2> QED
    BY <2>1, <2>2
<1> HIDE DEF u, v
<1> QED
  BY <1>1, <1>3, <1>4, <1>5 DEF Mixed

\* and emplace one under a new key.
LEMMA JoinedMixed ==
  ASSUME NEW s, NEW k, k \notin DOMAIN s, NEW c
  PROVE  \A f : f = Joined(s, At(k, c))
           => /\ DOMAIN f = DOMAIN s \cup {k} /\ f[k] = c /\ \A j \in DOMAIN s : f[j] = s[j]
              /\ Mixed(f, s, <<c>>)
<1>0. SUFFICES ASSUME NEW f, f = Joined(s, At(k, c))
               PROVE  /\ DOMAIN f = DOMAIN s \cup {k} /\ f[k] = c
                      /\ \A j \in DOMAIN s : f[j] = s[j]
                      /\ Mixed(f, s, <<c>>)
  OBVIOUS
<1> DEFINE u == [j \in DOMAIN s |-> j]
           v == [j \in {1} |-> k]
           g == <<c>>
<1>1. DOMAIN f = DOMAIN s \cup {k} /\ f[k] = c /\ \A j \in DOMAIN s : f[j] = s[j]
  BY <1>0 DEF Joined, At
<1>2. DOMAIN g = {1} /\ g[1] = c
  OBVIOUS
<1> HIDE DEF g
<1>3. /\ u \in [DOMAIN s -> DOMAIN f] /\ v \in [DOMAIN g -> DOMAIN f]
      /\ \A j \in DOMAIN s : f[u[j]] = s[j]
      /\ \A j \in DOMAIN g : f[v[j]] = g[j]
      /\ \A l \in DOMAIN f : (\E j \in DOMAIN s : l = u[j]) \/ \E j \in DOMAIN g : l = v[j]
  BY <1>1, <1>2
<1> HIDE DEF u, v
<1>4. Mixed(f, s, g)
  BY <1>3 DEF Mixed
<1> QED
  BY <1>1, <1>4 DEF g

-----------------------------------------------------------------------------
(* Operations of containers *)

\* Null becomes an empty container, which changes nothing else.
LEMMA ReadyGood ==
  ASSUME NEW m, NEW H, Good(m, H), NEW p \in Places(m), NEW type \in Containers,
         CellAt(m, p).type \in {"null", type}, NEW n, n = Ready(m, p, type)
  PROVE  /\ Good(n, H)
         /\ CellAt(n, p).type = type
         /\ DOMAIN m \subseteq DOMAIN n
         /\ \A a \in DOMAIN m \ {p[1]} : n[a] = m[a]
         /\ Places(m) \subseteq Places(n)
         /\ \A q \in Places(m) \ {p} : CellAt(n, q) = CellAt(m, q)
         /\ CellAt(n, p) = CellAt(m, p) \/ CellAt(n, p).at \notin DOMAIN m
         /\ \A f : Fit(m, f) => Fit(n, f)
         /\ \A C : C \subseteq DOMAIN m /\ p[1] \notin C /\ Closed(m, C) => Closed(n, C)
<1>1. CASE CellAt(m, p).type # "null"
  <2>1. n = m
    BY <1>1 DEF Ready
  <2> QED
    BY <1>1, <2>1
<1>2. CASE CellAt(m, p).type = "null"
  <2> DEFINE r == Default(m, type)
  <2>1. n = Written(r.memory, p, r.cell)
    BY <1>2 DEF Ready
  <2>2. type \in {"null", "scalar", "string", "array", "object"} /\ type \in Owning
    BY DEF Containers, Owning
  <2>3. Made(r.memory, m, H, <<r.cell>>) /\ r.cell \in Cells /\ r.cell.type = type
    BY <2>2, DefaultMade
  <2> HIDE DEF r
  <2> DEFINE C == DOMAIN r.memory \ DOMAIN m
  <2>4. /\ Held(r.memory, H, <<r.cell>>) /\ Extends(r.memory, m)
        /\ Closed(r.memory, C) /\ Owned(<<r.cell>>) \subseteq C
        /\ Places(m) \subseteq Places(r.memory) /\ p \in Places(r.memory)
        /\ \A q \in Places(m) : q[1] \in DOMAIN m /\ CellAt(r.memory, q) = CellAt(m, q)
        /\ p[1] \notin C
    BY <2>3, MadeHeld
  <2>5. Owned(<<CellAt(r.memory, p)>>) = {}
    BY <1>2, <2>4, OneOwned DEF Owning, Containers
  <2>6. Good(n, H)
    <3> HIDE DEF C
    <3>1. Good(n, H \cup Owned(<<CellAt(r.memory, p)>>))
      BY <2>1, <2>4, HeldWritten
    <3> QED
      BY <2>5, <3>1
  <2>7. IsMemory(r.memory)
    BY <2>4 DEF Held, Good
  <2>8. /\ DOMAIN n = DOMAIN r.memory
        /\ \A a \in DOMAIN r.memory \ {p[1]} : n[a] = r.memory[a]
        /\ \A a \in DOMAIN r.memory : n[a].type = r.memory[a].type
        /\ Places(n) = Places(r.memory)
        /\ CellAt(n, p) = r.cell
        /\ \A q \in Places(r.memory) \ {p} : CellAt(n, q) = CellAt(r.memory, q)
    <3>1. Differs(n, r.memory, p, r.cell)
      BY <2>1, <2>4, <2>7, WrittenIs
    <3> QED
      BY <3>1 DEF Differs
  <2>9. r.cell.at \notin DOMAIN m
    BY <2>2, <2>3, <2>4, OneOwned
  <2>10. \A f : Fit(m, f) => Fit(n, f)
    BY <2>4, <2>8 DEF Fit, Extends
  <2>11. \A a \in DOMAIN m : Owned(m[a].cells) \subseteq DOMAIN m
    BY DEF Good, Unshared, Fit, Owned
  <2>12. ASSUME NEW X, X \subseteq DOMAIN m, p[1] \notin X, Closed(m, X)
         PROVE  Closed(n, X)
    <3>1. \A a \in X : n[a] = m[a]
      BY <2>4, <2>8, <2>12 DEF Extends
    <3> QED
      BY <2>11, <2>12, <3>1 DEF Closed
  <2> QED
    BY <2>3, <2>4, <2>6, <2>8, <2>9, <2>10, <2>12 DEF Extends
<1> QED
  BY <1>1, <1>2

\* Temporary cells are still held when null has become a container.
LEMMA HeldReady ==
  ASSUME NEW m, NEW H, NEW g, Held(m, H, g), NEW p \in Places(m), NEW type \in Containers,
         CellAt(m, p).type \in {"null", type}, NEW n, n = Ready(m, p, type)
  PROVE  Held(n, H, g)
<1> DEFINE J == H \cup Owned(g)
<1>1. Good(m, J) /\ (\A a \in H : a \notin Owned(g)) /\ Fit(m, g) /\ Single(g)
  BY DEF Held
<1> HIDE DEF J
<1>2. Good(n, J) /\ Fit(n, g)
  BY <1>1, ReadyGood
<1> QED
  BY <1>1, <1>2 DEF Held, J

\* Temporary cells are put between those of a vector.
LEMMA HeldMixed ==
  ASSUME NEW m, NEW H, NEW g, Held(m, H, g), NEW p \in Places(m), CellAt(m, p).type \in Containers,
         NEW f, Mixed(f, CellsAt(m, p), g), f \in [DOMAIN f -> Cells], DOMAIN f \subseteq Nat,
         CellAt(m, p).type = "array" => f \in Seq(Cells),
         CellAt(m, p).type = "object" => DOMAIN f \subseteq Text,
         NEW C, Closed(m, C), Owned(g) \subseteq C, CellAt(m, p).at \notin C
  PROVE  Good(Refilled(m, p, f), H)
<1> DEFINE J == H \cup Owned(g)
           s == CellsAt(m, p)
<1>1. Good(m, J) /\ Fit(m, g) /\ Single(g)
  BY DEF Held
<1> HIDE DEF J
<1>2. Fit(m, s) /\ Single(s) /\ Owned(s) \cap Owned(g) = {}
  <2>1. Fit(m, s) /\ Single(s) /\ Owned(s) \cap J = {}
    BY <1>1, RefilledIs
  <2> QED
    BY <2>1 DEF J
<1> HIDE DEF s
<1>3. Fit(m, f) /\ Single(f) /\ Owned(f) = Owned(s) \cup Owned(g)
  BY <1>1, <1>2, MixedCells DEF s
<1>4. Storable(CellAt(m, p).type, empty, f)
  BY HeapAssumption DEF Storable, Containers, Owning
<1> QED
  BY <1>3, <1>4, HeldJoins DEF s

\* Cells of a container are erased and destroyed.
LEMMA HeldDivided ==
  ASSUME NEW m, NEW H, Good(m, H), NEW p \in Places(m), CellAt(m, p).type \in Containers,
         NEW f, NEW g, Divided(CellsAt(m, p), f, g),
         f \in [DOMAIN f -> Cells], DOMAIN f \subseteq Nat,
         CellAt(m, p).type = "array" => f \in Seq(Cells),
         CellAt(m, p).type = "object" => DOMAIN f \subseteq Text
  PROVE  Good(Destroyed(Refilled(m, p, f), g), H)
<1> DEFINE s == CellsAt(m, p)
<1>1. Fit(m, s) /\ Single(s)
  BY RefilledIs
<1> HIDE DEF s
<1>2. Fit(m, f) /\ Single(f) /\ Owned(f) \subseteq Owned(s) /\ Owned(g) = Owned(s) \ Owned(f)
  BY <1>1, DividedCells DEF s
<1>3. Storable(CellAt(m, p).type, empty, f)
  BY HeapAssumption DEF Storable, Containers, Owning
<1> QED
  BY <1>2, <1>3, RestDestroyed DEF s

-----------------------------------------------------------------------------
(* Each operation leaves a memory without temporary objects *)

Sound == Good(memory, {})
BecomesSound == \E m : Good(m, {}) /\ Becomes(m)

\* A list of cells that are in the memory can be copied.
LEMMA PlacesCopied ==
  ASSUME NEW m, NEW H, Good(m, H), NEW n \in Nat, NEW ps \in [1 .. n -> Places(m)],
         NEW r, r = Copies(m, [i \in 1 .. n |-> CellAt(m, ps[i])])
  PROVE  /\ Made(r.memory, m, H, r.cells)
         /\ r.cells \in [1 .. n -> Cells] /\ r.cells \in Seq(Cells) /\ Len(r.cells) = n
         /\ \A i \in 1 .. n : r.cells[i].type = CellAt(m, ps[i]).type
<1> DEFINE f == [i \in 1 .. n |-> CellAt(m, ps[i])]
<1>1. DOMAIN f = 1 .. n /\ 1 .. n \subseteq Nat \ {0} /\ IsFiniteSet(1 .. n)
  BY FS_Interval
<1>2. ASSUME NEW i \in 1 .. n
      PROVE  /\ f[i] \in Cells
             /\ f[i].type \in Owning => /\ f[i].at \in DOMAIN m \ {0}
                                        /\ m[f[i].at].type = f[i].type
  <2>1. PICK q \in Places(m) : f[i] = CellAt(m, q)
    <3>1. ps[i] \in Places(m) /\ f[i] = CellAt(m, ps[i])
      OBVIOUS
    <3> QED
      BY <3>1
  <2> HIDE DEF f
  <2>2. CellAt(m, q) \in Cells
    BY CellFits
  <2>3. CellAt(m, q).type \in Owning =>
          /\ CellAt(m, q).at \in DOMAIN m \ {0}
          /\ m[CellAt(m, q).at].type = CellAt(m, q).type
    BY CellFits
  <2> QED
    BY <2>1, <2>2, <2>3
<1>3. Fit(m, f)
  BY <1>1, <1>2 DEF Fit
<1>4. \A i \in 1 .. n : f[i].type = CellAt(m, ps[i]).type
  OBVIOUS
<1> HIDE DEF f
<1>5. /\ Made(r.memory, m, H, r.cells) /\ r.cells \in [1 .. n -> Cells]
      /\ \A i \in 1 .. n : r.cells[i].type = f[i].type
  BY <1>1, <1>3, CopyMade DEF f
<1>6. r.cells \in Seq(Cells) /\ Len(r.cells) = n
  BY <1>5
<1> QED
  BY <1>4, <1>5, <1>6

\* Any cells can be an array's.
LEMMA VectorStorable ==
  ASSUME NEW f \in Seq(Cells)
  PROVE  Storable("array", empty, f)
<1>1. DOMAIN f = 1 .. Len(f) /\ \A i \in 1 .. Len(f) : f[i] \in Cells
  OBVIOUS
<1>2. DOMAIN f \subseteq Nat /\ f \in [DOMAIN f -> Cells]
  BY <1>1
<1> QED
  BY <1>2, HeapAssumption DEF Storable, Owning, Containers

\* A constructor's value is assigned,
LEMMA ConstructSound ==
  ASSUME Sound, NEW p \in Places(memory), Construct(p)
  PROVE  BecomesSound
<1>1. PICK type \in Owning \cup {"scalar", "null"} : Becomes(Assigned(p, Default(memory, type)))
  BY DEF Construct
<1> DEFINE r == Default(memory, type)
<1>2. type \in {"null", "scalar", "string", "array", "object"}
  BY DEF Owning, Containers
<1>3. Made(r.memory, memory, {}, <<r.cell>>)
  BY <1>2, DefaultMade DEF Sound
<1> HIDE DEF r
<1>4. Good(Assigned(p, r), {})
  BY <1>3, MadeAssigned
<1> QED
  BY <1>1, <1>4 DEF BecomesSound, r

\* one of a string,
LEMMA ConstructTextSound ==
  ASSUME Sound, NEW p \in Places(memory), ConstructText(p)
  PROVE  BecomesSound
<1>1. PICK x \in Text : Becomes(Assigned(p, create(memory, String(x))))
  BY DEF ConstructText
<1> DEFINE r == create(memory, String(x))
<1>2. Made(memory, memory, {}, <<>>)
  BY NothingMade DEF Sound
<1>3. Storable("string", x, <<>>)
  BY DEF Storable, Owning, Containers
<1>4. r = create(memory, Block("string", x, <<>>))
  BY DEF String
<1>5. Made(r.memory, memory, {}, <<r.cell>>)
  <2> HIDE DEF r
  <2> QED
    BY <1>2, <1>3, <1>4, CreateMade
<1> HIDE DEF r
<1>6. Good(Assigned(p, r), {})
  BY <1>5, MadeAssigned
<1> QED
  BY <1>1, <1>6 DEF BecomesSound, r

\* and one of an array of copies.
LEMMA FillSound ==
  ASSUME Sound, NEW p \in Places(memory), Fill(p)
  PROVE  BecomesSound
<1>1. PICK q \in Places(memory) : \E cnt \in 0 .. MaxLen : Becomes(Filled(p, cnt, q))
  BY DEF Fill
<1>2. PICK cnt \in 0 .. MaxLen : Becomes(Filled(p, cnt, q))
  BY <1>1
<1> DEFINE r == Copies(memory, [i \in 1 .. cnt |-> CellAt(memory, q)])
           s == create(r.memory, Vector(r.cells))
<1>3. cnt \in Nat
  OBVIOUS
<1>4. Made(r.memory, memory, {}, r.cells) /\ r.cells \in Seq(Cells)
  <2> DEFINE ps == [i \in 1 .. cnt |-> q]
  <2>1. /\ ps \in [1 .. cnt -> Places(memory)]
        /\ [i \in 1 .. cnt |-> CellAt(memory, q)] = [i \in 1 .. cnt |-> CellAt(memory, ps[i])]
    OBVIOUS
  <2> HIDE DEF ps
  <2>2. r = Copies(memory, [i \in 1 .. cnt |-> CellAt(memory, ps[i])])
    BY <2>1
  <2> HIDE DEF r
  <2> QED
    BY <1>3, <2>1, <2>2, PlacesCopied DEF Sound
<1> HIDE DEF r
<1>5. Storable("array", empty, r.cells)
  BY <1>4, VectorStorable
<1>6. s = create(r.memory, Block("array", empty, r.cells))
  BY DEF Vector
<1>7. Made(s.memory, memory, {}, <<s.cell>>)
  <2> HIDE DEF s
  <2> QED
    BY <1>4, <1>5, <1>6, CreateMade
<1>8. Good(Assigned(p, s), {})
  <2> HIDE DEF s
  <2> QED
    BY <1>7, MadeAssigned
<1> QED
  BY <1>2, <1>8 DEF BecomesSound, Filled, r

\* Copy assignment, of an object to a part of itself too
LEMMA CopyAssignSound ==
  ASSUME Sound, NEW p \in Places(memory), CopyAssign(p)
  PROVE  BecomesSound
<1>1. PICK q \in Places(memory) : Becomes(CopyAssigned(p, q))
  BY DEF CopyAssign
<1> DEFINE r == Copied(memory, CellAt(memory, q))
<1>2. Fit(memory, <<CellAt(memory, q)>>)
  BY CellFits DEF Sound
<1>3. Made(r.memory, memory, {}, <<r.cell>>)
  BY <1>2, CopiedMade DEF Sound
<1> HIDE DEF r
<1>4. Good(Assigned(p, r), {})
  BY <1>3, MadeAssigned
<1> QED
  BY <1>1, <1>4 DEF BecomesSound, CopyAssigned, r

\* A cell that is taken from its place is a temporary one, and what was beneath
\* it is still closed.
LEMMA TakenHeld ==
  ASSUME NEW m, NEW H, Good(m, H), NEW q \in Places(m),
         NEW c, c = CellAt(m, q), NEW n, n = Written(m, q, Null)
  PROVE  /\ Held(n, H, <<c>>) /\ Differs(n, m, q, Null)
         /\ \A C : C \subseteq DOMAIN m /\ Closed(m, C) => Closed(n, C)
<1>1. IsMemory(m)
  BY DEF Good
<1>2. Differs(n, m, q, Null)
  BY <1>1, WrittenIs
<1>3. Fit(m, <<c>>) /\ Owned(<<c>>) \cap H = {}
  BY CellFits
<1>4. Good(n, H \cup Owned(<<c>>))
  <2>1. Null.type \notin Owning /\ Null \in Cells
    BY DEF Null, Cell, Cells, Owning, Containers
  <2>2. Owned(<<Null>>) = {} /\ Fit(m, <<Null>>)
    <3>1. DOMAIN <<Null>> = {1} /\ <<Null>>[1] = Null
      OBVIOUS
    <3> QED
      BY <2>1, <3>1, OneOwned DEF Fit
  <2>3. /\ Closed(m, {}) /\ q[1] \notin {}
        /\ Owned(<<Null>>) \subseteq {} /\ Owned(<<Null>>) \subseteq H
    BY <2>2 DEF Closed
  <2>4. Good(Written(m, q, Null), (H \cup Owned(<<CellAt(m, q)>>)) \ Owned(<<Null>>))
    BY <2>2, <2>3, WrittenGood
  <2> QED
    BY <2>2, <2>4
<1>5. Fit(n, <<c>>) /\ Single(<<c>>)
  <2>1. DOMAIN n = DOMAIN m /\ \A a \in DOMAIN m : n[a].type = m[a].type
    BY <1>2 DEF Differs
  <2> QED
    BY <1>3, <2>1 DEF Fit, Single
<1>6. Held(n, H, <<c>>)
  BY <1>3, <1>4, <1>5 DEF Held
<1>7. \A a \in DOMAIN m : Owned(n[a].cells) \subseteq Owned(m[a].cells)
  <2> SUFFICES ASSUME NEW a \in DOMAIN m, NEW x \in Owned(n[a].cells)
               PROVE  x \in Owned(m[a].cells)
    OBVIOUS
  <2>1. CASE a # q[1]
    BY <1>2, <2>1 DEF Differs
  <2>2. CASE a = q[1]
    <3>1. /\ n[a].cells = [m[a].cells EXCEPT ![q[2]] = Null]
          /\ DOMAIN n[a].cells = DOMAIN m[a].cells
      BY <1>2, <2>2 DEF Differs
    <3>2. PICK i \in DOMAIN n[a].cells : n[a].cells[i].type \in Owning /\ n[a].cells[i].at = x
      BY OwnedIff
    <3>3. i # q[2]
      <4>1. Null.type \notin Owning
        BY DEF Null, Cell, Owning, Containers
      <4> QED
        BY <3>1, <3>2, <4>1
    <3>4. n[a].cells[i] = m[a].cells[i]
      BY <3>1, <3>3
    <3> QED
      BY <3>1, <3>2, <3>4, OwnedIff
  <2> QED
    BY <2>1, <2>2
<1>8. ASSUME NEW C, C \subseteq DOMAIN m, Closed(m, C)
      PROVE  Closed(n, C)
  <2>1. DOMAIN n = DOMAIN m
    BY <1>2 DEF Differs
  <2>2. ASSUME NEW a \in C, NEW b \in Owned(n[a].cells) \cap DOMAIN n
        PROVE  b \in C
    BY <1>7, <1>8, <2>1, <2>2 DEF Closed
  <2> QED
    BY <2>2 DEF Closed
<1> QED
  BY <1>2, <1>6, <1>8

\* What is beneath a cell is closed, and does not have the cell in it.
LEMMA BeneathCell ==
  ASSUME NEW m, NEW H, Good(m, H), NEW q \in Places(m),
         NEW C, C = Beneath(m, <<CellAt(m, q)>>)
  PROVE  /\ C \subseteq DOMAIN m /\ Closed(m, C)
         /\ Owned(<<CellAt(m, q)>>) \subseteq C /\ q[1] \notin C
<1> DEFINE c == CellAt(m, q)
<1>1. IsFiniteSet(DOMAIN m) /\ \A a \in DOMAIN m : Owned(m[a].cells) \subseteq DOMAIN m
  BY DEF Good, IsMemory, Unshared, Fit, Owned
<1>2. /\ Fit(m, <<c>>) /\ Owned(<<c>>) \subseteq Owned(m[q[1]].cells)
      /\ c.type \in Owning => c.at \in Owned(m[q[1]].cells)
  BY CellFits
<1>3. q[1] \in DOMAIN m
  BY PlaceIs
<1>4. C \subseteq DOMAIN m /\ Closed(m, C) /\ Owned(<<c>>) \cap DOMAIN m \subseteq C
      /\ \A S : Owned(<<c>>) \cap DOMAIN m \subseteq S /\ Closed(m, S) => C \subseteq S
  BY <1>1, BeneathLeast
<1>5. q[1] \notin C
  <2>1. CASE c.type \in Owning
    BY <1>2, <2>1, NotBeneathItself
  <2>2. CASE c.type \notin Owning
    <3>1. Owned(<<c>>) = {} /\ Closed(m, {})
      BY <2>2, OneOwned DEF Closed
    <3> QED
      BY <1>4, <3>1
  <2> QED
    BY <2>1, <2>2
<1> QED
  BY <1>1, <1>2, <1>3, <1>4, <1>5

\* Move assignment, of a part of an object to the object too
LEMMA MoveAssignSound ==
  ASSUME Sound, NEW p \in Places(memory), MoveAssign(p)
  PROVE  BecomesSound
<1>1. PICK q \in Places(memory) : Movable(p, q) /\ Becomes(MoveAssigned(p, q))
  BY DEF MoveAssign
<1> DEFINE r == Moved(memory, q)
           c == CellAt(memory, q)
           n == Written(memory, q, Null)
           C == Beneath(memory, <<c>>)
<1>2. r.memory = n /\ r.cell = c
  BY DEF Moved, Result
<1>3. p[1] \notin C
  BY <1>1 DEF Movable, Inside
<1>4. C \subseteq DOMAIN memory /\ Closed(memory, C) /\ Owned(<<c>>) \subseteq C
  BY BeneathCell DEF Sound
<1>5. Held(n, {}, <<c>>) /\ Differs(n, memory, q, Null) /\ Closed(n, C)
  BY <1>4, TakenHeld DEF Sound
<1>6. p \in Places(n)
  BY <1>5 DEF Differs
<1> HIDE DEF r, c, n, C
<1>7. Good(Assigned(p, r), {})
  BY <1>2, <1>3, <1>4, <1>5, <1>6, HeldAssigned
<1> QED
  BY <1>1, <1>7 DEF BecomesSound, MoveAssigned, r

\* Swapping writes over both places, so null may be written there before.
LEMMA WrittenAgain ==
  ASSUME NEW m, IsMemory(m), NEW p \in Places(m), NEW q \in Places(m), p # q,
         NEW c, NEW d, NEW x, NEW y
  PROVE  Written(Written(m, p, c), q, d)
           = Written(Written(Written(Written(m, p, x), q, y), p, c), q, d)
<1>1. /\ p = <<p[1], p[2]>> /\ p[1] \in DOMAIN m /\ p[2] \in DOMAIN m[p[1]].cells
      /\ q = <<q[1], q[2]>> /\ q[1] \in DOMAIN m /\ q[2] \in DOMAIN m[q[1]].cells
  BY PlaceIs
<1>2. p[1] # q[1] \/ p[2] # q[2]
  BY <1>1
<1>3. \A a \in DOMAIN m : "cells" \in DOMAIN m[a]
  BY BlockCells
<1>4. CASE p[1] # q[1]
  BY <1>1, <1>3, <1>4 DEF Written
<1>5. CASE p[1] = q[1] /\ p[2] # q[2]
  <2> DEFINE a == p[1]
             i == p[2]
             j == q[2]
             g == m[a].cells
             At1(h, z) == [h EXCEPT ![i] = z]
             At2(h, z) == [h EXCEPT ![j] = z]
             Put(n, h) == [n EXCEPT ![a] = [n[a] EXCEPT !.cells = h]]
             Fine(n) == a \in DOMAIN n /\ "cells" \in DOMAIN n[a]
  <2>1. \A n, h : Fine(n) => Fine(Put(n, h)) /\ Put(n, h)[a].cells = h
    OBVIOUS
  <2>2. \A n, h, e : Fine(n) => Put(Put(n, h), e) = Put(n, e)
    OBVIOUS
  <2>3. \A n, z : Fine(n) => /\ Written(n, p, z) = Put(n, At1(n[a].cells, z))
                            /\ Written(n, q, z) = Put(n, At2(n[a].cells, z))
    BY <1>5 DEF Written
  <2>4. At2(At1(g, c), d) = At2(At1(At2(At1(g, x), y), c), d)
    BY <1>1, <1>5
  <2>5. Fine(m)
    BY <1>1, <1>3
  <2> HIDE DEF Put, Fine, At1, At2, g
  <2>6. ASSUME NEW h, NEW z
        PROVE  /\ Written(Put(m, h), p, z) = Put(m, At1(h, z))
               /\ Written(Put(m, h), q, z) = Put(m, At2(h, z))
    <3>1. Fine(Put(m, h)) /\ Put(m, h)[a].cells = h
      BY <2>1, <2>5
    <3>2. \A e : Put(Put(m, h), e) = Put(m, e)
      BY <2>2, <2>5
    <3> QED
      BY <2>3, <3>1, <3>2
  <2>7. Written(m, p, x) = Put(m, At1(g, x)) /\ Written(m, p, c) = Put(m, At1(g, c))
    BY <2>3, <2>5 DEF g
  <2> QED
    BY <2>4, <2>6, <2>7
<1> QED
  BY <1>2, <1>4, <1>5

\* swap
LEMMA SwapSound ==
  ASSUME Sound, NEW p \in Places(memory), swap(p)
  PROVE  BecomesSound
<1>1. PICK q \in Places(memory) : Apart(p, q) /\ Becomes(Swapped(p, q))
  BY DEF swap
<1> DEFINE c == CellAt(memory, p)
           d == CellAt(memory, q)
           P == Beneath(memory, <<c>>)
           Q == Beneath(memory, <<d>>)
           m1 == Written(memory, p, Null)
           m2 == Written(m1, q, Null)
           m3 == Written(m2, p, d)
           m4 == Written(m3, q, c)
<1>2. p # q /\ p[1] \notin Q /\ q[1] \notin P
  BY <1>1 DEF Apart, Inside
<1>3. Swapped(p, q) = m4
  <2>1. IsMemory(memory)
    BY DEF Sound, Good
  <2>2. Written(Written(memory, p, d), q, c) = m4
    BY <1>2, <2>1, WrittenAgain
  <2> QED
    BY <2>2 DEF Swapped
<1>4. /\ P \subseteq DOMAIN memory /\ Closed(memory, P) /\ Owned(<<c>>) \subseteq P /\ p[1] \notin P
      /\ Q \subseteq DOMAIN memory /\ Closed(memory, Q) /\ Owned(<<d>>) \subseteq Q /\ q[1] \notin Q
  BY BeneathCell DEF Sound
<1> DEFINE G == Owned(<<c>>)
<1>5. /\ Held(m1, {}, <<c>>) /\ Differs(m1, memory, p, Null)
      /\ Closed(m1, P) /\ Closed(m1, Q)
  BY <1>4, TakenHeld DEF Sound
<1> HIDE DEF m1, P, Q, c, d
<1>6. /\ Good(m1, G) /\ q \in Places(m1) /\ p \in Places(m1) /\ CellAt(m1, q) = d
      /\ CellAt(m1, p) = Null /\ DOMAIN m1 = DOMAIN memory /\ Fit(m1, <<c>>) /\ c \in Cells
  <2>1. Good(m1, {} \cup G) /\ Fit(m1, <<c>>) /\ c \in Cells
    BY <1>5, HeldIs
  <2>2. {} \cup G = G
    OBVIOUS
  <2> QED
    BY <1>2, <1>5, <2>1, <2>2 DEF Differs, d
<1> HIDE DEF G
<1>7. /\ Held(m2, G, <<d>>) /\ Differs(m2, m1, q, Null)
      /\ Closed(m2, P) /\ Closed(m2, Q)
  BY <1>4, <1>5, <1>6, TakenHeld
<1> HIDE DEF m2
<1>8. /\ p \in Places(m2) /\ q \in Places(m2) /\ CellAt(m2, p) = Null /\ CellAt(m2, q) = Null
      /\ DOMAIN m2 = DOMAIN memory /\ IsMemory(m2)
  <2>1. /\ p \in Places(m2) /\ q \in Places(m2) /\ CellAt(m2, p) = Null /\ CellAt(m2, q) = Null
        /\ DOMAIN m2 = DOMAIN memory
    BY <1>2, <1>6, <1>7 DEF Differs
  <2>2. IsMemory(m2)
    BY <1>7 DEF Held, Good
  <2> QED
    BY <2>1, <2>2
<1>9. Owned(<<Null>>) = {}
  <2>1. Null.type \notin Owning
    BY DEF Null, Cell, Owning, Containers
  <2> QED
    BY <2>1, OneOwned
<1>10. Good(m3, G) /\ Differs(m3, m2, p, d)
  <2>1. Good(m3, G \cup Owned(<<CellAt(m2, p)>>))
    BY <1>2, <1>4, <1>7, <1>8, HeldWritten
  <2>2. G \cup Owned(<<CellAt(m2, p)>>) = G
    BY <1>8, <1>9
  <2>3. Differs(m3, m2, p, d)
    BY <1>8, WrittenIs
  <2> QED
    BY <2>1, <2>2, <2>3
<1> HIDE DEF m3
<1>11. /\ q \in Places(m3) /\ CellAt(m3, q) = Null /\ DOMAIN m3 = DOMAIN memory
       /\ \A a \in DOMAIN m2 : m3[a].type = m2[a].type
       /\ \A a \in DOMAIN m2 \ {p[1]} : m3[a] = m2[a]
  BY <1>2, <1>8, <1>10 DEF Differs
<1>12. Closed(m3, P)
  <2>1. \A a \in P : m3[a] = m2[a]
    BY <1>4, <1>8, <1>11
  <2> QED
    BY <1>7, <1>8, <1>11, <2>1 DEF Closed
<1>13. Fit(m3, <<c>>)
  <2>1. \A a \in DOMAIN m1 : m2[a].type = m1[a].type
    BY <1>7 DEF Differs
  <2>2. \A a \in DOMAIN m1 : m3[a].type = m1[a].type
    BY <1>6, <1>8, <1>11, <2>1
  <2> QED
    BY <1>6, <1>11, <2>2 DEF Fit
<1>14. Good(m4, {})
  <2>1. Owned(<<c>>) \subseteq G
    BY DEF G
  <2>2. Good(m4, (G \cup Owned(<<CellAt(m3, q)>>)) \ Owned(<<c>>))
    BY <1>2, <1>4, <1>10, <1>11, <1>12, <1>13, <2>1, WrittenGood
  <2>3. (G \cup Owned(<<CellAt(m3, q)>>)) \ Owned(<<c>>) = {}
    BY <1>9, <1>11 DEF G
  <2> QED
    BY <2>2, <2>3
<1> QED
  BY <1>1, <1>3, <1>14 DEF BecomesSound

\* Cells that own nothing may be temporary at any time.
LEMMA NoneHeld ==
  ASSUME NEW m, NEW H, Good(m, H), NEW g,
         \A i \in DOMAIN g : g[i] \in Cells /\ g[i].type \notin Owning
  PROVE  Held(m, H, g) /\ Owned(g) = {}
<1>1. Owned(g) = {}
  BY DEF Owned
<1>2. Fit(m, g) /\ Single(g)
  BY DEF Fit, Single
<1>3. H \cup Owned(g) = H
  BY <1>1
<1> QED
  BY <1>1, <1>2, <1>3 DEF Held

\* Temporary cells join a vector that is not beneath them,
LEMMA VectorMixed ==
  ASSUME NEW m, NEW H, NEW g, Held(m, H, g), NEW p \in Places(m), CellAt(m, p).type = "array",
         NEW f, Mixed(f, CellsAt(m, p), g), f \in Seq(Cells),
         NEW C, Closed(m, C), Owned(g) \subseteq C, CellAt(m, p).at \notin C
  PROVE  Good(Refilled(m, p, f), H)
<1>1. DOMAIN f = 1 .. Len(f) /\ f \in [1 .. Len(f) -> Cells] /\ Len(f) \in Nat
  OBVIOUS
<1>2. f \in [DOMAIN f -> Cells] /\ DOMAIN f \subseteq Nat
  BY <1>1
<1>3. CellAt(m, p).type \in Containers /\ CellAt(m, p).type # "object"
  BY DEF Containers
<1> QED
  BY <1>2, <1>3, HeldMixed

\* or a map, under a new key.
LEMMA JoinedGood ==
  ASSUME NEW m, NEW H, NEW c, Held(m, H, <<c>>), NEW p \in Places(m), CellAt(m, p).type = "object",
         NEW k \in Text, k \notin DOMAIN CellsAt(m, p),
         NEW C, Closed(m, C), Owned(<<c>>) \subseteq C, CellAt(m, p).at \notin C
  PROVE  Good(Refilled(m, p, Joined(CellsAt(m, p), At(k, c))), H)
<1> DEFINE s == CellsAt(m, p)
           f == Joined(s, At(k, c))
           J == H \cup Owned(<<c>>)
<1>1. CellAt(m, p).type \in Containers /\ CellAt(m, p).type # "array"
  BY DEF Containers
<1>2. Good(m, J) /\ c \in Cells
  BY HeldIs
<1> HIDE DEF J
<1>3. s \in [DOMAIN s -> Cells] /\ DOMAIN s \subseteq Text
  BY <1>1, <1>2, RefilledIs
<1>4. /\ DOMAIN f = DOMAIN s \cup {k} /\ f[k] = c /\ \A j \in DOMAIN s : f[j] = s[j]
      /\ Mixed(f, s, <<c>>)
  BY JoinedMixed
<1>5. f = [i \in DOMAIN f |-> f[i]]
  BY DEF Joined
<1> HIDE DEF f, s
<1>6. DOMAIN f \subseteq Text /\ Text \subseteq Nat
  BY <1>3, <1>4, HeapAssumption
<1>7. \A i \in DOMAIN f : f[i] \in Cells
  BY <1>2, <1>3, <1>4
<1>8. f \in [DOMAIN f -> Cells]
  BY <1>5, <1>7
<1>9. DOMAIN f \subseteq Nat
  BY <1>6
<1>10. Good(Refilled(m, p, f), H)
  BY <1>1, <1>4, <1>6, <1>8, <1>9, HeldMixed DEF s
<1> QED
  BY <1>10 DEF f, s

\* A pair joins a map or is destroyed.
LEMMA EmplacedGood ==
  ASSUME NEW m, NEW H, NEW c, Held(m, H, <<c>>), NEW p \in Places(m), CellAt(m, p).type = "object",
         NEW k \in Text,
         NEW C, Closed(m, C), Owned(<<c>>) \subseteq C, CellAt(m, p).at \notin C
  PROVE  Good(Emplaced(m, p, k, c), H)
<1>1. CASE k \in DOMAIN CellsAt(m, p)
  <2> DEFINE J == H \cup Owned(<<c>>)
  <2>1. Good(m, J) /\ H \cap Owned(<<c>>) = {}
    BY HeldIs
  <2>2. Owned(<<c>>) \subseteq J /\ J \ Owned(<<c>>) = H
    BY <2>1
  <2> HIDE DEF J
  <2>3. Good(Destroyed(m, <<c>>), J \ Owned(<<c>>))
    BY <2>1, <2>2, DestroyGood
  <2> QED
    BY <1>1, <2>2, <2>3 DEF Emplaced
<1>2. CASE k \notin DOMAIN CellsAt(m, p)
  BY <1>2, JoinedGood DEF Emplaced
<1> QED
  BY <1>1, <1>2

\* operator[] of an index
LEMMA IndexSound ==
  ASSUME Sound, NEW p \in Places(memory), Index(p)
  PROVE  BecomesSound
<1>1. PICK i \in 1 .. MaxLen : Usable(p, "array") /\ Becomes(Indexed(p, i))
  BY DEF Index
<1> DEFINE m == Ready(memory, p, "array")
           s == CellsAt(m, p)
           missing == i - Len(s)
           g == [j \in 1 .. missing |-> Null]
           f == s \o g
<1>2. /\ Good(m, {}) /\ CellAt(m, p).type = "array" /\ p \in Places(m)
  BY <1>1, ReadyGood DEF Sound, Usable, Containers
<1> HIDE DEF m
<1>3. s \in Seq(Cells)
  BY <1>2, RefilledIs DEF Containers
<1>4. CASE missing <= 0
  <2>1. Indexed(p, i) = m
    BY <1>4 DEF Indexed, m
  <2> QED
    BY <1>1, <1>2, <2>1 DEF BecomesSound
<1>5. CASE ~(missing <= 0)
  <2>1. Indexed(p, i) = Refilled(m, p, f)
    BY <1>5 DEF Indexed, m
  <2> HIDE DEF s
  <2>2. missing \in Nat
    BY <1>3, <1>5
  <2>3. Null \in Cells /\ Null.type \notin Owning
    BY DEF Null, Cell, Cells, Owning, Containers
  <2> HIDE DEF missing
  <2>4. g \in Seq(Cells) /\ \A j \in DOMAIN g : g[j] \in Cells /\ g[j].type \notin Owning
    <3>1. g \in [1 .. missing -> Cells]
      BY <2>3
    <3>2. \A n \in Nat : \A h \in [1 .. n -> Cells] : h \in Seq(Cells)
      OBVIOUS
    <3>3. g \in Seq(Cells)
      BY <2>2, <3>1, <3>2
    <3> QED
      BY <2>3, <3>3
  <2> HIDE DEF g
  <2>5. Held(m, {}, g) /\ Owned(g) = {}
    BY <1>2, <2>4, NoneHeld
  <2>6. f \in Seq(Cells) /\ Mixed(f, s, g)
    BY <1>3, <2>4, ConcatMixed
  <2> HIDE DEF f
  <2>7. Closed(m, {}) /\ Owned(g) \subseteq {} /\ CellAt(m, p).at \notin {}
    BY <2>5 DEF Closed
  <2>8. Good(Refilled(m, p, f), {})
    BY <1>2, <2>5, <2>6, <2>7, VectorMixed DEF s
  <2> QED
    BY <1>1, <2>1, <2>8 DEF BecomesSound
<1> QED
  BY <1>4, <1>5

\* operator[] of a key
LEMMA AtKeySound ==
  ASSUME Sound, NEW p \in Places(memory), AtKey(p)
  PROVE  BecomesSound
<1>1. PICK k \in Text : Usable(p, "object") /\ Becomes(Keyed(p, k))
  BY DEF AtKey
<1> DEFINE m == Ready(memory, p, "object")
           s == CellsAt(m, p)
           f == Joined(s, At(k, Null))
<1>2. /\ Good(m, {}) /\ CellAt(m, p).type = "object" /\ p \in Places(m)
  BY <1>1, ReadyGood DEF Sound, Usable, Containers
<1>3. Keyed(p, k) = Refilled(m, p, f)
  BY DEF Keyed
<1> HIDE DEF m
<1>4. s \in [DOMAIN s -> Cells] /\ DOMAIN s \subseteq Text /\ DOMAIN s \subseteq Nat
  BY <1>2, RefilledIs DEF Containers
<1>5. Closed(m, {}) /\ CellAt(m, p).at \notin {}
  BY DEF Closed
<1>6. CASE k \notin DOMAIN s
  <2>1. Null \in Cells /\ Null.type \notin Owning /\ DOMAIN <<Null>> = {1} /\ <<Null>>[1] = Null
    BY DEF Null, Cell, Cells, Owning, Containers
  <2>2. Held(m, {}, <<Null>>) /\ Owned(<<Null>>) = {}
    BY <1>2, <2>1, NoneHeld
  <2>3. Good(Refilled(m, p, f), {})
    <3> HIDE DEF s
    <3>1. Good(Refilled(m, p, Joined(CellsAt(m, p), At(k, Null))), {})
      BY <1>2, <1>5, <1>6, <2>2, JoinedGood DEF s
    <3> QED
      BY <3>1 DEF s
  <2> QED
    BY <1>1, <1>3, <2>3 DEF BecomesSound
<1>7. CASE k \in DOMAIN s
  <2> HIDE DEF s
  <2>1. DOMAIN f = DOMAIN s /\ \A j \in DOMAIN s : f[j] = s[j]
    BY <1>7 DEF Joined, At
  <2>2. f \in [DOMAIN f -> Cells] /\ DOMAIN f \subseteq Text /\ DOMAIN f \subseteq Nat
    <3>1. f = [j \in DOMAIN f |-> f[j]]
      BY DEF Joined
    <3> HIDE DEF f
    <3> QED
      BY <1>4, <2>1, <3>1
  <2> HIDE DEF f
  <2>3. Mixed(f, s, <<>>)
    <3> DEFINE u == [j \in DOMAIN s |-> j]
               v == <<>>
    <3>1. u \in [DOMAIN s -> DOMAIN f] /\ v \in [{} -> DOMAIN f] /\ DOMAIN <<>> = {}
      BY <2>1
    <3>2. /\ \A j \in DOMAIN s : f[u[j]] = s[j]
          /\ \A x \in DOMAIN f : \E j \in DOMAIN s : x = u[j]
      BY <2>1
    <3> HIDE DEF u, v
    <3> QED
      BY <3>1, <3>2 DEF Mixed
  <2>4. Held(m, {}, <<>>) /\ Owned(<<>>) \subseteq {}
    BY <1>2, NoneHeld
  <2>5. CellAt(m, p).type \in Containers /\ CellAt(m, p).type # "array"
    BY <1>2 DEF Containers
  <2>6. Good(Refilled(m, p, f), {})
    BY <1>2, <1>5, <2>2, <2>3, <2>4, <2>5, HeldMixed DEF s
  <2> QED
    BY <1>1, <1>3, <2>6 DEF BecomesSound
<1> QED
  BY <1>6, <1>7

\* What was made joins the cells of a vector that was there before.
LEMMA MadeMixed ==
  ASSUME NEW n, NEW m, NEW H, NEW g, Made(n, m, H, g), NEW p \in Places(m),
         CellAt(m, p).type = "array",
         NEW f, Mixed(f, CellsAt(n, p), g), f \in Seq(Cells)
  PROVE  Good(Refilled(n, p, f), H)
<1> DEFINE C == DOMAIN n \ DOMAIN m
<1>1. /\ Good(m, H) /\ Held(n, H, g) /\ Closed(n, C) /\ Owned(g) \subseteq C
      /\ p \in Places(n) /\ CellAt(n, p) = CellAt(m, p)
  BY MadeHeld
<1>2. CellAt(n, p).at \notin C
  BY <1>1, CellFits DEF Owning, Containers
<1> HIDE DEF C
<1> QED
  BY <1>1, <1>2, VectorMixed

\* The cells of a vector are the same after something was made.
LEMMA MadeVector ==
  ASSUME NEW n, NEW m, NEW H, NEW g, Made(n, m, H, g), NEW p \in Places(m),
         CellAt(m, p).type = "array"
  PROVE  CellsAt(n, p) \in Seq(Cells) /\ CellsAt(n, p) = CellsAt(m, p)
<1>1. Good(m, H) /\ Extends(n, m) /\ CellAt(n, p) = CellAt(m, p)
  BY MadeHeld
<1>2. CellAt(m, p).at \in DOMAIN m /\ CellsAt(m, p) \in Seq(Cells)
  BY <1>1, RefilledIs DEF Containers
<1> QED
  BY <1>1, <1>2 DEF Extends, CellsAt

\* push_back of a copy, of the array into itself too
LEMMA PushCopySound ==
  ASSUME Sound, NEW p \in Places(memory), PushCopy(p)
  PROVE  BecomesSound
<1>1. PICK q \in Places(memory) : Usable(p, "array") /\ Becomes(CopyPushed(p, q))
  BY DEF PushCopy
<1> DEFINE m == Ready(memory, p, "array")
           r == Copied(m, CellAt(m, q))
           s == CellsAt(r.memory, p)
           f == Append(s, r.cell)
<1>2. CopyPushed(p, q) = Refilled(r.memory, p, f)
  BY DEF CopyPushed, Pushed
<1>3. /\ Good(m, {}) /\ CellAt(m, p).type = "array" /\ p \in Places(m) /\ q \in Places(m)
  BY <1>1, ReadyGood DEF Sound, Usable, Containers
<1> HIDE DEF m
<1>4. Fit(m, <<CellAt(m, q)>>)
  BY <1>3, CellFits
<1>5. Made(r.memory, m, {}, <<r.cell>>) /\ r.cell \in Cells
  BY <1>3, <1>4, CopiedMade
<1> HIDE DEF r
<1>6. s \in Seq(Cells)
  BY <1>3, <1>5, MadeVector
<1>7. f \in Seq(Cells) /\ Mixed(f, s, <<r.cell>>)
  BY <1>5, <1>6, AppendMixed
<1> HIDE DEF f
<1>8. Good(Refilled(r.memory, p, f), {})
  BY <1>3, <1>5, <1>7, MadeMixed
<1> QED
  BY <1>1, <1>2, <1>8 DEF BecomesSound

\* push_back of what is moved from a place
LEMMA PushMoveSound ==
  ASSUME Sound, NEW p \in Places(memory), PushMove(p)
  PROVE  BecomesSound
<1>1. PICK q \in Places(memory) : Usable(p, "array") /\ Apart(p, q) /\ Becomes(MovePushed(p, q))
  BY DEF PushMove
<1> DEFINE m == Ready(memory, p, "array")
           c == CellAt(memory, q)
           n == Written(m, q, Null)
           C == Beneath(memory, <<c>>)
           f == Append(CellsAt(n, p), c)
<1>2. p # q /\ p[1] \notin C
  BY <1>1 DEF Apart, Inside
<1>3. C \subseteq DOMAIN memory /\ Closed(memory, C) /\ Owned(<<c>>) \subseteq C
  BY BeneathCell DEF Sound
<1>4. C = Beneath(memory, <<c>>)
  OBVIOUS
<1> HIDE DEF C
<1>5. /\ Good(m, {}) /\ CellAt(m, p).type = "array" /\ p \in Places(m)
      /\ q \in Places(m) /\ CellAt(m, q) = c
      /\ CellAt(m, p) = CellAt(memory, p) \/ CellAt(m, p).at \notin DOMAIN memory
      /\ DOMAIN memory \subseteq DOMAIN m
      /\ Closed(m, C)
  <2>1. Good(memory, {}) /\ "array" \in Containers /\ CellAt(memory, p).type \in {"null", "array"}
    BY <1>1 DEF Sound, Usable, Containers
  <2> QED
    BY <1>2, <1>3, <2>1, ReadyGood
<1>6. CellAt(m, p).at \notin C
  <2>1. CASE CellAt(m, p).at \notin DOMAIN memory
    BY <1>3, <2>1
  <2>2. CASE CellAt(m, p).at \in DOMAIN memory
    <3> DEFINE a == CellAt(memory, p).at
    <3>1. CellAt(m, p) = CellAt(memory, p) /\ CellAt(memory, p).type \in Owning
      BY <1>5, <2>2 DEF Owning, Containers
    <3>2. /\ \A b \in DOMAIN memory : a \in Owned(memory[b].cells) => b = p[1]
          /\ \A x \in Places(memory) :
               CellAt(memory, x).type \in Owning /\ CellAt(memory, x).at = a => x = p
      BY <3>1, OwnerOnly DEF Sound
    <3>3. a \notin Owned(<<c>>)
      BY <1>2, <3>2, OneOwned
    <3>4. IsFiniteSet(DOMAIN memory)
      BY DEF Sound, Good, IsMemory
    <3> HIDE DEF a, c
    <3>5. a \in C => \E b \in C : a \in Owned(memory[b].cells)
      BY <1>4, <3>3, <3>4, BeneathOwned
    <3>6. a \notin C
      BY <1>2, <1>3, <3>2, <3>5
    <3> QED
      BY <3>1, <3>6 DEF a
  <2> QED
    BY <2>1, <2>2
<1>7. MovePushed(p, q) = Refilled(n, p, f)
  BY <1>5 DEF MovePushed, Pushed, Moved, Result
<1> HIDE DEF m, c
<1>8. Held(n, {}, <<c>>) /\ Differs(n, m, q, Null) /\ Closed(n, C)
  <2>1. C \subseteq DOMAIN m
    BY <1>3, <1>5
  <2> QED
    BY <1>5, <2>1, TakenHeld
<1> HIDE DEF n
<1>9. p \in Places(n) /\ CellAt(n, p) = CellAt(m, p) /\ c \in Cells
  <2>1. c \in Cells
    BY <1>5, CellFits
  <2> QED
    BY <1>2, <1>5, <1>8, <2>1 DEF Differs
<1>10. CellsAt(n, p) \in Seq(Cells)
  <2> DEFINE J == {} \cup Owned(<<c>>)
  <2>1. Good(n, J)
    BY <1>8, HeldIs
  <2>2. CellAt(n, p).type = "array" /\ CellAt(n, p).type \in Containers
    BY <1>5, <1>9 DEF Containers
  <2> HIDE DEF J
  <2> QED
    BY <1>9, <2>1, <2>2, RefilledIs
<1>11. f \in Seq(Cells) /\ Mixed(f, CellsAt(n, p), <<c>>)
  BY <1>9, <1>10, AppendMixed
<1> HIDE DEF f
<1>12. Good(Refilled(n, p, f), {})
  BY <1>3, <1>5, <1>6, <1>8, <1>9, <1>11, VectorMixed
<1> QED
  BY <1>1, <1>7, <1>12 DEF BecomesSound

\* What was made is there still when null has become a container.
LEMMA MadeReady ==
  ASSUME NEW n, NEW m, NEW H, NEW g, Made(n, m, H, g), NEW p \in Places(m),
         NEW type \in Containers, CellAt(m, p).type \in {"null", type},
         NEW k, k = Ready(n, p, type)
  PROVE  /\ Held(k, H, g) /\ p \in Places(k) /\ CellAt(k, p).type = type
         /\ \E C : Closed(k, C) /\ Owned(g) \subseteq C /\ CellAt(k, p).at \notin C
<1> DEFINE C == DOMAIN n \ DOMAIN m
           J == H \cup Owned(g)
<1>1. /\ Good(m, H) /\ Held(n, H, g) /\ Closed(n, C) /\ Owned(g) \subseteq C
      /\ p \in Places(n) /\ CellAt(n, p) = CellAt(m, p) /\ p[1] \notin C
      /\ DOMAIN m \subseteq DOMAIN n
  BY MadeHeld DEF Extends
<1>2. Good(n, J) /\ CellAt(n, p).type \in {"null", type}
  BY <1>1 DEF Held
<1>3. Held(k, H, g)
  BY <1>1, <1>2, HeldReady
<1> HIDE DEF J
<1>4. /\ CellAt(k, p).type = type /\ p \in Places(k)
      /\ CellAt(k, p) = CellAt(n, p) \/ CellAt(k, p).at \notin DOMAIN n
      /\ Closed(k, C)
  <2>1. C \subseteq DOMAIN n
    OBVIOUS
  <2> HIDE DEF C
  <2> QED
    BY <1>1, <1>2, <2>1, ReadyGood
<1>5. CellAt(k, p).at \notin C
  <2>1. CASE CellAt(k, p) = CellAt(n, p)
    <3>1. CellAt(m, p).type \in Owning
      BY <1>1, <1>4, <2>1 DEF Owning
    <3>2. CellAt(m, p).at \in DOMAIN m
      BY <1>1, <3>1, CellFits
    <3> QED
      BY <1>1, <2>1, <3>2
  <2>2. CASE CellAt(k, p).at \notin DOMAIN n
    BY <2>2
  <2> QED
    BY <1>4, <2>1, <2>2
<1> HIDE DEF C
<1> QED
  BY <1>1, <1>3, <1>4, <1>5

\* push_back of a pair
LEMMA PushPairSound ==
  ASSUME Sound, NEW p \in Places(memory), PushPair(p)
  PROVE  BecomesSound
<1>1. PICK q \in Places(memory) :
        \E k \in Text : Usable(p, "object") /\ Becomes(PairPushed(p, k, q))
  BY DEF PushPair
<1>2. PICK k \in Text : Usable(p, "object") /\ Becomes(PairPushed(p, k, q))
  BY <1>1
<1> DEFINE r == Copied(memory, CellAt(memory, q))
           m == Ready(r.memory, p, "object")
<1>3. PairPushed(p, k, q) = Emplaced(m, p, k, r.cell)
  BY DEF PairPushed
<1>4. Made(r.memory, memory, {}, <<r.cell>>)
  <2>1. Fit(memory, <<CellAt(memory, q)>>)
    BY CellFits DEF Sound
  <2> HIDE DEF r
  <2> QED
    BY <2>1, CopiedMade DEF Sound, r
<1> HIDE DEF r
<1>5. "object" \in Containers /\ CellAt(memory, p).type \in {"null", "object"}
  BY <1>2 DEF Usable, Containers
<1> HIDE DEF m
<1>6. /\ Held(m, {}, <<r.cell>>) /\ p \in Places(m) /\ CellAt(m, p).type = "object"
      /\ \E C : Closed(m, C) /\ Owned(<<r.cell>>) \subseteq C /\ CellAt(m, p).at \notin C
  BY <1>4, <1>5, MadeReady DEF m
<1>7. Good(Emplaced(m, p, k, r.cell), {})
  BY <1>6, EmplacedGood
<1> QED
  BY <1>2, <1>3, <1>7 DEF BecomesSound

-----------------------------------------------------------------------------
(* Initializer lists and insertions *)

\* The indices of a vector.
LEMMA IndicesFinite ==
  ASSUME NEW f \in Seq(Cells)
  PROVE  DOMAIN f = 1 .. Len(f) /\ DOMAIN f \subseteq Nat \ {0} /\ IsFiniteSet(DOMAIN f)
<1>1. DOMAIN f = 1 .. Len(f) /\ Len(f) \in Nat
  OBVIOUS
<1>2. IsFiniteSet(1 .. Len(f))
  BY <1>1, FS_Interval
<1>3. 1 .. Len(f) \subseteq Nat \ {0}
  BY <1>1
<1> QED
  BY <1>1, <1>2, <1>3

\* The copies of a vector's cells are a vector of new cells.
LEMMA VectorCopied ==
  ASSUME NEW m, NEW H, Good(m, H), NEW f \in Seq(Cells), Fit(m, f), NEW r, r = Copies(m, f)
  PROVE  /\ Made(r.memory, m, H, r.cells) /\ r.cells \in Seq(Cells)
         /\ DOMAIN r.cells = DOMAIN f /\ \A i \in DOMAIN f : r.cells[i].type = f[i].type
<1>1. DOMAIN f = 1 .. Len(f) /\ Len(f) \in Nat
  OBVIOUS
<1>2. DOMAIN f \subseteq Nat \ {0} /\ IsFiniteSet(DOMAIN f)
  BY IndicesFinite
<1>3. /\ Made(r.memory, m, H, r.cells) /\ r.cells \in [DOMAIN f -> Cells]
      /\ \A i \in DOMAIN f : r.cells[i].type = f[i].type
  BY <1>2, CopyMade
<1>4. r.cells \in Seq(Cells) /\ DOMAIN r.cells = DOMAIN f
  BY <1>1, <1>3
<1> QED
  BY <1>3, <1>4

\* The new array or object shares nothing with the list.
LEMMA FromListMade ==
  ASSUME NEW m, NEW H, Good(m, H), NEW list \in Seq(Cells), Fit(m, list), NEW wanted,
         NEW r, r = FromList(m, list, wanted)
  PROVE  Made(r.memory, m, H, <<r.cell>>)
<1> DEFINE pairs == \A i \in DOMAIN list : IsPair(m, list[i])
           all == Copies(m, list)
           inner(i) == m[list[i].at].cells
           key(i) == TextOf(m, inner(i)[1])
           first == {i \in DOMAIN list : \A j \in 1 .. i - 1 : key(j) # key(i)}
           chosen == [i \in first |-> inner(i)[2]]
           values == Copies(m, chosen)
           value(k) == values.cells[CHOOSE i \in first : key(i) = k]
           keys == {key(i) : i \in first}
           g == [k \in keys |-> value(k)]
<1>1. CASE ~(pairs /\ wanted # "array")
  <2>1. r = create(all.memory, Block("array", empty, all.cells))
    BY <1>1 DEF FromList, Vector
  <2>2. Made(all.memory, m, H, all.cells) /\ all.cells \in Seq(Cells)
    <3> HIDE DEF all
    <3> QED
      BY VectorCopied DEF all
  <2> HIDE DEF all
  <2>3. Storable("array", empty, all.cells)
    BY <2>2, VectorStorable
  <2> QED
    BY <2>1, <2>2, <2>3, CreateMade
<1>2. CASE pairs /\ wanted # "array"
  <2>1. r = create(values.memory, Block("object", empty, g))
    BY <1>2 DEF FromList, Map
  <2>2. ASSUME NEW i \in DOMAIN list
        PROVE  /\ <<list[i].at, 2>> \in Places(m) /\ inner(i)[2] = CellAt(m, <<list[i].at, 2>>)
               /\ key(i) \in Text
    <3>1. list[i].type = "array" /\ Len(inner(i)) = 2 /\ inner(i)[1].type = "string"
      BY <1>2 DEF IsPair
    <3>2. list[i].at \in DOMAIN m /\ m[list[i].at].type = "array"
      BY <3>1 DEF Fit, Owning, Containers
    <3>3. IsMemory(m)
      BY DEF Good
    <3>4. inner(i) \in Seq(Cells)
      BY <3>2, <3>3, BlockShape
    <3>5. DOMAIN inner(i) = {1, 2}
      BY <3>1, <3>4
    <3>6. \A j \in {1, 2} : /\ <<list[i].at, j>> \in Places(m)
                            /\ inner(i)[j] = CellAt(m, <<list[i].at, j>>)
      BY <3>2, <3>5, PlaceIs DEF CellAt
    <3>7. inner(i)[1].at \in DOMAIN m
      <4> DEFINE p == <<list[i].at, 1>>
      <4>1. p \in Places(m) /\ inner(i)[1] = CellAt(m, p)
        BY <3>6
      <4>2. CellAt(m, p).type \in Owning
        BY <3>1, <4>1 DEF Owning
      <4> HIDE DEF p
      <4> QED
        BY <4>1, <4>2, CellFits
    <3>8. key(i) \in Text
      BY <3>3, <3>7, BlockCells DEF TextOf
    <3> QED
      BY <3>6, <3>8
  <2>3. DOMAIN list = 1 .. Len(list) /\ Len(list) \in Nat
    OBVIOUS
  <2>4. first \subseteq DOMAIN list /\ first \subseteq Nat \ {0} /\ IsFiniteSet(first)
    <3>1. first \subseteq DOMAIN list
      OBVIOUS
    <3> HIDE DEF first
    <3>2. DOMAIN list \subseteq Nat \ {0} /\ IsFiniteSet(DOMAIN list)
      BY IndicesFinite
    <3> QED
      BY <3>1, <3>2, FS_Subset
  <2>5. ASSUME NEW i \in first, NEW j \in first, key(i) = key(j)
        PROVE  i = j
    <3>1. i \in Nat \ {0} /\ j \in Nat \ {0}
      BY <2>4
    <3>2. \A x \in 1 .. i - 1 : key(x) # key(i)
      OBVIOUS
    <3>3. \A x \in 1 .. j - 1 : key(x) # key(j)
      OBVIOUS
    <3>4. CASE i < j
      <4>1. i \in 1 .. j - 1
        BY <3>1, <3>4
      <4> QED
        BY <2>5, <3>3, <4>1
    <3>5. CASE j < i
      <4>1. j \in 1 .. i - 1
        BY <3>1, <3>5
      <4> QED
        BY <2>5, <3>2, <4>1
    <3> QED
      BY <3>1, <3>4, <3>5
  <2>6. Fit(m, chosen)
    <3> SUFFICES ASSUME NEW i \in first
                 PROVE  /\ chosen[i] \in Cells
                        /\ chosen[i].type \in Owning => /\ chosen[i].at \in DOMAIN m \ {0}
                                                        /\ m[chosen[i].at].type = chosen[i].type
      BY DEF Fit
    <3>1. PICK p \in Places(m) : chosen[i] = CellAt(m, p)
      BY <2>2, <2>4
    <3>2. CellAt(m, p) \in Cells
      BY CellFits
    <3>3. CellAt(m, p).type \in Owning =>
            /\ CellAt(m, p).at \in DOMAIN m \ {0}
            /\ m[CellAt(m, p).at].type = CellAt(m, p).type
      BY CellFits
    <3> QED
      BY <3>1, <3>2, <3>3
  <2>7. Made(values.memory, m, H, values.cells) /\ values.cells \in [first -> Cells]
    <3>1. DOMAIN chosen = first
      OBVIOUS
    <3> HIDE DEF chosen, values, first
    <3> QED
      BY <2>4, <2>6, <3>1, CopyMade DEF values
  <2>8. keys \subseteq Text /\ keys \subseteq Nat
    <3>1. keys \subseteq Text
      BY <2>2, <2>4
    <3> HIDE DEF keys
    <3> QED
      BY <3>1, HeapAssumption
  <2> HIDE DEF values, chosen
  <2>9. ASSUME NEW i \in first
        PROVE  key(i) \in keys /\ g[key(i)] = values.cells[i]
    <3>1. key(i) \in keys
      OBVIOUS
    <3>2. (CHOOSE j \in first : key(j) = key(i)) = i
      BY <2>5, <2>9
    <3> QED
      BY <3>1, <3>2
  <2>10. \A k \in keys : \E i \in first : k = key(i)
    OBVIOUS
  <2>11. Mixed(g, values.cells, <<>>)
    <3> DEFINE u == [i \in first |-> key(i)]
               v == <<>>
    <3> HIDE DEF key, keys, first, value
    <3>1. DOMAIN g = keys /\ DOMAIN values.cells = first /\ DOMAIN <<>> = {}
      BY <2>7
    <3>2. u \in [first -> keys] /\ v \in [{} -> keys]
      <4>1. \A i \in first : key(i) \in keys
        BY <2>9
      <4>2. u \in [first -> keys]
        BY <4>1
      <4>3. v \in [{} -> keys]
        OBVIOUS
      <4> QED
        BY <4>2, <4>3
    <3>3. \A i \in first : u[i] = key(i) /\ g[u[i]] = values.cells[i]
      BY <2>9
    <3>4. \A k \in keys : \E i \in first : k = u[i]
      BY <2>10, <3>3
    <3>5. \A i \in DOMAIN <<>> : g[v[i]] = <<>>[i]
      OBVIOUS
    <3> HIDE DEF u, v, g
    <3>6. u \in [DOMAIN values.cells -> DOMAIN g] /\ v \in [DOMAIN <<>> -> DOMAIN g]
      BY <3>1, <3>2
    <3> QED
      BY <3>1, <3>3, <3>4, <3>5, <3>6 DEF Mixed
  <2>12. DOMAIN g = keys /\ g = [k \in DOMAIN g |-> g[k]] /\ \A k \in DOMAIN g : g[k] \in Cells
    <3>1. DOMAIN g = keys /\ g = [k \in DOMAIN g |-> g[k]]
      <4> HIDE DEF keys, value
      <4> QED
        OBVIOUS
    <3>2. \A k \in keys : g[k] \in Cells
      <4> SUFFICES ASSUME NEW k \in keys
                   PROVE  g[k] \in Cells
        OBVIOUS
      <4>1. PICK i \in first : k = key(i)
        BY <2>10
      <4> HIDE DEF g, first, keys
      <4> QED
        BY <2>7, <2>9, <4>1
    <3> QED
      BY <3>1, <3>2
  <2> HIDE DEF g, keys, first
  <2>13. g \in [DOMAIN g -> Cells]
    BY <2>12
  <2>14. Storable("object", empty, g)
    BY <2>8, <2>12, <2>13, HeapAssumption DEF Storable, Owning, Containers
  <2>15. Made(values.memory, m, H, g)
    <3>1. Fit(values.memory, values.cells) /\ Single(values.cells)
      BY <2>7 DEF Made
    <3>2. Owned(<<>>) = {} /\ Fit(values.memory, <<>>) /\ Single(<<>>)
      BY DEF Owned, Fit, Single
    <3>3. Fit(values.memory, g) /\ Single(g) /\ Owned(g) = Owned(values.cells) \cup Owned(<<>>)
      BY <2>11, <3>1, <3>2, MixedCells
    <3>4. Owned(g) = Owned(values.cells)
      BY <3>2, <3>3
    <3> QED
      BY <2>7, <3>3, <3>4 DEF Made
  <2> QED
    BY <2>1, <2>14, <2>15, CreateMade
<1> QED
  BY <1>1, <1>2

\* The list of an initializer list is new and temporary.
LEMMA ListMade ==
  ASSUME Sound, NEW ps \in Lists, NEW r, r = ListOf(ps)
  PROVE  /\ Made(r.memory, memory, {}, r.cells) /\ r.cells \in Seq(Cells)
         /\ Len(r.cells) = Len(ps) /\ Good(r.memory, Owned(r.cells)) /\ Fit(r.memory, r.cells)
<1>1. PICK n \in 0 .. MaxLen : ps \in [1 .. n -> Places(memory)]
  BY DEF Lists
<1>2. n \in Nat /\ DOMAIN ps = 1 .. n
  BY <1>1
<1>3. r = Copies(memory, [i \in 1 .. n |-> CellAt(memory, ps[i])])
  BY <1>2 DEF ListOf
<1>4. Len(ps) = n
  BY <1>1, <1>2
<1>5. /\ Made(r.memory, memory, {}, r.cells) /\ r.cells \in Seq(Cells) /\ Len(r.cells) = n
  BY <1>1, <1>2, <1>3, PlacesCopied DEF Sound
<1>6. Good(r.memory, {} \cup Owned(r.cells)) /\ Fit(r.memory, r.cells)
  BY <1>5 DEF Made
<1>7. {} \cup Owned(r.cells) = Owned(r.cells)
  OBVIOUS
<1> QED
  BY <1>4, <1>5, <1>6, <1>7

\* The list itself is destroyed last.
LEMMA ListDestroyed ==
  ASSUME NEW m, NEW f, Good(m, Owned(f))
  PROVE  Good(Destroyed(m, f), {})
<1> DEFINE H == Owned(f)
<1>1. Good(Destroyed(m, f), H \ Owned(f))
  <2>1. Good(m, H) /\ Owned(f) \subseteq H
    OBVIOUS
  <2> HIDE DEF H
  <2> QED
    BY <2>1, DestroyGood
<1>2. H \ Owned(f) = {}
  OBVIOUS
<1> QED
  BY <1>1, <1>2

\* Assignment of an initializer list
LEMMA InitListSound ==
  ASSUME Sound, NEW p \in Places(memory), InitList(p)
  PROVE  BecomesSound
<1>1. PICK ps \in Lists :
        \E wanted \in {"any"} \cup Containers : Becomes(ListAssigned(p, ps, wanted))
  BY DEF InitList
<1>2. PICK wanted \in {"any"} \cup Containers : Becomes(ListAssigned(p, ps, wanted))
  BY <1>1
<1> DEFINE list == ListOf(ps)
           m == list.memory
           f == list.cells
           H == Owned(f)
           r == FromList(m, f, wanted)
<1>3. ListAssigned(p, ps, wanted) = Destroyed(Assigned(p, r), f)
  BY DEF ListAssigned
<1>4. Made(m, memory, {}, f) /\ f \in Seq(Cells) /\ Good(m, H) /\ Fit(m, f)
  <2> HIDE DEF list
  <2> QED
    BY ListMade DEF list
<1>5. p \in Places(m)
  BY <1>4, MadeHeld
<1> HIDE DEF list, m, f, H
<1>6. Made(r.memory, m, H, <<r.cell>>)
  <2> HIDE DEF r
  <2> QED
    BY <1>4, FromListMade DEF r
<1>7. Good(Assigned(p, r), H)
  <2> HIDE DEF r
  <2> QED
    BY <1>5, <1>6, MadeAssigned
<1>8. Good(Destroyed(Assigned(p, r), f), {})
  <2> DEFINE k == Assigned(p, r)
  <2>1. Good(k, Owned(f))
    BY <1>7 DEF H
  <2> HIDE DEF k
  <2>2. Good(Destroyed(k, f), {})
    BY <2>1, ListDestroyed
  <2> QED
    BY <2>2 DEF k
<1> QED
  BY <1>2, <1>3, <1>8 DEF BecomesSound

\* push_back of an initializer list
LEMMA PushListSound ==
  ASSUME Sound, NEW p \in Places(memory), PushList(p)
  PROVE  BecomesSound
<1> DEFINE list(ps) == ListOf(ps)
           value(ps) == Copied(list(ps).memory, list(ps).cells[2])
           made(ps) == FromList(list(ps).memory, list(ps).cells, "any")
           text(ps) == TextOf(list(ps).memory, list(ps).cells[1])
           A(ps) == Emplaced(value(ps).memory, p, text(ps), value(ps).cell)
           B(ps) == Pushed(p, [made(ps) EXCEPT !.memory = Ready(@, p, "array")])
<1>1. PICK ps \in Lists :
        \/ /\ IsObject(p) /\ Len(ps) = 2 /\ list(ps).cells[1].type = "string"
           /\ Becomes(Destroyed(A(ps), list(ps).cells))
        \/ /\ Usable(p, "array")
           /\ Becomes(Destroyed(B(ps), list(ps).cells))
  BY DEF PushList
<1> DEFINE m == list(ps).memory
           f == list(ps).cells
           H == Owned(f)
<1>2. Made(m, memory, {}, f) /\ f \in Seq(Cells) /\ Len(f) = Len(ps) /\ Good(m, H) /\ Fit(m, f)
  <2> DEFINE r == ListOf(ps)
  <2> HIDE DEF r
  <2>1. /\ Made(r.memory, memory, {}, r.cells) /\ r.cells \in Seq(Cells)
        /\ Len(r.cells) = Len(ps) /\ Good(r.memory, Owned(r.cells)) /\ Fit(r.memory, r.cells)
    BY ListMade DEF r
  <2> QED
    BY <2>1 DEF r
<1>3. p \in Places(m) /\ CellAt(m, p) = CellAt(memory, p)
  BY <1>2, MadeHeld
<1>4. CASE /\ IsObject(p) /\ Len(ps) = 2 /\ f[1].type = "string"
           /\ Becomes(Destroyed(A(ps), f))
  <2> DEFINE r == value(ps)
             k == text(ps)
  <2> HIDE DEF list, m, f, H
  <2>0. r = Copied(m, f[2]) /\ k = TextOf(m, f[1])
    BY DEF m, f
  <2>1. DOMAIN f = {1, 2} /\ f[1] \in Cells /\ f[2] \in Cells
    BY <1>2, <1>4
  <2>2. Fit(m, <<f[2]>>)
    <3>1. DOMAIN <<f[2]>> = {1} /\ <<f[2]>>[1] = f[2]
      OBVIOUS
    <3> QED
      BY <1>2, <2>1, <3>1 DEF Fit
  <2>3. k \in Text
    <3>1. f[1].at \in DOMAIN m
      BY <1>2, <1>4, <2>1 DEF Fit, Owning
    <3>2. IsMemory(m)
      BY <1>2 DEF Good
    <3> QED
      BY <2>0, <3>1, <3>2, BlockCells DEF TextOf
  <2> HIDE DEF value, text, r, k
  <2>4. Made(r.memory, m, H, <<r.cell>>)
    BY <1>2, <2>0, <2>2, CopiedMade
  <2> DEFINE C == DOMAIN r.memory \ DOMAIN m
  <2>5. /\ Held(r.memory, H, <<r.cell>>) /\ p \in Places(r.memory)
        /\ CellAt(r.memory, p) = CellAt(m, p)
        /\ Closed(r.memory, C) /\ Owned(<<r.cell>>) \subseteq C
    BY <1>3, <2>4, MadeHeld
  <2>6. CellAt(m, p).type = "object" /\ CellAt(m, p).at \in DOMAIN m
    <3>1. CellAt(m, p).type = "object" /\ CellAt(m, p).type \in Owning
      BY <1>3, <1>4 DEF IsObject, Owning, Containers
    <3> QED
      BY <1>2, <1>3, <3>1, CellFits
  <2>7. CellAt(r.memory, p).at \notin C
    BY <2>5, <2>6
  <2> HIDE DEF C
  <2>8. Good(Emplaced(r.memory, p, k, r.cell), H)
    BY <2>3, <2>5, <2>6, <2>7, EmplacedGood
  <2>9. Good(A(ps), H)
    BY <2>8 DEF r, k
  <2> HIDE DEF A
  <2>10. Good(A(ps), Owned(f))
    BY <2>9 DEF H
  <2>11. Good(Destroyed(A(ps), f), {})
    BY <2>10, ListDestroyed
  <2> QED
    BY <1>4, <2>11 DEF BecomesSound
<1>5. CASE /\ Usable(p, "array")
           /\ Becomes(Destroyed(B(ps), f))
  <2> DEFINE r == made(ps)
             k == Ready(r.memory, p, "array")
             s == CellsAt(k, p)
             g == Append(s, r.cell)
  <2> HIDE DEF list, m, f, H
  <2>1. r = FromList(m, f, "any")
    BY DEF m, f
  <2>2. [r EXCEPT !.memory = k].memory = k /\ [r EXCEPT !.memory = k].cell = r.cell
    <3>1. DOMAIN r = {"memory", "cell"}
      BY <2>1 DEF FromList, create, Result
    <3> HIDE DEF r, k
    <3> QED
      BY <3>1
  <2>3. B(ps) = Refilled(k, p, g)
    <3>1. B(ps) = Pushed(p, [r EXCEPT !.memory = k])
      OBVIOUS
    <3> HIDE DEF B, r, k
    <3> QED
      BY <2>2, <3>1 DEF Pushed
  <2> HIDE DEF B, made, r
  <2>4. Made(r.memory, m, H, <<r.cell>>)
    BY <1>2, <2>1, FromListMade
  <2>5. "array" \in Containers /\ CellAt(m, p).type \in {"null", "array"}
    BY <1>3, <1>5 DEF Usable, Containers
  <2> HIDE DEF k
  <2>6. /\ Held(k, H, <<r.cell>>) /\ p \in Places(k) /\ CellAt(k, p).type = "array"
        /\ \E C : Closed(k, C) /\ Owned(<<r.cell>>) \subseteq C /\ CellAt(k, p).at \notin C
    BY <1>3, <2>4, <2>5, MadeReady DEF k
  <2>7. r.cell \in Cells /\ Good(k, H \cup Owned(<<r.cell>>))
    BY <2>6, HeldIs
  <2>8. s \in Seq(Cells)
    <3> DEFINE J == H \cup Owned(<<r.cell>>)
    <3>1. Good(k, J)
      BY <2>7
    <3> HIDE DEF J
    <3>2. CellAt(k, p).type \in Containers
      BY <2>6 DEF Containers
    <3> QED
      BY <2>6, <3>1, <3>2, RefilledIs
  <2>9. g \in Seq(Cells) /\ Mixed(g, s, <<r.cell>>)
    BY <2>7, <2>8, AppendMixed
  <2> HIDE DEF g
  <2>10. PICK C : Closed(k, C) /\ Owned(<<r.cell>>) \subseteq C /\ CellAt(k, p).at \notin C
    BY <2>6
  <2>11. Good(Refilled(k, p, g), H)
    BY <2>6, <2>9, <2>10, VectorMixed
  <2>12. Good(B(ps), Owned(f))
    BY <2>3, <2>11 DEF H
  <2>13. Good(Destroyed(B(ps), f), {})
    BY <2>12, ListDestroyed
  <2> QED
    BY <1>5, <2>13 DEF BecomesSound
<1> QED
  BY <1>1, <1>4, <1>5

\* New cells are inserted in a vector.
LEMMA InsertedGood ==
  ASSUME NEW n, NEW m, NEW H, NEW g, Made(n, m, H, g), g \in Seq(Cells), NEW p \in Places(m),
         CellAt(m, p).type = "array", NEW i \in 1 .. Len(CellsAt(m, p)) + 1
  PROVE  Good(Inserted(n, p, i, g), H)
<1> DEFINE s == CellsAt(n, p)
           f == SubSeq(s, 1, i - 1) \o g \o SubSeq(s, i, Len(s))
<1>1. s \in Seq(Cells) /\ i \in 1 .. Len(s) + 1
  BY MadeVector
<1>2. Inserted(n, p, i, g) = Refilled(n, p, f)
  BY DEF Inserted
<1> HIDE DEF s
<1>3. f \in Seq(Cells) /\ Mixed(f, s, g)
  BY <1>1, SplicedMixed
<1> HIDE DEF f
<1>4. Good(Refilled(n, p, f), H)
  BY <1>3, MadeMixed DEF s
<1> QED
  BY <1>2, <1>4

\* insert of copies
LEMMA InsertCopiesSound ==
  ASSUME Sound, NEW p \in Places(memory), InsertCopies(p)
  PROVE  BecomesSound
<1>1. PICK q \in Places(memory) : \E cnt \in 0 .. MaxLen, i \in Positions(p) :
        Becomes(CopiesInserted(p, i, cnt, q))
  BY DEF InsertCopies
<1>2. PICK cnt \in 0 .. MaxLen, i \in Positions(p) : Becomes(CopiesInserted(p, i, cnt, q))
  BY <1>1
<1> DEFINE ps == [j \in 1 .. cnt |-> q]
           r == Copies(memory, [j \in 1 .. cnt |-> CellAt(memory, q)])
<1>3. CopiesInserted(p, i, cnt, q) = Inserted(r.memory, p, i, r.cells)
  BY DEF CopiesInserted
<1>4. /\ ps \in [1 .. cnt -> Places(memory)] /\ cnt \in Nat
      /\ [j \in 1 .. cnt |-> CellAt(memory, q)] = [j \in 1 .. cnt |-> CellAt(memory, ps[j])]
  OBVIOUS
<1> HIDE DEF ps
<1>5. r = Copies(memory, [j \in 1 .. cnt |-> CellAt(memory, ps[j])])
  BY <1>4
<1> HIDE DEF r
<1>6. Made(r.memory, memory, {}, r.cells) /\ r.cells \in Seq(Cells)
  BY <1>4, <1>5, PlacesCopied DEF Sound
<1>7. Good(Inserted(r.memory, p, i, r.cells), {})
  BY <1>6, InsertedGood DEF InsertCopies, IsArray, Positions
<1> QED
  BY <1>2, <1>3, <1>7 DEF BecomesSound

\* insert of a range of another array
LEMMA InsertRangeSound ==
  ASSUME Sound, NEW p \in Places(memory), InsertRange(p)
  PROVE  BecomesSound
<1>1. PICK q \in Places(memory) :
        /\ IsArray(p) /\ IsArray(q)
        /\ \E i \in Positions(p), first \in Positions(q), last \in Positions(q) :
             LET r == Copies(memory, SubSeq(CellsAt(memory, q), first, last - 1)) IN
             first <= last /\ Becomes(Inserted(r.memory, p, i, r.cells))
  BY DEF InsertRange
<1>2. PICK i \in Positions(p), first \in Positions(q), last \in Positions(q) :
        LET r == Copies(memory, SubSeq(CellsAt(memory, q), first, last - 1)) IN
        first <= last /\ Becomes(Inserted(r.memory, p, i, r.cells))
  BY <1>1
<1> DEFINE s == CellsAt(memory, q)
           f == SubSeq(s, first, last - 1)
           r == Copies(memory, f)
<1>3. /\ first <= last /\ Becomes(Inserted(r.memory, p, i, r.cells))
      /\ first \in 1 .. Len(s) + 1 /\ last \in 1 .. Len(s) + 1
  BY <1>2 DEF Positions
<1>4. s \in Seq(Cells) /\ Fit(memory, s)
  BY <1>1, RefilledIs DEF Sound, IsArray, Containers
<1> HIDE DEF s
<1>5. f \in Seq(Cells) /\ \A k \in DOMAIN f : \E j \in DOMAIN s : f[k] = s[j]
  <2>1. first \in 1 .. Len(s) + 1 /\ last - 1 \in 0 .. Len(s) /\ first <= (last - 1) + 1
    BY <1>3, <1>4
  <2>2. /\ Part(s, first, last - 1) \in Seq(Cells)
        /\ IsPart(Part(s, first, last - 1), s, first, last - 1)
    BY <1>4, <2>1, PartIs
  <2>3. f \in Seq(Cells) /\ IsPart(f, s, first, last - 1)
    BY <2>2 DEF Part
  <2> HIDE DEF f
  <2>4. ASSUME NEW k \in DOMAIN f
        PROVE  \E j \in DOMAIN s : f[k] = s[j]
    <3>1. k \in 1 .. last - 1 - first + 1 /\ f[k] = s[first + k - 1]
      BY <1>3, <1>4, <2>3 DEF IsPart
    <3>2. first + k - 1 \in DOMAIN s
      BY <1>3, <1>4, <3>1
    <3> QED
      BY <3>1, <3>2
  <2> QED
    BY <2>3, <2>4
<1> HIDE DEF f
<1>6. Fit(memory, f)
  BY <1>4, <1>5 DEF Fit
<1> HIDE DEF r
<1>7. Made(r.memory, memory, {}, r.cells) /\ r.cells \in Seq(Cells)
  BY <1>5, <1>6, VectorCopied DEF Sound, r
<1>8. Good(Inserted(r.memory, p, i, r.cells), {})
  BY <1>1, <1>7, InsertedGood DEF IsArray, Positions
<1> QED
  BY <1>3, <1>8 DEF BecomesSound

\* insert of an initializer list
LEMMA InsertListSound ==
  ASSUME Sound, NEW p \in Places(memory), InsertList(p)
  PROVE  BecomesSound
<1>1. PICK ps \in Lists, i \in Positions(p) :
        LET list == ListOf(ps)
            r == Copies(list.memory, list.cells) IN
        Becomes(Destroyed(Inserted(r.memory, p, i, r.cells), list.cells))
  BY DEF InsertList
<1> DEFINE list == ListOf(ps)
           m == list.memory
           f == list.cells
           H == Owned(f)
           r == Copies(m, f)
           n == Inserted(r.memory, p, i, r.cells)
<1>2. Becomes(Destroyed(n, f))
  BY <1>1
<1> HIDE DEF list
<1>3. Made(m, memory, {}, f) /\ f \in Seq(Cells) /\ Good(m, H) /\ Fit(m, f)
  BY ListMade DEF list
<1>4. /\ p \in Places(m) /\ CellAt(m, p).type = "array"
      /\ i \in 1 .. Len(CellsAt(m, p)) + 1
  <2>1. p \in Places(m) /\ CellAt(m, p) = CellAt(memory, p) /\ CellAt(memory, p).type = "array"
    BY <1>3, MadeHeld DEF InsertList, IsArray
  <2>2. CellsAt(m, p) = CellsAt(memory, p)
    BY <1>3, <2>1, MadeVector
  <2> QED
    BY <2>1, <2>2 DEF Positions
<1> HIDE DEF m, f, H, r
<1>5. Made(r.memory, m, H, r.cells) /\ r.cells \in Seq(Cells)
  BY <1>3, VectorCopied DEF r
<1>6. Good(n, H)
  BY <1>4, <1>5, InsertedGood
<1> HIDE DEF n
<1>7. Good(n, Owned(f))
  BY <1>6 DEF H
<1>8. Good(Destroyed(n, f), {})
  BY <1>7, ListDestroyed
<1> QED
  BY <1>2, <1>8 DEF BecomesSound

-----------------------------------------------------------------------------
(* erase and clear *)

\* erase of a scalar or a string
LEMMA EraseScalarSound ==
  ASSUME Sound, NEW p \in Places(memory), EraseScalar(p)
  PROVE  BecomesSound
<1> DEFINE c == CellAt(memory, p)
           n == Written(memory, p, Null)
<1>1. Becomes(Destroyed(n, <<c>>))
  BY DEF EraseScalar
<1>2. Held(n, {}, <<c>>)
  BY TakenHeld DEF Sound
<1> HIDE DEF n, c
<1>3. Good(n, {} \cup Owned(<<c>>)) /\ {} \cup Owned(<<c>>) = Owned(<<c>>)
  BY <1>2, HeldIs
<1>4. Good(Destroyed(n, <<c>>), {})
  BY <1>3, ListDestroyed
<1> QED
  BY <1>1, <1>4 DEF BecomesSound

\* erase of a range
LEMMA EraseRangeSound ==
  ASSUME Sound, NEW p \in Places(memory), EraseRange(p)
  PROVE  BecomesSound
<1>1. PICK first \in Positions(p), last \in Positions(p) :
        first <= last /\ Becomes(RangeErased(p, first, last))
  BY DEF EraseRange
<1> DEFINE s == CellsAt(memory, p)
           f == SubSeq(s, 1, first - 1) \o SubSeq(s, last, Len(s))
           g == SubSeq(s, first, last - 1)
<1>2. RangeErased(p, first, last) = Destroyed(Refilled(memory, p, f), g)
  BY DEF RangeErased
<1>3. CellAt(memory, p).type = "array" /\ CellAt(memory, p).type \in Containers
  BY DEF EraseRange, IsArray, Containers
<1>4. s \in Seq(Cells) /\ first \in 1 .. Len(s) + 1 /\ last \in 1 .. Len(s) + 1
  BY <1>3, RefilledIs DEF Sound, Positions
<1> HIDE DEF s
<1>5. f \in Seq(Cells) /\ Divided(s, f, g)
  BY <1>1, <1>4, CutDivided
<1> HIDE DEF f, g
<1>6. f \in [DOMAIN f -> Cells] /\ DOMAIN f \subseteq Nat
  <2>1. DOMAIN f \subseteq Nat \ {0}
    BY <1>5, IndicesFinite
  <2>2. f \in [DOMAIN f -> Cells]
    BY <1>5
  <2> QED
    BY <2>1, <2>2
<1>7. Good(Destroyed(Refilled(memory, p, f), g), {})
  BY <1>3, <1>5, <1>6, HeldDivided DEF Sound, s
<1> QED
  BY <1>1, <1>2, <1>7 DEF BecomesSound

\* erase of a key
LEMMA EraseKeySound ==
  ASSUME Sound, NEW p \in Places(memory), EraseKey(p)
  PROVE  BecomesSound
<1>1. PICK k \in DOMAIN CellsAt(memory, p) : Becomes(KeyErased(p, k))
  BY DEF EraseKey
<1> DEFINE s == CellsAt(memory, p)
           f == Restrict(s, DOMAIN s \ {k})
           g == <<s[k]>>
<1>2. KeyErased(p, k) = Destroyed(Refilled(memory, p, f), g)
  BY DEF KeyErased
<1>3. /\ CellAt(memory, p).type = "object" /\ CellAt(memory, p).type \in Containers
      /\ CellAt(memory, p).type # "array"
  BY DEF EraseKey, IsObject, Containers
<1>4. s \in [DOMAIN s -> Cells] /\ DOMAIN s \subseteq Nat /\ DOMAIN s \subseteq Text
  BY <1>3, RefilledIs DEF Sound
<1>5. DOMAIN f = DOMAIN s \ {k} /\ (\A j \in DOMAIN f : f[j] = s[j]) /\ k \in DOMAIN s
      /\ f = [j \in DOMAIN f |-> f[j]]
  BY DEF Restrict
<1>6. DOMAIN g = {1} /\ g[1] = s[k]
  OBVIOUS
<1> HIDE DEF s, f, g
<1>7. Divided(s, f, g)
  <2> DEFINE u == [j \in DOMAIN f |-> j]
             v == [j \in DOMAIN g |-> k]
  <2>1. u \in [DOMAIN f -> DOMAIN s] /\ v \in [DOMAIN g -> DOMAIN s]
    BY <1>5
  <2>2. /\ \A j \in DOMAIN f : u[j] = j
        /\ \A j \in DOMAIN g : v[j] = k
    OBVIOUS
  <2> HIDE DEF u, v
  <2>3. \A j \in DOMAIN f : s[u[j]] = f[j]
    BY <1>5, <2>2
  <2>4. \A j \in DOMAIN g : s[v[j]] = g[j]
    BY <1>6, <2>2
  <2>5. \A x \in DOMAIN s : (\E j \in DOMAIN f : x = u[j]) \/ \E j \in DOMAIN g : x = v[j]
    BY <1>5, <1>6, <2>2
  <2>6. /\ \A i, j \in DOMAIN f : u[i] = u[j] => i = j
        /\ \A i \in DOMAIN f, j \in DOMAIN g : u[i] # v[j]
    BY <1>5, <2>2
  <2> QED
    BY <2>1, <2>3, <2>4, <2>5, <2>6 DEF Divided
<1>8. f \in [DOMAIN f -> Cells] /\ DOMAIN f \subseteq Nat /\ DOMAIN f \subseteq Text
  BY <1>4, <1>5
<1>9. Good(Destroyed(Refilled(memory, p, f), g), {})
  BY <1>3, <1>7, <1>8, HeldDivided DEF Sound, s
<1> QED
  BY <1>1, <1>2, <1>9 DEF BecomesSound

\* What a string says makes no difference.
LEMMA TextGood ==
  ASSUME NEW m, NEW H, Good(m, H), NEW a \in DOMAIN m
  PROVE  Good([m EXCEPT ![a].text = empty], H)
<1> DEFINE n == [m EXCEPT ![a].text = empty]
<1>0. IsMemory(m) /\ Unshared(m, H) /\ Rooted(m, H) /\ H \subseteq DOMAIN m \ {0}
  BY DEF Good
<1>1. /\ DOMAIN n = DOMAIN m /\ n[a] = Block(m[a].type, empty, m[a].cells)
      /\ \A b \in DOMAIN m \ {a} : n[b] = m[b]
  BY <1>0, BlockCells DEF Block
<1> HIDE DEF n
<1>2. \A b \in DOMAIN m : n[b].type = m[b].type /\ n[b].cells = m[b].cells
  BY <1>1 DEF Block
<1>3. IsMemory(n)
  <2>1. IsBlock(a, m[a])
    BY <1>0 DEF IsMemory
  <2>2. Shaped(a, n[a])
    <3>1. Shaped(a, m[a])
      BY <2>1 DEF IsBlock
    <3> QED
      BY <1>2, <3>1 DEF Shaped
  <2>3. n[a] \in [type : {"variables", "array", "object", "string"}, text : Text,
                  cells : UNION {[K -> Cells] : K \in SUBSET Nat}]
    <3> DEFINE U == UNION {[K -> Cells] : K \in SUBSET Nat}
    <3>1. m[a] \in [type : {"variables", "array", "object", "string"}, text : Text, cells : U]
      BY <2>1 DEF IsBlock
    <3> HIDE DEF U
    <3>2. /\ m[a].type \in {"variables", "array", "object", "string"}
          /\ m[a].cells \in U /\ empty \in Text
      BY <3>1, HeapAssumption
    <3>3. n[a] \in [type : {"variables", "array", "object", "string"}, text : Text, cells : U]
      BY <1>1, <3>2 DEF Block
    <3> QED
      BY <3>3 DEF U
  <2>4. IsBlock(a, n[a])
    BY <2>2, <2>3 DEF IsBlock
  <2> QED
    BY <1>0, <1>1, <2>4 DEF IsMemory
<1>4. \A g : Fit(m, g) => Fit(n, g)
  BY <1>1, <1>2 DEF Fit
<1>5. Unshared(n, H)
  BY <1>0, <1>1, <1>2, <1>4 DEF Unshared
<1>6. Rooted(n, H)
  BY <1>0, <1>1, <1>2 DEF Rooted
<1>7. Good(n, H)
  BY <1>0, <1>1, <1>3, <1>5, <1>6 DEF Good
<1> QED
  BY <1>7 DEF n

\* clear
LEMMA ClearSound ==
  ASSUME Sound, NEW p \in Places(memory), clear(p)
  PROVE  BecomesSound
<1> DEFINE c == CellAt(memory, p)
<1>1. CASE c.type = "scalar" /\ Becomes(Written(memory, p, Scalar))
  <2>1. Scalar \in Cells /\ Scalar.type \notin Owning
    BY DEF Scalar, Cell, Cells, Owning, Containers
  <2>2. Owned(<<Scalar>>) = {} /\ Owned(<<c>>) = {}
    <3>1. c.type \notin Owning
      BY <1>1 DEF Owning, Containers
    <3> QED
      BY <2>1, <3>1, OneOwned
  <2>3. Fit(memory, <<Scalar>>)
    <3>1. DOMAIN <<Scalar>> = {1} /\ <<Scalar>>[1] = Scalar
      OBVIOUS
    <3> QED
      BY <2>1, <3>1 DEF Fit
  <2>4. Closed(memory, {}) /\ Owned(<<Scalar>>) \subseteq {} /\ p[1] \notin {}
    BY <2>2 DEF Closed
  <2>5. Good(Written(memory, p, Scalar), ({} \cup Owned(<<c>>)) \ Owned(<<Scalar>>))
    BY <2>3, <2>4, WrittenGood DEF Sound
  <2>6. ({} \cup Owned(<<c>>)) \ Owned(<<Scalar>>) = {}
    BY <2>2
  <2> QED
    BY <1>1, <2>5, <2>6 DEF BecomesSound
<1>2. CASE c.type = "string" /\ Becomes([memory EXCEPT ![c.at].text = empty])
  <2>1. c.at \in DOMAIN memory
    <3>1. c.type \in Owning
      BY <1>2 DEF Owning
    <3> QED
      BY <3>1, CellFits DEF Sound
  <2>2. Good([memory EXCEPT ![c.at].text = empty], {})
    BY <2>1, TextGood DEF Sound
  <2> QED
    BY <1>2, <2>2 DEF BecomesSound
<1>3. CASE /\ c.type \in Containers
           /\ Becomes(Destroyed(Refilled(memory, p, <<>>), CellsAt(memory, p)))
  <2> DEFINE s == CellsAt(memory, p)
  <2>1. Divided(s, <<>>, s)
    <3> DEFINE u == <<>>
               v == [j \in DOMAIN s |-> j]
    <3>1. DOMAIN <<>> = {} /\ u \in [{} -> DOMAIN s] /\ v \in [DOMAIN s -> DOMAIN s]
      OBVIOUS
    <3>2. (\A j \in DOMAIN s : s[v[j]] = s[j]) /\ \A k \in DOMAIN s : \E j \in DOMAIN s : k = v[j]
      OBVIOUS
    <3> HIDE DEF u, v
    <3> QED
      BY <3>1, <3>2 DEF Divided
  <2>2. <<>> \in Seq(Cells) /\ <<>> \in [DOMAIN <<>> -> Cells] /\ DOMAIN <<>> \subseteq Nat
        /\ DOMAIN <<>> \subseteq Text
    OBVIOUS
  <2>3. Good(Destroyed(Refilled(memory, p, <<>>), s), {})
    BY <1>3, <2>1, <2>2, HeldDivided DEF Sound
  <2> QED
    BY <1>3, <2>3 DEF BecomesSound
<1> QED
  BY <1>1, <1>2, <1>3 DEF clear

-----------------------------------------------------------------------------
(* Every step leaves such a memory *)

\* The memory n is m with its blocks at other addresses.
Renamed(n, m, f) ==
  /\ DOMAIN f = DOMAIN m /\ f[0] = 0
  /\ \A a \in DOMAIN m \ {0} : f[a] \in Nat \ {0}
  /\ \A a, b \in DOMAIN m : f[a] = f[b] => a = b
  /\ DOMAIN n = {f[a] : a \in DOMAIN m}
  /\ \A a \in DOMAIN m : n[f[a]] = Block(m[a].type, m[a].text,
       [i \in DOMAIN m[a].cells |->
          IF m[a].cells[i].type \in Owning
          THEN Cell(m[a].cells[i].type, f[m[a].cells[i].at]) ELSE m[a].cells[i]])

\* Numbering the blocks anew renames them.
LEMMA RenumberedIs ==
  ASSUME NEW m, IsMemory(m), NEW f \in Numberings(m), NEW n, n = Renumbered(m, f)
  PROVE  Renamed(n, m, f)
<1> DEFINE blocks == DOMAIN m \ {0}
           top == Cardinality(blocks)
           cell(c) == IF c.type \in Owning THEN Cell(c.type, f[c.at]) ELSE c
           block(b) == Block(b.type, b.text, [i \in DOMAIN b.cells |-> cell(b.cells[i])])
<1>1. 0 \in DOMAIN m /\ IsFiniteSet(blocks) /\ DOMAIN m = {0} \cup blocks
  BY FS_Subset DEF IsMemory
<1>2. top \in Nat
  BY <1>1, FS_CardinalityType
<1>3. IsInjective(f) /\ \E g \in [blocks -> 1 .. top] : f = Joined(At(0, 0), g)
  BY DEF Numberings
<1>4. PICK g \in [blocks -> 1 .. top] : f = Joined(At(0, 0), g)
  BY <1>3
<1> HIDE DEF top
<1>5. DOMAIN f = DOMAIN m /\ f[0] = 0 /\ \A a \in blocks : f[a] = g[a]
  <2>1. DOMAIN At(0, 0) = {0} /\ At(0, 0)[0] = 0 /\ DOMAIN g = blocks
    BY DEF At
  <2> QED
    BY <1>1, <1>4, <2>1 DEF Joined
<1>6. \A a \in blocks : f[a] \in Nat \ {0}
  <2>1. \A a \in blocks : g[a] \in 1 .. top
    OBVIOUS
  <2> HIDE DEF blocks
  <2> QED
    BY <1>2, <1>5, <2>1
<1>7. \A a, b \in DOMAIN m : f[a] = f[b] => a = b
  BY <1>3, <1>5 DEF IsInjective
<1>8. Range(f) = {f[a] : a \in DOMAIN m}
  BY <1>5 DEF Range
<1>9. n = [x \in {f[a] : a \in DOMAIN m} |-> block(m[CHOOSE a \in DOMAIN m : f[a] = x])]
  BY <1>8 DEF Renumbered
<1> HIDE DEF block, blocks
<1>10. ASSUME NEW a \in DOMAIN m
       PROVE  n[f[a]] = block(m[a])
  <2>1. (CHOOSE b \in DOMAIN m : f[b] = f[a]) = a
    BY <1>7
  <2> QED
    BY <1>9, <2>1
<1>11. DOMAIN n = {f[a] : a \in DOMAIN m}
  BY <1>9
<1> QED
  BY <1>5, <1>6, <1>7, <1>10, <1>11 DEF Renamed, block, blocks

\* The cells of a renamed block,
LEMMA RenamedCells ==
  ASSUME NEW m, NEW n, NEW f, Good(m, {}), Renamed(n, m, f), NEW a \in DOMAIN m
  PROVE  /\ f[a] \in DOMAIN n /\ n[f[a]].type = m[a].type /\ n[f[a]].text = m[a].text
         /\ DOMAIN n[f[a]].cells = DOMAIN m[a].cells
         /\ n[f[a]] = Block(m[a].type, m[a].text, n[f[a]].cells)
         /\ n[f[a]].cells \in [DOMAIN m[a].cells -> Cells]
         /\ \A i \in DOMAIN m[a].cells :
              /\ n[f[a]].cells[i].type = m[a].cells[i].type
              /\ m[a].cells[i].type \in Owning =>
                   /\ m[a].cells[i].at \in DOMAIN m \ {0}
                   /\ m[m[a].cells[i].at].type = m[a].cells[i].type
                   /\ n[f[a]].cells[i].at = f[m[a].cells[i].at]
<1> DEFINE s == m[a].cells
           g == [i \in DOMAIN s |->
                   IF s[i].type \in Owning THEN Cell(s[i].type, f[s[i].at]) ELSE s[i]]
<1>1. n[f[a]] = Block(m[a].type, m[a].text, g) /\ f[a] \in DOMAIN n
  BY DEF Renamed
<1>2. Fit(m, s)
  BY DEF Good, Unshared
<1> HIDE DEF s
<1>3. ASSUME NEW i \in DOMAIN s
      PROVE  /\ g[i] \in Cells
             /\ g[i].type = s[i].type
             /\ s[i].type \in Owning => /\ s[i].at \in DOMAIN m \ {0}
                                        /\ m[s[i].at].type = s[i].type
                                        /\ g[i].at = f[s[i].at]
  <2>1. s[i] \in Cells
    BY <1>2 DEF Fit
  <2>2. CASE s[i].type \in Owning
    <3>1. s[i].at \in DOMAIN m \ {0} /\ m[s[i].at].type = s[i].type
      BY <1>2, <2>2 DEF Fit
    <3>2. f[s[i].at] \in Nat
      BY <3>1 DEF Renamed
    <3>3. g[i] = [type |-> s[i].type, at |-> f[s[i].at]]
      BY <2>2 DEF Cell
    <3> HIDE DEF g
    <3> QED
      BY <2>1, <3>1, <3>2, <3>3 DEF Cells
  <2>3. CASE s[i].type \notin Owning
    BY <2>1, <2>3
  <2> QED
    BY <2>2, <2>3
<1>4. DOMAIN g = DOMAIN s /\ g = [i \in DOMAIN s |-> g[i]]
  OBVIOUS
<1> HIDE DEF g
<1>5. g \in [DOMAIN s -> Cells]
  BY <1>3, <1>4
<1>6. n[f[a]].cells = g /\ n[f[a]].type = m[a].type /\ n[f[a]].text = m[a].text
  BY <1>1 DEF Block
<1> QED
  BY <1>1, <1>3, <1>4, <1>5, <1>6 DEF s

\* what it owns,
LEMMA RenamedOwned ==
  ASSUME NEW m, NEW n, NEW f, Good(m, {}), Renamed(n, m, f), NEW a \in DOMAIN m, NEW b \in DOMAIN m
  PROVE  f[b] \in Owned(n[f[a]].cells) <=> b \in Owned(m[a].cells)
<1>1. /\ DOMAIN n[f[a]].cells = DOMAIN m[a].cells
      /\ \A i \in DOMAIN m[a].cells :
              /\ n[f[a]].cells[i].type = m[a].cells[i].type
              /\ m[a].cells[i].type \in Owning =>
                   /\ m[a].cells[i].at \in DOMAIN m
                   /\ n[f[a]].cells[i].at = f[m[a].cells[i].at]
  BY RenamedCells
<1>2. \A c \in DOMAIN m : f[c] = f[b] => c = b
  BY DEF Renamed
<1>3. /\ f[b] \in Owned(n[f[a]].cells)
           <=> \E i \in DOMAIN m[a].cells :
                 n[f[a]].cells[i].type \in Owning /\ n[f[a]].cells[i].at = f[b]
      /\ b \in Owned(m[a].cells)
           <=> \E i \in DOMAIN m[a].cells : m[a].cells[i].type \in Owning /\ m[a].cells[i].at = b
  BY <1>1, OwnedIff
<1> QED
  BY <1>1, <1>2, <1>3

\* and that renaming breaks nothing.
LEMMA RenamedGood ==
  ASSUME NEW m, NEW n, NEW f, Good(m, {}), Renamed(n, m, f)
  PROVE  Good(n, {})
<1>0. IsMemory(m) /\ Unshared(m, {}) /\ Rooted(m, {})
  BY DEF Good
<1>1. /\ DOMAIN f = DOMAIN m /\ f[0] = 0 /\ 0 \in DOMAIN m
      /\ \A a \in DOMAIN m \ {0} : f[a] \in Nat \ {0}
      /\ \A a, b \in DOMAIN m : f[a] = f[b] => a = b
      /\ DOMAIN n = {f[a] : a \in DOMAIN m}
      /\ \A x \in DOMAIN n : \E a \in DOMAIN m : x = f[a]
  BY <1>0 DEF Renamed, IsMemory
<1>2. ASSUME NEW a \in DOMAIN m
      PROVE  /\ IsBlock(f[a], n[f[a]])
             /\ Fit(n, n[f[a]].cells) /\ Single(n[f[a]].cells)
  <2> DEFINE s == m[a].cells
             g == n[f[a]].cells
  <2>1. /\ n[f[a]] = Block(m[a].type, m[a].text, g)
        /\ DOMAIN g = DOMAIN s /\ g \in [DOMAIN g -> Cells]
        /\ \A i \in DOMAIN s :
              /\ g[i].type = s[i].type
              /\ s[i].type \in Owning =>
                   s[i].at \in DOMAIN m \ {0} /\ g[i].at = f[s[i].at] /\ m[s[i].at].type = s[i].type
    BY RenamedCells
  <2>2. /\ a \in Nat
        /\ a = 0 => m[a].type = "variables" /\ DOMAIN s = Name
        /\ a # 0 => m[a].type \in Owning
        /\ m[a].type = "array" => s \in Seq(Cells)
        /\ m[a].type = "object" => DOMAIN s \subseteq Text
        /\ m[a].type = "string" => s = <<>>
        /\ m[a].text \in Text /\ DOMAIN s \subseteq Nat
    BY <1>0, BlockShape, BlockCells
  <2>3. \A b \in DOMAIN m : f[b] \in DOMAIN n /\ n[f[b]].type = m[b].type
    BY RenamedCells
  <2>4. Single(s)
    BY <1>0 DEF Unshared
  <2> HIDE DEF s, g
  <2>5. IsBlock(f[a], n[f[a]])
    <3>1. m[a].type = "array" => g \in Seq(Cells)
      BY <2>1, <2>2
    <3>2. m[a].type = "string" => g = <<>>
      <4> SUFFICES ASSUME m[a].type = "string"
                   PROVE  g = <<>>
        OBVIOUS
      <4>1. DOMAIN g = {}
        BY <2>1, <2>2
      <4> QED
        BY <2>1, <4>1
    <3>3. a = 0 \/ m[a].type = "array" \/ m[a].type = "object" \/ m[a].type = "string"
      BY <2>2 DEF Owning, Containers
    <3>4. f[a] \in Nat /\ (a = 0 => f[a] = 0) /\ (a # 0 => f[a] # 0)
      BY <1>1, <2>2
    <3>5. a # 0 \/ m[a].type = "variables"
      BY <2>2
    <3>6. IsBlock(f[a], Block(m[a].type, m[a].text, g))
      <4>1. CASE a = 0
        BY <2>1, <2>2, <3>4, <4>1, MakesBlock
      <4>2. CASE a # 0
        BY <2>1, <2>2, <3>1, <3>2, <3>3, <3>4, <4>2, MakesBlock
      <4> QED
        BY <4>1, <4>2
    <3> QED
      BY <2>1, <3>6
  <2>6. Fit(n, g)
    <3> SUFFICES ASSUME NEW i \in DOMAIN g
                 PROVE  /\ g[i] \in Cells
                        /\ g[i].type \in Owning => /\ g[i].at \in DOMAIN n \ {0}
                                                   /\ n[g[i].at].type = g[i].type
      BY DEF Fit
    <3>1. g[i] \in Cells
      BY <2>1
    <3>2. CASE g[i].type \in Owning
      <4>1. /\ s[i].at \in DOMAIN m \ {0} /\ g[i].at = f[s[i].at] /\ m[s[i].at].type = g[i].type
        BY <2>1, <3>2
      <4>2. f[s[i].at] \in DOMAIN n /\ f[s[i].at] # 0 /\ n[f[s[i].at]].type = m[s[i].at].type
        BY <1>1, <2>3, <4>1
      <4> QED
        BY <3>1, <4>1, <4>2
    <3> QED
      BY <3>1, <3>2
  <2>7. Single(g)
    <3> SUFFICES ASSUME NEW i \in DOMAIN g, NEW j \in DOMAIN g, g[i].type \in Owning,
                        g[j].type \in Owning, g[i].at = g[j].at
                 PROVE  i = j
      BY DEF Single
    <3>1. s[i].at \in DOMAIN m /\ s[j].at \in DOMAIN m /\ f[s[i].at] = f[s[j].at]
      BY <2>1
    <3>2. s[i].at = s[j].at
      BY <1>1, <3>1
    <3> QED
      BY <2>1, <2>4, <3>2 DEF Single
  <2> QED
    BY <2>5, <2>6, <2>7 DEF g
<1>3. IsMemory(n)
  <2>1. IsFiniteSet(DOMAIN n)
    <3>1. IsFiniteSet(DOMAIN m)
      BY <1>0 DEF IsMemory
    <3> DEFINE g == [a \in DOMAIN m |-> f[a]]
    <3>2. g \in Surjection(DOMAIN m, DOMAIN n)
      <4>1. g \in [DOMAIN m -> DOMAIN n] /\ \A a \in DOMAIN m : g[a] = f[a]
        BY <1>1
      <4> HIDE DEF g
      <4> QED
        BY <1>1, <4>1 DEF Surjection
    <3> QED
      BY <3>1, <3>2, FS_Surjection
  <2>2. \A a \in DOMAIN m : f[a] \in Nat
    BY <1>1
  <2>3. 0 \in DOMAIN n /\ DOMAIN n \subseteq Nat
    BY <1>1, <2>2
  <2> QED
    BY <1>1, <1>2, <2>1, <2>3 DEF IsMemory
<1>4. ASSUME NEW a \in DOMAIN m
      PROVE  \A x \in Owned(n[f[a]].cells) : \E c \in DOMAIN m : x = f[c]
  <2>1. Owned(n[f[a]].cells) \subseteq DOMAIN n
    BY <1>2 DEF Fit, Owned
  <2> QED
    BY <1>1, <2>1
<1>5. ASSUME NEW a \in DOMAIN m, NEW b \in DOMAIN m, a # b
      PROVE  Owned(n[f[a]].cells) \cap Owned(n[f[b]].cells) = {}
  <2> SUFFICES ASSUME NEW x \in Owned(n[f[a]].cells), x \in Owned(n[f[b]].cells)
               PROVE  FALSE
    OBVIOUS
  <2>1. PICK c \in DOMAIN m : x = f[c]
    BY <1>4
  <2>2. c \in Owned(m[a].cells) /\ c \in Owned(m[b].cells)
    BY <2>1, RenamedOwned
  <2> QED
    BY <1>0, <1>5, <2>2 DEF Unshared
<1>6. Unshared(n, {})
  <2>1. \A x \in DOMAIN n : Fit(n, n[x].cells) /\ Single(n[x].cells)
    BY <1>1, <1>2
  <2>2. ASSUME NEW x \in DOMAIN n, NEW y \in DOMAIN n, x # y
        PROVE  Owned(n[x].cells) \cap Owned(n[y].cells) = {}
    BY <1>1, <1>5, <2>2
  <2> QED
    BY <2>1, <2>2 DEF Unshared
<1>7. Rooted(n, {})
  <2> SUFFICES ASSUME NEW S \in SUBSET (DOMAIN n \ {0}), S # {}
               PROVE  \E d \in S : \E b \in DOMAIN n \ S : d \in Owned(n[b].cells)
    BY DEF Rooted
  <2> DEFINE T == {a \in DOMAIN m : f[a] \in S}
  <2>1. T \in SUBSET (DOMAIN m \ {0}) /\ T # {}
    BY <1>1
  <2>2. PICK d \in T : \E b \in DOMAIN m \ T : d \in Owned(m[b].cells)
    BY <1>0, <2>1 DEF Rooted
  <2>3. PICK b \in DOMAIN m \ T : d \in Owned(m[b].cells)
    BY <2>2
  <2>4. f[d] \in S /\ f[b] \in DOMAIN n \ S /\ f[d] \in Owned(n[f[b]].cells)
    BY <1>1, <2>3, RenamedOwned
  <2> QED
    BY <2>4
<1> QED
  BY <1>3, <1>6, <1>7 DEF Good

\* No variable owns anything at first.
LEMMA InitSound == Init => Sound
<1> SUFFICES ASSUME Init
             PROVE  Good(memory, {})
  BY DEF Sound
<1> DEFINE s == [n \in Name |-> Null]
<1>1. DOMAIN memory = {0} /\ memory[0] = Block("variables", empty, s)
  BY DEF Init, At
<1>2. Null \in Cells /\ Null.type \notin Owning
  BY DEF Null, Cell, Cells, Owning, Containers
<1>3. DOMAIN s = Name /\ s \in [Name -> Cells] /\ \A i \in Name : s[i] = Null
  BY <1>2
<1> HIDE DEF s
<1>4. memory[0].cells = s
  BY <1>1 DEF Block
<1>5. Owned(s) = {} /\ Fit(memory, s) /\ Single(s)
  BY <1>2, <1>3 DEF Owned, Fit, Single
<1>6. IsMemory(memory)
  <2>1. Name \subseteq Nat /\ empty \in Text
    BY HeapAssumption
  <2>2. IsBlock(0, Block("variables", empty, s))
    BY <1>3, <2>1, MakesBlock
  <2>3. IsFiniteSet({0})
    BY FS_Singleton
  <2> QED
    BY <1>1, <2>2, <2>3 DEF IsMemory
<1>7. Unshared(memory, {})
  BY <1>1, <1>4, <1>5 DEF Unshared
<1>8. Rooted(memory, {})
  BY <1>1 DEF Rooted
<1> QED
  BY <1>6, <1>7, <1>8 DEF Good

\* Each operation returns with no temporary object, and every other owner in place.
LEMMA StepSound == Sound /\ [Next]_memory => Sound'
<1> SUFFICES ASSUME Sound, [Next]_memory
             PROVE  Good(memory', {})
  BY DEF Sound
<1>1. CASE Next
  <2>1. PICK p \in Places(memory) :
          \/ Construct(p) \/ ConstructText(p) \/ Fill(p)
          \/ CopyAssign(p) \/ MoveAssign(p) \/ swap(p)
          \/ Index(p) \/ AtKey(p) \/ PushCopy(p) \/ PushMove(p) \/ PushPair(p)
          \/ InitList(p) \/ PushList(p)
          \/ InsertCopies(p) \/ InsertRange(p) \/ InsertList(p)
          \/ EraseScalar(p) \/ EraseRange(p) \/ EraseKey(p) \/ clear(p)
    BY <1>1 DEF Next
  <2>2. BecomesSound
    <3>1. CASE Construct(p) \/ ConstructText(p) \/ Fill(p)
      BY <3>1, ConstructSound, ConstructTextSound, FillSound
    <3>2. CASE CopyAssign(p) \/ MoveAssign(p) \/ swap(p)
      BY <3>2, CopyAssignSound, MoveAssignSound, SwapSound
    <3>3. CASE Index(p) \/ AtKey(p)
      BY <3>3, IndexSound, AtKeySound
    <3>4. CASE PushCopy(p) \/ PushMove(p) \/ PushPair(p)
      BY <3>4, PushCopySound, PushMoveSound, PushPairSound
    <3>5. CASE InitList(p) \/ PushList(p)
      BY <3>5, InitListSound, PushListSound
    <3>6. CASE InsertCopies(p) \/ InsertRange(p) \/ InsertList(p)
      BY <3>6, InsertCopiesSound, InsertRangeSound, InsertListSound
    <3>7. CASE EraseScalar(p) \/ EraseRange(p) \/ EraseKey(p)
      BY <3>7, EraseScalarSound, EraseRangeSound, EraseKeySound
    <3>8. CASE clear(p)
      BY <3>8, ClearSound
    <3> QED
      BY <2>1, <3>1, <3>2, <3>3, <3>4, <3>5, <3>6, <3>7, <3>8
  <2>3. PICK m : Good(m, {}) /\ Becomes(m)
    BY <2>2 DEF BecomesSound
  <2>4. PICK f \in Numberings(m) : memory' = Renumbered(m, f)
    BY <2>3 DEF Becomes
  <2>5. Renamed(memory', m, f)
    BY <2>3, <2>4, RenumberedIs DEF Good
  <2> QED
    BY <2>3, <2>5, RenamedGood
<1>2. CASE UNCHANGED memory
  BY <1>2 DEF Sound
<1> QED
  BY <1>1, <1>2

\* Such a memory has exactly the blocks beneath the variables, each once.
LEMMA SoundOwnedOnce == Sound => OwnedOnce
<1> SUFFICES ASSUME Sound
             PROVE  OwnedOnce
  OBVIOUS
<1>0. /\ Good(memory, {}) /\ IsMemory(memory) /\ Unshared(memory, {}) /\ Rooted(memory, {})
      /\ IsFiniteSet(DOMAIN memory) /\ 0 \in DOMAIN memory
  BY DEF Sound, Good, IsMemory
<1>1. \A a \in DOMAIN memory : Shaped(a, memory[a])
  BY <1>0 DEF IsMemory, IsBlock
<1>2. ASSUME NEW p \in Owners
      PROVE  /\ CellAt(memory, p).at \in DOMAIN memory \ {0}
             /\ memory[CellAt(memory, p).at].type = CellAt(memory, p).type
  <2>1. p \in Places(memory) /\ CellAt(memory, p).type \in Owning
    BY DEF Owners
  <2> QED
    BY <1>0, <2>1, CellFits
<1>3. ASSUME NEW p \in Owners, NEW q \in Owners, CellAt(memory, p).at = CellAt(memory, q).at
      PROVE  p = q
  <2>1. /\ p \in Places(memory) /\ CellAt(memory, p).type \in Owning
        /\ q \in Places(memory) /\ CellAt(memory, q).type \in Owning
    BY DEF Owners
  <2> QED
    BY <1>0, <1>3, <2>1, OwnerOnly
<1>4. DOMAIN memory = {0} \cup Beneath(memory, memory[0].cells)
  <2> DEFINE s == memory[0].cells
             B == Beneath(memory, s)
             S == (DOMAIN memory \ {0}) \ B
  <2>1. B \subseteq DOMAIN memory /\ Owned(s) \cap DOMAIN memory \subseteq B /\ Closed(memory, B)
    BY <1>0, BeneathLeast
  <2> HIDE DEF B
  <2>2. ASSUME S # {}
        PROVE  FALSE
    <3>1. PICK d \in S : \E b \in DOMAIN memory \ S : d \in Owned(memory[b].cells)
      BY <1>0, <2>2 DEF Rooted
    <3>2. PICK b \in DOMAIN memory \ S : d \in Owned(memory[b].cells)
      BY <3>1
    <3>3. b = 0 \/ b \in B
      BY <3>2
    <3> QED
      BY <2>1, <3>2, <3>3 DEF Closed
  <2> QED
    BY <1>0, <2>1, <2>2 DEF B
<1> QED
  BY <1>1, <1>2, <1>3, <1>4 DEF OwnedOnce

\* Whatever is constructed, assigned, moved, swapped, inserted, erased or
\* cleared, in whatever order and inside whatever else: every string, vector and
\* map that json.hpp allocates has exactly one owner, of its type, and is part of
\* a variable.  Nothing leaks, is shared, is freed twice or is used after.
THEOREM EveryBlockOwnedOnce == Spec => []OwnedOnce
<1>1. Spec => []Sound
  BY InitSound, StepSound, PTL DEF Spec
<1> QED
  BY <1>1, SoundOwnedOnce, PTL
=============================================================================
