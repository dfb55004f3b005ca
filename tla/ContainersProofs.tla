-------------------------- MODULE ContainersProofs --------------------------
(***************************************************************************)
(* Objects stay whole and apart in the heap of Containers, for every       *)
(* program, heap size and byte and cell width: the state keeps its shape   *)
(* (TypeCorrect), no two objects share a cell (ObjectsAreApart), a loop    *)
(* gives each key of a map once (EachIsVisited), and what is read is what  *)
(* an object holds (ReadsAreRight).  From this, Containers implements      *)
(* Collections (ObjectsBehave).                                            *)
(*                                                                         *)
(* The invariant, Inv, is about all that is in the heap at once.  Every    *)
(* object is sound (SoundIn): its header has its type, its length and the  *)
(* place of its data, which lies below the head, and no key is in a map    *)
(* twice.  Objects and the lists natives are filling are apart (Apart), so *)
(* that a step that writes in one leaves the others what they were         *)
(* (Elsewhere, Written1).  A native that runs has what it still reads and  *)
(* room for what it may still keep (FillsIn), whatever its callback does:  *)
(* the cells of an array that shrank stay where they are.  A loop over a   *)
(* map gave the keys up to its position (VisitsIn), and a map that grows   *)
(* keeps them (KeysKept).                                                  *)
(*                                                                         *)
(* What each kind of step does to it follows: making an object, changing   *)
(* one, growing a map, removing from one, and the rounds of loops.         *)
(*                                                                         *)
(* For the refinement, Mapped adds to it that the collections are what is  *)
(* read off the heap, and that only values are read: the cells of arrays,  *)
(* of what a native has still to read, and of what it has kept, are values *)
(* (Feeds), and nobody writes the first while it runs but through the      *)
(* array itself.  Each step's lemma (MakeArrayMapped, ...) shows the step  *)
(* of Collections it is; the lemmas before say what is read of the memory  *)
(* it wrote, and that all else reads the same (UnwrittenStays).            *)
(***************************************************************************)
EXTENDS Containers, SequenceTheorems, FiniteSetTheorems, WellFoundedInduction, TLAPS

-----------------------------------------------------------------------------
(* The invariant, of a memory m, references R and loops L.                 *)

ExtentIn(m, r) ==
  IF m[r].n = TYPE_MAP
  THEN (r .. r + 3) \cup (m[r + 3].n .. m[r + 3].n + m[r + 1].n * 2 - 1)
  ELSE r .. r + 1 + IF m[r].n = TYPE_BYTES THEN Cells(m[r + 1].n) ELSE m[r + 1].n

KeyIn(m, r, i) == m[m[r + 3].n + i * 2]
ValIn(m, r, i) == m[m[r + 3].n + i * 2 + 1]

(* A header speaks the truth, and no two entries have the same key. *)
SoundIn(m, r) ==
  /\ r \in Nat \ {0} /\ m[r].n \in {TYPE_ARRAY, TYPE_BYTES, TYPE_MAP}
  /\ ExtentIn(m, r) \subseteq DOMAIN m
  /\ m[r].n \in Listed => m[r + 1].n \in Nat
  /\ m[r].n = TYPE_BYTES => \A c \in r + 2 .. r + 1 + Cells(m[r + 1].n) : m[c] \in ByteCell
  /\ m[r].n = TYPE_MAP =>
       /\ m[r + 1].n \in Nat \ {0} /\ m[r + 2].n \in 0 .. m[r + 1].n
       /\ m[r + 3].n \in Nat \ {0} /\ r + 4 <= m[r + 3].n
       /\ \A i, j \in 0 .. m[r + 2].n - 1 : KeyIn(m, r, i) = KeyIn(m, r, j) => i = j

LoopType ==
  [by : {"for", "for_list", "filter"}, arr : Nat, idx : Nat, len : Nat, body : BOOLEAN,
   val : Seq(Cell \cup [key : Cell, val : Cell]), res : Nat, kept : Nat,
   shrunk : BOOLEAN, seen : Seq(Cell)]

(* A native has what it will read, and room for what it may keep. *)
FillsIn(m, l) ==
  /\ l.arr + 1 + l.len <= Len(m)
  /\ l.res # 0 /\ l.res + 1 + l.len <= Len(m)
  /\ m[l.res].n = TYPE_ARRAY
  /\ l.kept <= l.idx /\ l.idx <= l.len
  /\ l.by = "for_list" => m[l.res + 1].n = l.len /\ l.kept = l.idx
  /\ l.body => l.idx < l.len /\ Len(l.val) = 1 /\ l.val[1] \in Cell

(* A loop over a map that did not shrink gave the keys up to its position. *)
VisitsIn(m, l) ==
  l.by = "for" /\ ~l.shrunk /\ m[l.arr].n = TYPE_MAP =>
    /\ Len(l.seen) = l.idx + IF l.body THEN 1 ELSE 0
    /\ Len(l.seen) <= m[l.arr + 2].n
    /\ \A j \in 1 .. Len(l.seen) : l.seen[j] = KeyIn(m, l.arr, j - 1)

NativesOf(L) == {i \in DOMAIN L : L[i].by # "for"}

Cellular(m) == m \in Seq(Cell) /\ Len(m) < MAX_HEAP

Listing(R, L) ==
  /\ R \in Seq(Nat) /\ IsInjective(R)
  /\ L \in Seq(LoopType) /\ Len(L) <= MaxLoops
  /\ Len(R) + Cardinality(NativesOf(L)) <= MaxObjects + MaxLoops
  /\ \A i \in DOMAIN L : L[i].arr \in Range(R)

AllSound(m, R) == \A r \in Range(R) : SoundIn(m, r)
AllFill(m, L)  == \A i \in NativesOf(L) : FillsIn(m, L[i])
AllVisit(m, L) == \A i \in DOMAIN L : VisitsIn(m, L[i])

Apart(m, R, L) ==
  /\ \A r, q \in Range(R) : r # q => ExtentIn(m, r) \cap ExtentIn(m, q) = {}
  /\ \A r \in Range(R), i \in NativesOf(L) : ExtentIn(m, r) \cap Results(L[i]) = {}
  /\ \A i, j \in NativesOf(L) : i # j => Results(L[i]) \cap Results(L[j]) = {}

Good(m, R, L) ==
  /\ Cellular(m) /\ Listing(R, L)
  /\ AllSound(m, R) /\ AllFill(m, L) /\ Apart(m, R, L) /\ AllVisit(m, L)

Inv == Good(mem, refs, loops)
-----------------------------------------------------------------------------
(* Numbers.                                                                *)

(* A set of numbers has a least one.                                       *)
LEMMA Least ==
  ASSUME NEW T \in SUBSET Nat, T # {}
  PROVE  \E m \in T : \A n \in T : m <= n
<1>0. PICK b \in T : TRUE
  OBVIOUS
<1> DEFINE F == {T \cap (0 .. n) : n \in T \cap (0 .. b)}
           R == StrictSubsetOrdering(0 .. b)
<1>1. IsFiniteSet(0 .. b)
  BY <1>0, FS_Interval
<1>2. IsWellFoundedOn(R, FiniteSubsetsOf(0 .. b))
  BY <1>1, FS_StrictSubsetOrderingWellFounded
<1>3. F \subseteq FiniteSubsetsOf(0 .. b) /\ F # {}
  <2>1. \A n \in T \cap (0 .. b) : T \cap (0 .. n) \subseteq 0 .. b
    BY <1>0
  <2>2. b \in T \cap (0 .. b)
    BY <1>0
  <2>3. \A n \in T \cap (0 .. b) : IsFiniteSet(T \cap (0 .. n))
    BY <1>1, <2>1, FS_Subset
  <2> QED BY <2>1, <2>2, <2>3 DEF FiniteSubsetsOf
<1>4. PICK m \in T \cap (0 .. b) : \A y \in F : <<y, T \cap (0 .. m)>> \notin R
  <2> HIDE DEF R, F
  <2>1. \E x \in F : \A y \in F : ~ (<<y, x>> \in R)
    BY <1>2, <1>3, WFMin
  <2> QED BY <2>1 DEF F
<1>5. ASSUME NEW n \in T, n < m PROVE FALSE
  <2>1. n \in T \cap (0 .. b) /\ T \cap (0 .. n) \subseteq T \cap (0 .. m) /\ m \notin T \cap (0 .. n)
    BY <1>0, <1>4, <1>5
  <2>2. T \cap (0 .. n) # T \cap (0 .. m)
    BY <2>1
  <2>3. T \cap (0 .. n) \in SUBSET (0 .. b) /\ T \cap (0 .. m) \in SUBSET (0 .. b)
    BY <2>1
  <2>4. <<T \cap (0 .. n), T \cap (0 .. m)>> \in R
    BY <2>1, <2>2, <1>3, <1>4 DEF StrictSubsetOrdering
  <2> QED BY <1>4, <2>1, <2>4
<1> QED BY <1>4, <1>5

(* It is the one Min chooses.                                              *)
LEMMA Smallest ==
  ASSUME NEW T \in SUBSET Nat, T # {}
  PROVE  Min(T) \in T /\ \A n \in T : Min(T) <= n
<1>1. \E m \in T : \A n \in T : m <= n
  BY Least
<1> QED BY <1>1 DEF Min

(* Of two numbers.                                                         *)
LEMMA OfTwo ==
  ASSUME NEW a \in Int, NEW b \in Int
  PROVE  /\ Min({a, b}) = IF a <= b THEN a ELSE b
         /\ Max({a, b}) = IF a <= b THEN b ELSE a
  BY DEF Min, Max

LEMMA Division ==
  ASSUME NEW P \in Nat \ {0}, NEW i \in Nat
  PROVE  /\ i \div P \in Nat /\ (i % P) \in 0 .. P - 1
         /\ i = (i \div P) * P + (i % P)
  OBVIOUS

LEMMA Quotient ==
  ASSUME NEW P \in Nat \ {0}, NEW q \in Nat, NEW k \in Nat, k * P <= q * P + P - 1
  PROVE  k <= q
<1>1. SUFFICES ASSUME k >= q + 1 PROVE FALSE
  BY <1>1
<1>2. k * P >= (q + 1) * P
  BY <1>1
<1>3. (q + 1) * P = q * P + P
  OBVIOUS
<1> QED BY <1>2, <1>3

(* A byte lies in one of the cells there are for bytes.                    *)
LEMMA CellCount ==
  ASSUME NEW n \in Nat
  PROVE  /\ Cells(n) \in Nat
         /\ \A i \in 0 .. n - 1 : i \div PerCell \in Nat /\ i \div PerCell < Cells(n)
                                  /\ (i % PerCell) \in 0 .. PerCell - 1
<1> DEFINE P == PerCell
           q == (n + P - 1) \div P
<1>0. P \in Nat \ {0}
  BY ContainerConstants
<1> HIDE DEF P
<1>1. n + P - 1 \in Nat
  BY <1>0
<1>2. q \in Nat /\ n + P - 1 = q * P + ((n + P - 1) % P) /\ ((n + P - 1) % P) \in 0 .. P - 1
  BY <1>1, <1>0, Division
<1> HIDE DEF q
<1>3. ASSUME NEW i \in 0 .. n - 1 PROVE i \div P \in Nat /\ i \div P < q /\ (i % P) \in 0 .. P - 1
  <2> DEFINE d == i \div P
  <2>1. i \in Nat /\ i <= n - 1
    BY <1>3
  <2>2. d \in Nat /\ i = d * P + (i % P) /\ (i % P) \in 0 .. P - 1
    BY <2>1, <1>0, Division
  <2> HIDE DEF d
  <2>3. (d + 1) * P = d * P + P /\ d * P \in Nat /\ q * P \in Nat
    BY <1>0, <1>2, <2>2
  <2>4. (d + 1) * P <= q * P + P - 1
    BY <1>0, <1>2, <2>1, <2>2, <2>3
  <2>5. d + 1 <= q
    BY <1>0, <1>2, <2>2, <2>4, Quotient
  <2> QED BY <1>2, <2>2, <2>5 DEF d
<1> QED BY <1>2, <1>3 DEF Cells, P, q
-----------------------------------------------------------------------------
(* Copying.                                                                *)

(* What is copied upwards is what was there, if the cells it is copied to  *)
(* lie below those it is copied from, or apart from them.                  *)
LEMMA Copying ==
  ASSUME NEW to \in Nat, NEW from \in Nat, NEW n \in Nat, mem \in Seq(Cell),
         to .. to + n - 1 \subseteq DOMAIN mem, from .. from + n - 1 \subseteq DOMAIN mem,
         to <= from \/ from + n <= to
  PROVE  Copied(to, from, n) =
           [c \in DOMAIN mem |-> IF c \in to .. to + n - 1 THEN mem[from + c - to] ELSE mem[c]]
<1> DEFINE Step(f) == [i \in 0 .. n |-> IF i = 0 THEN mem
                         ELSE [f[i - 1] EXCEPT ![to + i - 1] = f[i - 1][from + i - 1]]]
           Image(i) == [c \in DOMAIN mem |->
                          IF c \in to .. to + i - 1 THEN mem[from + c - to] ELSE mem[c]]
           G == [i \in 0 .. n |-> Image(i)]
           f == CHOOSE f : f = Step(f)
<1>1. Copied(to, from, n) = f[n]
  BY DEF Copied
<1>2. Image(0) = mem
  OBVIOUS
<1>3. ASSUME NEW i \in 1 .. n
      PROVE  Image(i) = [Image(i - 1) EXCEPT ![to + i - 1] = Image(i - 1)[from + i - 1]]
  <2>1. to + i - 1 \in DOMAIN mem /\ from + i - 1 \in DOMAIN mem
    BY <1>3
  <2>2. from + i - 1 \notin to .. to + (i - 1) - 1
    BY <1>3
  <2>3. Image(i - 1)[from + i - 1] = mem[from + i - 1]
    BY <2>1, <2>2
  <2>4. ASSUME NEW c \in DOMAIN mem
        PROVE  Image(i)[c] = IF c = to + i - 1 THEN mem[from + i - 1] ELSE Image(i - 1)[c]
    <3>1. CASE c = to + i - 1
      BY <3>1, <1>3, <2>1
    <3>2. CASE c # to + i - 1
      <4>1. c \in to .. to + i - 1 <=> c \in to .. to + (i - 1) - 1
        BY <3>2, <1>3
      <4> QED BY <4>1, <3>2
    <3> QED BY <3>1, <3>2
  <2> QED BY <2>1, <2>3, <2>4
<1>4. G = Step(G)
  <2> HIDE DEF Image
  <2>1. ASSUME NEW i \in 0 .. n PROVE G[i] = Step(G)[i]
    <3>1. CASE i = 0
      BY <3>1, <1>2
    <3>2. CASE i # 0
      <4>1. i \in 1 .. n /\ i - 1 \in 0 .. n
        BY <3>2
      <4> QED BY <4>1, <1>3, <3>2
    <3> QED BY <3>1, <3>2
  <2> QED BY <2>1
<1>5. f = Step(f)
  <2> HIDE DEF G, Step
  <2> QED BY <1>4
<1>6. \A i \in 0 .. n : f[i] = G[i]
  <2> DEFINE T == {i \in 0 .. n : f[i] # G[i]}
  <2> HIDE DEF f
  <2>1. SUFFICES ASSUME T # {} PROVE FALSE
    OBVIOUS
  <2>2. PICK m \in T : \A k \in T : m <= k
    <3>1. T \in SUBSET Nat
      OBVIOUS
    <3> HIDE DEF T
    <3> QED BY <2>1, <3>1, Least
  <2>3. m \in 0 .. n /\ f[m] # G[m]
    BY <2>2
  <2>4. m # 0
    <3>1. f[0] = mem /\ G[0] = mem
      BY <1>5, <1>2
    <3> QED BY <3>1, <2>3
  <2>5. m - 1 \in 0 .. n /\ f[m - 1] = G[m - 1]
    <3>1. m - 1 \in 0 .. n /\ ~ m <= m - 1
      BY <2>3, <2>4
    <3> QED BY <3>1, <2>2
  <2>6. f[m] = [f[m - 1] EXCEPT ![to + m - 1] = f[m - 1][from + m - 1]]
    <3> HIDE DEF G, T
    <3> QED BY <1>5, <2>3, <2>4
  <2>7. G[m] = [G[m - 1] EXCEPT ![to + m - 1] = G[m - 1][from + m - 1]]
    <3> HIDE DEF Image, T, f
    <3>1. Step(G)[m] = [G[m - 1] EXCEPT ![to + m - 1] = G[m - 1][from + m - 1]]
      <4> HIDE DEF G
      <4> QED BY <2>3, <2>4
    <3> QED BY <1>4, <3>1
  <2> QED BY <2>3, <2>5, <2>6, <2>7
<1>7. n \in 0 .. n /\ f[n] = G[n]
  <2> HIDE DEF f, G
  <2> QED BY <1>6
<1>8. G[n] = Image(n)
  <2> HIDE DEF f, Image
  <2> QED BY <1>7
<1> HIDE DEF f, G
<1> QED BY <1>1, <1>7, <1>8

CanCopy(to, from, n) ==
  /\ to \in Nat /\ from \in Nat /\ n \in Nat /\ mem \in Seq(Cell)
  /\ to .. to + n - 1 \subseteq DOMAIN mem /\ from .. from + n - 1 \subseteq DOMAIN mem
  /\ to <= from \/ from + n <= to

Moved(to, from, n) ==
  [c \in DOMAIN mem |-> IF c \in to .. to + n - 1 THEN mem[from + c - to] ELSE mem[c]]

LEMMA CopyIs ==
  ASSUME NEW to, NEW from, NEW n, CanCopy(to, from, n)
  PROVE  Copied(to, from, n) = Moved(to, from, n)
<1>1. /\ to \in Nat /\ from \in Nat /\ n \in Nat /\ mem \in Seq(Cell)
      /\ to .. to + n - 1 \subseteq DOMAIN mem /\ from .. from + n - 1 \subseteq DOMAIN mem
      /\ to <= from \/ from + n <= to
  BY DEF CanCopy
<1> QED BY <1>1, Copying DEF Moved
-----------------------------------------------------------------------------
(* What a step leaves alone.                                               *)

(* The keys of a map are where they were, and there may be more of them.   *)
KeysKept(m, w, r) ==
  m[r].n = TYPE_MAP =>
    /\ m[r + 2].n <= w[r + 2].n
    /\ \A i \in 0 .. m[r + 2].n - 1 : KeyIn(w, r, i) = KeyIn(m, r, i)

(* An object whose cells stay as they are stays what it is.                *)
LEMMA SoundSame ==
  ASSUME NEW m \in Seq(Cell), NEW w \in Seq(Cell), NEW r, SoundIn(m, r),
         \A c \in ExtentIn(m, r) : c \in DOMAIN w /\ w[c] = m[c]
  PROVE  /\ SoundIn(w, r) /\ ExtentIn(w, r) = ExtentIn(m, r)
         /\ w[r].n = m[r].n /\ KeysKept(m, w, r)
<1>1. r \in Nat \ {0} /\ m[r].n \in {-1, -2, -3}
  BY DEF SoundIn, TYPE_ARRAY, TYPE_BYTES, TYPE_MAP
<1>2. CASE m[r].n = TYPE_MAP
  <2> DEFINE cap == m[r + 1].n
             count == m[r + 2].n
             data == m[r + 3].n
  <2>1. /\ cap \in Nat \ {0} /\ count \in 0 .. cap /\ data \in Nat \ {0} /\ r + 4 <= data
        /\ \A i, j \in 0 .. count - 1 : KeyIn(m, r, i) = KeyIn(m, r, j) => i = j
    BY <1>2 DEF SoundIn
  <2>2. ExtentIn(m, r) = (r .. r + 3) \cup (data .. data + cap * 2 - 1)
    BY <1>2 DEF ExtentIn
  <2>3. w[r] = m[r] /\ w[r + 1] = m[r + 1] /\ w[r + 2] = m[r + 2] /\ w[r + 3] = m[r + 3]
    <3> HIDE DEF cap, count, data
    <3>1. \A c \in {r, r + 1, r + 2, r + 3} : c \in ExtentIn(m, r)
      BY <1>1, <2>2
    <3> QED BY <3>1
  <2>4. ExtentIn(w, r) = ExtentIn(m, r)
    BY <2>2, <2>3, <1>2 DEF ExtentIn
  <2>5. \A i \in 0 .. count - 1 : KeyIn(w, r, i) = KeyIn(m, r, i)
    <3>1. ASSUME NEW i \in 0 .. count - 1 PROVE KeyIn(w, r, i) = KeyIn(m, r, i)
      <4>1. data + i * 2 \in data .. data + cap * 2 - 1
        <5> HIDE DEF cap, count, data
        <5> QED BY <2>1, <3>1
      <4>2. w[data + i * 2] = m[data + i * 2]
        <5> HIDE DEF cap, count, data
        <5> QED BY <4>1, <2>2
      <4> QED BY <4>2, <2>3 DEF KeyIn
    <3> QED BY <3>1
  <2>6. ExtentIn(m, r) \subseteq DOMAIN w
    OBVIOUS
  <2>7. TYPE_MAP # TYPE_BYTES /\ TYPE_MAP \notin Listed
    BY DEF TYPE_MAP, TYPE_BYTES, TYPE_ARRAY, Listed
  <2>8. KeysKept(m, w, r)
    BY <2>1, <2>3, <2>5 DEF KeysKept
  <2>9. /\ w[r].n = TYPE_MAP /\ w[r + 1].n = cap /\ w[r + 2].n = count /\ w[r + 3].n = data
        /\ \A i, j \in 0 .. count - 1 : KeyIn(w, r, i) = KeyIn(w, r, j) => i = j
    BY <1>2, <2>1, <2>3, <2>5
  <2>10. SoundIn(w, r)
    <3> HIDE DEF cap, count, data
    <3> QED BY <1>1, <1>2, <2>1, <2>4, <2>6, <2>7, <2>9 DEF SoundIn, TYPE_MAP
  <2> QED BY <2>3, <2>4, <2>8, <2>10
<1>3. CASE m[r].n # TYPE_MAP
  <2> DEFINE size == IF m[r].n = TYPE_BYTES THEN Cells(m[r + 1].n) ELSE m[r + 1].n
  <2>1. m[r].n \in Listed /\ m[r + 1].n \in Nat
    BY <1>1, <1>3 DEF SoundIn, Listed, TYPE_ARRAY, TYPE_BYTES, TYPE_MAP
  <2>2. size \in Nat
    BY <2>1, CellCount
  <2>3. ExtentIn(m, r) = r .. r + 1 + size
    BY <1>3 DEF ExtentIn
  <2>4. w[r] = m[r] /\ w[r + 1] = m[r + 1]
    <3>1. r \in r .. r + 1 + size /\ r + 1 \in r .. r + 1 + size
      BY <1>1, <2>2
    <3> HIDE DEF size
    <3> QED BY <3>1, <2>3
  <2>5. ExtentIn(w, r) = ExtentIn(m, r)
    BY <2>4, <1>3 DEF ExtentIn
  <2>6. m[r].n = TYPE_BYTES => \A c \in r + 2 .. r + 1 + Cells(m[r + 1].n) : w[c] = m[c]
    <3>1. m[r].n = TYPE_BYTES => r + 2 .. r + 1 + Cells(m[r + 1].n) \subseteq r .. r + 1 + size
      BY <1>1, <2>2
    <3> HIDE DEF size
    <3> QED BY <3>1, <2>3
  <2>7. ExtentIn(m, r) \subseteq DOMAIN w
    OBVIOUS
  <2> HIDE DEF size
  <2> QED BY <1>1, <1>3, <2>1, <2>4, <2>5, <2>6, <2>7 DEF SoundIn, KeysKept
<1> QED BY <1>2, <1>3

(* A header is inside its object.                                          *)
LEMMA OwnHeader ==
  ASSUME NEW m, NEW r, SoundIn(m, r)
  PROVE  /\ r \in ExtentIn(m, r) /\ r + 1 \in ExtentIn(m, r) /\ r \in Nat \ {0}
         /\ m[r].n = TYPE_MAP => r + 2 \in ExtentIn(m, r) /\ r + 3 \in ExtentIn(m, r)
<1>1. r \in Nat \ {0} /\ m[r].n \in {-1, -2, -3}
  BY DEF SoundIn, TYPE_ARRAY, TYPE_BYTES, TYPE_MAP
<1>2. CASE m[r].n = TYPE_MAP
  BY <1>1, <1>2 DEF ExtentIn
<1>3. CASE m[r].n # TYPE_MAP
  <2> DEFINE size == IF m[r].n = TYPE_BYTES THEN Cells(m[r + 1].n) ELSE m[r + 1].n
  <2>1. m[r].n \in Listed /\ m[r + 1].n \in Nat
    BY <1>1, <1>3 DEF SoundIn, Listed, TYPE_ARRAY, TYPE_BYTES, TYPE_MAP
  <2>2. size \in Nat
    BY <2>1, CellCount
  <2>3. ExtentIn(m, r) = r .. r + 1 + size
    BY <1>3 DEF ExtentIn
  <2> HIDE DEF size
  <2> QED BY <1>1, <1>3, <2>2, <2>3
<1> QED BY <1>2, <1>3

LEMMA FillSame ==
  ASSUME NEW m \in Seq(Cell), NEW w \in Seq(Cell), NEW l \in LoopType, FillsIn(m, l),
         Len(m) <= Len(w), w[l.res] = m[l.res], w[l.res + 1] = m[l.res + 1]
  PROVE  FillsIn(w, l)
<1>1. l.arr \in Nat /\ l.len \in Nat /\ l.res \in Nat /\ Len(m) \in Nat /\ Len(w) \in Nat
  BY DEF LoopType
<1> QED BY <1>1 DEF FillsIn

LEMMA VisitSame ==
  ASSUME NEW m, NEW w, NEW l \in LoopType, VisitsIn(m, l), SoundIn(m, l.arr), SoundIn(w, l.arr),
         w[l.arr].n = m[l.arr].n, KeysKept(m, w, l.arr)
  PROVE  VisitsIn(w, l)
<1>1. SUFFICES ASSUME l.by = "for", ~l.shrunk, m[l.arr].n = TYPE_MAP
               PROVE  /\ Len(l.seen) = l.idx + IF l.body THEN 1 ELSE 0
                      /\ Len(l.seen) <= w[l.arr + 2].n
                      /\ \A j \in 1 .. Len(l.seen) : l.seen[j] = KeyIn(w, l.arr, j - 1)
  BY DEF VisitsIn
<1>2. /\ Len(l.seen) = l.idx + IF l.body THEN 1 ELSE 0
      /\ Len(l.seen) <= m[l.arr + 2].n
      /\ \A j \in 1 .. Len(l.seen) : l.seen[j] = KeyIn(m, l.arr, j - 1)
  BY <1>1 DEF VisitsIn
<1>3. /\ m[l.arr + 2].n \in Nat /\ w[l.arr + 2].n \in Nat /\ m[l.arr + 2].n <= w[l.arr + 2].n
      /\ \A i \in 0 .. m[l.arr + 2].n - 1 : KeyIn(w, l.arr, i) = KeyIn(m, l.arr, i)
  BY <1>1 DEF SoundIn, KeysKept
<1>4. Len(l.seen) \in Nat
  BY DEF LoopType
<1>5. \A j \in 1 .. Len(l.seen) : j - 1 \in 0 .. m[l.arr + 2].n - 1
  BY <1>2, <1>3, <1>4
<1> QED BY <1>2, <1>3, <1>4, <1>5
-----------------------------------------------------------------------------
(* Ways a state stays good.                                                *)

LEMMA NativeCount ==
  ASSUME NEW L \in Seq(LoopType)
  PROVE  /\ NativesOf(L) \subseteq 1 .. Len(L) /\ IsFiniteSet(NativesOf(L))
         /\ Cardinality(NativesOf(L)) \in Nat /\ Cardinality(NativesOf(L)) <= Len(L)
<1>1. NativesOf(L) \subseteq 1 .. Len(L) /\ Len(L) \in Nat
  BY DEF NativesOf
<1>2. IsFiniteSet(1 .. Len(L)) /\ Cardinality(1 .. Len(L)) = Len(L)
  <2>1. \A k \in Nat : IsFiniteSet(1 .. k) /\ Cardinality(1 .. k) = k
    <3>1. \A k \in Nat : IsFiniteSet(1 .. k) /\ Cardinality(1 .. k) = IF 1 > k THEN 0 ELSE k - 1 + 1
      BY FS_Interval
    <3> QED BY <3>1
  <2> QED BY <2>1, <1>1
<1> QED BY <1>1, <1>2, FS_Subset, FS_CardinalityType

(* The cells of a list a native fills are in the heap.                     *)
LEMMA OwnResults ==
  ASSUME NEW m \in Seq(Cell), NEW l \in LoopType, FillsIn(m, l)
  PROVE  /\ l.res \in Results(l) /\ l.res + 1 \in Results(l)
         /\ Results(l) \subseteq DOMAIN m /\ l.res \in Nat \ {0} /\ l.len \in Nat
<1>1. l.len \in Nat /\ l.res \in Nat /\ Len(m) \in Nat
  BY DEF LoopType
<1> QED BY <1>1 DEF FillsIn, Results

(* Cells are written that no object has, and no list but behind its        *)
(* header.                                                                 *)
Spared(m, w, R, L) ==
  /\ \A r \in Range(R) : \A c \in ExtentIn(m, r) : w[c] = m[c]
  /\ \A i \in NativesOf(L) : w[L[i].res] = m[L[i].res] /\ w[L[i].res + 1] = m[L[i].res + 1]

LEMMA Elsewhere ==
  ASSUME NEW m, NEW w, NEW R, NEW L, Good(m, R, L), Cellular(w), Len(m) <= Len(w),
         Spared(m, w, R, L)
  PROVE  Good(w, R, L) /\ \A r \in Range(R) : ExtentIn(w, r) = ExtentIn(m, r)
<1>1. m \in Seq(Cell) /\ w \in Seq(Cell) /\ Listing(R, L)
  BY DEF Good, Cellular
<1>2. DOMAIN m \subseteq DOMAIN w
  BY <1>1
<1>3. \A r \in Range(R) : /\ SoundIn(m, r) /\ SoundIn(w, r) /\ ExtentIn(w, r) = ExtentIn(m, r)
                          /\ w[r].n = m[r].n /\ KeysKept(m, w, r)
  <2>1. ASSUME NEW r \in Range(R)
        PROVE  /\ SoundIn(m, r) /\ SoundIn(w, r) /\ ExtentIn(w, r) = ExtentIn(m, r)
               /\ w[r].n = m[r].n /\ KeysKept(m, w, r)
    <3>1. SoundIn(m, r)
      BY DEF Good, AllSound
    <3>2. \A c \in ExtentIn(m, r) : c \in DOMAIN w /\ w[c] = m[c]
      BY <3>1, <1>2 DEF SoundIn, Spared
    <3> QED BY <3>1, <3>2, <1>1, SoundSame
  <2> QED BY <2>1
<1>4. AllFill(w, L)
  <2>1. ASSUME NEW i \in NativesOf(L) PROVE FillsIn(w, L[i])
    <3>1. L[i] \in LoopType /\ FillsIn(m, L[i])
      BY <1>1 DEF Good, AllFill, NativesOf, Listing
    <3> QED BY <3>1, <1>1, FillSame DEF Spared
  <2> QED BY <2>1 DEF AllFill
<1>5. AllVisit(w, L)
  <2>1. ASSUME NEW i \in DOMAIN L PROVE VisitsIn(w, L[i])
    <3>1. L[i] \in LoopType /\ VisitsIn(m, L[i]) /\ L[i].arr \in Range(R)
      BY <1>1 DEF Good, AllVisit, Listing
    <3> QED BY <3>1, <1>3, VisitSame
  <2> QED BY <2>1 DEF AllVisit
<1>6. Apart(w, R, L)
  <2>1. Apart(m, R, L)
    BY DEF Good
  <2> QED BY <2>1, <1>3 DEF Apart
<1> QED BY <1>1, <1>3, <1>4, <1>5, <1>6 DEF Good, AllSound

(* A loop as it was, but that it may know the object shrank.               *)
Alike(k, l) ==
  /\ k.by = l.by /\ k.arr = l.arr /\ k.idx = l.idx /\ k.len = l.len /\ k.body = l.body
  /\ k.val = l.val /\ k.res = l.res /\ k.kept = l.kept /\ k.seen = l.seen
  /\ l.shrunk => k.shrunk

(* One object is written, and may go on in new cells; if it is a map its   *)
(* keys stay, or its loops know.                                           *)
LEMMA Written1 ==
  ASSUME NEW m, NEW w, NEW R, NEW L, NEW K, NEW r \in Range(R),
         Good(m, R, L), Cellular(w), Len(m) <= Len(w),
         \A c \in DOMAIN m \ ExtentIn(m, r) : w[c] = m[c],
         SoundIn(w, r), w[r].n = m[r].n,
         ExtentIn(w, r) \subseteq ExtentIn(m, r) \cup (Len(m) + 1 .. Len(w)),
         K \in Seq(LoopType), Len(K) = Len(L), \A i \in DOMAIN L : Alike(K[i], L[i]),
         KeysKept(m, w, r) \/ \A i \in DOMAIN L : L[i].arr = r => K[i].shrunk
  PROVE  Good(w, R, K)
<1>1. m \in Seq(Cell) /\ w \in Seq(Cell) /\ Listing(R, L) /\ Apart(m, R, L)
  BY DEF Good, Cellular
<1>2. DOMAIN m \subseteq DOMAIN w /\ DOMAIN m \cap (Len(m) + 1 .. Len(w)) = {}
  BY <1>1
<1>3. \A q \in Range(R) : SoundIn(m, q) /\ ExtentIn(m, q) \subseteq DOMAIN m
  BY DEF Good, AllSound, SoundIn
<1>4. \A q \in Range(R) : q # r =>
        /\ SoundIn(w, q) /\ ExtentIn(w, q) = ExtentIn(m, q)
        /\ w[q].n = m[q].n /\ KeysKept(m, w, q)
  <2>1. ASSUME NEW q \in Range(R), q # r
        PROVE  /\ SoundIn(w, q) /\ ExtentIn(w, q) = ExtentIn(m, q)
               /\ w[q].n = m[q].n /\ KeysKept(m, w, q)
    <3>1. SoundIn(m, q) /\ ExtentIn(m, q) \subseteq DOMAIN m /\ ExtentIn(m, q) \cap ExtentIn(m, r) = {}
      BY <1>1, <1>3, <2>1 DEF Apart
    <3>2. \A c \in ExtentIn(m, q) : c \in DOMAIN w /\ w[c] = m[c]
      BY <3>1, <1>2
    <3> QED BY <3>1, <3>2, <1>1, SoundSame
  <2> QED BY <2>1
<1>5. \A q \in Range(R) : SoundIn(w, q) /\ w[q].n = m[q].n
  BY <1>4
<1>6. DOMAIN K = DOMAIN L /\ NativesOf(K) = NativesOf(L) /\ \A i \in DOMAIN L : Results(K[i]) = Results(L[i])
  <2>1. DOMAIN K = DOMAIN L
    BY <1>1 DEF Listing
  <2> QED BY <2>1 DEF NativesOf, Results, Alike
<1>7. \A i \in NativesOf(L) : /\ L[i] \in LoopType /\ FillsIn(m, L[i]) /\ i \in DOMAIN L
                              /\ Results(L[i]) \subseteq DOMAIN m
  <2>1. \A i \in NativesOf(L) : L[i] \in LoopType /\ FillsIn(m, L[i]) /\ i \in DOMAIN L
    BY <1>1 DEF Good, AllFill, NativesOf, Listing
  <2> QED BY <2>1, <1>1, OwnResults
<1>8. Listing(R, K)
  BY <1>1, <1>6 DEF Listing, Alike
<1>9. AllFill(w, K)
  <2>1. ASSUME NEW i \in NativesOf(L) PROVE FillsIn(w, K[i])
    <3>1. /\ L[i] \in LoopType /\ FillsIn(m, L[i]) /\ Alike(K[i], L[i])
          /\ Results(L[i]) \cap ExtentIn(m, r) = {} /\ Results(L[i]) \subseteq DOMAIN m
      BY <1>1, <1>7 DEF Apart
    <3>2. L[i].res \in Results(L[i]) /\ L[i].res + 1 \in Results(L[i])
      BY <3>1, <1>1, OwnResults
    <3>3. w[L[i].res] = m[L[i].res] /\ w[L[i].res + 1] = m[L[i].res + 1]
      BY <3>1, <3>2
    <3>4. FillsIn(w, L[i])
      BY <3>1, <3>3, <1>1, FillSame
    <3> QED BY <3>1, <3>4 DEF FillsIn, Alike
  <2> QED BY <2>1, <1>6 DEF AllFill
<1>10. AllVisit(w, K)
  <2>1. ASSUME NEW i \in DOMAIN L PROVE VisitsIn(w, K[i])
    <3>1. /\ L[i] \in LoopType /\ VisitsIn(m, L[i]) /\ L[i].arr \in Range(R) /\ Alike(K[i], L[i])
      BY <1>1 DEF Good, AllVisit, Listing
    <3>2. CASE K[i].shrunk
      BY <3>2 DEF VisitsIn
    <3>3. CASE ~ K[i].shrunk
      <4>1. KeysKept(m, w, L[i].arr)
        BY <3>1, <3>3, <1>4
      <4>2. VisitsIn(w, L[i])
        BY <4>1, <3>1, <1>3, <1>5, VisitSame
      <4> QED BY <4>2, <3>1 DEF VisitsIn, Alike
    <3> QED BY <3>2, <3>3
  <2> QED BY <2>1, <1>6 DEF AllVisit
<1>11. Apart(w, R, K)
  <2>1. \A q \in Range(R) : q # r => ExtentIn(w, q) \cap ExtentIn(w, r) = {}
    BY <1>1, <1>2, <1>3, <1>4 DEF Apart
  <2>2. \A i \in NativesOf(L) : ExtentIn(w, r) \cap Results(L[i]) = {}
    BY <1>1, <1>2, <1>7 DEF Apart
  <2> QED BY <2>1, <2>2, <1>1, <1>4, <1>6, <1>7 DEF Apart
<1> QED BY <1>5, <1>8, <1>9, <1>10, <1>11 DEF Good, AllSound

LEMMA Fronts ==
  ASSUME NEW S, NEW s \in Seq(S), s # <<>>
  PROVE  /\ Len(s) \in Nat /\ Len(s) >= 1
         /\ Front(s) \in Seq(S) /\ Len(Front(s)) = Len(s) - 1
         /\ \A i \in 1 .. Len(s) - 1 : Front(s)[i] = s[i]
         /\ Last(s) = s[Len(s)] /\ Last(s) \in S
<1>1. Len(s) \in Nat /\ Len(s) >= 1
  BY EmptySeq, LenProperties
<1>2. \A i \in 1 .. Len(s) : s[i] \in S
  BY ElementOfSeq
<1>3. 1 \in Int /\ Len(s) - 1 \in Int /\ \A i \in 1 .. Len(s) - 1 : s[i] \in S
  BY <1>1, <1>2
<1>4. /\ SubSeq(s, 1, Len(s) - 1) \in Seq(S)
      /\ Len(SubSeq(s, 1, Len(s) - 1)) = IF 1 <= Len(s) - 1 THEN Len(s) - 1 - 1 + 1 ELSE 0
      /\ \A i \in 1 .. Len(s) - 1 - 1 + 1 : SubSeq(s, 1, Len(s) - 1)[i] = s[1 + i - 1]
  BY <1>3, SubSeqProperties
<1>5. Front(s) = SubSeq(s, 1, Len(s) - 1) /\ Last(s) = s[Len(s)]
  BY DEF Front, Last
<1>6. Len(s) - 1 - 1 + 1 = Len(s) - 1
  BY <1>1
<1>7. \A i \in 1 .. Len(s) - 1 : s[1 + i - 1] = s[i]
  BY <1>1
<1>8. Len(s) \in 1 .. Len(s)
  BY <1>1
<1> QED BY <1>1, <1>2, <1>4, <1>5, <1>6, <1>7, <1>8

LEMMA Concatenated ==
  ASSUME NEW S, NEW s \in Seq(S), NEW t \in Seq(S)
  PROVE  /\ s \o t \in Seq(S) /\ Len(s \o t) = Len(s) + Len(t)
         /\ \A j \in 1 .. Len(s) + Len(t) : (s \o t)[j] = IF j <= Len(s) THEN s[j] ELSE t[j - Len(s)]
BY ConcatProperties, Zenon

LEMMA Appended ==
  ASSUME NEW S, NEW s \in Seq(S), NEW e \in S
  PROVE  /\ Append(s, e) \in Seq(S) /\ Len(Append(s, e)) = Len(s) + 1
         /\ \A i \in 1 .. Len(s) : Append(s, e)[i] = s[i]
         /\ Append(s, e)[Len(s) + 1] = e
  OBVIOUS

LEMMA Ranges ==
  ASSUME NEW S, NEW s \in Seq(S), NEW e \in S
  PROVE  Range(Append(s, e)) = Range(s) \cup {e}
<1>1. DOMAIN Append(s, e) = DOMAIN s \cup {Len(s) + 1}
  OBVIOUS
<1>2. /\ \A i \in DOMAIN s : Append(s, e)[i] = s[i]
      /\ Append(s, e)[Len(s) + 1] = e
  OBVIOUS
<1> QED BY <1>1, <1>2 DEF Range

(* The last element replaced.                                              *)
LEMMA Replaced ==
  ASSUME NEW S, NEW s \in Seq(S), s # <<>>, NEW e \in S
  PROVE  Append(Front(s), e) = [s EXCEPT ![Len(s)] = e]
<1> DEFINE f == Front(s)
           g == Append(f, e)
           h == [s EXCEPT ![Len(s)] = e]
<1>1. /\ Len(s) \in Nat /\ Len(s) >= 1
      /\ f \in Seq(S) /\ Len(f) = Len(s) - 1 /\ \A i \in 1 .. Len(s) - 1 : f[i] = s[i]
  BY Fronts
<1> HIDE DEF f
<1>2. /\ g \in Seq(S) /\ Len(g) = Len(f) + 1 /\ g[Len(f) + 1] = e
      /\ \A i \in 1 .. Len(f) : g[i] = f[i]
  BY <1>1, Appended
<1> HIDE DEF g
<1>3. /\ Len(g) = Len(s) /\ g[Len(s)] = e /\ \A i \in 1 .. Len(s) - 1 : g[i] = s[i]
  BY <1>1, <1>2
<1>4. h \in Seq(S) /\ Len(h) = Len(s) /\ \A i \in 1 .. Len(s) : h[i] = IF i = Len(s) THEN e ELSE s[i]
  BY <1>1
<1> HIDE DEF h
<1>5. \A i \in 1 .. Len(s) : g[i] = h[i]
  BY <1>1, <1>3, <1>4
<1>6. g = h
  BY <1>2, <1>3, <1>4, <1>5, SeqEqual
<1> QED BY <1>6 DEF f, g, h

(* The program gets a reference to an object that was nobody's.            *)
LEMMA WithRef ==
  ASSUME NEW m, NEW R, NEW L, NEW r, Good(m, R, L), SoundIn(m, r),
         \A q \in Range(R) : ExtentIn(m, q) \cap ExtentIn(m, r) = {},
         \A i \in NativesOf(L) : ExtentIn(m, r) \cap Results(L[i]) = {},
         Len(R) + Cardinality(NativesOf(L)) < MaxObjects + MaxLoops
  PROVE  Good(m, Append(R, r), L)
<1>1. m \in Seq(Cell) /\ Listing(R, L) /\ Apart(m, R, L) /\ AllSound(m, R)
  BY DEF Good, Cellular
<1>2. R \in Seq(Nat) /\ r \in Nat /\ L \in Seq(LoopType)
  BY <1>1 DEF SoundIn, Listing
<1>3. /\ Append(R, r) \in Seq(Nat) /\ Len(Append(R, r)) = Len(R) + 1
      /\ \A i \in 1 .. Len(R) : Append(R, r)[i] = R[i]
      /\ Append(R, r)[Len(R) + 1] = r
      /\ Range(Append(R, r)) = Range(R) \cup {r}
  BY <1>2, Appended, Ranges
<1>4. r \notin Range(R)
  <2>1. r \in ExtentIn(m, r)
    BY OwnHeader
  <2> QED BY <2>1
<1>5. IsInjective(Append(R, r))
  <2>1. DOMAIN Append(R, r) = 1 .. Len(R) + 1 /\ DOMAIN R = 1 .. Len(R) /\ Len(R) \in Nat
    BY <1>2, <1>3
  <2>2. IsInjective(R) /\ \A i \in 1 .. Len(R) : R[i] # r
    BY <1>1, <1>4, <2>1 DEF Listing, Range
  <2>3. \A i \in 1 .. Len(R) + 1 : i \in 1 .. Len(R) \/ i = Len(R) + 1
    BY <2>1
  <2> HIDE DEF Listing
  <2> QED BY <1>3, <2>1, <2>2, <2>3 DEF IsInjective
<1>6. Listing(Append(R, r), L)
  <2>1. Len(R) \in Nat /\ Cardinality(NativesOf(L)) \in Nat /\ MaxObjects \in Nat /\ MaxLoops \in Nat
    BY <1>2, NativeCount, ContainerConstants
  <2>2. Len(Append(R, r)) + Cardinality(NativesOf(L)) <= MaxObjects + MaxLoops
    BY <1>3, <2>1
  <2> QED BY <1>1, <1>3, <1>5, <2>2 DEF Listing
<1>7. Apart(m, Append(R, r), L)
  BY <1>1, <1>3 DEF Apart
<1>8. AllSound(m, Append(R, r))
  BY <1>1, <1>3 DEF AllSound
<1> QED BY <1>6, <1>7, <1>8 DEF Good

(* A loop begins.                                                          *)
LEMMA WithLoop ==
  ASSUME NEW m, NEW R, NEW L, NEW l \in LoopType, Good(m, R, L), Len(L) < MaxLoops,
         l.arr \in Range(R), VisitsIn(m, l),
         l.by # "for" =>
           /\ FillsIn(m, l) /\ Len(R) < MaxObjects
           /\ \A r \in Range(R) : ExtentIn(m, r) \cap Results(l) = {}
           /\ \A i \in NativesOf(L) : Results(L[i]) \cap Results(l) = {}
  PROVE  Good(m, R, Append(L, l))
<1>1. m \in Seq(Cell) /\ Listing(R, L) /\ Apart(m, R, L) /\ AllFill(m, L) /\ AllVisit(m, L)
  BY DEF Good, Cellular
<1>2. R \in Seq(Nat) /\ L \in Seq(LoopType)
  BY <1>1 DEF Listing
<1> DEFINE K == Append(L, l)
           last1 == Len(L) + 1
<1>3. /\ K \in Seq(LoopType) /\ Len(K) = last1 /\ K[last1] = l
      /\ \A i \in 1 .. Len(L) : K[i] = L[i]
  BY <1>2, Appended
<1>4. /\ DOMAIN K = 1 .. last1 /\ DOMAIN L = 1 .. Len(L) /\ Len(L) \in Nat
      /\ \A i \in 1 .. last1 : i \in 1 .. Len(L) \/ i = last1
      /\ last1 \notin DOMAIN L
  BY <1>2, <1>3
<1> HIDE DEF K, last1
<1>5. NativesOf(K) = IF l.by = "for" THEN NativesOf(L) ELSE NativesOf(L) \cup {last1}
  <2>1. \A i \in DOMAIN L : i \in DOMAIN K /\ K[i] = L[i]
    BY <1>3, <1>4 DEF last1
  <2>2. last1 \in DOMAIN K /\ \A i \in DOMAIN K : i \in DOMAIN L \/ i = last1
    BY <1>4 DEF last1
  <2> QED BY <1>3, <2>1, <2>2 DEF NativesOf
<1>6. last1 \notin NativesOf(L)
  BY <1>4 DEF NativesOf
<1>7. /\ NativesOf(L) \subseteq DOMAIN L /\ IsFiniteSet(NativesOf(L))
      /\ Cardinality(NativesOf(L)) \in Nat /\ Cardinality(NativesOf(L)) <= Len(L)
  BY <1>2, <1>4, NativeCount
<1>8. Len(R) + Cardinality(NativesOf(K)) <= MaxObjects + MaxLoops
  <2>1. CASE l.by = "for"
    BY <2>1, <1>5, <1>1 DEF Listing
  <2>2. CASE l.by # "for"
    <3>1. Cardinality(NativesOf(K)) = Cardinality(NativesOf(L)) + 1
      BY <2>2, <1>5, <1>6, <1>7, FS_AddElement
    <3>2. Len(R) \in Nat /\ Len(L) \in Nat /\ MaxLoops \in Nat /\ MaxObjects \in Nat
      BY <1>2, ContainerConstants
    <3> QED BY <3>1, <3>2, <2>2, <1>7
  <2> QED BY <2>1, <2>2
<1>9. Listing(R, K)
  <2>1. Len(K) <= MaxLoops
    <3>1. Len(L) \in Nat /\ MaxLoops \in Nat
      BY <1>2, ContainerConstants
    <3> QED BY <3>1, <1>3 DEF last1
  <2>2. \A i \in DOMAIN K : K[i].arr \in Range(R)
    BY <1>1, <1>3, <1>4 DEF Listing
  <2> QED BY <2>1, <2>2, <1>1, <1>3, <1>8 DEF Listing
<1>10. \A i \in NativesOf(L) : K[i] = L[i]
  BY <1>3, <1>4, <1>7
<1>11. AllFill(m, K)
  BY <1>1, <1>3, <1>5, <1>10 DEF AllFill
<1>12. AllVisit(m, K)
  BY <1>1, <1>3, <1>4 DEF AllVisit
<1>13. Apart(m, R, K)
  <2>1. CASE l.by = "for"
    BY <2>1, <1>1, <1>5, <1>10 DEF Apart
  <2>2. CASE l.by # "for"
    <3>1. \A r \in Range(R), i \in NativesOf(K) : ExtentIn(m, r) \cap Results(K[i]) = {}
      BY <2>2, <1>1, <1>3, <1>5, <1>10 DEF Apart
    <3>2. \A i, j \in NativesOf(K) : i # j => Results(K[i]) \cap Results(K[j]) = {}
      <4>1. \A i \in NativesOf(L) : Results(K[i]) \cap Results(K[last1]) = {}
        BY <2>2, <1>3, <1>10
      <4>2. \A i, j \in NativesOf(L) : i # j => Results(K[i]) \cap Results(K[j]) = {}
        BY <1>1, <1>10 DEF Apart
      <4> QED BY <4>1, <4>2, <2>2, <1>5
    <3> QED BY <3>1, <3>2, <1>1 DEF Apart
  <2> QED BY <2>1, <2>2
<1> QED BY <1>9, <1>11, <1>12, <1>13 DEF Good, K

(* A loop ends: what its native made is nobody's for the moment.           *)
LEMMA Fewer ==
  ASSUME NEW m, NEW R, NEW L, Good(m, R, L), L # <<>>
  PROVE  /\ Good(m, R, Front(L))
         /\ Last(L).by # "for" =>
              /\ FillsIn(m, Last(L)) /\ Last(L) \in LoopType
              /\ Len(R) + Cardinality(NativesOf(Front(L))) < MaxObjects + MaxLoops
              /\ \A r \in Range(R) : ExtentIn(m, r) \cap Results(Last(L)) = {}
              /\ \A i \in NativesOf(Front(L)) :
                   Results(Front(L)[i]) \cap Results(Last(L)) = {}
<1>1. m \in Seq(Cell) /\ Listing(R, L) /\ Apart(m, R, L) /\ AllFill(m, L) /\ AllVisit(m, L)
  BY DEF Good, Cellular
<1>2. R \in Seq(Nat) /\ L \in Seq(LoopType)
  BY <1>1 DEF Listing
<1> DEFINE K == Front(L)
           n == Len(L)
           l == Last(L)
<1>3. /\ n \in Nat \ {0} /\ l = L[n] /\ l \in LoopType
      /\ K \in Seq(LoopType) /\ Len(K) = n - 1
      /\ \A i \in 1 .. n - 1 : K[i] = L[i]
  <2>1. Len(L) \in Nat /\ Len(L) >= 1 => Len(L) \in Nat \ {0}
    OBVIOUS
  <2> QED BY <1>2, <2>1, Fronts
<1>4. /\ DOMAIN K = 1 .. n - 1 /\ DOMAIN L = 1 .. n
      /\ \A i \in 1 .. n : i \in 1 .. n - 1 \/ i = n
      /\ n \notin DOMAIN K /\ DOMAIN K \subseteq DOMAIN L /\ n \in DOMAIN L
  BY <1>2, <1>3
<1> HIDE DEF K, n, l
<1>5. NativesOf(L) = IF l.by = "for" THEN NativesOf(K) ELSE NativesOf(K) \cup {n}
  <2>1. \A i \in DOMAIN K : i \in DOMAIN L /\ K[i] = L[i]
    BY <1>3, <1>4
  <2>2. \A i \in DOMAIN L : i \in DOMAIN K \/ i = n
    BY <1>4
  <2> QED BY <1>3, <1>4, <2>1, <2>2 DEF NativesOf
<1>6. n \notin NativesOf(K)
  BY <1>4 DEF NativesOf
<1>7. /\ NativesOf(K) \subseteq DOMAIN K /\ IsFiniteSet(NativesOf(K))
      /\ Cardinality(NativesOf(K)) \in Nat
  BY <1>3, <1>4, NativeCount
<1>8. Cardinality(NativesOf(L)) = Cardinality(NativesOf(K)) + IF l.by = "for" THEN 0 ELSE 1
  <2>1. Cardinality(NativesOf(K) \cup {n}) = Cardinality(NativesOf(K)) + 1
    BY <1>6, <1>7, FS_AddElement
  <2> QED BY <2>1, <1>5, <1>7
<1>9. Len(R) \in Nat /\ MaxLoops \in Nat /\ MaxObjects \in Nat
  BY <1>2, ContainerConstants
<1>10. Listing(R, K)
  <2>1. Len(K) <= MaxLoops
    BY <1>1, <1>3, <1>9 DEF Listing, n
  <2>2. \A i \in DOMAIN K : K[i].arr \in Range(R)
    BY <1>1, <1>3, <1>4 DEF Listing
  <2>3. Len(R) + Cardinality(NativesOf(K)) <= MaxObjects + MaxLoops
    BY <1>1, <1>7, <1>8, <1>9 DEF Listing
  <2> QED BY <2>1, <2>2, <2>3, <1>1, <1>3 DEF Listing
<1>11. \A i \in NativesOf(K) : K[i] = L[i] /\ i # n
  BY <1>3, <1>4, <1>6, <1>7
<1>12. AllFill(m, K)
  BY <1>1, <1>5, <1>11 DEF AllFill
<1>13. AllVisit(m, K)
  BY <1>1, <1>3, <1>4 DEF AllVisit
<1>14. Apart(m, R, K)
  BY <1>1, <1>5, <1>11 DEF Apart
<1>15. Good(m, R, K)
  BY <1>10, <1>12, <1>13, <1>14 DEF Good
<1>16. ASSUME l.by # "for"
       PROVE  /\ FillsIn(m, l)
              /\ Len(R) + Cardinality(NativesOf(K)) < MaxObjects + MaxLoops
              /\ \A r \in Range(R) : ExtentIn(m, r) \cap Results(l) = {}
              /\ \A i \in NativesOf(K) : Results(K[i]) \cap Results(l) = {}
  <2>1. n \in NativesOf(L)
    BY <1>16, <1>5
  <2>2. Len(R) + Cardinality(NativesOf(K)) < MaxObjects + MaxLoops
    BY <1>1, <1>7, <1>8, <1>9, <1>16 DEF Listing
  <2>3. \A r \in Range(R) : ExtentIn(m, r) \cap Results(l) = {}
    BY <1>1, <1>3, <2>1 DEF Apart
  <2>4. \A i \in NativesOf(K) : Results(K[i]) \cap Results(l) = {}
    BY <1>1, <1>3, <1>5, <1>11, <2>1 DEF Apart
  <2> QED BY <2>1, <2>2, <2>3, <2>4, <1>1, <1>3 DEF AllFill
<1> QED BY <1>15, <1>16, <1>3 DEF K, l

(* The innermost loop goes on.                                             *)
LEMMA LastChanged ==
  ASSUME NEW m, NEW R, NEW L, NEW k \in LoopType, Good(m, R, L), L # <<>>,
         k.by = Last(L).by, k.arr = Last(L).arr, k.res = Last(L).res, k.len = Last(L).len,
         k.by # "for" => FillsIn(m, k), VisitsIn(m, k)
  PROVE  Good(m, R, Append(Front(L), k))
<1>1. m \in Seq(Cell) /\ Listing(R, L) /\ Apart(m, R, L) /\ AllFill(m, L) /\ AllVisit(m, L)
  BY DEF Good, Cellular
<1>2. R \in Seq(Nat) /\ L \in Seq(LoopType)
  BY <1>1 DEF Listing
<1> DEFINE K == Append(Front(L), k)
           n == Len(L)
<1>3. n \in Nat \ {0} /\ Last(L) = L[n] /\ K = [L EXCEPT ![n] = k]
  <2>1. Len(L) \in Nat /\ Len(L) >= 1 => Len(L) \in Nat \ {0}
    OBVIOUS
  <2> QED BY <1>2, <2>1, Fronts, Replaced
<1> HIDE DEF K, n
<1>4. /\ K \in Seq(LoopType) /\ Len(K) = Len(L) /\ DOMAIN K = DOMAIN L /\ n \in DOMAIN L /\ K[n] = k
      /\ \A i \in DOMAIN L : i # n => K[i] = L[i]
  BY <1>2, <1>3 DEF n
<1>5. \A i \in DOMAIN L : /\ K[i].by = L[i].by /\ K[i].arr = L[i].arr
                          /\ K[i].res = L[i].res /\ K[i].len = L[i].len
  BY <1>3, <1>4
<1>6. NativesOf(K) = NativesOf(L) /\ \A i \in DOMAIN L : Results(K[i]) = Results(L[i])
  BY <1>4, <1>5 DEF NativesOf, Results
<1>7. NativesOf(L) \subseteq DOMAIN L
  BY DEF NativesOf
<1>8. Listing(R, K)
  BY <1>1, <1>4, <1>5, <1>6 DEF Listing
<1>9. Apart(m, R, K)
  BY <1>1, <1>6, <1>7 DEF Apart
<1>10. AllFill(m, K)
  <2>1. ASSUME NEW i \in NativesOf(L) PROVE FillsIn(m, K[i])
    <3>1. CASE i = n
      BY <3>1, <1>3, <1>4 DEF NativesOf
    <3>2. CASE i # n
      BY <3>2, <1>1, <1>4, <1>7 DEF AllFill
    <3> QED BY <3>1, <3>2
  <2> QED BY <2>1, <1>6 DEF AllFill
<1>11. AllVisit(m, K)
  BY <1>1, <1>4 DEF AllVisit
<1> QED BY <1>8, <1>9, <1>10, <1>11 DEF Good, K
-----------------------------------------------------------------------------
(* New objects.                                                            *)

LEMMA HeapGrows ==
  ASSUME NEW m, NEW R, NEW L, Good(m, R, L), NEW s \in Seq(Cell), Len(m) + Len(s) < MAX_HEAP
  PROVE  /\ Good(m \o s, R, L)
         /\ m \o s \in Seq(Cell) /\ Len(m \o s) = Len(m) + Len(s) /\ m \in Seq(Cell)
         /\ \A c \in DOMAIN m : (m \o s)[c] = m[c]
         /\ \A j \in 1 .. Len(s) : (m \o s)[Len(m) + j] = s[j]
         /\ \A r \in Range(R) : ExtentIn(m \o s, r) = ExtentIn(m, r) /\ ExtentIn(m, r) \subseteq DOMAIN m
         /\ \A i \in NativesOf(L) : Results(L[i]) \subseteq DOMAIN m
<1> DEFINE w == m \o s
<1>1. m \in Seq(Cell) /\ Listing(R, L)
  BY DEF Good, Cellular
<1>2. /\ w \in Seq(Cell) /\ Len(w) = Len(m) + Len(s)
      /\ \A j \in 1 .. Len(m) + Len(s) : w[j] = IF j <= Len(m) THEN m[j] ELSE s[j - Len(m)]
  BY <1>1, Concatenated
<1> HIDE DEF w
<1>3. Len(m) \in Nat /\ Len(s) \in Nat /\ DOMAIN m = 1 .. Len(m)
  BY <1>1
<1>4. /\ \A c \in DOMAIN m : w[c] = m[c]
      /\ \A j \in 1 .. Len(s) : w[Len(m) + j] = s[j]
  <2>1. \A j \in 1 .. Len(s) : Len(m) + j \in 1 .. Len(m) + Len(s) /\ ~ Len(m) + j <= Len(m)
                               /\ Len(m) + j - Len(m) = j
    BY <1>3
  <2>2. \A c \in 1 .. Len(m) : c \in 1 .. Len(m) + Len(s) /\ c <= Len(m)
    BY <1>3
  <2> QED BY <1>2, <1>3, <2>1, <2>2
<1>5. Cellular(w) /\ Len(m) <= Len(w)
  BY <1>2, <1>3 DEF Cellular
<1>6. \A r \in Range(R) : ExtentIn(m, r) \subseteq DOMAIN m
  BY DEF Good, AllSound, SoundIn
<1>7. \A i \in NativesOf(L) : L[i] \in LoopType /\ FillsIn(m, L[i])
  BY <1>1 DEF Good, AllFill, NativesOf, Listing
<1>8. \A i \in NativesOf(L) : /\ Results(L[i]) \subseteq DOMAIN m
                              /\ L[i].res \in DOMAIN m /\ L[i].res + 1 \in DOMAIN m
  BY <1>1, <1>7, OwnResults
<1>9. Spared(m, w, R, L)
  BY <1>4, <1>6, <1>8 DEF Spared
<1>10. Good(w, R, L) /\ \A r \in Range(R) : ExtentIn(w, r) = ExtentIn(m, r)
  BY <1>5, <1>9, Elsewhere
<1> QED BY <1>1, <1>2, <1>4, <1>6, <1>8, <1>10 DEF w

(* A new object, at the end of the heap.                                   *)
LEMMA ObjectMade ==
  ASSUME NEW m, NEW R, NEW L, Good(m, R, L), NEW s \in Seq(Cell), Len(m) + Len(s) < MAX_HEAP,
         Len(R) < MaxObjects, SoundIn(m \o s, Len(m) + 1),
         ExtentIn(m \o s, Len(m) + 1) \subseteq Len(m) + 1 .. Len(m) + Len(s)
  PROVE  Good(m \o s, Append(R, Len(m) + 1), L)
<1> DEFINE w == m \o s
           r == Len(m) + 1
<1>1. /\ Good(w, R, L) /\ m \in Seq(Cell)
      /\ \A q \in Range(R) : ExtentIn(w, q) = ExtentIn(m, q) /\ ExtentIn(m, q) \subseteq DOMAIN m
      /\ \A i \in NativesOf(L) : Results(L[i]) \subseteq DOMAIN m
  BY HeapGrows
<1>2. ExtentIn(w, r) \cap DOMAIN m = {}
  BY <1>1
<1>3. SoundIn(w, r)
  OBVIOUS
<1> HIDE DEF w, r
<1>4. Len(R) + Cardinality(NativesOf(L)) < MaxObjects + MaxLoops
  <2>1. Listing(R, L)
    BY DEF Good
  <2>2. /\ Cardinality(NativesOf(L)) \in Nat /\ Cardinality(NativesOf(L)) <= Len(L)
        /\ Len(L) \in Nat /\ Len(L) <= MaxLoops /\ Len(R) \in Nat
    BY <2>1, NativeCount DEF Listing
  <2>3. MaxObjects \in Nat /\ MaxLoops \in Nat
    BY ContainerConstants
  <2> QED BY <2>2, <2>3
<1>5. /\ \A q \in Range(R) : ExtentIn(w, q) \cap ExtentIn(w, r) = {}
      /\ \A i \in NativesOf(L) : ExtentIn(w, r) \cap Results(L[i]) = {}
  BY <1>1, <1>2
<1>6. Good(w, Append(R, r), L)
  BY <1>1, <1>3, <1>4, <1>5, WithRef
<1> QED BY <1>6 DEF w, r

LEMMA RawCells ==
  /\ \A k \in Int : Raw(k) \in Cell /\ Num(k) \in Cell /\ Raw(k).n = k
  /\ Value \subseteq Cell /\ Literals \subseteq Cell /\ ByteCell \subseteq Cell /\ Unset \in Cell
  /\ {-1, -2, -3} \subseteq Int
<1>1. \A k \in Int : Raw(k) \in Cell /\ Num(k) \in Cell /\ Raw(k).n = k
  BY DEF Raw, Num, Cell
<1>2. Value \subseteq Cell /\ Literals \subseteq Cell
  BY ContainerConstants DEF Cell
<1> QED BY <1>1, <1>2 DEF Unset, Cell

(* A header of two cells, and what follows.                                *)
LEMMA Headed ==
  ASSUME NEW a \in Cell, NEW b \in Cell, NEW s \in Seq(Cell)
  PROVE  /\ <<a, b>> \o s \in Seq(Cell) /\ Len(<<a, b>> \o s) = Len(s) + 2
         /\ (<<a, b>> \o s)[1] = a /\ (<<a, b>> \o s)[2] = b
         /\ \A j \in 1 .. Len(s) : (<<a, b>> \o s)[j + 2] = s[j]
<1> DEFINE h == <<a, b>>
<1>1. h \in Seq(Cell) /\ Len(h) = 2 /\ h[1] = a /\ h[2] = b /\ Len(s) \in Nat
  OBVIOUS
<1> HIDE DEF h
<1>2. /\ h \o s \in Seq(Cell) /\ Len(h \o s) = 2 + Len(s)
      /\ \A j \in 1 .. 2 + Len(s) : (h \o s)[j] = IF j <= 2 THEN h[j] ELSE s[j - 2]
  <2>1. /\ h \o s \in Seq(Cell) /\ Len(h \o s) = Len(h) + Len(s)
        /\ \A j \in 1 .. Len(h) + Len(s) :
             (h \o s)[j] = IF j <= Len(h) THEN h[j] ELSE s[j - Len(h)]
    BY <1>1, Concatenated
  <2> QED BY <2>1, <1>1
<1>3. \A j \in 1 .. Len(s) : j + 2 \in 1 .. 2 + Len(s) /\ ~ j + 2 <= 2 /\ j + 2 - 2 = j
  BY <1>1
<1>4. 1 \in 1 .. 2 + Len(s) /\ 2 \in 1 .. 2 + Len(s) /\ 1 <= 2 /\ 2 <= 2
  BY <1>1
<1>5. Len(h \o s) = Len(s) + 2
  BY <1>1, <1>2
<1> QED BY <1>1, <1>2, <1>3, <1>4, <1>5 DEF h

LEMMA ArrayIsSound ==
  ASSUME NEW m, NEW R, NEW L, Good(m, R, L), NEW items \in Seq(Cell),
         Len(m) + Len(Array(items)) < MAX_HEAP
  PROVE  /\ Array(items) \in Seq(Cell) /\ SoundIn(m \o Array(items), Len(m) + 1)
         /\ ExtentIn(m \o Array(items), Len(m) + 1) = Len(m) + 1 .. Len(m) + Len(Array(items))
<1> DEFINE s == Array(items)
           w == m \o s
           r == Len(m) + 1
           n == Len(items)
<1>1. /\ s \in Seq(Cell) /\ Len(s) = n + 2 /\ s[1] = Raw(TYPE_ARRAY) /\ s[2] = Raw(n) /\ n \in Nat
  BY Headed, RawCells DEF Array, TYPE_ARRAY
<1> HIDE DEF s, n
<1>2. /\ w \in Seq(Cell) /\ Len(w) = Len(m) + Len(s) /\ m \in Seq(Cell)
      /\ \A j \in 1 .. Len(s) : w[Len(m) + j] = s[j]
  BY <1>1, HeapGrows DEF s
<1> HIDE DEF w
<1>3. w[r] = Raw(TYPE_ARRAY) /\ w[r + 1] = Raw(n) /\ r \in Nat \ {0} /\ Len(m) \in Nat
  <2>1. 1 \in 1 .. Len(s) /\ 2 \in 1 .. Len(s) /\ Len(m) \in Nat
    BY <1>1, <1>2
  <2>2. w[Len(m) + 1] = s[1] /\ w[Len(m) + 2] = s[2] /\ r + 1 = Len(m) + 2
    BY <1>2, <2>1
  <2> QED BY <1>1, <2>1, <2>2
<1>4. w[r].n = TYPE_ARRAY /\ w[r + 1].n = n
  BY <1>1, <1>3, RawCells DEF TYPE_ARRAY
<1>5. ExtentIn(w, r) = r .. Len(m) + Len(s)
  <2>1. r + 1 + n = Len(m) + Len(s)
    BY <1>1, <1>3
  <2> QED BY <2>1, <1>4 DEF ExtentIn, TYPE_ARRAY, TYPE_BYTES, TYPE_MAP
<1>6. ExtentIn(w, r) \subseteq DOMAIN w
  BY <1>1, <1>2, <1>3, <1>5
<1> HIDE DEF r
<1>7. SoundIn(w, r)
  BY <1>1, <1>3, <1>4, <1>6 DEF SoundIn, TYPE_ARRAY, TYPE_BYTES, TYPE_MAP
<1> QED BY <1>1, <1>5, <1>7 DEF s, w, r

LEMMA PackedCells ==
  ASSUME NEW bytes \in Seq(0 .. BYTE - 1)
  PROVE  /\ Packed(bytes) \in Seq(ByteCell) /\ Packed(bytes) \in Seq(Cell)
         /\ Len(Packed(bytes)) = Cells(Len(bytes)) /\ Cells(Len(bytes)) \in Nat
<1>1. Cells(Len(bytes)) \in Nat /\ BYTE \in Nat \ {0}
  BY CellCount, ContainerConstants
<1>2. ASSUME NEW c \in 1 .. Cells(Len(bytes)) PROVE Packed(bytes)[c] \in ByteCell
  <2> DEFINE b == [p \in 0 .. PerCell - 1 |->
               LET i == (c - 1) * PerCell + p + 1 IN IF i \in DOMAIN bytes THEN bytes[i] ELSE 0]
  <2>1. \A i \in DOMAIN bytes : bytes[i] \in 0 .. BYTE - 1
    <3>1. DOMAIN bytes = 1 .. Len(bytes)
      OBVIOUS
    <3> QED BY <3>1, ElementOfSeq
  <2>2. 0 \in 0 .. BYTE - 1
    BY <1>1
  <2>3. b \in [0 .. PerCell - 1 -> 0 .. BYTE - 1]
    BY <2>1, <2>2
  <2>4. Packed(bytes)[c] = Pack(b)
    BY DEF Packed
  <2> QED BY <2>3, <2>4 DEF ByteCell
<1>3. Packed(bytes) = [c \in 1 .. Cells(Len(bytes)) |-> Packed(bytes)[c]]
  BY DEF Packed
<1>4. Packed(bytes) \in [1 .. Cells(Len(bytes)) -> ByteCell]
  BY <1>2, <1>3
<1>5. ByteCell \subseteq Cell
  BY RawCells
<1>6. \A n \in Nat : \A f \in [1 .. n -> ByteCell] : f \in Seq(ByteCell) /\ Len(f) = n
  OBVIOUS
<1>7. Packed(bytes) \in [1 .. Cells(Len(bytes)) -> Cell]
  BY <1>4, <1>5
<1>8. \A n \in Nat : \A f \in [1 .. n -> Cell] : f \in Seq(Cell)
  OBVIOUS
<1> QED BY <1>1, <1>4, <1>6, <1>7, <1>8

LEMMA BytesAreSound ==
  ASSUME NEW m, NEW R, NEW L, Good(m, R, L), NEW bytes \in Seq(0 .. BYTE - 1),
         Len(m) + Len(Bytes(bytes)) < MAX_HEAP
  PROVE  /\ Bytes(bytes) \in Seq(Cell) /\ SoundIn(m \o Bytes(bytes), Len(m) + 1)
         /\ ExtentIn(m \o Bytes(bytes), Len(m) + 1) = Len(m) + 1 .. Len(m) + Len(Bytes(bytes))
<1> DEFINE s == Bytes(bytes)
           p == Packed(bytes)
           w == m \o s
           r == Len(m) + 1
           n == Len(bytes)
<1>1. p \in Seq(ByteCell) /\ p \in Seq(Cell) /\ Len(p) = Cells(n) /\ Cells(n) \in Nat /\ n \in Nat
  BY PackedCells
<1>2. s = <<Raw(TYPE_BYTES), Raw(n)>> \o p
  BY DEF Bytes
<1> HIDE DEF s, n, p
<1>3. /\ s \in Seq(Cell) /\ Len(s) = Cells(n) + 2 /\ s[1] = Raw(TYPE_BYTES) /\ s[2] = Raw(n)
      /\ \A j \in 1 .. Cells(n) : s[j + 2] = p[j]
  BY <1>1, <1>2, Headed, RawCells DEF TYPE_BYTES
<1>4. /\ w \in Seq(Cell) /\ Len(w) = Len(m) + Len(s) /\ m \in Seq(Cell)
      /\ \A j \in 1 .. Len(s) : w[Len(m) + j] = s[j]
  BY <1>3, HeapGrows DEF s
<1> HIDE DEF w
<1>5. w[r] = Raw(TYPE_BYTES) /\ w[r + 1] = Raw(n) /\ r \in Nat \ {0} /\ Len(m) \in Nat
  <2>1. 1 \in 1 .. Len(s) /\ 2 \in 1 .. Len(s) /\ Len(m) \in Nat
    BY <1>1, <1>3, <1>4
  <2>2. w[Len(m) + 1] = s[1] /\ w[Len(m) + 2] = s[2] /\ r + 1 = Len(m) + 2
    BY <1>4, <2>1
  <2> QED BY <1>3, <2>1, <2>2
<1>6. w[r].n = TYPE_BYTES /\ w[r + 1].n = n
  BY <1>1, <1>5, RawCells DEF TYPE_BYTES
<1>7. ExtentIn(w, r) = r .. Len(m) + Len(s)
  <2>1. r + 1 + Cells(n) = Len(m) + Len(s)
    BY <1>1, <1>3, <1>5
  <2> QED BY <2>1, <1>6 DEF ExtentIn, TYPE_ARRAY, TYPE_BYTES, TYPE_MAP
<1>8. ExtentIn(w, r) \subseteq DOMAIN w
  BY <1>1, <1>3, <1>4, <1>5, <1>7
<1>9. \A c \in r + 2 .. r + 1 + Cells(n) : w[c] \in ByteCell
  <2>1. ASSUME NEW c \in r + 2 .. r + 1 + Cells(n) PROVE w[c] \in ByteCell
    <3> DEFINE j == c - (r + 1)
    <3>1. j \in 1 .. Cells(n) /\ j + 2 \in 1 .. Len(s) /\ Len(m) + (j + 2) = c
      BY <1>1, <1>3, <1>5
    <3> HIDE DEF j
    <3>2. w[c] = p[j]
      BY <3>1, <1>3, <1>4
    <3> QED BY <3>1, <3>2, <1>1
  <2> QED BY <2>1
<1> HIDE DEF r
<1>10. SoundIn(w, r)
  BY <1>1, <1>5, <1>6, <1>8, <1>9 DEF SoundIn, TYPE_ARRAY, TYPE_BYTES, TYPE_MAP
<1> QED BY <1>3, <1>7, <1>10 DEF s, w, r

(* A map made at the end of a heap of n cells.                             *)
MapCells(n) ==
  <<Raw(TYPE_MAP), Raw(MAP_INITIAL_CAP), Raw(0), Raw(n + 5)>>
    \o [c \in 1 .. MAP_INITIAL_CAP * 2 |-> Unset]

LEMMA MapIsSound ==
  ASSUME NEW m, NEW R, NEW L, Good(m, R, L), Len(m) + Len(MapCells(Len(m))) < MAX_HEAP
  PROVE  /\ MapCells(Len(m)) \in Seq(Cell) /\ SoundIn(m \o MapCells(Len(m)), Len(m) + 1)
         /\ ExtentIn(m \o MapCells(Len(m)), Len(m) + 1)
              \subseteq Len(m) + 1 .. Len(m) + Len(MapCells(Len(m)))
<1> DEFINE s == MapCells(Len(m))
           h == <<Raw(TYPE_MAP), Raw(MAP_INITIAL_CAP), Raw(0), Raw(Len(m) + 5)>>
           cap == MAP_INITIAL_CAP
           b == [c \in 1 .. cap * 2 |-> Unset]
           w == m \o s
           r == Len(m) + 1
<1>1. cap \in Nat \ {0} /\ m \in Seq(Cell) /\ Len(m) \in Nat /\ cap * 2 \in Nat
  BY ContainerConstants DEF Good, Cellular
<1>2. h \in Seq(Cell) /\ Len(h) = 4
  <2>1. Raw(TYPE_MAP) \in Cell /\ Raw(cap) \in Cell /\ Raw(0) \in Cell /\ Raw(Len(m) + 5) \in Cell
    BY <1>1, RawCells DEF TYPE_MAP
  <2> QED BY <2>1
<1>3. h[1] = Raw(TYPE_MAP) /\ h[2] = Raw(cap) /\ h[3] = Raw(0) /\ h[4] = Raw(Len(m) + 5)
  OBVIOUS
<1> HIDE DEF h, cap
<1>4. b \in Seq(Cell) /\ Len(b) = cap * 2
  BY <1>1, RawCells
<1>5. s = h \o b
  BY DEF h, cap, MapCells
<1> HIDE DEF b, s
<1>6. /\ s \in Seq(Cell) /\ Len(s) = cap * 2 + 4 /\ Len(s) \in Nat
      /\ s[1] = h[1] /\ s[2] = h[2] /\ s[3] = h[3] /\ s[4] = h[4]
  <2>1. /\ h \o b \in Seq(Cell) /\ Len(h \o b) = Len(h) + Len(b)
        /\ \A j \in 1 .. Len(h) + Len(b) :
             (h \o b)[j] = IF j <= Len(h) THEN h[j] ELSE b[j - Len(h)]
    BY <1>2, <1>4, Concatenated
  <2>2. Len(h) + Len(b) = cap * 2 + 4 /\ \A j \in 1 .. 4 : j \in 1 .. Len(h) + Len(b) /\ j <= Len(h)
    BY <1>1, <1>2, <1>4
  <2>3. \A j \in 1 .. 4 : s[j] = h[j]
    BY <1>5, <2>1, <2>2
  <2> QED BY <1>1, <1>5, <2>1, <2>2, <2>3
<1>7. /\ w \in Seq(Cell) /\ Len(w) = Len(m) + Len(s)
      /\ \A j \in 1 .. Len(s) : w[Len(m) + j] = s[j]
  <2>1. Len(m) + Len(s) < MAX_HEAP
    BY DEF s
  <2> QED BY <1>6, <2>1, HeapGrows
<1> HIDE DEF w
<1>8. /\ w[r] = Raw(TYPE_MAP) /\ w[r + 1] = Raw(cap) /\ w[r + 2] = Raw(0) /\ w[r + 3] = Raw(Len(m) + 5)
      /\ r \in Nat \ {0}
  <2>1. \A j \in 1 .. 4 : j \in 1 .. Len(s)
    BY <1>1, <1>6
  <2>2. r = Len(m) + 1 /\ r + 1 = Len(m) + 2 /\ r + 2 = Len(m) + 3 /\ r + 3 = Len(m) + 4
    BY <1>1
  <2>3. r \in Nat \ {0}
    BY <1>1
  <2> HIDE DEF r
  <2>4. w[r] = s[1] /\ w[r + 1] = s[2] /\ w[r + 2] = s[3] /\ w[r + 3] = s[4]
    BY <1>7, <2>1, <2>2
  <2> QED BY <1>3, <1>6, <2>3, <2>4
<1>9. w[r].n = TYPE_MAP /\ w[r + 1].n = cap /\ w[r + 2].n = 0 /\ w[r + 3].n = r + 4
  <2>1. TYPE_MAP \in Int /\ cap \in Int /\ 0 \in Int /\ Len(m) + 5 \in Int /\ Len(m) + 5 = r + 4
    BY <1>1 DEF TYPE_MAP
  <2> HIDE DEF r
  <2> QED BY <2>1, <1>8, RawCells
<1>10. ExtentIn(w, r) \subseteq Len(m) + 1 .. Len(m) + Len(s)
  <2>1. ExtentIn(w, r) = (r .. r + 3) \cup (r + 4 .. r + 4 + cap * 2 - 1)
    <3> HIDE DEF r
    <3> QED BY <1>9 DEF ExtentIn
  <2> QED BY <2>1, <1>1, <1>6
<1>11. ExtentIn(w, r) \subseteq DOMAIN w
  BY <1>1, <1>6, <1>7, <1>10
<1> HIDE DEF r
<1>12. SoundIn(w, r)
  BY <1>1, <1>8, <1>9, <1>11 DEF SoundIn, TYPE_ARRAY, TYPE_BYTES, TYPE_MAP, Listed
<1> QED BY <1>6, <1>10, <1>12 DEF w, r, s
-----------------------------------------------------------------------------
(* Writing arrays and bytes.                                               *)

(* The length may become less, that of bytes does not.                     *)
ListWritten(m, w, r) ==
  /\ Len(w) = Len(m) /\ w[r].n = m[r].n /\ w[r + 1].n \in 0 .. m[r + 1].n
  /\ \A c \in DOMAIN m \ ExtentIn(m, r) : w[c] = m[c]
  /\ m[r].n = TYPE_BYTES =>
       /\ w[r + 1].n = m[r + 1].n
       /\ \A c \in r + 2 .. r + 1 + Cells(m[r + 1].n) : w[c] \in ByteCell

LoopsAlike(K, L) == K \in Seq(LoopType) /\ Len(K) = Len(L) /\ \A i \in DOMAIN L : Alike(K[i], L[i])

LEMMA SameLoops ==
  ASSUME NEW m, NEW R, NEW L, Good(m, R, L)
  PROVE  LoopsAlike(L, L)
  BY DEF Good, Listing, LoopsAlike, Alike

LEMMA ListStaysGood ==
  ASSUME NEW m, NEW w \in Seq(Cell), NEW R, NEW L, NEW K, NEW r \in Range(R),
         Good(m, R, L), m[r].n \in Listed, ListWritten(m, w, r), LoopsAlike(K, L)
  PROVE  Good(w, R, K)
<1>1. SoundIn(m, r) /\ m \in Seq(Cell) /\ Cellular(w) /\ Len(m) <= Len(w) /\ DOMAIN w = DOMAIN m
  BY DEF Good, AllSound, Cellular, ListWritten
<1>2. r \in Nat \ {0} /\ m[r + 1].n \in Nat /\ w[r + 1].n \in Nat /\ w[r + 1].n <= m[r + 1].n
  BY <1>1 DEF SoundIn, ListWritten
<1>3. ExtentIn(w, r) \subseteq ExtentIn(m, r)
  <2>1. CASE m[r].n = TYPE_BYTES
    BY <2>1, <1>2 DEF ExtentIn, ListWritten, TYPE_BYTES, TYPE_MAP
  <2>2. CASE m[r].n = TYPE_ARRAY
    BY <2>2, <1>2 DEF ExtentIn, ListWritten, TYPE_ARRAY, TYPE_BYTES, TYPE_MAP
  <2> QED BY <2>1, <2>2 DEF Listed
<1>4. SoundIn(w, r)
  BY <1>1, <1>2, <1>3 DEF SoundIn, ListWritten, Listed, TYPE_ARRAY, TYPE_BYTES, TYPE_MAP
<1>5. KeysKept(m, w, r)
  BY DEF KeysKept, Listed, TYPE_ARRAY, TYPE_BYTES, TYPE_MAP
<1> QED BY <1>1, <1>3, <1>4, <1>5, Written1 DEF ListWritten, LoopsAlike
-----------------------------------------------------------------------------
(* Writing maps.                                                           *)

MapWritten(m, w, r, cap, count, data) ==
  /\ Len(m) <= Len(w)
  /\ w[r].n = TYPE_MAP /\ w[r + 1].n = cap /\ w[r + 2].n = count /\ w[r + 3].n = data
  /\ cap \in Nat \ {0} /\ count \in 0 .. cap /\ data \in Nat /\ r + 4 <= data
  /\ data .. data + cap * 2 - 1 \subseteq ExtentIn(m, r) \cup (Len(m) + 1 .. Len(w))
  /\ \A c \in DOMAIN m \ ExtentIn(m, r) : w[c] = m[c]
  /\ \A i, j \in 0 .. count - 1 : w[data + i * 2] = w[data + j * 2] => i = j

(* A map was written where it is, and in new cells.                        *)
MapChanged(m, w, r) ==
  /\ w[r].n = TYPE_MAP /\ ExtentIn(w, r) \subseteq ExtentIn(m, r) \cup (Len(m) + 1 .. Len(w))
  /\ \A c \in DOMAIN m \ ExtentIn(m, r) : w[c] = m[c]

LEMMA MapIsChanged ==
  ASSUME NEW m, NEW w, NEW r, NEW cap, NEW count, NEW data,
         m[r].n = TYPE_MAP, MapWritten(m, w, r, cap, count, data)
  PROVE  MapChanged(m, w, r)
<1>1. /\ w[r].n = TYPE_MAP /\ w[r + 1].n = cap /\ w[r + 3].n = data
      /\ data .. data + cap * 2 - 1 \subseteq ExtentIn(m, r) \cup (Len(m) + 1 .. Len(w))
      /\ \A c \in DOMAIN m \ ExtentIn(m, r) : w[c] = m[c]
  BY DEF MapWritten
<1>2. ExtentIn(w, r) = (r .. r + 3) \cup (data .. data + cap * 2 - 1)
  BY <1>1 DEF ExtentIn
<1>3. r .. r + 3 \subseteq ExtentIn(m, r)
  BY DEF ExtentIn
<1> QED BY <1>1, <1>2, <1>3 DEF MapChanged

(* The loops over r know that it shrank.                                   *)
Told(K, L, r) == \A i \in DOMAIN L : L[i].arr = r => K[i].shrunk

LEMMA MapStaysGood ==
  ASSUME NEW m, NEW w, NEW R, NEW L, NEW K, NEW r \in Range(R), NEW cap, NEW count, NEW data,
         Good(m, R, L), Cellular(w), m[r].n = TYPE_MAP,
         MapWritten(m, w, r, cap, count, data), LoopsAlike(K, L),
         KeysKept(m, w, r) \/ Told(K, L, r)
  PROVE  Good(w, R, K)
<1>1. SoundIn(m, r) /\ m \in Seq(Cell) /\ w \in Seq(Cell) /\ r \in Nat \ {0}
  BY DEF Good, AllSound, Cellular, SoundIn
<1>2. /\ Len(m) <= Len(w)
      /\ w[r].n = TYPE_MAP /\ w[r + 1].n = cap /\ w[r + 2].n = count /\ w[r + 3].n = data
      /\ cap \in Nat \ {0} /\ count \in 0 .. cap /\ data \in Nat /\ r + 4 <= data
      /\ data .. data + cap * 2 - 1 \subseteq ExtentIn(m, r) \cup (Len(m) + 1 .. Len(w))
      /\ \A c \in DOMAIN m \ ExtentIn(m, r) : w[c] = m[c]
      /\ \A i, j \in 0 .. count - 1 : w[data + i * 2] = w[data + j * 2] => i = j
  BY DEF MapWritten
<1>3. ExtentIn(w, r) = (r .. r + 3) \cup (data .. data + cap * 2 - 1)
  BY <1>2 DEF ExtentIn
<1>4. r .. r + 3 \subseteq ExtentIn(m, r) /\ ExtentIn(m, r) \subseteq DOMAIN m
  BY <1>1 DEF ExtentIn, SoundIn
<1>5. ExtentIn(w, r) \subseteq ExtentIn(m, r) \cup (Len(m) + 1 .. Len(w))
  BY <1>2, <1>3, <1>4
<1>6. ExtentIn(w, r) \subseteq DOMAIN w
  <2>1. DOMAIN m \subseteq DOMAIN w /\ Len(m) + 1 .. Len(w) \subseteq DOMAIN w
    BY <1>1, <1>2
  <2> QED BY <1>4, <1>5, <2>1
<1>7. \A i, j \in 0 .. count - 1 : KeyIn(w, r, i) = KeyIn(w, r, j) => i = j
  BY <1>2 DEF KeyIn
<1>8. SoundIn(w, r)
  <2>1. TYPE_MAP \notin Listed /\ TYPE_MAP # TYPE_BYTES
    BY DEF Listed, TYPE_ARRAY, TYPE_BYTES, TYPE_MAP
  <2>2. data \in Nat \ {0}
    BY <1>1, <1>2
  <2> QED BY <1>1, <1>2, <1>6, <1>7, <2>1, <2>2 DEF SoundIn
<1> QED BY <1>2, <1>5, <1>8, Written1 DEF LoopsAlike, Told

LEMMA MapFacts ==
  ASSUME NEW m, NEW R, NEW L, NEW r \in Range(R), Good(m, R, L), m[r].n = TYPE_MAP
  PROVE  /\ m \in Seq(Cell) /\ Len(m) < MAX_HEAP /\ r \in Nat \ {0}
         /\ m[r + 1].n \in Nat \ {0} /\ m[r + 2].n \in 0 .. m[r + 1].n
         /\ m[r + 3].n \in Nat \ {0} /\ r + 4 <= m[r + 3].n
         /\ m[r + 3].n + m[r + 1].n * 2 - 1 <= Len(m)
         /\ r .. r + 3 \subseteq ExtentIn(m, r)
         /\ m[r + 3].n .. m[r + 3].n + m[r + 1].n * 2 - 1 \subseteq ExtentIn(m, r)
         /\ ExtentIn(m, r) \subseteq DOMAIN m
         /\ \A i, j \in 0 .. m[r + 2].n - 1 : KeyIn(m, r, i) = KeyIn(m, r, j) => i = j
<1> DEFINE cap == m[r + 1].n
           data == m[r + 3].n
<1>1. SoundIn(m, r) /\ m \in Seq(Cell) /\ Len(m) < MAX_HEAP
  BY DEF Good, AllSound, Cellular
<1>2. /\ cap \in Nat \ {0} /\ m[r + 2].n \in 0 .. cap /\ data \in Nat \ {0} /\ r + 4 <= data
      /\ r \in Nat \ {0} /\ ExtentIn(m, r) \subseteq DOMAIN m
      /\ \A i, j \in 0 .. m[r + 2].n - 1 : KeyIn(m, r, i) = KeyIn(m, r, j) => i = j
  BY <1>1 DEF SoundIn
<1>3. ExtentIn(m, r) = (r .. r + 3) \cup (data .. data + cap * 2 - 1)
  BY DEF ExtentIn
<1>4. data + cap * 2 - 1 <= Len(m)
  <2> HIDE DEF data, cap
  <2>1. data + cap * 2 - 1 \in data .. data + cap * 2 - 1
    BY <1>2
  <2>2. data + cap * 2 - 1 \in 1 .. Len(m)
    BY <1>1, <1>2, <1>3, <2>1
  <2> QED BY <2>2
<1> QED BY <1>1, <1>2, <1>3, <1>4


(* A map with n entries in a data block for cap of them.                   *)
MapAt(m, r, cap, n, data) ==
  /\ m[r].n = TYPE_MAP /\ m[r + 1].n = cap /\ m[r + 2].n = n /\ m[r + 3].n = data
  /\ m \in Seq(Cell) /\ Len(m) < MAX_HEAP /\ r \in Nat \ {0}
  /\ cap \in Nat \ {0} /\ n \in Nat /\ n <= cap
  /\ data \in Nat \ {0} /\ r + 4 <= data /\ data + cap * 2 - 1 <= Len(m)
  /\ r .. r + 3 \subseteq ExtentIn(m, r) /\ data .. data + cap * 2 - 1 \subseteq ExtentIn(m, r)
  /\ ExtentIn(m, r) \subseteq DOMAIN m
  /\ \A i, j \in 0 .. n - 1 : m[data + i * 2] = m[data + j * 2] => i = j

LEMMA MapIsAt ==
  ASSUME NEW m, NEW R, NEW L, NEW r \in Range(R), Good(m, R, L), m[r].n = TYPE_MAP
  PROVE  MapAt(m, r, m[r + 1].n, m[r + 2].n, m[r + 3].n)
<1> DEFINE cap == m[r + 1].n
           n == m[r + 2].n
           data == m[r + 3].n
<1>1. /\ m \in Seq(Cell) /\ Len(m) < MAX_HEAP /\ r \in Nat \ {0}
      /\ cap \in Nat \ {0} /\ n \in 0 .. cap
      /\ data \in Nat \ {0} /\ r + 4 <= data /\ data + cap * 2 - 1 <= Len(m)
      /\ r .. r + 3 \subseteq ExtentIn(m, r)
      /\ data .. data + cap * 2 - 1 \subseteq ExtentIn(m, r) /\ ExtentIn(m, r) \subseteq DOMAIN m
      /\ \A i, j \in 0 .. n - 1 : KeyIn(m, r, i) = KeyIn(m, r, j) => i = j
  BY MapFacts
<1>2. \A i, j \in 0 .. n - 1 : m[data + i * 2] = m[data + j * 2] => i = j
  BY <1>1 DEF KeyIn
<1>3. m[r].n = TYPE_MAP /\ m[r + 1].n = cap /\ m[r + 2].n = n /\ m[r + 3].n = data
  OBVIOUS
<1> HIDE DEF cap, n, data
<1>4. n \in Nat /\ n <= cap
  BY <1>1
<1>5. MapAt(m, r, cap, n, data)
  BY <1>1, <1>2, <1>3, <1>4 DEF MapAt
<1> QED BY <1>5 DEF cap, n, data

(* A heap with room for an entry in the data block of a map.               *)
HasPlace(m, g, r, n, cap, data) ==
  /\ g \in Seq(Cell) /\ Len(m) <= Len(g) /\ Len(g) < MAX_HEAP
  /\ \A c \in DOMAIN m : g[c] = m[c]
  /\ cap \in Nat \ {0} /\ n < cap /\ data \in Nat /\ r + 4 <= data
  /\ data + cap * 2 - 1 <= Len(g)
  /\ data .. data + cap * 2 - 1 \subseteq ExtentIn(m, r) \cup (Len(m) + 1 .. Len(g))
  /\ \A i \in 0 .. n - 1 : g[data + i * 2] = KeyIn(m, r, i) /\ g[data + i * 2 + 1] = ValIn(m, r, i)

NewKey(m, r, n, k) == \A i \in 0 .. n - 1 : KeyIn(m, r, i) # k

Put(g, r, n, cap, data, k, v) ==
  [g EXCEPT ![r + 1] = Raw(cap), ![r + 2] = Raw(n + 1), ![r + 3] = Raw(data),
            ![data + n * 2] = k, ![data + n * 2 + 1] = v]

IsPut(w, g, r, n, cap, data, k, v) ==
  /\ w \in Seq(Cell) /\ Len(w) = Len(g)
  /\ w[r + 1].n = cap /\ w[r + 2].n = n + 1 /\ w[r + 3].n = data
  /\ w[data + n * 2] = k /\ w[data + n * 2 + 1] = v
  /\ \A c \in DOMAIN g \ {r + 1, r + 2, r + 3, data + n * 2, data + n * 2 + 1} : w[c] = g[c]

Fits(g, r, n, cap, data) ==
  /\ g \in Seq(Cell) /\ r \in Nat /\ n \in Nat /\ cap \in Nat /\ data \in Nat
  /\ n < cap /\ r + 4 <= data /\ data + cap * 2 - 1 <= Len(g)

LEMMA PutIs ==
  ASSUME NEW g, NEW r, NEW n, NEW cap, NEW data, Fits(g, r, n, cap, data),
         NEW k \in Cell, NEW v \in Cell
  PROVE  IsPut(Put(g, r, n, cap, data, k, v), g, r, n, cap, data, k, v)
<1> DEFINE d == data + n * 2
           e == d + 1
           a == r + 1
           b == r + 2
           c == r + 3
           x == Raw(cap)
           y == Raw(n + 1)
           z == Raw(data)
           w == Put(g, r, n, cap, data, k, v)
<1>1. /\ d \in Nat /\ d + 1 <= Len(g) /\ r + 3 < d /\ Len(g) \in Nat
      /\ g \in Seq(Cell) /\ r \in Nat /\ n \in Nat /\ cap \in Nat /\ data \in Nat
  BY DEF Fits
<1>2. w = [g EXCEPT ![a] = x, ![b] = y, ![c] = z, ![d] = k, ![e] = v]
  BY DEF Put
<1>3. x \in Cell /\ y \in Cell /\ z \in Cell /\ x.n = cap /\ y.n = n + 1 /\ z.n = data
  <2>1. cap \in Int /\ n + 1 \in Int /\ data \in Int
    BY <1>1
  <2> QED BY <2>1, RawCells
<1> HIDE DEF d, w, x, y, z
<1>4. /\ a \in DOMAIN g /\ b \in DOMAIN g /\ c \in DOMAIN g /\ d \in DOMAIN g /\ e \in DOMAIN g
      /\ a < b /\ b < c /\ c < d /\ d < e
  BY <1>1
<1> HIDE DEF a, b, c, e
<1>5. /\ w \in Seq(Cell) /\ Len(w) = Len(g)
      /\ w[a] = x /\ w[b] = y /\ w[c] = z /\ w[d] = k /\ w[e] = v
      /\ \A i \in DOMAIN g \ {a, b, c, d, e} : w[i] = g[i]
  <2> DEFINE g1 == [g EXCEPT ![a] = x]
             g2 == [g1 EXCEPT ![b] = y]
             g3 == [g2 EXCEPT ![c] = z]
             g4 == [g3 EXCEPT ![d] = k]
             g5 == [g4 EXCEPT ![e] = v]
  <2>0. w = g5
    BY <1>2
  <2>1. g1 \in Seq(Cell) /\ Len(g1) = Len(g) /\ \A i \in DOMAIN g : g1[i] = IF i = a THEN x ELSE g[i]
    BY <1>1, <1>3, <1>4
  <2> HIDE DEF g1
  <2>2. g2 \in Seq(Cell) /\ Len(g2) = Len(g) /\ \A i \in DOMAIN g : g2[i] = IF i = b THEN y ELSE g1[i]
    BY <2>1, <1>1, <1>3, <1>4
  <2> HIDE DEF g2
  <2>3. g3 \in Seq(Cell) /\ Len(g3) = Len(g) /\ \A i \in DOMAIN g : g3[i] = IF i = c THEN z ELSE g2[i]
    BY <2>2, <1>1, <1>3, <1>4
  <2> HIDE DEF g3
  <2>4. g4 \in Seq(Cell) /\ Len(g4) = Len(g) /\ \A i \in DOMAIN g : g4[i] = IF i = d THEN k ELSE g3[i]
    BY <2>3, <1>1, <1>3, <1>4
  <2> HIDE DEF g4
  <2>5. g5 \in Seq(Cell) /\ Len(g5) = Len(g) /\ \A i \in DOMAIN g : g5[i] = IF i = e THEN v ELSE g4[i]
    BY <2>4, <1>1, <1>3, <1>4
  <2> HIDE DEF g5
  <2>6. \A i \in DOMAIN g : w[i] = IF i = e THEN v ELSE IF i = d THEN k ELSE IF i = c THEN z
                                   ELSE IF i = b THEN y ELSE IF i = a THEN x ELSE g[i]
    BY <2>0, <2>1, <2>2, <2>3, <2>4, <2>5
  <2>7. a # b /\ a # c /\ a # d /\ a # e /\ b # c /\ b # d /\ b # e /\ c # d /\ c # e /\ d # e
    <3>1. a \in Int /\ b \in Int /\ c \in Int /\ d \in Int /\ e \in Int
      BY <1>1, <1>4
    <3> QED BY <3>1, <1>4
  <2>8. w[a] = x /\ w[b] = y /\ w[c] = z /\ w[d] = k /\ w[e] = v
    BY <1>4, <2>6, <2>7
  <2>9. \A i \in DOMAIN g \ {a, b, c, d, e} : w[i] = g[i]
    BY <2>6
  <2> QED BY <2>0, <2>5, <2>8, <2>9
<1>6. IsPut(w, g, r, n, cap, data, k, v)
  BY <1>3, <1>5 DEF IsPut, a, b, c, d, e
<1> QED BY <1>6 DEF w

LEMMA EntryPut ==
  ASSUME NEW m, NEW R, NEW L, NEW r \in Range(R), Good(m, R, L),
         NEW cap0, NEW n, NEW data0, MapAt(m, r, cap0, n, data0),
         NEW g, NEW cap, NEW data, HasPlace(m, g, r, n, cap, data),
         NEW k \in Cell, NEW v \in Cell, NewKey(m, r, n, k)
  PROVE  /\ Good(Put(g, r, n, cap, data, k, v), R, L)
         /\ MapChanged(m, Put(g, r, n, cap, data, k, v), r)
<1> DEFINE w == Put(g, r, n, cap, data, k, v)
           d == data + n * 2
<1>1. /\ m \in Seq(Cell) /\ r \in Nat \ {0} /\ n \in Nat
      /\ m[r].n = TYPE_MAP /\ m[r + 2].n = n
      /\ r .. r + 3 \subseteq ExtentIn(m, r) /\ ExtentIn(m, r) \subseteq DOMAIN m
  BY DEF MapAt
<1>2. /\ g \in Seq(Cell) /\ Len(m) <= Len(g) /\ Len(g) < MAX_HEAP
      /\ cap \in Nat \ {0} /\ n < cap /\ data \in Nat /\ r + 4 <= data
      /\ data + cap * 2 - 1 <= Len(g)
      /\ Len(m) \in Nat /\ Len(g) \in Nat
  BY <1>1 DEF HasPlace
<1>3. \A c \in DOMAIN m : g[c] = m[c]
  BY DEF HasPlace
<1>4. data .. data + cap * 2 - 1 \subseteq ExtentIn(m, r) \cup (Len(m) + 1 .. Len(g))
  BY DEF HasPlace
<1>5. \A i \in 0 .. n - 1 : g[data + i * 2] = KeyIn(m, r, i) /\ KeyIn(m, r, i) # k
  BY DEF HasPlace, NewKey
<1>6. \A i, j \in 0 .. n - 1 : KeyIn(m, r, i) = KeyIn(m, r, j) => i = j
  BY DEF MapAt, KeyIn
<1>7. IsPut(w, g, r, n, cap, data, k, v)
  <2>1. Fits(g, r, n, cap, data)
    BY <1>1, <1>2 DEF Fits
  <2> QED BY <2>1, PutIs
<1> HIDE DEF w
<1>8. /\ w \in Seq(Cell) /\ Len(w) = Len(g)
      /\ w[r + 1].n = cap /\ w[r + 2].n = n + 1 /\ w[r + 3].n = data /\ w[d] = k
      /\ \A c \in DOMAIN g \ {r + 1, r + 2, r + 3, d, d + 1} : w[c] = g[c]
  BY <1>7 DEF IsPut
<1>9. d \in Nat /\ r + 3 < d /\ d \in data .. data + cap * 2 - 1 /\ d + 1 \in data .. data + cap * 2 - 1
  BY <1>1, <1>2
<1>10. DOMAIN m \subseteq DOMAIN g /\ DOMAIN g = 1 .. Len(g) /\ DOMAIN m = 1 .. Len(m)
  BY <1>1, <1>2
<1>11. \A i \in 0 .. n - 1 : /\ data + i * 2 \in 1 .. Len(g)
                             /\ data + i * 2 \notin {r + 1, r + 2, r + 3, d, d + 1}
  BY <1>1, <1>2
<1> HIDE DEF d
<1>12. w[r].n = TYPE_MAP
  <2>1. r \notin {r + 1, r + 2, r + 3, d, d + 1} /\ r \in r .. r + 3
    BY <1>1, <1>9
  <2>2. r \in DOMAIN m
    BY <2>1, <1>1
  <2> QED BY <2>1, <2>2, <1>1, <1>3, <1>8, <1>10
<1>13. \A i \in 0 .. n - 1 : w[data + i * 2] = KeyIn(m, r, i)
  BY <1>5, <1>8, <1>10, <1>11
<1>14. \A i, j \in 0 .. n : w[data + i * 2] = w[data + j * 2] => i = j
  <2>1. \A i \in 0 .. n : i \in 0 .. n - 1 \/ i = n
    BY <1>1
  <2>2. w[data + n * 2] = k
    BY <1>8 DEF d
  <2> QED BY <2>1, <2>2, <1>5, <1>6, <1>13
<1>15. KeysKept(m, w, r)
  <2>1. n <= n + 1
    BY <1>1
  <2>2. \A i \in 0 .. n - 1 : KeyIn(w, r, i) = KeyIn(m, r, i)
    BY <1>8, <1>13 DEF KeyIn
  <2> QED BY <2>1, <2>2, <1>1, <1>8 DEF KeysKept
<1>16. \A c \in DOMAIN m \ ExtentIn(m, r) : w[c] = m[c]
  <2>1. ASSUME NEW c \in DOMAIN m \ ExtentIn(m, r) PROVE w[c] = m[c]
    <3>1. c \notin Len(m) + 1 .. Len(g)
      BY <1>10, <1>2
    <3>2. c \notin r .. r + 3 /\ c \notin data .. data + cap * 2 - 1
      BY <3>1, <1>1, <1>4
    <3>3. r + 1 \in r .. r + 3 /\ r + 2 \in r .. r + 3 /\ r + 3 \in r .. r + 3
      BY <1>1
    <3>4. c \notin {r + 1, r + 2, r + 3, d, d + 1}
      BY <3>2, <3>3, <1>9
    <3> QED BY <3>4, <1>3, <1>8, <1>10
  <2> QED BY <2>1
<1>17. MapWritten(m, w, r, cap, n + 1, data)
  <2> DEFINE more == n + 1
  <2>1. more \in 0 .. cap /\ more - 1 = n
    BY <1>1, <1>2
  <2>2. w[r + 1].n = cap /\ w[r + 2].n = more /\ w[r + 3].n = data /\ r + 4 <= data
    BY <1>2, <1>8
  <2> HIDE DEF more
  <2>3. \A i, j \in 0 .. more - 1 : w[data + i * 2] = w[data + j * 2] => i = j
    BY <2>1, <1>14
  <2>4. /\ Len(m) <= Len(w)
        /\ data .. data + cap * 2 - 1 \subseteq ExtentIn(m, r) \cup (Len(m) + 1 .. Len(w))
    BY <1>2, <1>4, <1>8
  <2>5. cap \in Nat \ {0} /\ data \in Nat
    BY <1>2
  <2>6. MapWritten(m, w, r, cap, more, data)
    BY <2>1, <2>2, <2>3, <2>4, <2>5, <1>12, <1>16 DEF MapWritten
  <2> QED BY <2>6 DEF more
<1>18. Cellular(w)
  BY <1>2, <1>8 DEF Cellular
<1>19. Good(w, R, L)
  BY <1>1, <1>15, <1>17, <1>18, MapStaysGood, SameLoops
<1>20. MapChanged(m, w, r)
  <2> DEFINE more == n + 1
  <2>1. MapWritten(m, w, r, cap, more, data)
    BY <1>17
  <2> HIDE DEF more
  <2> QED BY <1>1, <2>1, MapIsChanged
<1> QED BY <1>19, <1>20 DEF w

(* The value of a key is written.                                          *)
LEMMA ValuePut ==
  ASSUME NEW m, NEW R, NEW L, NEW r \in Range(R), Good(m, R, L),
         NEW cap, NEW n, NEW data, MapAt(m, r, cap, n, data),
         NEW at \in 0 .. n - 1, NEW v \in Cell
  PROVE  /\ Good([m EXCEPT ![data + at * 2 + 1] = v], R, L)
         /\ MapChanged(m, [m EXCEPT ![data + at * 2 + 1] = v], r)
<1> DEFINE d == data + at * 2 + 1
           w == [m EXCEPT ![d] = v]
<1>1. /\ m \in Seq(Cell) /\ Len(m) < MAX_HEAP /\ r \in Nat \ {0}
      /\ cap \in Nat \ {0} /\ n \in Nat /\ n <= cap
      /\ data \in Nat \ {0} /\ r + 4 <= data /\ data + cap * 2 - 1 <= Len(m)
      /\ Len(m) \in Nat /\ DOMAIN m = 1 .. Len(m)
  BY DEF MapAt
<1>2. /\ m[r].n = TYPE_MAP /\ m[r + 1].n = cap /\ m[r + 2].n = n /\ m[r + 3].n = data
      /\ r .. r + 3 \subseteq DOMAIN m
  BY DEF MapAt
<1>3. data .. data + cap * 2 - 1 \subseteq ExtentIn(m, r)
  BY DEF MapAt
<1>4. \A i, j \in 0 .. n - 1 : m[data + i * 2] = m[data + j * 2] => i = j
  BY DEF MapAt
<1>5. d \in data .. data + cap * 2 - 1 /\ d \in DOMAIN m /\ d \notin r .. r + 3
  BY <1>1
<1>6. \A i \in 0 .. n - 1 : data + i * 2 # d /\ data + i * 2 \in DOMAIN m
  BY <1>1
<1> HIDE DEF d
<1>7. w \in Seq(Cell) /\ Len(w) = Len(m) /\ \A c \in DOMAIN m : c # d => w[c] = m[c]
  BY <1>1, <1>5
<1> HIDE DEF w
<1>8. w[r] = m[r] /\ w[r + 1] = m[r + 1] /\ w[r + 2] = m[r + 2] /\ w[r + 3] = m[r + 3]
  <2>1. \A c \in r .. r + 3 : w[c] = m[c]
    BY <1>2, <1>5, <1>7
  <2>2. r \in r .. r + 3 /\ r + 1 \in r .. r + 3 /\ r + 2 \in r .. r + 3 /\ r + 3 \in r .. r + 3
    BY <1>1
  <2> QED BY <2>1, <2>2
<1>9. \A i \in 0 .. n - 1 : w[data + i * 2] = m[data + i * 2]
  BY <1>6, <1>7
<1>10. KeysKept(m, w, r)
  <2>1. \A i \in 0 .. n - 1 : KeyIn(w, r, i) = KeyIn(m, r, i)
    BY <1>2, <1>8, <1>9 DEF KeyIn
  <2>2. n <= n
    BY <1>1
  <2> QED BY <2>1, <2>2, <1>2, <1>8 DEF KeysKept
<1>11. MapWritten(m, w, r, cap, n, data)
  <2>1. \A i, j \in 0 .. n - 1 : w[data + i * 2] = w[data + j * 2] => i = j
    BY <1>4, <1>9
  <2>2. \A c \in DOMAIN m \ ExtentIn(m, r) : w[c] = m[c]
    BY <1>3, <1>5, <1>7
  <2>3. Len(m) <= Len(w) /\ n \in 0 .. cap
    BY <1>1, <1>7
  <2>4. data .. data + cap * 2 - 1 \subseteq ExtentIn(m, r) \cup (Len(m) + 1 .. Len(w))
    BY <1>3
  <2>5. w[r].n = TYPE_MAP /\ w[r + 1].n = cap /\ w[r + 2].n = n /\ w[r + 3].n = data
    BY <1>2, <1>8
  <2> QED BY <2>1, <2>2, <2>3, <2>4, <2>5, <1>1 DEF MapWritten
<1>12. Cellular(w)
  BY <1>1, <1>7 DEF Cellular
<1>13. Good(w, R, L)
  BY <1>2, <1>10, <1>11, <1>12, MapStaysGood, SameLoops
<1>14. MapChanged(m, w, r)
  BY <1>2, <1>11, MapIsChanged
<1> QED BY <1>13, <1>14 DEF w, d

(* An entry is taken out, those behind it move down.                       *)
LEMMA EntryTaken ==
  ASSUME NEW R, NEW L, NEW K, NEW r \in Range(R), Good(mem, R, L),
         NEW cap, NEW n, NEW data, MapAt(mem, r, cap, n, data),
         NEW at \in 0 .. n - 1, LoopsAlike(K, L), Told(K, L, r)
  PROVE  LET w == [Copied(data + at * 2, data + at * 2 + 2, (n - 1 - at) * 2)
                     EXCEPT ![r + 2] = Raw(n - 1)]
         IN Good(w, R, K) /\ MapChanged(mem, w, r)
<1> DEFINE cell == data + at * 2
           len  == (n - 1 - at) * 2
           f    == Copied(cell, cell + 2, len)
           w    == [f EXCEPT ![r + 2] = Raw(n - 1)]
<1>1. /\ mem \in Seq(Cell) /\ Len(mem) < MAX_HEAP /\ r \in Nat \ {0}
      /\ cap \in Nat \ {0} /\ n \in Nat /\ n <= cap
      /\ data \in Nat \ {0} /\ r + 4 <= data /\ data + cap * 2 - 1 <= Len(mem)
      /\ Len(mem) \in Nat /\ DOMAIN mem = 1 .. Len(mem)
  BY DEF MapAt
<1>2. /\ mem[r].n = TYPE_MAP /\ mem[r + 1].n = cap /\ mem[r + 3].n = data
      /\ r .. r + 3 \subseteq DOMAIN mem /\ r .. r + 3 \subseteq ExtentIn(mem, r)
  BY DEF MapAt
<1>3. data .. data + cap * 2 - 1 \subseteq ExtentIn(mem, r)
  BY DEF MapAt
<1>4. \A i, j \in 0 .. n - 1 : mem[data + i * 2] = mem[data + j * 2] => i = j
  BY DEF MapAt
<1>5. /\ len \in Nat /\ cell \in Nat /\ cell + 2 \in Nat /\ cell <= cell + 2
      /\ cell .. cell + len - 1 \subseteq 1 .. Len(mem)
      /\ cell + 2 .. cell + 2 + len - 1 \subseteq 1 .. Len(mem)
      /\ cell .. cell + len - 1 \subseteq data .. data + cap * 2 - 1
  BY <1>1
<1>5a. \A i \in 0 .. n - 2 : /\ data + i * 2 \in 1 .. Len(mem) /\ data + i * 2 # r + 2
                             /\ i < at => data + i * 2 \notin cell .. cell + len - 1
                             /\ ~ i < at => /\ data + i * 2 \in cell .. cell + len - 1
                                            /\ cell + 2 + (data + i * 2) - cell = data + (i + 1) * 2
  BY <1>1
<1>5b. r + 3 < cell
  BY <1>1
<1> HIDE DEF cell, len
<1>6. f = [c \in DOMAIN mem |-> IF c \in cell .. cell + len - 1 THEN mem[cell + 2 + c - cell] ELSE mem[c]]
  <2> DEFINE from == cell + 2
  <2>1. from \in Nat /\ cell <= from
    BY <1>5
  <2>2. cell .. cell + len - 1 \subseteq DOMAIN mem /\ from .. from + len - 1 \subseteq DOMAIN mem
    BY <1>1, <1>5
  <2> HIDE DEF from
  <2>3. CanCopy(cell, from, len)
    BY <1>1, <1>5, <2>1, <2>2 DEF CanCopy
  <2>4. Copied(cell, from, len) = Moved(cell, from, len)
    BY <2>3, CopyIs
  <2> QED BY <2>4 DEF from, Moved
<1> HIDE DEF f
<1>7. f \in Seq(Cell) /\ Len(f) = Len(mem)
  <2>1. \A c \in cell .. cell + len - 1 : cell + 2 + c - cell \in cell + 2 .. cell + 2 + len - 1
    BY <1>5
  <2>2. \A c \in DOMAIN mem : mem[c] \in Cell
    BY <1>1
  <2>3. f \in [1 .. Len(mem) -> Cell]
    BY <2>1, <2>2, <1>1, <1>5, <1>6
  <2>4. \A x \in Nat : \A h \in [1 .. x -> Cell] : h \in Seq(Cell) /\ Len(h) = x
    OBVIOUS
  <2> QED BY <2>3, <2>4, <1>1
<1>8. r + 2 \in 1 .. Len(mem) /\ Raw(n - 1) \in Cell /\ Raw(n - 1).n = n - 1
  <2>1. r + 2 \in r .. r + 3 /\ n - 1 \in Int
    BY <1>1
  <2> QED BY <2>1, <1>1, <1>2, RawCells
<1>9. /\ w \in Seq(Cell) /\ Len(w) = Len(mem) /\ w[r + 2] = Raw(n - 1)
      /\ \A c \in DOMAIN mem : c # r + 2 => w[c] = f[c]
  <2> DEFINE a == r + 2
             x == Raw(n - 1)
  <2>1. a \in DOMAIN f /\ x \in Cell
    BY <1>7, <1>8
  <2> HIDE DEF a, x
  <2>2. LET g == [f EXCEPT ![a] = x]
        IN /\ g \in Seq(Cell) /\ Len(g) = Len(f) /\ g[a] = x
           /\ \A c \in DOMAIN f : c # a => g[c] = f[c]
    BY <2>1, <1>7
  <2>3. DOMAIN f = DOMAIN mem
    BY <1>6
  <2> QED BY <2>2, <2>3, <1>7 DEF a, x
<1> HIDE DEF w
<1>10. \A c \in DOMAIN mem : c # r + 2 /\ c \notin cell .. cell + len - 1 => w[c] = mem[c]
  BY <1>6, <1>9
<1>11. w[r].n = TYPE_MAP /\ w[r + 1].n = cap /\ w[r + 2].n = n - 1 /\ w[r + 3].n = data
  <2>1. /\ r \in r .. r + 3 /\ r + 1 \in r .. r + 3 /\ r + 3 \in r .. r + 3
        /\ r \notin cell .. cell + len - 1 /\ r + 1 \notin cell .. cell + len - 1
        /\ r + 3 \notin cell .. cell + len - 1
    BY <1>1, <1>5, <1>5b
  <2>2. r # r + 2 /\ r + 1 # r + 2 /\ r + 3 # r + 2
    BY <1>1
  <2>3. w[r] = mem[r] /\ w[r + 1] = mem[r + 1] /\ w[r + 3] = mem[r + 3]
    BY <2>1, <2>2, <1>2, <1>10
  <2> QED BY <2>3, <1>2, <1>8, <1>9
<1>12. \A i \in 0 .. n - 2 : w[data + i * 2] = mem[data + (IF i < at THEN i ELSE i + 1) * 2]
  <2>1. ASSUME NEW i \in 0 .. n - 2
        PROVE  w[data + i * 2] = mem[data + (IF i < at THEN i ELSE i + 1) * 2]
    <3> DEFINE c == data + i * 2
    <3>1. c \in DOMAIN mem /\ c # r + 2
      BY <1>1, <1>5a
    <3>2. CASE i < at
      <4>1. c \notin cell .. cell + len - 1
        BY <3>2, <1>5a
      <4> QED BY <3>1, <3>2, <4>1, <1>10
    <3>3. CASE ~ i < at
      <4>1. c \in cell .. cell + len - 1 /\ cell + 2 + c - cell = data + (i + 1) * 2
        BY <3>3, <1>5a
      <4>2. w[c] = mem[cell + 2 + c - cell]
        <5> HIDE DEF c
        <5> QED BY <3>1, <4>1, <1>6, <1>9
      <4> QED BY <3>3, <4>1, <4>2
    <3> QED BY <3>2, <3>3
  <2> QED BY <2>1
<1>13. \A i, j \in 0 .. n - 2 : w[data + i * 2] = w[data + j * 2] => i = j
  <2>1. ASSUME NEW i \in 0 .. n - 2, NEW j \in 0 .. n - 2, w[data + i * 2] = w[data + j * 2]
        PROVE  i = j
    <3> DEFINE x == IF i < at THEN i ELSE i + 1
               y == IF j < at THEN j ELSE j + 1
    <3>1. x \in 0 .. n - 1 /\ y \in 0 .. n - 1 /\ (x = y => i = j)
      BY <1>1
    <3>2. mem[data + x * 2] = mem[data + y * 2]
      BY <2>1, <1>12
    <3> HIDE DEF x, y
    <3> QED BY <3>1, <3>2, <1>4
  <2> QED BY <2>1
<1>14. MapWritten(mem, w, r, cap, n - 1, data)
  <2>1. n - 1 \in 0 .. cap /\ n - 1 - 1 = n - 2 /\ Len(mem) <= Len(w) /\ data \in Nat
    BY <1>1, <1>9
  <2>2. \A c \in DOMAIN mem \ ExtentIn(mem, r) : w[c] = mem[c]
    <3>1. r + 2 \in r .. r + 3
      BY <1>1
    <3> QED BY <3>1, <1>2, <1>3, <1>5, <1>10
  <2>3. data .. data + cap * 2 - 1 \subseteq ExtentIn(mem, r) \cup (Len(mem) + 1 .. Len(w))
    BY <1>3
  <2>4. \A i, j \in 0 .. n - 1 - 1 : w[data + i * 2] = w[data + j * 2] => i = j
    BY <2>1, <1>13
  <2> QED BY <2>1, <2>2, <2>3, <2>4, <1>1, <1>11 DEF MapWritten
<1>15. Cellular(w)
  BY <1>1, <1>9 DEF Cellular
<1>16. Good(w, R, K)
  <2> DEFINE less == n - 1
  <2>1. MapWritten(mem, w, r, cap, less, data)
    BY <1>14
  <2>2. mem[r].n = TYPE_MAP
    BY <1>2
  <2> HIDE DEF less
  <2> QED BY <2>1, <2>2, <1>15, MapStaysGood, Zenon
<1>17. MapChanged(mem, w, r)
  <2> DEFINE less == n - 1
  <2>1. MapWritten(mem, w, r, cap, less, data)
    BY <1>14
  <2> HIDE DEF less
  <2> QED BY <1>2, <2>1, MapIsChanged
<1> QED BY <1>16, <1>17 DEF w, f, cell, len
-----------------------------------------------------------------------------
(* What lists hold.                                                        *)

LEMMA FunctionIsSeq ==
  ASSUME NEW S, NEW n \in Nat, NEW f \in [1 .. n -> S]
  PROVE  f \in Seq(S) /\ Len(f) = n
  OBVIOUS

LEMMA Subsequence ==
  ASSUME NEW S, NEW s \in Seq(S), NEW a \in Nat \ {0}, NEW b \in Int, b <= Len(s)
  PROVE  SubSeq(s, a, b) \in Seq(S) /\ Len(SubSeq(s, a, b)) = IF a <= b THEN b - a + 1 ELSE 0
<1>1. Len(s) \in Nat /\ \A i \in 1 .. Len(s) : s[i] \in S
  BY ElementOfSeq, LenProperties
<1>2. \A i \in a .. b : s[i] \in S
  BY <1>1
<1> QED BY <1>2, SubSeqProperties

InHeap(at, n) == at \in Nat \ {0} /\ n \in Nat /\ at + n - 1 <= Len(mem) /\ mem \in Seq(Cell)

LEMMA BlockIs ==
  ASSUME NEW at, NEW n, InHeap(at, n)
  PROVE  Block(at, n) \in Seq(Cell) /\ Len(Block(at, n)) = n
<1> DEFINE top == at + n - 1
<1>1. mem \in Seq(Cell) /\ at \in Nat \ {0} /\ n \in Nat /\ top \in Int /\ top <= Len(mem)
  BY DEF InHeap
<1>2. IF at <= top THEN top - at + 1 = n ELSE n = 0
  BY <1>1
<1>3. Block(at, n) = SubSeq(mem, at, top)
  BY DEF Block
<1> HIDE DEF top
<1> QED BY <1>1, <1>2, <1>3, Subsequence

(* An array, or bytes, of n items at r.                                    *)
ListAt(r, n) ==
  /\ mem \in Seq(Cell) /\ Len(mem) \in Nat /\ r \in Nat \ {0} /\ n \in Nat /\ Length(r) = n
  /\ Type(r) = TYPE_ARRAY => r + 1 + n <= Len(mem)
  /\ Type(r) = TYPE_BYTES =>
       /\ r + 1 + Cells(n) <= Len(mem)
       /\ \A c \in r + 2 .. r + 1 + Cells(n) : mem[c] \in ByteCell

LEMMA ListIsAt ==
  ASSUME Inv, NEW r \in OfType(Listed)
  PROVE  ListAt(r, Length(r))
<1> DEFINE n == mem[r + 1].n
<1>1. r \in Range(refs) /\ mem[r].n \in Listed
  BY DEF OfType, Type
<1>2. SoundIn(mem, r) /\ mem \in Seq(Cell)
  BY <1>1 DEF Inv, Good, AllSound, Cellular
<1>3. r \in Nat \ {0} /\ n \in Nat /\ ExtentIn(mem, r) \subseteq 1 .. Len(mem) /\ Len(mem) \in Nat
  BY <1>1, <1>2 DEF SoundIn
<1>4. Cells(n) \in Nat
  BY <1>3, CellCount
<1>5. mem[r].n = TYPE_ARRAY => r + 1 + n <= Len(mem)
  <2>1. SUFFICES ASSUME mem[r].n = TYPE_ARRAY PROVE r + 1 + n <= Len(mem)
    OBVIOUS
  <2>2. ExtentIn(mem, r) = r .. r + 1 + n
    BY <2>1 DEF ExtentIn, TYPE_ARRAY, TYPE_BYTES, TYPE_MAP
  <2> HIDE DEF n
  <2>3. r + 1 + n \in r .. r + 1 + n
    BY <1>3
  <2>4. r + 1 + n \in 1 .. Len(mem)
    BY <1>3, <2>2, <2>3
  <2> QED BY <2>4
<1>6. mem[r].n = TYPE_BYTES => r + 1 + Cells(n) <= Len(mem)
  <2>1. SUFFICES ASSUME mem[r].n = TYPE_BYTES PROVE r + 1 + Cells(n) <= Len(mem)
    OBVIOUS
  <2>2. ExtentIn(mem, r) = r .. r + 1 + Cells(n)
    BY <2>1 DEF ExtentIn, TYPE_ARRAY, TYPE_BYTES, TYPE_MAP
  <2> HIDE DEF n
  <2>3. r + 1 + Cells(n) \in r .. r + 1 + Cells(n)
    BY <1>3, <1>4
  <2>4. r + 1 + Cells(n) \in 1 .. Len(mem)
    BY <1>3, <2>2, <2>3
  <2> QED BY <2>4
<1>7. mem[r].n = TYPE_BYTES => \A c \in r + 2 .. r + 1 + Cells(n) : mem[c] \in ByteCell
  BY <1>2 DEF SoundIn
<1>8. Length(r) = n /\ Type(r) = mem[r].n
  BY DEF Length, Type
<1> HIDE DEF n
<1>9. ListAt(r, n)
  BY <1>2, <1>3, <1>5, <1>6, <1>7, <1>8 DEF ListAt
<1> QED BY <1>8, <1>9

LEMMA ByteIs ==
  ASSUME NEW r, NEW n, ListAt(r, n), Type(r) = TYPE_BYTES, NEW i \in 0 .. n - 1
  PROVE  ByteAt(r, i) \in 0 .. BYTE - 1
<1> DEFINE d == i \div PerCell
           c == r + 2 + d
<1>1. r \in Nat \ {0} /\ n \in Nat /\ \A x \in r + 2 .. r + 1 + Cells(n) : mem[x] \in ByteCell
  BY DEF ListAt
<1>2. Cells(n) \in Nat /\ d \in Nat /\ d < Cells(n) /\ (i % PerCell) \in 0 .. PerCell - 1
  BY <1>1, CellCount
<1>3. ByteAt(r, i) = mem[c].b[i % PerCell]
  BY DEF ByteAt
<1> HIDE DEF d
<1>4. c \in r + 2 .. r + 1 + Cells(n)
  BY <1>1, <1>2
<1> HIDE DEF c
<1>5. PICK b \in [0 .. PerCell - 1 -> 0 .. BYTE - 1] : mem[c] = Pack(b)
  BY <1>1, <1>4 DEF ByteCell
<1>6. mem[c].b = b
  BY <1>5 DEF Pack
<1> QED BY <1>2, <1>3, <1>5, <1>6

LEMMA BytesOfIs ==
  ASSUME NEW r, NEW n, ListAt(r, n), Type(r) = TYPE_BYTES
  PROVE  BytesOf(r) \in Seq(0 .. BYTE - 1) /\ Len(BytesOf(r)) = n
<1>1. n \in Nat /\ Length(r) = n
  BY DEF ListAt
<1>2. \A i \in 1 .. n : ByteAt(r, i - 1) \in 0 .. BYTE - 1
  <2>1. ASSUME NEW i \in 1 .. n PROVE ByteAt(r, i - 1) \in 0 .. BYTE - 1
    <3>1. i - 1 \in 0 .. n - 1
      BY <1>1
    <3> QED BY <3>1, ByteIs
  <2> QED BY <2>1
<1>3. BytesOf(r) = [i \in 1 .. n |-> ByteAt(r, i - 1)]
  BY <1>1 DEF BytesOf
<1>4. BytesOf(r) \in [1 .. n -> 0 .. BYTE - 1]
  BY <1>2, <1>3
<1> QED BY <1>1, <1>4, FunctionIsSeq

LEMMA ItemIs ==
  ASSUME Inv, NEW r \in OfType(Listed), NEW i \in 0 .. Length(r) - 1
  PROVE  Item(r, i) \in Cell
<1> DEFINE n == Length(r)
<1>1. ListAt(r, n)
  BY ListIsAt
<1> HIDE DEF n
<1>2. /\ mem \in Seq(Cell) /\ Len(mem) \in Nat /\ r \in Nat \ {0} /\ n \in Nat
      /\ Type(r) = TYPE_ARRAY => r + 1 + n <= Len(mem)
  BY <1>1 DEF ListAt
<1>3. i \in 0 .. n - 1
  BY DEF n
<1>4. CASE Type(r) = TYPE_BYTES
  <2>1. ByteAt(r, i) \in 0 .. BYTE - 1
    BY <1>1, <1>3, <1>4, ByteIs
  <2>2. Num(ByteAt(r, i)) \in Cell
    <3>1. \A b \in 0 .. BYTE - 1 : b \in Int
      OBVIOUS
    <3> QED BY <2>1, <3>1, RawCells
  <2> QED BY <2>2, <1>4 DEF Item
<1>5. CASE Type(r) # TYPE_BYTES
  <2>1. Type(r) = TYPE_ARRAY
    BY <1>5 DEF OfType, Listed
  <2>2. r + 2 + i \in 1 .. Len(mem)
    BY <1>2, <1>3, <2>1
  <2>3. mem[r + 2 + i] \in Cell
    BY <1>2, <2>2, ElementOfSeq
  <2> QED BY <2>3, <1>5 DEF Item
<1> QED BY <1>4, <1>5
-----------------------------------------------------------------------------
(* The steps that make objects.                                            *)

LEMMA MakesGood ==
  ASSUME Inv, NEW object \in Seq(Cell), Makes(object),
         SoundIn(mem \o object, Len(mem) + 1),
         ExtentIn(mem \o object, Len(mem) + 1) \subseteq Len(mem) + 1 .. Len(mem) + Len(object)
  PROVE  Inv'
<1>1. /\ Len(mem) + Len(object) < MAX_HEAP /\ Len(refs) < MaxObjects
      /\ mem' = mem \o object /\ refs' = Append(refs, Len(mem) + 1) /\ loops' = loops
  BY DEF Makes, HasRoom
<1>2. Good(mem \o object, Append(refs, Len(mem) + 1), loops)
  BY <1>1, ObjectMade DEF Inv
<1> QED BY <1>1, <1>2 DEF Inv

LEMMA MakesArray ==
  ASSUME Inv, NEW items \in Seq(Cell), Makes(Array(items))
  PROVE  Inv'
<1>1. Len(mem) + Len(Array(items)) < MAX_HEAP
  BY DEF Makes, HasRoom
<1>2. /\ Array(items) \in Seq(Cell) /\ SoundIn(mem \o Array(items), Len(mem) + 1)
      /\ ExtentIn(mem \o Array(items), Len(mem) + 1) = Len(mem) + 1 .. Len(mem) + Len(Array(items))
  BY <1>1, ArrayIsSound DEF Inv
<1> QED BY <1>2, MakesGood

LEMMA MakesBytes ==
  ASSUME Inv, NEW bytes \in Seq(0 .. BYTE - 1), Makes(Bytes(bytes))
  PROVE  Inv'
<1>1. Len(mem) + Len(Bytes(bytes)) < MAX_HEAP
  BY DEF Makes, HasRoom
<1>2. /\ Bytes(bytes) \in Seq(Cell) /\ SoundIn(mem \o Bytes(bytes), Len(mem) + 1)
      /\ ExtentIn(mem \o Bytes(bytes), Len(mem) + 1) = Len(mem) + 1 .. Len(mem) + Len(Bytes(bytes))
  BY <1>1, BytesAreSound DEF Inv
<1> QED BY <1>2, MakesGood

LEMMA MakeArrayGood ==
  ASSUME Inv, NEW items \in Written, MakeArray(items)
  PROVE  Inv'
<1>1. PICK n \in 0 .. MaxItems : items \in [1 .. n -> Literals]
  BY DEF Written
<1>2. n \in Nat /\ items \in [1 .. n -> Cell]
  BY <1>1, RawCells
<1>3. items \in Seq(Cell)
  BY <1>2, FunctionIsSeq
<1> QED BY <1>3, MakesArray DEF MakeArray

LEMMA MakeBytesGood ==
  ASSUME Inv, NEW nums \in Written, MakeBytes(nums)
  PROVE  Inv'
<1> DEFINE bytes == [i \in DOMAIN nums |-> nums[i].n % BYTE]
<1>1. PICK n \in 0 .. MaxItems : nums \in [1 .. n -> Literals]
  BY DEF Written
<1>2. \A v \in Literals : v.n \in Nat
  BY ContainerConstants
<1>3. \A k \in Nat : (k % BYTE) \in 0 .. BYTE - 1
  BY ContainerConstants
<1>4. n \in Nat /\ bytes \in [1 .. n -> 0 .. BYTE - 1]
  <2>1. n \in Nat /\ DOMAIN nums = 1 .. n
    BY <1>1
  <2>2. \A i \in 1 .. n : (nums[i].n % BYTE) \in 0 .. BYTE - 1
    BY <1>1, <1>2, <1>3
  <2> QED BY <2>1, <2>2
<1>5. bytes \in Seq(0 .. BYTE - 1)
  BY <1>4, FunctionIsSeq
<1>6. Makes(Bytes(bytes))
  BY DEF MakeBytes
<1> HIDE DEF bytes
<1> QED BY <1>5, <1>6, MakesBytes

LEMMA MakeMapGood ==
  ASSUME Inv, MakeMap
  PROVE  Inv'
<1>1. Makes(MapCells(Len(mem)))
  BY DEF MakeMap, MapCells
<1>2. Len(mem) + Len(MapCells(Len(mem))) < MAX_HEAP
  BY <1>1 DEF Makes, HasRoom
<1>3. /\ MapCells(Len(mem)) \in Seq(Cell) /\ SoundIn(mem \o MapCells(Len(mem)), Len(mem) + 1)
      /\ ExtentIn(mem \o MapCells(Len(mem)), Len(mem) + 1)
           \subseteq Len(mem) + 1 .. Len(mem) + Len(MapCells(Len(mem)))
  BY <1>2, MapIsSound DEF Inv
<1> QED BY <1>1, <1>3, MakesGood

LEMMA MakeRangeGood ==
  ASSUME Inv, NEW start \in Index, NEW stop \in Index, MakeRange(start, stop)
  PROVE  Inv'
<1> DEFINE step == IF stop >= start THEN 1 ELSE -1
           count == step * (stop - start) + 1
           items == [i \in 1 .. count |-> Num(start + (i - 1) * step)]
<1>1. start \in Int /\ stop \in Int
  BY ContainerConstants
<1>2. step \in Int /\ count \in Nat
  BY <1>1
<1>3. Makes(Array(items))
  BY DEF MakeRange
<1> HIDE DEF step
<1>4. \A i \in 1 .. count : start + (i - 1) * step \in Int
  BY <1>1, <1>2
<1> HIDE DEF count
<1>5. items \in [1 .. count -> Cell]
  BY <1>4, RawCells
<1> HIDE DEF items
<1>6. items \in Seq(Cell)
  BY <1>2, <1>5, FunctionIsSeq
<1> QED BY <1>3, <1>6, MakesArray

LEMMA ItemsAtIs ==
  ASSUME NEW r, NEW n, ListAt(r, n), Type(r) = TYPE_ARRAY
  PROVE  ItemsAt(r) \in Seq(Cell) /\ Len(ItemsAt(r)) = n
<1>1. InHeap(r + 2, n) /\ Length(r) = n
  BY DEF InHeap, ListAt
<1> QED BY <1>1, BlockIs DEF ItemsAt

LEMMA ConcatGood ==
  ASSUME Inv, NEW r \in OfType(Listed), NEW q \in OfType({Type(r)}), Concat(r, q)
  PROVE  Inv'
<1>1. Type(q) = Type(r) /\ Type(r) \in Listed /\ q \in OfType(Listed)
  BY DEF OfType
<1>2. ListAt(r, Length(r)) /\ ListAt(q, Length(q))
  BY <1>1, ListIsAt
<1>3. CASE Type(r) = TYPE_ARRAY
  <2>1. ItemsAt(r) \in Seq(Cell) /\ ItemsAt(q) \in Seq(Cell)
    BY <1>1, <1>2, <1>3, ItemsAtIs
  <2>2. ItemsAt(r) \o ItemsAt(q) \in Seq(Cell)
    BY <2>1, Concatenated
  <2> QED BY <2>2, <1>3, MakesArray DEF Concat
<1>4. CASE Type(r) # TYPE_ARRAY
  <2>1. Type(r) = TYPE_BYTES
    BY <1>1, <1>4 DEF Listed
  <2>2. BytesOf(r) \in Seq(0 .. BYTE - 1) /\ BytesOf(q) \in Seq(0 .. BYTE - 1)
    BY <1>1, <1>2, <2>1, BytesOfIs
  <2>3. BytesOf(r) \o BytesOf(q) \in Seq(0 .. BYTE - 1)
    BY <2>2, Concatenated
  <2> QED BY <2>3, <1>4, MakesBytes DEF Concat
<1> QED BY <1>3, <1>4

LEMMA BroadcastGood ==
  ASSUME Inv, NEW r \in OfType(Listed), NEW v, Sums(r, v) \subseteq Value, Broadcast(r, v)
  PROVE  Inv'
<1> DEFINE n == Length(r)
           items == [i \in 1 .. n |-> Plus(Item(r, i - 1), v)]
<1>1. n \in Nat
  BY ListIsAt DEF ListAt
<1>2. \A i \in 1 .. n : Plus(Item(r, i - 1), v) \in Sums(r, v)
  <2>1. \A i \in 1 .. n : i - 1 \in 0 .. n - 1
    BY <1>1
  <2> QED BY <2>1 DEF Sums
<1>3. items \in [1 .. n -> Cell]
  BY <1>2, RawCells
<1>4. Makes(Array(items))
  BY DEF Broadcast
<1> HIDE DEF items, n
<1>5. items \in Seq(Cell)
  BY <1>1, <1>3, FunctionIsSeq
<1> QED BY <1>4, <1>5, MakesArray

LEMMA AddGood ==
  ASSUME Inv, NEW r \in OfType({TYPE_ARRAY}), NEW k \in Index, NEW v \in Literals, Add(r, k, v)
  PROVE  Inv'
<1> DEFINE n == Length(r)
           x == FromEnd(k, n)
           i == Min({n, Max({0, x})})
           a == Block(r + 2, i)
           b == Block(r + 2 + i, n - i)
<1>1. r \in OfType(Listed) /\ Type(r) = TYPE_ARRAY
  BY DEF OfType, Listed
<1>2. ListAt(r, n)
  BY <1>1, ListIsAt
<1>3. Makes(Array(a \o <<v>> \o b))
  BY DEF Add
<1> HIDE DEF n
<1>4. n \in Nat /\ r \in Nat \ {0} /\ r + 1 + n <= Len(mem) /\ mem \in Seq(Cell) /\ Len(mem) \in Nat
  BY <1>1, <1>2 DEF ListAt
<1>5. k \in Int
  BY ContainerConstants
<1>6. x \in Int
  BY <1>4, <1>5 DEF FromEnd
<1> HIDE DEF x
<1>7. i \in 0 .. n
  <2>1. Max({0, x}) = (IF 0 <= x THEN x ELSE 0)
    BY <1>6, OfTwo
  <2>2. Max({0, x}) \in Nat
    BY <2>1, <1>6
  <2>3. \A y \in Nat : Min({n, y}) \in 0 .. n
    <3>1. ASSUME NEW y \in Nat PROVE Min({n, y}) \in 0 .. n
      <4>1. Min({n, y}) = IF n <= y THEN n ELSE y
        BY <1>4, OfTwo
      <4> QED BY <4>1, <1>4
    <3> QED BY <3>1
  <2> QED BY <2>2, <2>3
<1> HIDE DEF i
<1>8. InHeap(r + 2, i) /\ InHeap(r + 2 + i, n - i)
  BY <1>4, <1>7 DEF InHeap
<1>9. a \in Seq(Cell) /\ b \in Seq(Cell)
  BY <1>8, BlockIs
<1>10. <<v>> \in Seq(Cell)
  BY RawCells
<1> HIDE DEF a, b
<1>11. a \o <<v>> \in Seq(Cell)
  BY <1>9, <1>10, Concatenated
<1>12. a \o <<v>> \o b \in Seq(Cell)
  BY <1>9, <1>11, Concatenated
<1> QED BY <1>3, <1>12, MakesArray

(* A slice is inside its list.                                             *)
LEMMA SliceInside ==
  ASSUME NEW r, NEW n, ListAt(r, n), NEW s \in Index, NEW e \in Index
  PROVE  /\ Start(r, s) \in Nat /\ SliceLen(r, s, e) \in Nat
         /\ SliceLen(r, s, e) > 0 => Start(r, s) + SliceLen(r, s, e) <= n
<1> DEFINE x == FromEnd(s, n)
           y == FromEnd(e, n)
           a == Start(r, s)
           b == Stop(r, e)
<1>1. n \in Nat /\ Length(r) = n /\ s \in Int /\ e \in Int
  BY ContainerConstants DEF ListAt
<1>2. x \in Int /\ y \in Int
  BY <1>1 DEF FromEnd
<1>3. a = Max({0, x}) /\ b = IF y >= n THEN n - 1 ELSE y
  BY <1>1 DEF Start, Stop
<1> HIDE DEF x, y, a, b
<1>4. a \in Nat
  <2>1. Max({0, x}) = (IF 0 <= x THEN x ELSE 0)
    BY <1>2, OfTwo
  <2> QED BY <2>1, <1>2, <1>3
<1>5. b \in Int /\ b <= n - 1
  BY <1>1, <1>2, <1>3
<1>6. SliceLen(r, s, e) = IF b >= a /\ a < n THEN b - a + 1 ELSE 0
  BY <1>1 DEF SliceLen, a, b
<1> QED BY <1>1, <1>4, <1>5, <1>6 DEF a

LEMMA SliceGood ==
  ASSUME Inv, NEW r \in OfType(Listed), NEW s \in Index, NEW e \in Index, Slice(r, s, e)
  PROVE  Inv'
<1> DEFINE n == Length(r)
           a == Start(r, s)
           k == SliceLen(r, s, e)
<1>1. ListAt(r, n)
  BY ListIsAt
<1>2. a \in Nat /\ k \in Nat /\ (k > 0 => a + k <= n)
  BY <1>1, SliceInside
<1>3. /\ Type(r) = TYPE_BYTES => Makes(Bytes(SubSeq(BytesOf(r), a + 1, a + k)))
      /\ Type(r) # TYPE_BYTES => Makes(Array(Block(r + 2 + a, k)))
  BY DEF Slice
<1> HIDE DEF n, a, k
<1>4. n \in Nat /\ r \in Nat \ {0} /\ mem \in Seq(Cell) /\ Len(mem) \in Nat
  BY <1>1 DEF ListAt
<1>5. CASE Type(r) = TYPE_BYTES
  <2> DEFINE t == BytesOf(r)
             from == a + 1
             to == a + k
  <2>1. t \in Seq(0 .. BYTE - 1) /\ Len(t) = n
    BY <1>1, <1>5, BytesOfIs
  <2> HIDE DEF t
  <2>2. SubSeq(t, from, to) \in Seq(0 .. BYTE - 1)
    <3>1. CASE k > 0
      <4>1. from \in Nat \ {0} /\ to \in Int /\ to <= Len(t)
        BY <3>1, <1>2, <1>4, <2>1
      <4> HIDE DEF from, to
      <4> QED BY <2>1, <4>1, Subsequence
    <3>2. CASE ~ k > 0
      <4>1. from \in Int /\ to \in Int /\ \A i \in from .. to : t[i] \in 0 .. BYTE - 1
        BY <3>2, <1>2
      <4> HIDE DEF from, to
      <4> QED BY <4>1, SubSeqProperties
    <3> QED BY <3>1, <3>2
  <2> QED BY <2>2, <1>3, <1>5, MakesBytes DEF t
<1>6. CASE Type(r) # TYPE_BYTES
  <2>1. Type(r) = TYPE_ARRAY
    BY <1>6 DEF OfType, Listed
  <2>2. r + 1 + n <= Len(mem)
    BY <2>1, <1>1 DEF ListAt
  <2> DEFINE at == r + 2 + a
  <2>3. Block(at, k) \in Seq(Cell)
    <3>1. CASE k > 0
      <4>1. InHeap(at, k)
        BY <3>1, <1>2, <1>4, <2>2 DEF InHeap
      <4> HIDE DEF at
      <4> QED BY <4>1, BlockIs
    <3>2. CASE ~ k > 0
      <4> DEFINE top == at + k - 1
      <4>1. at \in Int /\ top \in Int /\ \A i \in at .. top : mem[i] \in Cell
        BY <3>2, <1>2, <1>4
      <4>2. Block(at, k) = SubSeq(mem, at, top)
        BY DEF Block
      <4> HIDE DEF at, top
      <4> QED BY <4>1, <4>2, SubSeqProperties
    <3> QED BY <3>1, <3>2
  <2> QED BY <2>3, <1>3, <1>6, MakesArray
<1> QED BY <1>5, <1>6
-----------------------------------------------------------------------------
(* The steps that change objects.                                          *)

LEMMA ChangesGood ==
  ASSUME NEW m, Changes(m), Good(m, refs, loops)
  PROVE  Inv'
<1>1. mem' = m /\ refs' = refs /\ loops' = loops
  BY DEF Changes
<1> QED BY <1>1 DEF Inv

(* One item of an array.                                                   *)
LEMMA ItemWritten ==
  ASSUME NEW r, NEW n, ListAt(r, n), Type(r) = TYPE_ARRAY, NEW i \in 0 .. n - 1, NEW v \in Cell
  PROVE  /\ [mem EXCEPT ![r + 2 + i] = v] \in Seq(Cell)
         /\ ListWritten(mem, [mem EXCEPT ![r + 2 + i] = v], r)
<1> DEFINE c == r + 2 + i
           w == [mem EXCEPT ![c] = v]
<1>1. /\ mem \in Seq(Cell) /\ Len(mem) \in Nat /\ r \in Nat \ {0} /\ n \in Nat
      /\ r + 1 + n <= Len(mem)
  BY DEF ListAt
<1>2. mem[r].n = TYPE_ARRAY /\ mem[r + 1].n = n
  BY DEF ListAt, Type, Length
<1>3. ExtentIn(mem, r) = r .. r + 1 + n
  BY <1>2 DEF ExtentIn, TYPE_ARRAY, TYPE_BYTES, TYPE_MAP
<1>4. c \in DOMAIN mem /\ c \in r .. r + 1 + n /\ r # c /\ r + 1 # c
      /\ r \in DOMAIN mem /\ r + 1 \in DOMAIN mem
  BY <1>1
<1> HIDE DEF c
<1>5. w \in Seq(Cell) /\ Len(w) = Len(mem) /\ \A x \in DOMAIN mem : x # c => w[x] = mem[x]
  BY <1>1, <1>4
<1> HIDE DEF w
<1>6. w[r].n = TYPE_ARRAY /\ w[r + 1].n = n
  BY <1>2, <1>4, <1>5
<1>7. \A x \in DOMAIN mem \ ExtentIn(mem, r) : w[x] = mem[x]
  BY <1>3, <1>4, <1>5
<1>8. ListWritten(mem, w, r)
  <2>1. n \in 0 .. n
    BY <1>1
  <2> QED BY <2>1, <1>2, <1>5, <1>6, <1>7 DEF ListWritten, TYPE_ARRAY, TYPE_BYTES
<1> QED BY <1>5, <1>8 DEF w, c

(* Some bytes.                                                             *)
LEMMA BytesWritten ==
  ASSUME NEW r, NEW n, ListAt(r, n), Type(r) = TYPE_BYTES, NEW at \in Int,
         NEW bytes \in Seq(0 .. BYTE - 1)
  PROVE  BytesPut(r, at, bytes) \in Seq(Cell) /\ ListWritten(mem, BytesPut(r, at, bytes), r)
<1> DEFINE all == [i \in 1 .. n |-> IF i \in at + 1 .. at + Len(bytes)
                                    THEN bytes[i - at] ELSE ByteAt(r, i - 1)]
           cells == Packed(all)
           w == BytesPut(r, at, bytes)
<1>1. /\ mem \in Seq(Cell) /\ Len(mem) \in Nat /\ r \in Nat \ {0} /\ n \in Nat /\ Length(r) = n
      /\ r + 1 + Cells(n) <= Len(mem) /\ Len(bytes) \in Nat
  BY DEF ListAt
<1>2. mem[r].n = TYPE_BYTES /\ mem[r + 1].n = n
  BY DEF ListAt, Type, Length
<1>3. \A i \in 1 .. n : (IF i \in at + 1 .. at + Len(bytes) THEN bytes[i - at] ELSE ByteAt(r, i - 1))
                        \in 0 .. BYTE - 1
  <2>1. ASSUME NEW i \in 1 .. n
        PROVE  (IF i \in at + 1 .. at + Len(bytes) THEN bytes[i - at] ELSE ByteAt(r, i - 1))
                 \in 0 .. BYTE - 1
    <3>1. CASE i \in at + 1 .. at + Len(bytes)
      <4>1. i - at \in 1 .. Len(bytes)
        BY <3>1, <1>1
      <4>2. bytes[i - at] \in 0 .. BYTE - 1
        BY <4>1, ElementOfSeq
      <4> QED BY <3>1, <4>2
    <3>2. CASE i \notin at + 1 .. at + Len(bytes)
      <4>1. i - 1 \in 0 .. n - 1
        BY <1>1
      <4>2. ByteAt(r, i - 1) \in 0 .. BYTE - 1
        BY <4>1, ByteIs
      <4> QED BY <3>2, <4>2
    <3> QED BY <3>1, <3>2
  <2> QED BY <2>1
<1>4. all \in [1 .. n -> 0 .. BYTE - 1]
  BY <1>3
<1>5. w = [c \in DOMAIN mem |-> IF c \in r + 2 .. r + 1 + Len(cells) THEN cells[c - r - 1] ELSE mem[c]]
  BY <1>1 DEF BytesPut
<1> HIDE DEF all, w
<1>6. all \in Seq(0 .. BYTE - 1) /\ Len(all) = n
  BY <1>1, <1>4, FunctionIsSeq
<1>7. cells \in Seq(ByteCell) /\ Len(cells) = Cells(n) /\ Cells(n) \in Nat
  BY <1>6, PackedCells
<1> HIDE DEF cells
<1>8. \A c \in r + 2 .. r + 1 + Cells(n) : c \in DOMAIN mem /\ w[c] \in ByteCell
  <2>1. ASSUME NEW c \in r + 2 .. r + 1 + Cells(n) PROVE c \in DOMAIN mem /\ w[c] \in ByteCell
    <3>1. c \in DOMAIN mem /\ c - r - 1 \in 1 .. Len(cells)
      BY <1>1, <1>7
    <3>2. cells[c - r - 1] \in ByteCell
      BY <3>1, <1>7, ElementOfSeq
    <3> QED BY <3>1, <3>2, <1>5, <1>7
  <2> QED BY <2>1
<1>9. \A c \in DOMAIN mem : c \notin r + 2 .. r + 1 + Cells(n) => w[c] = mem[c]
  BY <1>5, <1>7
<1>10. w \in Seq(Cell) /\ Len(w) = Len(mem)
  <2>1. \A c \in DOMAIN mem : w[c] \in Cell
    <3>1. \A c \in DOMAIN mem : mem[c] \in Cell
      BY <1>1
    <3> QED BY <3>1, <1>8, <1>9, RawCells
  <2>2. DOMAIN mem = 1 .. Len(mem) /\ DOMAIN w = DOMAIN mem
    BY <1>1, <1>5
  <2>3. w = [c \in 1 .. Len(mem) |-> w[c]]
    BY <2>2, <1>5
  <2>4. w \in [1 .. Len(mem) -> Cell]
    BY <2>1, <2>2, <2>3
  <2> QED BY <2>4, <1>1, FunctionIsSeq
<1>11. w[r].n = TYPE_BYTES /\ w[r + 1].n = n
  <2>1. /\ r \in DOMAIN mem /\ r + 1 \in DOMAIN mem
        /\ r \notin r + 2 .. r + 1 + Cells(n) /\ r + 1 \notin r + 2 .. r + 1 + Cells(n)
    BY <1>1, <1>7
  <2> QED BY <2>1, <1>2, <1>9
<1>12. \A c \in DOMAIN mem \ ExtentIn(mem, r) : w[c] = mem[c]
  <2>1. ExtentIn(mem, r) = r .. r + 1 + Cells(n)
    BY <1>2 DEF ExtentIn, TYPE_BYTES, TYPE_MAP
  <2>2. r + 2 .. r + 1 + Cells(n) \subseteq r .. r + 1 + Cells(n)
    BY <1>1, <1>7
  <2> QED BY <2>1, <2>2, <1>9
<1>13. ListWritten(mem, w, r)
  <2>1. n \in 0 .. n
    BY <1>1
  <2> QED BY <2>1, <1>2, <1>8, <1>10, <1>11, <1>12 DEF ListWritten
<1> QED BY <1>10, <1>13 DEF w

LEMMA ChangedListGood ==
  ASSUME Inv, NEW r \in OfType(Listed), NEW w \in Seq(Cell), ListWritten(mem, w, r), Changes(w)
  PROVE  Inv'
<1>1. r \in Range(refs) /\ mem[r].n \in Listed
  BY DEF OfType, Type
<1>2. LoopsAlike(loops, loops)
  BY SameLoops DEF Inv
<1>3. Good(w, refs, loops)
  BY <1>1, <1>2, ListStaysGood DEF Inv
<1> QED BY <1>3, ChangesGood

LEMMA SetItemGood ==
  ASSUME Inv, NEW r \in OfType(Listed), NEW i \in Index, NEW v \in Literals, SetItem(r, i, v)
  PROVE  Inv'
<1>1. ListAt(r, Length(r)) /\ i \in 0 .. Length(r) - 1 /\ v \in Cell /\ v.n \in Nat /\ i \in Int
  BY ListIsAt, RawCells, ContainerConstants DEF SetItem
<1>2. CASE Type(r) = TYPE_ARRAY
  BY <1>1, <1>2, ItemWritten, ChangedListGood DEF SetItem
<1>3. CASE Type(r) # TYPE_ARRAY
  <2>1. Type(r) = TYPE_BYTES
    BY <1>3 DEF OfType, Listed
  <2>2. (v.n % BYTE) \in 0 .. BYTE - 1
    BY <1>1, ContainerConstants
  <2>3. <<v.n % BYTE>> \in Seq(0 .. BYTE - 1)
    BY <2>2
  <2>4. Changes(BytesPut(r, i, <<v.n % BYTE>>))
    BY <1>3 DEF SetItem
  <2> QED BY <1>1, <2>1, <2>3, <2>4, BytesWritten, ChangedListGood
<1> QED BY <1>2, <1>3

(* Cells of an array, copied from somewhere.                               *)
Inside(to, len, r, n) == to .. to + len - 1 \subseteq r + 2 .. r + 1 + n

LEMMA MovedIs ==
  ASSUME NEW to, NEW from, NEW len, CanCopy(to, from, len)
  PROVE  /\ Moved(to, from, len) \in Seq(Cell) /\ Len(Moved(to, from, len)) = Len(mem)
         /\ \A c \in DOMAIN mem : c \notin to .. to + len - 1 => Moved(to, from, len)[c] = mem[c]
<1> DEFINE f == Moved(to, from, len)
<1>1. /\ to \in Nat /\ from \in Nat /\ len \in Nat /\ mem \in Seq(Cell)
      /\ to .. to + len - 1 \subseteq DOMAIN mem /\ from .. from + len - 1 \subseteq DOMAIN mem
      /\ Len(mem) \in Nat /\ DOMAIN mem = 1 .. Len(mem)
  BY DEF CanCopy
<1>2. f = [c \in DOMAIN mem |-> IF c \in to .. to + len - 1 THEN mem[from + c - to] ELSE mem[c]]
  BY DEF Moved
<1> HIDE DEF f
<1>3. \A c \in to .. to + len - 1 : from + c - to \in from .. from + len - 1
  BY <1>1
<1>4. \A c \in DOMAIN mem : mem[c] \in Cell
  BY <1>1
<1>5. f \in [1 .. Len(mem) -> Cell]
  BY <1>1, <1>2, <1>3, <1>4
<1>6. f \in Seq(Cell) /\ Len(f) = Len(mem)
  BY <1>1, <1>5, FunctionIsSeq
<1> QED BY <1>2, <1>6 DEF f

LEMMA ItemsCopied ==
  ASSUME NEW r, NEW n, ListAt(r, n), Type(r) = TYPE_ARRAY,
         NEW to, NEW from, NEW len, CanCopy(to, from, len), Inside(to, len, r, n)
  PROVE  ListWritten(mem, Moved(to, from, len), r)
<1> DEFINE f == Moved(to, from, len)
<1>1. /\ mem \in Seq(Cell) /\ Len(mem) \in Nat /\ r \in Nat \ {0} /\ n \in Nat
      /\ r + 1 + n <= Len(mem)
  BY DEF ListAt
<1>2. mem[r].n = TYPE_ARRAY /\ mem[r + 1].n = n
  BY DEF ListAt, Type, Length
<1>3. ExtentIn(mem, r) = r .. r + 1 + n
  BY <1>2 DEF ExtentIn, TYPE_ARRAY, TYPE_BYTES, TYPE_MAP
<1>4. \A c \in DOMAIN mem : c \notin r + 2 .. r + 1 + n => f[c] = mem[c]
  BY MovedIs DEF Inside
<1>5. Len(f) = Len(mem)
  BY MovedIs
<1> HIDE DEF f
<1>6. r \in DOMAIN mem /\ r + 1 \in DOMAIN mem /\ r \notin r + 2 .. r + 1 + n /\ r + 1 \notin r + 2 .. r + 1 + n
  BY <1>1
<1>7. f[r].n = TYPE_ARRAY /\ f[r + 1].n = n
  BY <1>2, <1>4, <1>6
<1>8. \A c \in DOMAIN mem \ ExtentIn(mem, r) : f[c] = mem[c]
  <2>1. r + 2 .. r + 1 + n \subseteq r .. r + 1 + n
    BY <1>1
  <2> QED BY <2>1, <1>3, <1>4
<1>9. ListWritten(mem, f, r)
  <2>1. n \in 0 .. n
    BY <1>1
  <2> QED BY <2>1, <1>2, <1>5, <1>7, <1>8 DEF ListWritten, TYPE_ARRAY, TYPE_BYTES
<1> QED BY <1>9 DEF f

(* Two lists do not overlap: one is below the other.                       *)
LEMMA ListsApart ==
  ASSUME Inv, NEW r \in OfType({TYPE_ARRAY}), NEW q \in OfType({TYPE_ARRAY}), r # q,
         NEW n, NEW k, ListAt(r, n), ListAt(q, k)
  PROVE  r + 1 + n < q \/ q + 1 + k < r
<1>1. r \in Nat \ {0} /\ n \in Nat /\ q \in Nat \ {0} /\ k \in Nat
  BY DEF ListAt
<1>2. mem[r].n = TYPE_ARRAY /\ mem[r + 1].n = n /\ mem[q].n = TYPE_ARRAY /\ mem[q + 1].n = k
  BY DEF ListAt, Type, Length, OfType
<1>3. ExtentIn(mem, r) = r .. r + 1 + n /\ ExtentIn(mem, q) = q .. q + 1 + k
  BY <1>2 DEF ExtentIn, TYPE_ARRAY, TYPE_BYTES, TYPE_MAP
<1>4. ExtentIn(mem, r) \cap ExtentIn(mem, q) = {}
  BY DEF Inv, Good, Apart, OfType
<1>5. (r .. r + 1 + n) \cap (q .. q + 1 + k) = {}
  BY <1>3, <1>4
<1>6. r \in r .. r + 1 + n /\ q \in q .. q + 1 + k
  BY <1>1
<1>7. q \notin r .. r + 1 + n /\ r \notin q .. q + 1 + k
  BY <1>5, <1>6
<1> QED BY <1>1, <1>7

LEMMA SetSliceGood ==
  ASSUME Inv, NEW r \in OfType(Listed), NEW q \in OfType({Type(r)}),
         NEW s \in Index, NEW e \in Index, SetSlice(r, s, e, q)
  PROVE  Inv'
<1> DEFINE n == Length(r)
           k == Length(q)
           a == Start(r, s)
           x == SliceLen(r, s, e)
           len == Min({x, k})
<1>1. Type(q) = Type(r) /\ q \in OfType(Listed) /\ q # r
  BY DEF OfType, SetSlice
<1>2. ListAt(r, n) /\ ListAt(q, k)
  BY <1>1, ListIsAt
<1>3. a \in Nat /\ x \in Nat /\ (x > 0 => a + x <= n)
  BY <1>2, SliceInside
<1>4. /\ Type(r) = TYPE_ARRAY => Changes(Copied(r + 2 + a, q + 2, len))
      /\ Type(r) # TYPE_ARRAY => Changes(BytesPut(r, a, SubSeq(BytesOf(q), 1, len)))
  BY DEF SetSlice
<1> HIDE DEF n, k, a, x
<1>5. /\ n \in Nat /\ k \in Nat /\ r \in Nat \ {0} /\ q \in Nat \ {0}
      /\ mem \in Seq(Cell) /\ Len(mem) \in Nat /\ DOMAIN mem = 1 .. Len(mem)
  BY <1>2 DEF ListAt
<1>6. len \in Nat /\ len <= k /\ len <= x
  <2>1. len = IF x <= k THEN x ELSE k
    BY <1>3, <1>5, OfTwo
  <2> HIDE DEF len
  <2> QED BY <2>1, <1>3, <1>5
<1>7. len > 0 => a + len <= n
  <2> HIDE DEF len
  <2> QED BY <1>3, <1>5, <1>6
<1> HIDE DEF len
<1>8. CASE Type(r) = TYPE_ARRAY
  <2> DEFINE to == r + 2 + a
             from == q + 2
  <2>1. r \in OfType({TYPE_ARRAY}) /\ q \in OfType({TYPE_ARRAY})
    BY <1>1, <1>8 DEF OfType
  <2>2. r + 1 + n < q \/ q + 1 + k < r
    BY <1>1, <1>2, <2>1, ListsApart
  <2>3. r + 1 + n <= Len(mem) /\ q + 1 + k <= Len(mem)
    BY <1>1, <1>2, <1>8 DEF ListAt
  <2>4. to \in Nat /\ from \in Nat
    BY <1>3, <1>5
  <2>5. to .. to + len - 1 \subseteq 1 .. Len(mem) /\ from .. from + len - 1 \subseteq 1 .. Len(mem)
    <3>1. CASE len > 0
      BY <3>1, <1>3, <1>5, <1>6, <1>7, <2>3
    <3>2. CASE ~ len > 0
      BY <3>2, <1>3, <1>5, <1>6
    <3> QED BY <3>1, <3>2
  <2>6. to <= from \/ from + len <= to
    <3>1. CASE len > 0
      BY <3>1, <1>3, <1>5, <1>6, <1>7, <2>2
    <3>2. CASE ~ len > 0
      BY <3>2, <1>3, <1>5, <1>6
    <3> QED BY <3>1, <3>2
  <2>7. Inside(to, len, r, n)
    <3>1. CASE len > 0
      BY <3>1, <1>3, <1>5, <1>6, <1>7 DEF Inside
    <3>2. CASE ~ len > 0
      BY <3>2, <1>3, <1>5, <1>6 DEF Inside
    <3> QED BY <3>1, <3>2
  <2>8. Changes(Copied(to, from, len))
    BY <1>4, <1>8
  <2> HIDE DEF to, from
  <2>9. CanCopy(to, from, len)
    BY <1>5, <1>6, <2>4, <2>5, <2>6 DEF CanCopy
  <2>10. Copied(to, from, len) = Moved(to, from, len)
    BY <2>9, CopyIs
  <2>11. Moved(to, from, len) \in Seq(Cell)
    BY <2>9, MovedIs
  <2>12. ListWritten(mem, Moved(to, from, len), r)
    BY <1>2, <1>8, <2>7, <2>9, ItemsCopied
  <2> QED BY <2>8, <2>10, <2>11, <2>12, ChangedListGood
<1>9. CASE Type(r) # TYPE_ARRAY
  <2> DEFINE t == BytesOf(q)
             bytes == SubSeq(t, 1, len)
  <2>1. Type(r) = TYPE_BYTES
    BY <1>9 DEF OfType, Listed
  <2>2. t \in Seq(0 .. BYTE - 1) /\ Len(t) = k
    BY <1>1, <1>2, <2>1, BytesOfIs
  <2>3. Changes(BytesPut(r, a, bytes))
    BY <1>4, <1>9
  <2> HIDE DEF t
  <2>4. bytes \in Seq(0 .. BYTE - 1)
    <3>1. 1 \in Nat \ {0} /\ len \in Int /\ len <= Len(t)
      BY <1>6, <2>2
    <3> QED BY <2>2, <3>1, Subsequence
  <2>5. a \in Int
    BY <1>3
  <2> HIDE DEF bytes
  <2> QED BY <1>2, <2>1, <2>3, <2>4, <2>5, BytesWritten, ChangedListGood
<1> QED BY <1>8, <1>9

(* What the loops know when r shrinks.                                     *)
Knowing(L, r) ==
  [i \in DOMAIN L |-> IF L[i].arr = r THEN [L[i] EXCEPT !.shrunk = TRUE] ELSE L[i]]

LEMMA LoopsTold ==
  ASSUME NEW L \in Seq(LoopType), NEW r
  PROVE  LoopsAlike(Knowing(L, r), L) /\ Told(Knowing(L, r), L, r)
<1> DEFINE K == Knowing(L, r)
<1>1. DOMAIN L = 1 .. Len(L) /\ Len(L) \in Nat /\ \A i \in 1 .. Len(L) : L[i] \in LoopType
  BY ElementOfSeq, LenProperties
<1>2. \A l \in LoopType :
        LET k == [l EXCEPT !.shrunk = TRUE]
        IN k \in LoopType /\ Alike(k, l) /\ k.shrunk
  BY DEF LoopType, Alike
<1>3. \A l \in LoopType : Alike(l, l)
  BY DEF Alike
<1>4. K = [i \in 1 .. Len(L) |-> IF L[i].arr = r THEN [L[i] EXCEPT !.shrunk = TRUE] ELSE L[i]]
  BY <1>1 DEF Knowing
<1> HIDE DEF K
<1>5. \A i \in 1 .. Len(L) : K[i] \in LoopType /\ Alike(K[i], L[i]) /\ (L[i].arr = r => K[i].shrunk)
  <2>1. ASSUME NEW i \in 1 .. Len(L)
        PROVE  K[i] \in LoopType /\ Alike(K[i], L[i]) /\ (L[i].arr = r => K[i].shrunk)
    <3>1. K[i] = IF L[i].arr = r THEN [L[i] EXCEPT !.shrunk = TRUE] ELSE L[i]
      BY <1>4
    <3>2. L[i] \in LoopType
      BY <1>1
    <3> QED BY <3>1, <3>2, <1>2, <1>3
  <2> QED BY <2>1
<1>6. \A i \in 1 .. Len(L) : K[i] \in LoopType
  BY <1>5
<1>7. K \in Seq(LoopType) /\ Len(K) = Len(L)
  <2>1. K \in [1 .. Len(L) -> LoopType]
    BY <1>4, <1>6
  <2> QED BY <2>1, <1>1, FunctionIsSeq
<1>8. \A i \in DOMAIN L : Alike(K[i], L[i])
  BY <1>1, <1>5
<1>9. \A i \in DOMAIN L : L[i].arr = r => K[i].shrunk
  BY <1>1, <1>5
<1>10. LoopsAlike(K, L)
  BY <1>7, <1>8 DEF LoopsAlike
<1>11. Told(K, L, r)
  BY <1>9 DEF Told
<1> QED BY <1>10, <1>11 DEF K

LEMMA ShrinksGood ==
  ASSUME Inv, NEW r, NEW w, Shrinks(r, w), Good(w, refs, Knowing(loops, r))
  PROVE  Inv'
<1>1. mem' = w /\ refs' = refs /\ loops' = Knowing(loops, r)
  BY DEF Shrinks, Knowing
<1> QED BY <1>1 DEF Inv

LEMMA KeptGood ==
  ASSUME Inv, Changes(mem)
  PROVE  Inv'
  BY ChangesGood DEF Inv

LEMMA LoopsAreLoops ==
  ASSUME Inv
  PROVE  loops \in Seq(LoopType) /\ refs \in Seq(Nat) /\ mem \in Seq(Cell)
  BY DEF Inv, Good, Listing, Cellular

(* An item is taken out, those behind it move down, the length is less.    *)
LEMMA ItemTaken ==
  ASSUME NEW r, NEW n, ListAt(r, n), Type(r) = TYPE_ARRAY, NEW i \in 0 .. n - 1
  PROVE  LET w == [Copied(r + 2 + i, r + 3 + i, n - 1 - i) EXCEPT ![r + 1] = Raw(n - 1)]
         IN w \in Seq(Cell) /\ ListWritten(mem, w, r)
<1> DEFINE to == r + 2 + i
           from == r + 3 + i
           len == n - 1 - i
           f == Copied(to, from, len)
           a == r + 1
           x == Raw(n - 1)
           w == [f EXCEPT ![a] = x]
<1>1. /\ mem \in Seq(Cell) /\ Len(mem) \in Nat /\ r \in Nat \ {0} /\ n \in Nat /\ n >= 1
      /\ r + 1 + n <= Len(mem) /\ DOMAIN mem = 1 .. Len(mem)
  BY DEF ListAt
<1>2. mem[r].n = TYPE_ARRAY /\ mem[r + 1].n = n
  BY DEF ListAt, Type, Length
<1>3. ExtentIn(mem, r) = r .. r + 1 + n
  BY <1>2 DEF ExtentIn, TYPE_ARRAY, TYPE_BYTES, TYPE_MAP
<1>4. /\ to \in Nat /\ from \in Nat /\ len \in Nat /\ to <= from
      /\ to .. to + len - 1 \subseteq 1 .. Len(mem) /\ from .. from + len - 1 \subseteq 1 .. Len(mem)
      /\ to .. to + len - 1 \subseteq r + 2 .. r + 1 + n
  BY <1>1
<1> HIDE DEF to, from, len
<1>5. CanCopy(to, from, len)
  BY <1>1, <1>4 DEF CanCopy
<1>6. f = Moved(to, from, len)
  BY <1>5, CopyIs
<1> HIDE DEF f
<1>7. /\ f \in Seq(Cell) /\ Len(f) = Len(mem)
      /\ \A c \in DOMAIN mem : c \notin to .. to + len - 1 => f[c] = mem[c]
  BY <1>5, <1>6, MovedIs
<1>8. a \in DOMAIN f /\ x \in Cell /\ x.n = n - 1
  <2>1. n - 1 \in Int /\ a \in 1 .. Len(mem)
    BY <1>1
  <2> HIDE DEF a
  <2> QED BY <2>1, <1>7, RawCells
<1> HIDE DEF x
<1>9. a # r /\ r \in DOMAIN mem /\ r \notin r + 2 .. r + 1 + n /\ a \in r .. r + 1 + n
  BY <1>1
<1> HIDE DEF a
<1>10. w \in Seq(Cell) /\ Len(w) = Len(f) /\ w[a] = x /\ \A c \in DOMAIN f : c # a => w[c] = f[c]
  BY <1>7, <1>8
<1> HIDE DEF w
<1>11. \A c \in DOMAIN mem : c # a /\ c \notin r + 2 .. r + 1 + n => w[c] = mem[c]
  <2>1. ASSUME NEW c \in DOMAIN mem, c # a, c \notin r + 2 .. r + 1 + n PROVE w[c] = mem[c]
    <3>1. c \in DOMAIN f
      BY <1>1, <1>7
    <3>2. f[c] = mem[c]
      BY <2>1, <1>4, <1>7
    <3> QED BY <2>1, <3>1, <3>2, <1>10
  <2> QED BY <2>1
<1>12. w[r].n = TYPE_ARRAY /\ w[r + 1].n = n - 1
  <2>1. w[r].n = TYPE_ARRAY
    BY <1>2, <1>9, <1>11
  <2>2. w[a].n = n - 1
    BY <1>8, <1>10
  <2> QED BY <2>1, <2>2 DEF a
<1>13. \A c \in DOMAIN mem \ ExtentIn(mem, r) : w[c] = mem[c]
  <2>1. r + 2 .. r + 1 + n \subseteq r .. r + 1 + n
    BY <1>1
  <2> QED BY <2>1, <1>3, <1>9, <1>11
<1>14. ListWritten(mem, w, r)
  <2> DEFINE less == n - 1
  <2>1. less \in 0 .. n
    BY <1>1
  <2>2. w[r + 1].n = less
    BY <1>12
  <2>3. TYPE_ARRAY # TYPE_BYTES
    BY DEF TYPE_ARRAY, TYPE_BYTES
  <2> HIDE DEF less
  <2> QED BY <2>1, <2>2, <2>3, <1>2, <1>7, <1>10, <1>12, <1>13 DEF ListWritten
<1> QED BY <1>10, <1>14 DEF w, f, x, a, to, from, len

LEMMA RemoveItemGood ==
  ASSUME Inv, NEW r \in OfType({TYPE_ARRAY}), NEW k \in Index, RemoveItem(r, k)
  PROVE  Inv'
<1> DEFINE n == Length(r)
           i == FromEnd(k, n)
           w == [Copied(r + 2 + i, r + 3 + i, n - 1 - i) EXCEPT ![r + 1] = Raw(n - 1)]
<1>1. /\ r \in OfType(Listed) /\ Type(r) = TYPE_ARRAY /\ r \in Range(refs)
      /\ mem[r].n \in Listed
  BY DEF OfType, Listed, Type
<1>2. ListAt(r, n)
  BY <1>1, ListIsAt
<1>3. IF i \in 0 .. n - 1 THEN Shrinks(r, w) ELSE Changes(mem)
  BY DEF RemoveItem
<1> HIDE DEF n, i
<1>4. CASE i \in 0 .. n - 1
  <2>1. w \in Seq(Cell) /\ ListWritten(mem, w, r)
    BY <1>1, <1>2, <1>4, ItemTaken
  <2> HIDE DEF w
  <2>2. LoopsAlike(Knowing(loops, r), loops)
    BY LoopsTold, LoopsAreLoops
  <2>3. Good(w, refs, Knowing(loops, r))
    BY <2>1, <2>2, <1>1, ListStaysGood DEF Inv
  <2>4. Shrinks(r, w)
    BY <1>3, <1>4
  <2> QED BY <2>3, <2>4, ShrinksGood
<1>5. CASE ~ i \in 0 .. n - 1
  BY <1>3, <1>5, KeptGood
<1> QED BY <1>4, <1>5

LEMMA RemoveEntryGood ==
  ASSUME Inv, NEW r \in OfType({TYPE_MAP}), NEW k \in Literals, RemoveEntry(r, k)
  PROVE  Inv'
<1> DEFINE cap == mem[r + 1].n
           n == mem[r + 2].n
           data == mem[r + 3].n
           at == Min(Places(r, k))
           w == [Copied(data + at * 2, data + at * 2 + 2, (n - 1 - at) * 2)
                   EXCEPT ![r + 2] = Raw(n - 1)]
<1>1. r \in Range(refs) /\ mem[r].n = TYPE_MAP
  BY DEF OfType, Type
<1>2. MapAt(mem, r, cap, n, data)
  BY <1>1, MapIsAt DEF Inv
<1>3. IF Places(r, k) # {} THEN Shrinks(r, w) ELSE Changes(mem)
  BY DEF RemoveEntry, Count, Data
<1>4. Places(r, k) \subseteq 0 .. n - 1
  BY DEF Places, Count
<1> HIDE DEF cap, n, data
<1>5. CASE Places(r, k) # {}
  <2>1. n \in Nat
    BY <1>2 DEF MapAt
  <2>2. Places(r, k) \in SUBSET Nat
    BY <1>4, <2>1
  <2>3. at \in 0 .. n - 1
    BY <1>4, <1>5, <2>2, Smallest
  <2> HIDE DEF at
  <2>4. LoopsAlike(Knowing(loops, r), loops) /\ Told(Knowing(loops, r), loops, r)
    BY LoopsTold, LoopsAreLoops
  <2>5. Good(w, refs, Knowing(loops, r))
    BY <2>3, <2>4, <1>1, <1>2, EntryTaken DEF Inv
  <2>6. Shrinks(r, w)
    BY <1>3, <1>5
  <2> QED BY <2>5, <2>6, ShrinksGood
<1>6. CASE Places(r, k) = {}
  BY <1>3, <1>6, KeptGood
<1> QED BY <1>5, <1>6

(* A full map goes on in a block twice as long, at the end of the heap.    *)
LEMMA GrownHasPlace ==
  ASSUME NEW R, NEW L, NEW r \in Range(R), Good(mem, R, L),
         NEW n, NEW data, MapAt(mem, r, n, n, data),
         HasRoom(n * 4), Count(r) = n, Cap(r) = n, Data(r) = data
  PROVE  HasPlace(mem, Grown(r), r, n, n * 2, Len(mem) + 1)
<1> DEFINE b == Block(data, n * 2)
           u == [c \in 1 .. n * 4 - n * 2 |-> Unset]
           g == mem \o b \o u
           base == Len(mem)
<1>1. /\ mem \in Seq(Cell) /\ Len(mem) < MAX_HEAP /\ r \in Nat \ {0} /\ n \in Nat \ {0}
      /\ data \in Nat \ {0} /\ data + n * 2 - 1 <= Len(mem) /\ base \in Nat /\ r + 4 <= data
      /\ DOMAIN mem = 1 .. base
  BY DEF MapAt
<1>2. mem[r + 3].n = data
  BY DEF MapAt
<1>3. Grown(r) = g
  BY DEF Grown
<1>4. base + n * 4 < MAX_HEAP
  BY DEF HasRoom
<1>5. b \in Seq(Cell) /\ Len(b) = n * 2 /\ \A i \in 1 .. n * 2 : b[i] = mem[data + i - 1]
  <2> DEFINE k == n * 2
             top == data + k - 1
  <2>1. k \in Nat /\ top \in Int /\ top <= Len(mem) /\ data \in Int /\ data <= top /\ top - data + 1 = k
    BY <1>1
  <2>2. b = SubSeq(mem, data, top)
    BY DEF Block
  <2> HIDE DEF k, top, b
  <2>3. \A i \in data .. top : mem[i] \in Cell
    BY <1>1, <2>1
  <2>4. b \in Seq(Cell) /\ Len(b) = k /\ \A i \in 1 .. k : b[i] = mem[data + i - 1]
    BY <2>1, <2>2, <2>3, SubSeqProperties
  <2> QED BY <2>4 DEF k
<1> HIDE DEF b
<1>6. u \in Seq(Cell) /\ Len(u) = n * 2
  <2>1. n * 4 - n * 2 = n * 2 /\ n * 2 \in Nat
    BY <1>1
  <2>2. u \in [1 .. n * 2 -> Cell]
    BY <2>1, RawCells
  <2> HIDE DEF u
  <2> QED BY <2>1, <2>2, FunctionIsSeq
<1> HIDE DEF u
<1> DEFINE h == mem \o b
<1>7. /\ h \in Seq(Cell) /\ Len(h) = base + n * 2
      /\ \A j \in 1 .. base + n * 2 : h[j] = IF j <= base THEN mem[j] ELSE b[j - base]
  <2>1. /\ h \in Seq(Cell) /\ Len(h) = Len(mem) + Len(b)
        /\ \A j \in 1 .. Len(mem) + Len(b) : h[j] = IF j <= Len(mem) THEN mem[j] ELSE b[j - Len(mem)]
    BY <1>1, <1>5, Concatenated
  <2> QED BY <2>1, <1>5
<1>8. g = h \o u
  OBVIOUS
<1> HIDE DEF h, g
<1>9. /\ g \in Seq(Cell) /\ Len(g) = base + n * 4
      /\ \A j \in 1 .. base + n * 2 : g[j] = h[j]
  <2>1. /\ g \in Seq(Cell) /\ Len(g) = Len(h) + Len(u)
        /\ \A j \in 1 .. Len(h) + Len(u) : g[j] = IF j <= Len(h) THEN h[j] ELSE u[j - Len(h)]
    BY <1>6, <1>7, <1>8, Concatenated
  <2>2. Len(h) + Len(u) = base + n * 4
    BY <1>1, <1>6, <1>7
  <2>3. \A j \in 1 .. base + n * 2 : j \in 1 .. Len(h) + Len(u) /\ j <= Len(h)
    BY <1>1, <1>6, <1>7
  <2> QED BY <2>1, <2>2, <2>3
<1>10. \A c \in DOMAIN mem : g[c] = mem[c]
  <2>1. \A c \in 1 .. base : c \in 1 .. base + n * 2 /\ c <= base
    BY <1>1
  <2> QED BY <2>1, <1>1, <1>7, <1>9
<1>11. \A i \in 0 .. n - 1 : /\ g[base + 1 + i * 2] = KeyIn(mem, r, i)
                             /\ g[base + 1 + i * 2 + 1] = ValIn(mem, r, i)
  <2>1. ASSUME NEW i \in 0 .. n - 1 PROVE g[base + 1 + i * 2] = KeyIn(mem, r, i)
    <3> DEFINE j == i * 2 + 1
               c == base + 1 + i * 2
    <3>1. /\ j \in 1 .. n * 2 /\ c \in 1 .. base + n * 2 /\ ~ c <= base /\ c - base = j
          /\ data + j - 1 = data + i * 2
      BY <1>1
    <3>2. KeyIn(mem, r, i) = mem[data + i * 2]
      BY <1>2 DEF KeyIn
    <3> HIDE DEF j
    <3>3. g[c] = b[c - base]
      <4> HIDE DEF c
      <4> QED BY <3>1, <1>7, <1>9
    <3> QED BY <3>1, <3>2, <3>3, <1>5
  <2>2. ASSUME NEW i \in 0 .. n - 1 PROVE g[base + 1 + i * 2 + 1] = ValIn(mem, r, i)
    <3> DEFINE j == i * 2 + 2
               c == base + 1 + i * 2 + 1
    <3>1. /\ j \in 1 .. n * 2 /\ c \in 1 .. base + n * 2 /\ ~ c <= base /\ c - base = j
          /\ data + j - 1 = data + i * 2 + 1
      BY <1>1
    <3>2. ValIn(mem, r, i) = mem[data + i * 2 + 1]
      BY <1>2 DEF ValIn
    <3> HIDE DEF j
    <3>3. g[c] = b[c - base]
      <4> HIDE DEF c
      <4> QED BY <3>1, <1>7, <1>9
    <3> QED BY <3>1, <3>2, <3>3, <1>5
  <2> QED BY <2>1, <2>2
<1> DEFINE cap == n * 2
           at == base + 1
<1>12. /\ cap \in Nat \ {0} /\ n < cap /\ at \in Nat /\ r + 4 <= at
       /\ at + cap * 2 - 1 = base + n * 4
       /\ base <= base + n * 4 /\ base + n * 4 \in Nat
  BY <1>1
<1>13. at .. at + cap * 2 - 1 \subseteq base + 1 .. Len(g)
  BY <1>9, <1>12
<1>14. /\ Len(mem) <= Len(g) /\ Len(g) < MAX_HEAP /\ at + cap * 2 - 1 <= Len(g)
  BY <1>4, <1>9, <1>12
<1> HIDE DEF cap
<1>15. \A i \in 0 .. n - 1 : g[at + i * 2] = KeyIn(mem, r, i) /\ g[at + i * 2 + 1] = ValIn(mem, r, i)
  BY <1>11
<1>16. at .. at + cap * 2 - 1 \subseteq ExtentIn(mem, r) \cup (Len(mem) + 1 .. Len(g))
  BY <1>13
<1> HIDE DEF at
<1>17. HasPlace(mem, g, r, n, cap, at)
  BY <1>9, <1>10, <1>12, <1>14, <1>15, <1>16 DEF HasPlace
<1> QED BY <1>3, <1>17 DEF cap, at

(* What setting an entry does: the value of a key there is, or another     *)
(* entry, in the data block or in a longer one.                            *)
ValueSet(r, k, v) ==
  /\ Places(r, k) # {}
  /\ Changes([mem EXCEPT ![mem[r + 3].n + Min(Places(r, k)) * 2 + 1] = v])

EntryAdded(r, k, v) ==
  /\ Places(r, k) = {} /\ NewKey(mem, r, mem[r + 2].n, k)
  /\ \E g, cap, data : /\ HasPlace(mem, g, r, mem[r + 2].n, cap, data)
                       /\ Changes(Put(g, r, mem[r + 2].n, cap, data, k, v))

LEMMA SetEntryIs ==
  ASSUME Inv, NEW r \in OfType({TYPE_MAP}), NEW k \in Literals, NEW v \in Literals,
         SetEntry(r, k, v)
  PROVE  ValueSet(r, k, v) \/ EntryAdded(r, k, v)
<1> DEFINE cap == mem[r + 1].n
           n == mem[r + 2].n
           data == mem[r + 3].n
<1>1. r \in Range(refs) /\ mem[r].n = TYPE_MAP
  BY DEF OfType, Type
<1>2. MapAt(mem, r, cap, n, data)
  BY <1>1, MapIsAt DEF Inv
<1>3. Cap(r) = cap /\ Count(r) = n /\ Data(r) = data
  BY DEF Cap, Count, Data
<1>4. IF Places(r, k) # {}
      THEN ValueSet(r, k, v)
      ELSE IF n >= cap
           THEN HasRoom(cap * 4) /\ Changes(Put(Grown(r), r, n, cap * 2, Len(mem) + 1, k, v))
           ELSE Changes(Put(mem, r, n, cap, data, k, v))
  <2>1. CASE Places(r, k) # {}
    BY <2>1 DEF SetEntry, Data, ValueSet
  <2>2. CASE Places(r, k) = {} /\ n >= cap
    BY <2>2 DEF SetEntry, Cap, Count, Data, Put
  <2>3. CASE Places(r, k) = {} /\ ~ n >= cap
    BY <2>3 DEF SetEntry, Cap, Count, Data, Put
  <2> QED BY <2>1, <2>2, <2>3
<1>5. Places(r, k) = {i \in 0 .. n - 1 : mem[data + i * 2] = k}
  BY DEF Places, Count, Data
<1>6. \A i : KeyIn(mem, r, i) = mem[data + i * 2] /\ ValIn(mem, r, i) = mem[data + i * 2 + 1]
  BY DEF KeyIn, ValIn
<1>7. EntryAdded(r, k, v) <=>
        /\ Places(r, k) = {} /\ NewKey(mem, r, n, k)
        /\ \E g, c, d : HasPlace(mem, g, r, n, c, d) /\ Changes(Put(g, r, n, c, d, k, v))
  BY DEF EntryAdded
<1> HIDE DEF cap, n, data
<1>8. n \in Nat /\ cap \in Nat \ {0} /\ n <= cap
  BY <1>2 DEF MapAt
<1>9. CASE Places(r, k) = {}
  <2>1. NewKey(mem, r, n, k)
    BY <1>5, <1>6, <1>9 DEF NewKey
  <2>2. CASE n >= cap
    <3>1. n = cap
      BY <2>2, <1>8
    <3>2. HasRoom(n * 4) /\ Changes(Put(Grown(r), r, n, n * 2, Len(mem) + 1, k, v))
      BY <1>4, <1>9, <2>2, <3>1
    <3>3. MapAt(mem, r, n, n, data) /\ Cap(r) = n
      BY <1>2, <1>3, <3>1
    <3>4. HasPlace(mem, Grown(r), r, n, n * 2, Len(mem) + 1)
      BY <1>1, <1>3, <3>2, <3>3, GrownHasPlace DEF Inv
    <3> QED BY <1>7, <1>9, <2>1, <3>2, <3>4, Zenon
  <2>3. CASE ~ n >= cap
    <3>1. HasPlace(mem, mem, r, n, cap, data)
      <4>1. /\ mem \in Seq(Cell) /\ Len(mem) < MAX_HEAP /\ cap \in Nat \ {0}
            /\ data \in Nat /\ r + 4 <= data /\ data + cap * 2 - 1 <= Len(mem) /\ Len(mem) \in Nat
        BY <1>2 DEF MapAt
      <4>2. data .. data + cap * 2 - 1 \subseteq ExtentIn(mem, r)
        BY <1>2 DEF MapAt
      <4>3. n < cap /\ Len(mem) <= Len(mem)
        BY <1>8, <2>3, <4>1
      <4> QED BY <4>1, <4>2, <4>3, <1>6 DEF HasPlace
    <3>2. Changes(Put(mem, r, n, cap, data, k, v))
      BY <1>4, <1>9, <2>3
    <3> QED BY <1>7, <1>9, <2>1, <3>1, <3>2, Zenon
  <2> QED BY <2>2, <2>3
<1> QED BY <1>4, <1>9

LEMMA SetEntryGood ==
  ASSUME Inv, NEW r \in OfType({TYPE_MAP}), NEW k \in Literals, NEW v \in Literals,
         SetEntry(r, k, v)
  PROVE  Inv'
<1> DEFINE cap == mem[r + 1].n
           n == mem[r + 2].n
           data == mem[r + 3].n
           at == Min(Places(r, k))
<1>1. r \in Range(refs) /\ mem[r].n = TYPE_MAP /\ k \in Cell /\ v \in Cell
  BY RawCells DEF OfType, Type
<1>2. MapAt(mem, r, cap, n, data)
  BY <1>1, MapIsAt DEF Inv
<1>3. CASE ValueSet(r, k, v)
  <2>1. Places(r, k) = {i \in 0 .. n - 1 : mem[data + i * 2] = k} /\ Places(r, k) # {}
    BY <1>3 DEF Places, Count, Data, ValueSet
  <2>2. Changes([mem EXCEPT ![data + at * 2 + 1] = v])
    BY <1>3 DEF ValueSet
  <2> HIDE DEF cap, n, data
  <2>3. n \in Nat
    BY <1>2 DEF MapAt
  <2>4. Places(r, k) \in SUBSET Nat
    BY <2>1, <2>3
  <2>5. at \in 0 .. n - 1
    BY <2>1, <2>4, Smallest
  <2> HIDE DEF at
  <2>6. Good([mem EXCEPT ![data + at * 2 + 1] = v], refs, loops)
    BY <2>5, <1>1, <1>2, ValuePut DEF Inv
  <2> QED BY <2>2, <2>6, ChangesGood
<1>4. CASE EntryAdded(r, k, v)
  <2>1. NewKey(mem, r, n, k)
    BY <1>4 DEF EntryAdded
  <2>2. PICK g, room, next : HasPlace(mem, g, r, n, room, next) /\ Changes(Put(g, r, n, room, next, k, v))
    BY <1>4 DEF EntryAdded
  <2> HIDE DEF cap, n, data
  <2>3. Good(Put(g, r, n, room, next, k, v), refs, loops)
    BY <1>1, <1>2, <2>1, <2>2, EntryPut DEF Inv
  <2> QED BY <2>2, <2>3, ChangesGood
<1> QED BY <1>3, <1>4, SetEntryIs
-----------------------------------------------------------------------------
(* The steps of loops.                                                     *)

LEMMA ForInGood ==
  ASSUME Inv, NEW r \in Range(refs), ForIn(r)
  PROVE  Inv'
<1> DEFINE l == Loop("for", r, 0)
<1>1. /\ mem' = mem /\ refs' = refs /\ loops' = Append(loops, l) /\ Len(loops) < MaxLoops
  BY DEF ForIn
<1>2. SoundIn(mem, r) /\ r \in Nat
  BY DEF Inv, Good, AllSound, SoundIn
<1>3. l = [by |-> "for", arr |-> r, idx |-> 0, len |-> 0, body |-> FALSE, val |-> <<>>,
           res |-> 0, kept |-> 0, shrunk |-> FALSE, seen |-> <<>>]
  BY DEF Loop
<1> HIDE DEF l
<1>4. l \in LoopType
  BY <1>2, <1>3 DEF LoopType
<1>5. VisitsIn(mem, l)
  <2>1. l.by = "for" /\ l.arr = r /\ l.idx = 0 /\ l.body = FALSE /\ l.seen = <<>>
    BY <1>3
  <2>2. mem[r].n = TYPE_MAP => mem[r + 2].n \in Nat
    BY <1>2 DEF SoundIn
  <2>3. mem[r].n = TYPE_MAP => 0 <= mem[r + 2].n
    BY <2>2
  <2>4. Len(<<>>) = 0 /\ 1 .. 0 = {}
    OBVIOUS
  <2> QED BY <2>1, <2>3, <2>4 DEF VisitsIn
<1>6. l.by = "for" /\ l.arr \in Range(refs)
  BY <1>3
<1>7. Good(mem, refs, Append(loops, l))
  BY <1>1, <1>4, <1>5, <1>6, WithLoop DEF Inv
<1> QED BY <1>1, <1>7 DEF Inv

LEMMA ResultCellsAre ==
  ASSUME NEW by, NEW n \in Nat
  PROVE  /\ ResultCells(by, n) \in Seq(Cell) /\ Len(ResultCells(by, n)) = n + 2
         /\ ResultCells(by, n)[1].n = TYPE_ARRAY
         /\ by = "for_list" => ResultCells(by, n)[2].n = n
<1> DEFINE a == Raw(TYPE_ARRAY)
           b == IF by = "for_list" THEN Raw(n) ELSE Unset
           s == [i \in 1 .. n |-> Unset]
<1>1. a \in Cell /\ b \in Cell /\ a.n = TYPE_ARRAY /\ (by = "for_list" => b.n = n)
  BY RawCells DEF TYPE_ARRAY
<1>2. s \in Seq(Cell) /\ Len(s) = n
  <2>1. s \in [1 .. n -> Cell]
    BY RawCells
  <2> HIDE DEF s
  <2> QED BY <2>1, FunctionIsSeq
<1>3. ResultCells(by, n) = <<a, b>> \o s
  BY DEF ResultCells
<1> HIDE DEF a, b, s
<1> QED BY <1>1, <1>2, <1>3, Headed

LEMMA ApplyGood ==
  ASSUME Inv, NEW r \in OfType({TYPE_ARRAY}), NEW by \in {"for_list", "filter"}, Apply(by, r)
  PROVE  Inv'
<1> DEFINE n == Length(r)
           res == Len(mem) + 1
           l == Loop(by, r, res)
           s == ResultCells(by, n)
           w == mem \o s
<1>1. /\ mem' = w /\ refs' = refs /\ loops' = Append(loops, l) /\ Len(loops) < MaxLoops
      /\ Len(refs) < MaxObjects /\ Len(mem) + (n + 2) < MAX_HEAP
  BY DEF Apply, HasRoom
<1>2. r \in OfType(Listed) /\ Type(r) = TYPE_ARRAY /\ r \in Range(refs)
  BY DEF OfType, Listed
<1>3. ListAt(r, n)
  BY <1>2, ListIsAt
<1>4. l = [by |-> by, arr |-> r, idx |-> 0, len |-> n, body |-> FALSE, val |-> <<>>,
           res |-> res, kept |-> 0, shrunk |-> FALSE, seen |-> <<>>]
  BY DEF Loop
<1> HIDE DEF n, l
<1>5. r \in Nat \ {0} /\ n \in Nat /\ r + 1 + n <= Len(mem) /\ Len(mem) \in Nat
  BY <1>2, <1>3 DEF ListAt
<1>6. /\ s \in Seq(Cell) /\ Len(s) = n + 2 /\ s[1].n = TYPE_ARRAY
      /\ by = "for_list" => s[2].n = n
  BY <1>5, ResultCellsAre
<1> HIDE DEF s
<1>7. /\ Good(w, refs, loops) /\ w \in Seq(Cell) /\ Len(w) = Len(mem) + Len(s)
      /\ \A j \in 1 .. Len(s) : w[Len(mem) + j] = s[j]
      /\ \A q \in Range(refs) : ExtentIn(w, q) = ExtentIn(mem, q) /\ ExtentIn(mem, q) \subseteq DOMAIN mem
      /\ \A i \in NativesOf(loops) : Results(loops[i]) \subseteq DOMAIN mem
  BY <1>1, <1>6, HeapGrows DEF Inv
<1> HIDE DEF w
<1>8. w[res].n = TYPE_ARRAY /\ (by = "for_list" => w[res + 1].n = n)
  <2>1. 1 \in 1 .. Len(s) /\ 2 \in 1 .. Len(s) /\ Len(mem) + 2 = res + 1
    BY <1>5, <1>6
  <2>2. w[res] = s[1] /\ w[res + 1] = s[2]
    BY <1>7, <2>1
  <2> QED BY <1>6, <2>2
<1>9. Len(w) = Len(mem) + n + 2 /\ Len(w) \in Nat
  BY <1>5, <1>6, <1>7
<1>10. res \in Nat \ {0} /\ res + 1 + n <= Len(w) /\ r + 1 + n <= Len(w)
  BY <1>5, <1>9
<1>11. DOMAIN mem \cap (res .. res + 1 + n) = {}
  <2>1. mem \in Seq(Cell)
    BY <1>3 DEF ListAt
  <2> QED BY <2>1, <1>5
<1> HIDE DEF res
<1>12. l \in LoopType
  BY <1>4, <1>5, <1>10 DEF LoopType
<1>13. /\ l.by = by /\ l.arr = r /\ l.idx = 0 /\ l.len = n /\ l.body = FALSE /\ l.res = res
       /\ l.kept = 0 /\ l.by # "for"
  BY <1>4
<1>14. FillsIn(w, l)
  BY <1>5, <1>8, <1>10, <1>13 DEF FillsIn
<1>15. VisitsIn(w, l)
  BY <1>13 DEF VisitsIn
<1>16. Results(l) = res .. res + 1 + n
  BY <1>13 DEF Results
<1>17. \A q \in Range(refs) : ExtentIn(w, q) \cap Results(l) = {}
  BY <1>7, <1>11, <1>16
<1>18. \A i \in NativesOf(loops) : Results(loops[i]) \cap Results(l) = {}
  BY <1>7, <1>11, <1>16
<1>19. Good(w, refs, Append(loops, l))
  BY <1>1, <1>2, <1>7, <1>12, <1>13, <1>14, <1>15, <1>17, <1>18, WithLoop
<1> QED BY <1>1, <1>19 DEF Inv

(* What is known of the innermost loop.                                    *)
LEMMA Innermost ==
  ASSUME Inv, loops # <<>>
  PROVE  /\ loop \in LoopType /\ loop.arr \in Range(refs) /\ SoundIn(mem, loop.arr)
         /\ VisitsIn(mem, loop) /\ (loop.by # "for" => FillsIn(mem, loop) /\ Len(loops) \in NativesOf(loops))
         /\ loop = loops[Len(loops)]
<1>1. loops \in Seq(LoopType)
  BY LoopsAreLoops
<1>2. /\ Len(loops) \in Nat /\ Len(loops) >= 1 /\ loop = loops[Len(loops)] /\ loop \in LoopType
  BY <1>1, Fronts DEF loop
<1>3. Len(loops) \in DOMAIN loops
  BY <1>1, <1>2
<1>4. loop.arr \in Range(refs) /\ VisitsIn(mem, loop)
  BY <1>2, <1>3 DEF Inv, Good, Listing, AllVisit
<1>5. SoundIn(mem, loop.arr)
  BY <1>4 DEF Inv, Good, AllSound
<1>6. ASSUME loop.by # "for" PROVE FillsIn(mem, loop) /\ Len(loops) \in NativesOf(loops)
  <2>1. Len(loops) \in NativesOf(loops)
    BY <1>2, <1>3, <1>6 DEF NativesOf
  <2> QED BY <2>1, <1>2 DEF Inv, Good, AllFill
<1> QED BY <1>2, <1>4, <1>5, <1>6

LEMMA LeaveGood ==
  ASSUME Inv, Leave
  PROVE  Inv'
<1>1. mem' = mem /\ refs' = refs /\ loops' = Front(loops) /\ loops # <<>>
  BY DEF Leave
<1>2. Good(mem, refs, Front(loops))
  BY <1>1, Fewer DEF Inv
<1> QED BY <1>1, <1>2 DEF Inv

LEMMA NextRoundGood ==
  ASSUME Inv, NextRound
  PROVE  Inv'
<1> DEFINE l == Last(loops)
           k == [l EXCEPT !.body = FALSE, !.idx = @ + 1, !.val = <<>>]
<1>1. /\ mem' = mem /\ refs' = refs /\ loops' = Append(Front(loops), k) /\ loops # <<>>
      /\ l.body /\ l.by = "for"
  BY DEF NextRound, SetLoop, loop
<1>2. l \in LoopType /\ VisitsIn(mem, l)
  BY <1>1, Innermost DEF loop
<1> HIDE DEF l
<1>3. /\ k \in LoopType /\ k.by = l.by /\ k.arr = l.arr /\ k.res = l.res /\ k.len = l.len
      /\ k.shrunk = l.shrunk /\ k.seen = l.seen /\ k.body = FALSE /\ k.idx = l.idx + 1
      /\ l.idx \in Nat
  <2>1. l.idx \in Nat
    BY <1>2 DEF LoopType
  <2> DEFINE next == l.idx + 1
             none == <<>>
  <2>2. next \in Nat /\ none \in Seq(Cell \cup [key : Cell, val : Cell])
    BY <2>1
  <2>3. k = [l EXCEPT !.body = FALSE, !.idx = next, !.val = none]
    OBVIOUS
  <2> HIDE DEF next, none, k
  <2>4. k \in LoopType
    BY <1>2, <2>2, <2>3 DEF LoopType
  <2>5. /\ k.by = l.by /\ k.arr = l.arr /\ k.res = l.res /\ k.len = l.len
        /\ k.shrunk = l.shrunk /\ k.seen = l.seen /\ k.body = FALSE /\ k.idx = next
    BY <1>2, <2>3 DEF LoopType
  <2> QED BY <2>1, <2>4, <2>5 DEF next
<1> HIDE DEF k
<1>4. VisitsIn(mem, k)
  <2>1. l.idx + 1 = l.idx + 1 + 0
    BY <1>3
  <2> QED BY <1>1, <1>2, <1>3, <2>1 DEF VisitsIn
<1>5. Good(mem, refs, Append(Front(loops), k))
  BY <1>1, <1>3, <1>4, LastChanged DEF Inv, l
<1> QED BY <1>1, <1>5 DEF Inv

LEMMA CallBackGood ==
  ASSUME Inv, CallBack
  PROVE  Inv'
<1> DEFINE l == Last(loops)
           v == mem[l.arr + 2 + l.idx]
           k == [l EXCEPT !.body = TRUE, !.val = <<v>>]
<1>1. /\ mem' = mem /\ refs' = refs /\ loops' = Append(Front(loops), k) /\ loops # <<>>
      /\ l.by # "for" /\ l.idx < l.len
  BY DEF CallBack, SetLoop, loop
<1>2. l \in LoopType /\ FillsIn(mem, l)
  BY <1>1, Innermost DEF loop
<1>3. mem \in Seq(Cell)
  BY LoopsAreLoops
<1> HIDE DEF l
<1>4. l.arr \in Nat /\ l.idx \in Nat /\ l.len \in Nat /\ Len(mem) \in Nat
  BY <1>2, <1>3 DEF LoopType
<1>5. l.arr + 1 + l.len <= Len(mem)
  BY <1>2 DEF FillsIn
<1>6. l.arr + 2 + l.idx \in 1 .. Len(mem)
  BY <1>1, <1>4, <1>5
<1>7. v \in Cell
  BY <1>3, <1>6, ElementOfSeq
<1> HIDE DEF v
<1>8. <<v>> \in Seq(Cell \cup [key : Cell, val : Cell]) /\ Len(<<v>>) = 1 /\ <<v>>[1] = v
  BY <1>7
<1>9. /\ k \in LoopType /\ k.by = l.by /\ k.arr = l.arr /\ k.res = l.res /\ k.len = l.len
      /\ k.idx = l.idx /\ k.kept = l.kept /\ k.body = TRUE /\ k.val = <<v>>
  BY <1>2, <1>8 DEF LoopType
<1> HIDE DEF k
<1>10. FillsIn(mem, k)
  BY <1>1, <1>2, <1>7, <1>8, <1>9 DEF FillsIn
<1>11. VisitsIn(mem, k)
  BY <1>1, <1>9 DEF VisitsIn
<1>12. Good(mem, refs, Append(Front(loops), k))
  BY <1>1, <1>9, <1>10, <1>11, LastChanged DEF Inv, l
<1> QED BY <1>1, <1>12 DEF Inv

LEMMA NextItemGood ==
  ASSUME Inv, NextItem
  PROVE  Inv'
<1> DEFINE l == Last(loops)
           r == l.arr
           i == l.idx
<1>1. mem' = mem /\ refs' = refs /\ loops # <<>> /\ ~ l.body /\ l.by = "for"
  BY DEF NextItem, loop
<1>2. l \in LoopType /\ r \in Range(refs) /\ VisitsIn(mem, l) /\ mem \in Seq(Cell)
  BY <1>1, Innermost, LoopsAreLoops DEF loop
<1>3. i \in Nat /\ i < Size(r)
  BY <1>2 DEF NextItem, More, loop, LoopType
<1>4. CASE Type(r) = TYPE_MAP
  <2> DEFINE cap == mem[r + 1].n
             n == mem[r + 2].n
             data == mem[r + 3].n
             d == data + i * 2
             key == mem[d]
             val == mem[d + 1]
             k == [l EXCEPT !.body = TRUE, !.val = <<[key |-> key, val |-> val]>>,
                            !.seen = Append(l.seen, key)]
  <2>1. loops' = Append(Front(loops), k)
    BY <1>4 DEF NextItem, SetLoop, loop, Data
  <2>2. mem[r].n = TYPE_MAP
    BY <1>4 DEF Type
  <2>3. MapAt(mem, r, cap, n, data)
    BY <1>2, <2>2, MapIsAt DEF Inv
  <2>4. i < n
    BY <1>3, <1>4 DEF Size, Count
  <2>5. KeyIn(mem, r, i) = key
    BY DEF KeyIn
  <2>6. mem[r + 2].n = n
    OBVIOUS
  <2> HIDE DEF l, cap, n, data
  <2>7. d \in 1 .. Len(mem) /\ d + 1 \in 1 .. Len(mem) /\ n \in Nat
    <3>1. /\ cap \in Nat \ {0} /\ n \in Nat /\ n <= cap /\ Len(mem) \in Nat
          /\ data \in Nat \ {0} /\ data + cap * 2 - 1 <= Len(mem)
      BY <2>3, <1>2 DEF MapAt
    <3> HIDE DEF i
    <3> QED BY <3>1, <1>3, <2>4
  <2>8. key \in Cell /\ val \in Cell
    BY <1>2, <2>7, ElementOfSeq
  <2> HIDE DEF key, val
  <2> DEFINE item == <<[key |-> key, val |-> val]>>
             more == Append(l.seen, key)
  <2>9. item \in Seq(Cell \cup [key : Cell, val : Cell])
    BY <2>8
  <2>10. l.seen \in Seq(Cell)
    BY <1>2 DEF LoopType
  <2>11. /\ more \in Seq(Cell) /\ Len(more) = Len(l.seen) + 1 /\ more[Len(l.seen) + 1] = key
         /\ \A j \in 1 .. Len(l.seen) : more[j] = l.seen[j]
    BY <2>8, <2>10, Appended
  <2>12. k = [l EXCEPT !.body = TRUE, !.val = item, !.seen = more]
    OBVIOUS
  <2> HIDE DEF item, more, k
  <2>13. k \in LoopType
    BY <1>2, <2>9, <2>11, <2>12 DEF LoopType
  <2>14. /\ k.by = l.by /\ k.arr = l.arr /\ k.res = l.res /\ k.len = l.len /\ k.idx = l.idx
         /\ k.shrunk = l.shrunk /\ k.seen = more /\ k.body = TRUE
    BY <1>2, <2>12 DEF LoopType
  <2>15. VisitsIn(mem, k)
    <3>1. SUFFICES ASSUME ~ k.shrunk
                   PROVE  /\ Len(more) = i + 1 /\ Len(more) <= n
                          /\ \A j \in 1 .. Len(more) : more[j] = KeyIn(mem, r, j - 1)
      BY <2>6, <2>14 DEF VisitsIn
    <3>2. /\ Len(l.seen) = i + 0
          /\ \A j \in 1 .. Len(l.seen) : l.seen[j] = KeyIn(mem, r, j - 1)
      BY <1>1, <1>2, <2>2, <2>14, <3>1 DEF VisitsIn
    <3>3. Len(more) = i + 1 /\ Len(l.seen) = i
      BY <3>2, <2>11, <1>3
    <3>4. i + 1 <= n
      BY <1>3, <2>4, <2>7
    <3>5. \A j \in 1 .. i + 1 : j \in 1 .. i \/ j = i + 1
      BY <1>3
    <3>6. i + 1 - 1 = i
      BY <1>3
    <3> HIDE DEF i, r
    <3>7. \A j \in 1 .. i + 1 : more[j] = KeyIn(mem, r, j - 1)
      BY <3>2, <3>3, <3>5, <3>6, <2>5, <2>11
    <3> QED BY <3>3, <3>4, <3>7
  <2>16. Good(mem, refs, Append(Front(loops), k))
    BY <1>1, <2>13, <2>14, <2>15, LastChanged DEF Inv, l
  <2> QED BY <1>1, <2>1, <2>16 DEF Inv
<1>5. CASE Type(r) # TYPE_MAP
  <2> DEFINE v == Item(r, i)
             k == [l EXCEPT !.body = TRUE, !.val = <<v>>]
  <2>1. loops' = Append(Front(loops), k)
    BY <1>5 DEF NextItem, SetLoop, loop
  <2>2. mem[r].n # TYPE_MAP
    BY <1>5 DEF Type
  <2>3. SoundIn(mem, r)
    BY <1>2 DEF Inv, Good, AllSound
  <2>4. Type(r) \in Listed
    BY <2>2, <2>3 DEF SoundIn, Listed, Type
  <2>5. r \in OfType(Listed)
    BY <1>2, <2>4 DEF OfType
  <2>6. i < Length(r) /\ Length(r) \in Nat
    BY <1>3, <1>5, <2>5, ListIsAt DEF Size, ListAt
  <2>7. i \in 0 .. Length(r) - 1
    <3> HIDE DEF i
    <3> QED BY <1>3, <2>6
  <2>8. v \in Cell
    BY <2>5, <2>7, ItemIs
  <2> HIDE DEF l, v
  <2> DEFINE item == <<v>>
  <2>9. item \in Seq(Cell \cup [key : Cell, val : Cell])
    BY <2>8
  <2>10. k = [l EXCEPT !.body = TRUE, !.val = item]
    OBVIOUS
  <2> HIDE DEF item, k
  <2>11. k \in LoopType
    BY <1>2, <2>9, <2>10 DEF LoopType
  <2>12. /\ k.by = l.by /\ k.arr = l.arr /\ k.res = l.res /\ k.len = l.len
    BY <1>2, <2>10 DEF LoopType
  <2>13. VisitsIn(mem, k)
    BY <2>2, <2>12 DEF VisitsIn
  <2>14. Good(mem, refs, Append(Front(loops), k))
    BY <1>1, <2>11, <2>12, <2>13, LastChanged DEF Inv, l
  <2> QED BY <1>1, <2>1, <2>14 DEF Inv
<1> QED BY <1>4, <1>5

(* A cell of the list the innermost loop fills is written.                 *)
LEMMA ResultPut ==
  ASSUME Inv, loops # <<>>, loop.by # "for", NEW c \in Results(loop), NEW v \in Cell,
         c # loop.res, c # loop.res + 1
  PROVE  Good([mem EXCEPT ![c] = v], refs, loops)
<1> DEFINE w == [mem EXCEPT ![c] = v]
           n == Len(loops)
<1>1. /\ loop \in LoopType /\ FillsIn(mem, loop) /\ n \in NativesOf(loops) /\ loop = loops[n]
      /\ mem \in Seq(Cell)
  BY Innermost, LoopsAreLoops
<1>2. Results(loop) \subseteq DOMAIN mem
  BY <1>1, OwnResults
<1>3. w \in Seq(Cell) /\ Len(w) = Len(mem) /\ \A x \in DOMAIN mem : x # c => w[x] = mem[x]
  BY <1>1, <1>2
<1> HIDE DEF w, n
<1>4. Apart(mem, refs, loops) /\ Len(mem) < MAX_HEAP /\ Len(mem) \in Nat
  BY <1>1 DEF Inv, Good, Cellular
<1>5. \A r \in Range(refs) : \A x \in ExtentIn(mem, r) : w[x] = mem[x]
  <2>1. \A r \in Range(refs) : ExtentIn(mem, r) \subseteq DOMAIN mem
    BY DEF Inv, Good, AllSound, SoundIn
  <2>2. \A r \in Range(refs) : c \notin ExtentIn(mem, r)
    BY <1>1, <1>4 DEF Apart
  <2> QED BY <2>1, <2>2, <1>3
<1>6. \A i \in NativesOf(loops) : w[loops[i].res] = mem[loops[i].res]
                                  /\ w[loops[i].res + 1] = mem[loops[i].res + 1]
  <2>1. ASSUME NEW i \in NativesOf(loops)
        PROVE  w[loops[i].res] = mem[loops[i].res] /\ w[loops[i].res + 1] = mem[loops[i].res + 1]
    <3>1. loops[i] \in LoopType /\ FillsIn(mem, loops[i])
      BY LoopsAreLoops DEF NativesOf, Inv, Good, AllFill
    <3>2. /\ loops[i].res \in Results(loops[i]) /\ loops[i].res + 1 \in Results(loops[i])
          /\ Results(loops[i]) \subseteq DOMAIN mem
      BY <1>1, <3>1, OwnResults
    <3>3. c # loops[i].res /\ c # loops[i].res + 1
      <4>1. CASE i = n
        BY <4>1, <1>1
      <4>2. CASE i # n
        <5>1. Results(loops[i]) \cap Results(loop) = {}
          BY <4>2, <1>1, <1>4 DEF Apart
        <5> QED BY <5>1, <3>2
      <4> QED BY <4>1, <4>2
    <3> QED BY <3>2, <3>3, <1>3
  <2> QED BY <2>1
<1>7. Cellular(w) /\ Len(mem) <= Len(w)
  BY <1>3, <1>4 DEF Cellular
<1>8. Spared(mem, w, refs, loops)
  BY <1>5, <1>6 DEF Spared
<1>9. Good(w, refs, loops)
  BY <1>7, <1>8, Elsewhere DEF Inv
<1> QED BY <1>9 DEF w

LEMMA TakeResultGood ==
  ASSUME Inv, NEW v \in Literals, TakeResult(v)
  PROVE  Inv'
<1> DEFINE l == Last(loops)
           keep == l.by = "for_list" \/ (v.t = "num" /\ v.n # 0)
           count == IF keep THEN l.kept + 1 ELSE l.kept
           next == l.idx + 1
           k == [l EXCEPT !.body = FALSE, !.idx = next, !.val = <<>>, !.kept = count]
           c == l.res + 2 + l.kept
           x == IF l.by = "for_list" THEN v ELSE Head(l.val)
           w == [mem EXCEPT ![c] = x]
<1>1. /\ mem' = (IF keep THEN w ELSE mem) /\ refs' = refs /\ loops' = Append(Front(loops), k)
      /\ loops # <<>> /\ l.body /\ l.by # "for"
  BY DEF TakeResult, SetLoop, loop
<1>2. l \in LoopType /\ FillsIn(mem, l) /\ l = loop /\ mem \in Seq(Cell)
  BY <1>1, Innermost, LoopsAreLoops DEF loop
<1> HIDE DEF l
<1>3. /\ l.idx \in Nat /\ l.len \in Nat /\ l.kept \in Nat /\ l.res \in Nat /\ l.body \in BOOLEAN
      /\ l.by \in {"for", "for_list", "filter"} /\ l.arr \in Nat
  BY <1>2 DEF LoopType
<1>4. /\ l.arr + 1 + l.len <= Len(mem) /\ l.res # 0 /\ l.res + 1 + l.len <= Len(mem)
      /\ mem[l.res].n = TYPE_ARRAY /\ l.kept <= l.idx
      /\ (l.by = "for_list" => mem[l.res + 1].n = l.len /\ l.kept = l.idx)
      /\ l.idx < l.len /\ Len(l.val) = 1 /\ l.val[1] \in Cell
  BY <1>1, <1>2 DEF FillsIn
<1>5. /\ count \in Nat /\ next \in Nat /\ count <= next /\ next <= l.len
      /\ (l.by = "for_list" => count = next)
  BY <1>3, <1>4
<1>6. c \in Results(l) /\ c # l.res /\ c # l.res + 1
  <2> DEFINE res == l.res
             kept == l.kept
             idx == l.idx
             len == l.len
  <2>1. res \in Nat /\ kept \in Nat /\ idx \in Nat /\ len \in Nat /\ kept <= idx /\ idx < len
    BY <1>3, <1>4
  <2>2. Results(l) = res .. res + 1 + len /\ c = res + 2 + kept
    BY DEF Results
  <2> HIDE DEF res, kept, idx, len, c
  <2>3. c \in Int /\ res <= c /\ c <= res + 1 + len /\ c # res /\ c # res + 1
    BY <2>1, <2>2
  <2>4. res = l.res
    BY DEF res
  <2> QED BY <2>1, <2>2, <2>3, <2>4
<1>7. x \in Cell
  <2>1. v \in Cell
    BY RawCells
  <2>2. Head(l.val) = l.val[1]
    BY <1>2, <1>4 DEF LoopType
  <2> QED BY <2>1, <2>2, <1>4
<1> HIDE DEF x, keep, count, next
<1>8. k = [l EXCEPT !.body = FALSE, !.idx = next, !.val = <<>>, !.kept = count]
  OBVIOUS
<1> HIDE DEF k
<1>9. k \in LoopType
  <2> DEFINE none == <<>>
  <2>1. none \in Seq(Cell \cup [key : Cell, val : Cell])
    OBVIOUS
  <2>2. k = [l EXCEPT !.body = FALSE, !.idx = next, !.val = none, !.kept = count]
    BY <1>8
  <2> HIDE DEF none
  <2> QED BY <1>2, <1>5, <2>1, <2>2 DEF LoopType
<1>10. /\ k.by = l.by /\ k.arr = l.arr /\ k.res = l.res /\ k.len = l.len
       /\ k.idx = next /\ k.kept = count /\ k.body = FALSE
  BY <1>2, <1>8 DEF LoopType
<1>11. FillsIn(mem, k)
  BY <1>4, <1>5, <1>10 DEF FillsIn
<1>12. mem' \in Seq(Cell) /\ Len(mem') = Len(mem) /\ mem'[l.res] = mem[l.res] /\ mem'[l.res + 1] = mem[l.res + 1]
  <2>1. c \in DOMAIN mem /\ l.res \in DOMAIN mem /\ l.res + 1 \in DOMAIN mem
    <3>1. /\ Results(l) \subseteq DOMAIN mem /\ l.res \in Results(l) /\ l.res + 1 \in Results(l)
      BY <1>2, OwnResults
    <3> QED BY <3>1, <1>6
  <2> HIDE DEF c
  <2>2. w \in Seq(Cell) /\ Len(w) = Len(mem) /\ \A y \in DOMAIN mem : y # c => w[y] = mem[y]
    BY <2>1, <1>2, <1>7
  <2> HIDE DEF w
  <2>3. w[l.res] = mem[l.res] /\ w[l.res + 1] = mem[l.res + 1]
    BY <2>1, <2>2, <1>6
  <2>4. mem' = w \/ mem' = mem
    BY <1>1
  <2> QED BY <2>2, <2>3, <2>4, <1>2
<1> HIDE DEF c
<1>13. Good(mem', refs, loops)
  <2>1. Good(w, refs, loops)
    BY <1>1, <1>2, <1>6, <1>7, ResultPut
  <2>2. Good(mem, refs, loops)
    BY DEF Inv
  <2> QED BY <2>1, <2>2, <1>1
<1>14. FillsIn(mem', k)
  <2>1. Len(mem) <= Len(mem')
    BY <1>2, <1>12
  <2> QED BY <2>1, <1>2, <1>9, <1>10, <1>11, <1>12, FillSame
<1>15. VisitsIn(mem', k)
  BY <1>1, <1>10 DEF VisitsIn
<1>16. Good(mem', refs, Append(Front(loops), k))
  BY <1>1, <1>9, <1>10, <1>13, <1>14, <1>15, LastChanged DEF l
<1> QED BY <1>1, <1>16 DEF Inv

LEMMA GiveResultGood ==
  ASSUME Inv, GiveResult
  PROVE  Inv'
<1> DEFINE l == Last(loops)
           K == Front(loops)
           c == l.res + 1
           x == Raw(l.kept)
           w == IF l.by = "filter" THEN [mem EXCEPT ![c] = x] ELSE mem
<1>1. /\ mem' = w /\ refs' = Append(refs, l.res) /\ loops' = K
      /\ loops # <<>> /\ l.by # "for" /\ l.idx = l.len
  BY DEF GiveResult, loop
<1>2. /\ Good(mem, refs, K) /\ FillsIn(mem, l) /\ l \in LoopType /\ mem \in Seq(Cell)
      /\ Len(refs) + Cardinality(NativesOf(K)) < MaxObjects + MaxLoops
  BY <1>1, Fewer, LoopsAreLoops DEF Inv
<1>3. /\ \A r \in Range(refs) : ExtentIn(mem, r) \cap Results(l) = {}
      /\ \A i \in NativesOf(K) : Results(K[i]) \cap Results(l) = {}
  BY <1>1, Fewer DEF Inv
<1> HIDE DEF l, K
<1>4. /\ l.len \in Nat /\ l.kept \in Nat /\ l.res \in Nat
      /\ l.by \in {"for", "for_list", "filter"}
  BY <1>2 DEF LoopType
<1>5. /\ l.res # 0 /\ l.res + 1 + l.len <= Len(mem)
      /\ mem[l.res].n = TYPE_ARRAY /\ l.kept <= l.len
      /\ (l.by = "for_list" => mem[l.res + 1].n = l.len)
  BY <1>1, <1>2 DEF FillsIn
<1>6. /\ l.res \in Results(l) /\ c \in Results(l) /\ Results(l) \subseteq DOMAIN mem
      /\ Results(l) = l.res .. l.res + 1 + l.len /\ c # l.res /\ Len(mem) \in Nat
  BY <1>2, <1>4, OwnResults DEF Results
<1>7. x \in Cell /\ x.n = l.kept
  BY <1>4, RawCells
<1> HIDE DEF c, x
<1>8. w \in Seq(Cell) /\ Len(w) = Len(mem) /\ \A y \in DOMAIN mem : y # c => w[y] = mem[y]
  BY <1>2, <1>6, <1>7
<1>9. w[c].n \in 0 .. l.len
  <2>1. CASE l.by = "filter"
    <3>1. w[c] = x
      BY <2>1, <1>2, <1>6
    <3> QED BY <3>1, <1>4, <1>5, <1>7
  <2>2. CASE l.by # "filter"
    <3>1. w = mem /\ l.by = "for_list"
      BY <2>2, <1>1, <1>4
    <3> QED BY <3>1, <1>4, <1>5 DEF c
  <2> QED BY <2>1, <2>2
<1> HIDE DEF w
<1>10. Good(w, refs, K) /\ \A r \in Range(refs) : ExtentIn(w, r) = ExtentIn(mem, r)
  <2>1. Cellular(w) /\ Len(mem) <= Len(w)
    BY <1>2, <1>6, <1>8 DEF Cellular, Good
  <2>2. \A r \in Range(refs) : \A y \in ExtentIn(mem, r) : w[y] = mem[y]
    <3>1. \A r \in Range(refs) : ExtentIn(mem, r) \subseteq DOMAIN mem
      BY DEF Inv, Good, AllSound, SoundIn
    <3> QED BY <3>1, <1>3, <1>6, <1>8
  <2>3. \A i \in NativesOf(K) : w[K[i].res] = mem[K[i].res] /\ w[K[i].res + 1] = mem[K[i].res + 1]
    <3>1. ASSUME NEW i \in NativesOf(K)
          PROVE  w[K[i].res] = mem[K[i].res] /\ w[K[i].res + 1] = mem[K[i].res + 1]
      <4>1. K[i] \in LoopType /\ FillsIn(mem, K[i])
        BY <1>2 DEF Good, AllFill, NativesOf, Listing
      <4>2. /\ K[i].res \in Results(K[i]) /\ K[i].res + 1 \in Results(K[i])
            /\ Results(K[i]) \subseteq DOMAIN mem
        BY <1>2, <4>1, OwnResults
      <4>3. c \notin Results(K[i])
        BY <1>3, <1>6
      <4> QED BY <4>2, <4>3, <1>8
    <3> QED BY <3>1
  <2>4. Spared(mem, w, refs, K)
    BY <2>2, <2>3 DEF Spared
  <2> QED BY <2>1, <2>4, <1>2, Elsewhere
<1> DEFINE r == l.res
           n == w[c].n
<1>11. w[r].n = TYPE_ARRAY /\ w[r + 1].n = n
  BY <1>5, <1>6, <1>8 DEF c
<1>12. ExtentIn(w, r) = r .. r + 1 + n
  BY <1>11 DEF ExtentIn, TYPE_ARRAY, TYPE_BYTES, TYPE_MAP
<1>13. n \in Nat /\ n <= l.len /\ r \in Nat \ {0}
  BY <1>4, <1>5, <1>9
<1> HIDE DEF r, n
<1>14. ExtentIn(w, r) \subseteq Results(l)
  BY <1>4, <1>6, <1>12, <1>13 DEF r
<1>15. SoundIn(w, r)
  <2>1. ExtentIn(w, r) \subseteq DOMAIN w
    BY <1>2, <1>6, <1>8, <1>14
  <2> QED BY <2>1, <1>11, <1>13 DEF SoundIn, TYPE_ARRAY, TYPE_BYTES, TYPE_MAP
<1>16. /\ \A q \in Range(refs) : ExtentIn(w, q) \cap ExtentIn(w, r) = {}
       /\ \A i \in NativesOf(K) : ExtentIn(w, r) \cap Results(K[i]) = {}
  BY <1>3, <1>10, <1>14
<1>17. Good(w, Append(refs, r), K)
  BY <1>2, <1>10, <1>15, <1>16, WithRef
<1> QED BY <1>1, <1>17 DEF Inv, r
-----------------------------------------------------------------------------
(* The invariant.                                                          *)

LEMMA InitGood == Init => Inv
<1> SUFFICES ASSUME Init PROVE Inv
  OBVIOUS
<1>1. mem = <<>> /\ refs = <<>> /\ loops = <<>>
  BY DEF Init
<1>2. Range(<<>>) = {} /\ DOMAIN <<>> = {} /\ Len(<<>>) = 0
  BY DEF Range
<1>3. NativesOf(<<>>) = {} /\ Cardinality({}) = 0
  BY <1>2, FS_EmptySet DEF NativesOf
<1>4. Cellular(<<>>)
  BY <1>2, ContainerConstants DEF Cellular
<1>5. Listing(<<>>, <<>>)
  <2>1. IsInjective(<<>>)
    BY <1>2 DEF IsInjective
  <2>2. <<>> \in Seq(Nat) /\ <<>> \in Seq(LoopType)
    BY EmptySeq
  <2>3. 0 <= MaxLoops /\ 0 + 0 <= MaxObjects + MaxLoops
    BY ContainerConstants
  <2> QED BY <1>2, <1>3, <2>1, <2>2, <2>3 DEF Listing
<1>6. AllSound(<<>>, <<>>) /\ AllFill(<<>>, <<>>) /\ Apart(<<>>, <<>>, <<>>) /\ AllVisit(<<>>, <<>>)
  BY <1>2, <1>3 DEF AllSound, AllFill, Apart, AllVisit
<1> QED BY <1>1, <1>4, <1>5, <1>6 DEF Inv, Good

LEMMA InvKept ==
  ASSUME Inv, [Next]_vars
  PROVE  Inv'
<1>1. CASE UNCHANGED vars
  BY <1>1 DEF vars, Inv
<1>2. ASSUME NEW items \in Written, MakeArray(items) \/ MakeBytes(items) PROVE Inv'
  BY <1>2, MakeArrayGood, MakeBytesGood
<1>3. CASE MakeMap
  BY <1>3, MakeMapGood
<1>4. ASSUME NEW a \in Index, NEW b \in Index, MakeRange(a, b) PROVE Inv'
  BY <1>4, MakeRangeGood
<1>5. ASSUME NEW r \in OfType(Listed), NEW q \in OfType({Type(r)}),
             Concat(r, q) \/ \E s, e \in Index : SetSlice(r, s, e, q)
      PROVE  Inv'
  BY <1>5, ConcatGood, SetSliceGood
<1>6. ASSUME NEW r \in OfType(Listed),
             \/ \E v \in Literals : Sums(r, v) \subseteq Value /\ Broadcast(r, v)
             \/ \E s, e \in Index : Slice(r, s, e)
             \/ \E i \in Index, v \in Literals : SetItem(r, i, v)
      PROVE  Inv'
  BY <1>6, BroadcastGood, SliceGood, SetItemGood
<1>7. ASSUME NEW r \in OfType({TYPE_ARRAY}),
             \/ \E n \in Index : RemoveItem(r, n) \/ \E v \in Literals : Add(r, n, v)
             \/ \E by \in {"for_list", "filter"} : Apply(by, r)
      PROVE  Inv'
  BY <1>7, RemoveItemGood, AddGood, ApplyGood
<1>8. ASSUME NEW r \in OfType({TYPE_MAP}), NEW k \in Literals,
             RemoveEntry(r, k) \/ \E v \in Literals : SetEntry(r, k, v)
      PROVE  Inv'
  BY <1>8, RemoveEntryGood, SetEntryGood
<1>9. ASSUME NEW r \in Range(refs), ForIn(r) PROVE Inv'
  BY <1>9, ForInGood
<1>10. CASE NextItem \/ NextRound \/ Leave
  BY <1>10, NextItemGood, NextRoundGood, LeaveGood
<1>11. CASE CallBack \/ GiveResult \/ \E v \in Literals : TakeResult(v)
  BY <1>11, CallBackGood, GiveResultGood, TakeResultGood
<1> QED BY <1>1, <1>2, <1>3, <1>4, <1>5, <1>6, <1>7, <1>8, <1>9, <1>10, <1>11 DEF Next

(* The invariant is one.                                                   *)
LEMMA Invariance == Spec => []Inv
<1>1. Init => Inv
  BY InitGood
<1>2. Inv /\ [Next]_vars => Inv'
  BY InvKept
<1> QED BY <1>1, <1>2, PTL DEF Spec

(* The state has the shape TypeOK gives it.                                *)
LEMMA InvTyped == Inv => TypeOK
<1> SUFFICES ASSUME Inv PROVE TypeOK
  OBVIOUS
<1>1. Cellular(mem) /\ Listing(refs, loops) /\ AllSound(mem, refs)
  BY DEF Inv, Good
<1>2. mem \in Seq(Cell) /\ Len(mem) < MAX_HEAP
  BY <1>1 DEF Cellular
<1>3. Range(refs) \subseteq DOMAIN mem
  <2>1. \A r \in Range(refs) : r \in ExtentIn(mem, r) /\ ExtentIn(mem, r) \subseteq DOMAIN mem
    BY <1>1, OwnHeader DEF AllSound, SoundIn
  <2> QED BY <2>1
<1>4. Len(refs) <= MaxObjects + MaxLoops
  <2> DEFINE n == Cardinality(NativesOf(loops))
  <2>1. n \in Nat
    BY <1>1, NativeCount DEF Listing
  <2>2. refs \in Seq(Nat) /\ Len(refs) + n <= MaxObjects + MaxLoops
    BY <1>1 DEF Listing
  <2> HIDE DEF n
  <2> QED BY <2>1, <2>2, ContainerConstants
<1>5. IsInjective(refs) /\ Len(loops) <= MaxLoops /\ \A i \in DOMAIN loops : loops[i].arr \in Range(refs)
  BY <1>1 DEF Listing
<1> QED BY <1>2, <1>3, <1>4, <1>5 DEF TypeOK

(* What an object of the program takes up.                                 *)
LEMMA ExtentIs ==
  ASSUME Inv, NEW r \in Range(refs)
  PROVE  Extent(r) = ExtentIn(mem, r)
<1>1. mem[r].n \in {TYPE_ARRAY, TYPE_BYTES, TYPE_MAP}
  BY DEF Inv, Good, AllSound, SoundIn
<1>2. TYPE_ARRAY # TYPE_BYTES /\ TYPE_ARRAY # TYPE_MAP /\ TYPE_BYTES # TYPE_MAP
  BY DEF TYPE_ARRAY, TYPE_BYTES, TYPE_MAP
<1>3. CASE mem[r].n = TYPE_ARRAY
  BY <1>2, <1>3 DEF Extent, ExtentIn, Type, Length
<1>4. CASE mem[r].n = TYPE_BYTES
  BY <1>2, <1>4 DEF Extent, ExtentIn, Type, Length
<1>5. CASE mem[r].n = TYPE_MAP
  BY <1>2, <1>5 DEF Extent, ExtentIn, Type, Data, Cap
<1> QED BY <1>1, <1>3, <1>4, <1>5

(* Objects share no cell.                                                  *)
LEMMA InvApart == Inv => ObjectsApart
<1> SUFFICES ASSUME Inv PROVE ObjectsApart
  OBVIOUS
<1>1. /\ mem \in Seq(Cell) /\ Listing(refs, loops) /\ AllSound(mem, refs)
      /\ AllFill(mem, loops) /\ Apart(mem, refs, loops)
  BY DEF Inv, Good, Cellular
<1>2. Natives = NativesOf(loops)
  BY DEF Natives, NativesOf
<1> DEFINE Is(o, x) == \/ o \in DOMAIN refs /\ x = ExtentIn(mem, refs[o])
                       \/ -o \in Natives /\ x = Results(loops[-o])
<1>3. \A i \in DOMAIN refs : i \in Nat \ {0} /\ refs[i] \in Range(refs)
  BY <1>1 DEF Listing, Range
<1>4. \A i \in Natives : i \in Nat \ {0} /\ i \in DOMAIN loops
  BY <1>1, <1>2 DEF Listing, NativesOf
<1>5. \A o \in DOMAIN Extents : /\ o \in Int
                                /\ \/ o > 0 /\ o \in DOMAIN refs /\ Extents[o] = ExtentIn(mem, refs[o])
                                   \/ o < 0 /\ -o \in Natives /\ Extents[o] = Results(loops[-o])
  <2>1. ASSUME NEW o \in DOMAIN refs PROVE o \in Int /\ o > 0 /\ Extents[o] = ExtentIn(mem, refs[o])
    BY <1>3, ExtentIs DEF Extents
  <2>2. ASSUME NEW i \in Natives PROVE /\ -i \in Int /\ -i < 0 /\ -(-i) \in Natives
                                       /\ Extents[-i] = Results(loops[-(-i)])
    <3>1. -i \in Int /\ -i < 0 /\ -(-i) = i /\ ~(-i > 0)
      BY <1>4
    <3> QED BY <3>1 DEF Extents
  <2>3. DOMAIN Extents = DOMAIN refs \cup {-i : i \in Natives}
    BY DEF Extents
  <2> HIDE DEF Extents
  <2> QED BY <2>1, <2>2, <2>3
<1>6. ASSUME NEW i \in DOMAIN Extents, NEW j \in DOMAIN Extents, i # j
      PROVE  Extents[i] \cap Extents[j] = {}
  <2>1. CASE i > 0 /\ j > 0
    <3>1. i \in DOMAIN refs /\ j \in DOMAIN refs
      BY <1>5, <2>1
    <3>2. refs[i] # refs[j]
      BY <3>1, <1>1, <1>6 DEF Listing, IsInjective
    <3> QED BY <3>1, <3>2, <1>1, <1>3, <1>5, <2>1 DEF Apart
  <2>2. CASE i > 0 /\ j < 0
    BY <1>1, <1>2, <1>3, <1>5, <2>2 DEF Apart
  <2>3. CASE i < 0 /\ j > 0
    BY <1>1, <1>2, <1>3, <1>5, <2>3 DEF Apart
  <2>4. CASE i < 0 /\ j < 0
    <3>1. -i # -j
      BY <1>5, <1>6
    <3> QED BY <3>1, <1>1, <1>2, <1>5, <2>4 DEF Apart
  <2> QED BY <1>5, <2>1, <2>2, <2>3, <2>4
<1>7. ASSUME NEW o \in DOMAIN Extents
      PROVE  Extents[o] \subseteq DOMAIN mem
  <2>1. \A r \in Range(refs) : ExtentIn(mem, r) \subseteq DOMAIN mem
    BY <1>1 DEF AllSound, SoundIn
  <2>2. ASSUME NEW i \in Natives PROVE Results(loops[i]) \subseteq DOMAIN mem
    <3>1. loops[i] \in LoopType /\ FillsIn(mem, loops[i])
      BY <1>1, <1>2, <1>4 DEF Listing, AllFill
    <3> QED BY <3>1, <1>1, OwnResults
  <2> QED BY <1>3, <1>5, <2>1, <2>2
<1>8. \A r \in OfType({TYPE_MAP}) : Count(r) <= Cap(r)
  BY <1>1 DEF OfType, AllSound, SoundIn, Type, Count, Cap
<1> QED BY <1>6, <1>7, <1>8 DEF ObjectsApart

(* A loop over a map gave what the invariant says.                         *)
LEMMA InvVisits == Inv => VisitsEach
<1> SUFFICES ASSUME Inv, NEW i \in DOMAIN loops,
                    loops[i].by = "for", ~loops[i].shrunk, Type(loops[i].arr) = TYPE_MAP
             PROVE  LET l    == loops[i]
                        keys == [n \in 1 .. Count(l.arr) |-> EntriesOf(l.arr)[n].key]
                    IN  IsPrefix(l.seen, keys) /\ IsInjective(keys)
  BY DEF VisitsEach
<1> DEFINE r == loops[i].arr
           seen == loops[i].seen
           count == Count(r)
           data == Data(r)
           keys == [n \in 1 .. count |-> EntriesOf(r)[n].key]
<1>1. /\ SoundIn(mem, r) /\ VisitsIn(mem, loops[i]) /\ loops[i] \in LoopType /\ mem \in Seq(Cell)
  BY DEF Inv, Good, AllSound, AllVisit, Listing, Cellular
<1>2. /\ count \in Nat /\ data \in Nat
      /\ \A a, b \in 0 .. count - 1 : KeyIn(mem, r, a) = KeyIn(mem, r, b) => a = b
  <2>1. /\ mem[r].n = TYPE_MAP /\ mem[r + 1].n \in Nat
        /\ mem[r + 2].n \in 0 .. mem[r + 1].n /\ mem[r + 3].n \in Nat
        /\ \A a, b \in 0 .. mem[r + 2].n - 1 : KeyIn(mem, r, a) = KeyIn(mem, r, b) => a = b
    BY <1>1 DEF SoundIn, Type
  <2> QED BY <2>1 DEF Count, Data
<1>3. /\ Len(seen) \in Nat /\ Len(seen) <= count /\ seen \in Seq(Cell)
      /\ \A j \in 1 .. Len(seen) : seen[j] = KeyIn(mem, r, j - 1)
  BY <1>1 DEF VisitsIn, LoopType, Count, Type
<1>4. \A n \in 1 .. count : EntriesOf(r)[n].key = KeyIn(mem, r, n - 1)
  <2> SUFFICES ASSUME NEW n \in 1 .. count PROVE EntriesOf(r)[n].key = KeyIn(mem, r, n - 1)
    OBVIOUS
  <2>1. EntriesOf(r)[n].key = mem[data + n * 2 - 2]
    BY DEF EntriesOf
  <2>2. data + n * 2 - 2 = data + (n - 1) * 2
    BY <1>2
  <2>3. KeyIn(mem, r, n - 1) = mem[data + (n - 1) * 2]
    BY DEF KeyIn, Data
  <2> QED BY <2>1, <2>2, <2>3
<1> HIDE DEF r, seen, count, data
<1>5. /\ DOMAIN keys = 1 .. count
      /\ \A n \in 1 .. count : keys[n] = KeyIn(mem, r, n - 1)
  BY <1>4
<1>6. Len(keys) = count
  BY <1>2
<1> HIDE DEF keys
<1>7. IsInjective(keys)
  <2>1. ASSUME NEW a \in 1 .. count, NEW b \in 1 .. count, keys[a] = keys[b] PROVE a = b
    <3>1. KeyIn(mem, r, a - 1) = KeyIn(mem, r, b - 1)
      BY <1>5, <2>1
    <3>2. a - 1 \in 0 .. count - 1 /\ b - 1 \in 0 .. count - 1
      BY <1>2
    <3>3. a - 1 = b - 1
      BY <1>2, <3>1, <3>2
    <3> QED BY <1>2, <3>3
  <2> QED BY <1>5, <2>1 DEF IsInjective
<1>8. IsPrefix(seen, keys)
  <2>1. SubSeq(seen, 1, Len(seen)) = SubSeq(keys, 1, Len(seen))
    <3>1. \A j \in 1 .. Len(seen) : seen[j] = keys[j]
      BY <1>2, <1>3, <1>5
    <3>2. SubSeq(seen, 1, Len(seen)) = [j \in 1 .. 1 + Len(seen) - 1 |-> seen[1 + j - 1]]
      BY <1>3
    <3> QED BY <1>2, <1>3, <1>6, <3>1
  <2> QED BY <1>3, <1>6, <2>1 DEF IsPrefix
<1> QED BY <1>7, <1>8 DEF r, seen, count, keys

-----------------------------------------------------------------------------
(* Reading.                                                                *)

(* A list's items, by their positions. *)
ItemsOf(r, n, s) ==
  /\ n \in Nat /\ DOMAIN s = 1 .. n /\ Len(s) = n
  /\ \A i \in 1 .. n : s[i] = Item(r, i - 1)

LEMMA ItemsAre ==
  ASSUME Inv, NEW r \in OfType(Listed)
  PROVE  ItemsOf(r, Length(r), Contents(r).items)
<1> DEFINE n == Length(r)
           s == Contents(r).items
<1>1. ListAt(r, n)
  BY ListIsAt
<1>2. n \in Nat
  BY <1>1 DEF ListAt
<1>3. TYPE_ARRAY # TYPE_BYTES /\ TYPE_ARRAY # TYPE_MAP /\ TYPE_BYTES # TYPE_MAP
  BY DEF TYPE_ARRAY, TYPE_BYTES, TYPE_MAP
<1>4. Type(r) \in Listed
  BY DEF OfType
<1>5. CASE Type(r) = TYPE_ARRAY
  <2>1. s = ItemsAt(r)
    BY <1>3, <1>5 DEF Contents
  <2>2. s \in Seq(Cell) /\ Len(s) = n
    BY <1>1, <1>5, <2>1, ItemsAtIs
  <2>3. s = SubSeq(mem, r + 2, r + 2 + n - 1)
    BY <2>1 DEF ItemsAt, Block
  <2>4. \A i \in 1 .. n : s[i] = Item(r, i - 1)
    <3>1. mem \in Seq(Cell) /\ r \in Nat \ {0} /\ r + 1 + n <= Len(mem) /\ Len(mem) \in Nat
      BY <1>1, <1>5 DEF ListAt
    <3>2. \A i \in 1 .. n : Item(r, i - 1) = mem[r + 2 + (i - 1)]
      BY <1>3, <1>5 DEF Item
    <3> HIDE DEF s, n
    <3>3. s = [i \in 1 .. n |-> mem[r + 2 + i - 1]]
      BY <1>2, <2>3, <3>1
    <3>4. \A i \in 1 .. n : r + 2 + (i - 1) = r + 2 + i - 1
      BY <3>1, <1>2
    <3> QED BY <3>2, <3>3, <3>4
  <2> HIDE DEF s, n
  <2>5. DOMAIN s = 1 .. n
    BY <2>2
  <2> QED BY <1>2, <2>2, <2>4, <2>5 DEF ItemsOf, s, n
<1>6. CASE Type(r) = TYPE_BYTES
  <2>1. s = [i \in 1 .. n |-> Num(ByteAt(r, i - 1))]
    BY <1>3, <1>6 DEF Contents
  <2>2. \A i \in 1 .. n : Item(r, i - 1) = Num(ByteAt(r, i - 1))
    BY <1>6 DEF Item
  <2> HIDE DEF s, n
  <2>3. Len(s) = n
    BY <1>2, <2>1
  <2> QED BY <1>2, <2>1, <2>2, <2>3 DEF ItemsOf, s, n
<1> QED BY <1>4, <1>5, <1>6 DEF Listed

(* Positions from either end.                                              *)
LEMMA PositionsAgree ==
  ASSUME NEW r, NEW len \in Nat, len = Length(r), NEW s, ItemsOf(r, len, s)
  PROVE  /\ \A n \in 1 .. len : ItemAt(r, n - 1) = s[n] /\ ItemAt(r, n - 1 - len) = s[n]
         /\ {ItemAt(r, len), ItemAt(r, -1 - len)} = {Refused}
<1>1. ASSUME NEW n \in 1 .. len
      PROVE  ItemAt(r, n - 1) = s[n] /\ ItemAt(r, n - 1 - len) = s[n]
  <2> DEFINE i == n - 1
             j == n - 1 - len
  <2>1. i \in 0 .. len - 1 /\ FromEnd(i, len) = i /\ FromEnd(j, len) = i
    BY DEF FromEnd
  <2>2. s[n] = Item(r, i)
    BY DEF ItemsOf
  <2> HIDE DEF i, j
  <2>3. ItemAt(r, i) = Item(r, i) /\ ItemAt(r, j) = Item(r, i)
    BY <2>1 DEF ItemAt
  <2> QED BY <2>2, <2>3 DEF i, j
<1>2. ItemAt(r, len) = Refused /\ ItemAt(r, -1 - len) = Refused
  <2> DEFINE j == -1 - len
  <2>1. FromEnd(len, len) = len /\ FromEnd(j, len) = -1 /\ len \notin 0 .. len - 1 /\ -1 \notin 0 .. len - 1
    BY DEF FromEnd
  <2> HIDE DEF j
  <2>2. ItemAt(r, len) = Refused /\ ItemAt(r, j) = Refused
    BY <2>1 DEF ItemAt
  <2> QED BY <2>2 DEF j
<1> QED BY <1>1, <1>2

(* The first place of an element, counted from one or from zero.           *)
First(s, e) == SelectInSeq(s, LAMBDA x : x = e)
PlacesIn(s, n, e) == {i \in 0 .. n - 1 : s[i + 1] = e}

LEMMA FirstPlace ==
  ASSUME NEW s, NEW n \in Nat, DOMAIN s = 1 .. n, Len(s) = n, NEW e
  PROVE  /\ e \in Range(s) <=> PlacesIn(s, n, e) # {}
         /\ PlacesIn(s, n, e) # {} => Min(PlacesIn(s, n, e)) = First(s, e) - 1
<1> DEFINE I == {i \in 1 .. n : s[i] = e}
           P == PlacesIn(s, n, e)
<1>0. P = {i \in 0 .. n - 1 : s[i + 1] = e}
  BY DEF PlacesIn
<1> HIDE DEF P
<1>1. \A i \in I : i - 1 \in P
  BY <1>0
<1>2. \A i \in P : i + 1 \in I
  BY <1>0
<1>3. P \subseteq Nat /\ I \subseteq Nat
  BY <1>0
<1>4. e \in Range(s) <=> I # {}
  BY DEF Range
<1>5. I # {} <=> P # {}
  BY <1>1, <1>2
<1>6. ASSUME P # {} PROVE Min(P) = First(s, e) - 1
  <2>1. First(s, e) = Min(I)
    BY <1>5, <1>6 DEF First, SelectInSeq
  <2>2. Min(P) \in P /\ \A i \in P : Min(P) <= i
    BY <1>3, <1>6, Smallest
  <2>3. Min(I) \in I /\ \A i \in I : Min(I) <= i
    BY <1>3, <1>5, <1>6, Smallest
  <2> DEFINE p == Min(P)
             m == Min(I)
  <2>4. m \in Nat /\ p \in Nat /\ p <= m - 1 /\ m <= p + 1
    BY <1>1, <1>2, <1>3, <2>2, <2>3
  <2> HIDE DEF p, m
  <2>5. p = m - 1
    BY <2>4
  <2> QED BY <2>1, <2>5 DEF p, m
<1> QED BY <1>4, <1>5, <1>6 DEF P

(* What a list is searched for.                                            *)
LEMMA SearchesAgree ==
  ASSUME Inv, NEW r \in OfType(Listed), NEW v \in Value
  PROVE  LET items == Contents(r).items
             e     == IF Type(r) = TYPE_BYTES THEN Num(v.n) ELSE v
         IN  /\ Type(r) = TYPE_ARRAY => (Has(r, v) <=> v \in Range(items))
             /\ IF e \in Range(items)
                THEN Where(r, v) = SelectInSeq(items, LAMBDA x : x = e) - 1
                ELSE Where(r, v) = -1
<1> DEFINE s == Contents(r).items
           n == Length(r)
           e == IF Type(r) = TYPE_BYTES THEN Num(v.n) ELSE v
           P == PlacesIn(s, n, e)
<1>1. ItemsOf(r, n, s)
  BY ItemsAre
<1>2. Type(r) \in Listed /\ TYPE_ARRAY # TYPE_BYTES /\ TYPE_ARRAY # TYPE_MAP
  BY DEF OfType, TYPE_ARRAY, TYPE_BYTES, TYPE_MAP
<1> HIDE DEF s
<1>3. n \in Nat /\ \A i \in 0 .. n - 1 : s[i + 1] = Item(r, i)
  <2>1. n \in Nat
    BY <1>1 DEF ItemsOf
  <2> HIDE DEF n
  <2>2. ASSUME NEW i \in 0 .. n - 1 PROVE s[i + 1] = Item(r, i)
    <3>1. i + 1 \in 1 .. n /\ (i + 1) - 1 = i
      BY <2>1
    <3> QED BY <1>1, <3>1 DEF ItemsOf
  <2> QED BY <2>1, <2>2
<1> HIDE DEF P
<1>0. P = {i \in 0 .. n - 1 : s[i + 1] = e}
  BY DEF P, PlacesIn
<1>4. P = {i \in 0 .. n - 1 : IF Type(r) = TYPE_BYTES THEN ByteAt(r, i) = v.n ELSE mem[r + 2 + i] = v}
  <2>1. CASE Type(r) = TYPE_BYTES
    <3>1. \A i : Item(r, i) = e <=> ByteAt(r, i) = v.n
      BY <2>1 DEF Item, Num
    <3> HIDE DEF e, n
    <3> QED BY <1>0, <1>3, <2>1, <3>1
  <2>2. CASE Type(r) # TYPE_BYTES
    <3>1. \A i : Item(r, i) = e <=> mem[r + 2 + i] = v
      BY <2>2 DEF Item
    <3> HIDE DEF e, n
    <3> QED BY <1>0, <1>3, <2>2, <3>1
  <2> QED BY <2>1, <2>2
<1>5. Where(r, v) = IF P = {} THEN -1 ELSE Min(P)
  BY <1>4 DEF Where
<1>6. /\ e \in Range(s) <=> P # {}
      /\ P # {} => Min(P) = First(s, e) - 1
  <2>1. n \in Nat /\ DOMAIN s = 1 .. n /\ Len(s) = n
    BY <1>1 DEF ItemsOf
  <2> HIDE DEF n, e
  <2> QED BY <2>1, FirstPlace DEF P
<1>7. Type(r) = TYPE_ARRAY => (Has(r, v) <=> v \in Range(s))
  <2> SUFFICES ASSUME Type(r) = TYPE_ARRAY PROVE Has(r, v) <=> v \in Range(s)
    OBVIOUS
  <2>1. Has(r, v) <=> \E i \in 0 .. n - 1 : mem[r + 2 + i] = v
    BY <1>2 DEF Has
  <2>2. e = v /\ (P # {} <=> \E i \in 0 .. n - 1 : mem[r + 2 + i] = v)
    BY <1>2, <1>4
  <2> QED BY <1>6, <2>1, <2>2
<1>8. IF e \in Range(s) THEN Where(r, v) = First(s, e) - 1 ELSE Where(r, v) = -1
  BY <1>5, <1>6
<1> QED BY <1>7, <1>8 DEF First, s

(* What a map is searched for.                                             *)
LEMMA EntriesAgree ==
  ASSUME Inv, NEW r \in OfType({TYPE_MAP}), NEW k \in Value
  PROVE  LET items == Contents(r).items
             keys  == {items[i].key : i \in DOMAIN items}
         IN  /\ IF k \in keys THEN [key |-> k, val |-> EntryAt(r, k)] \in Range(items)
                ELSE EntryAt(r, k) = Absent
             /\ StringKeys(r) /\ k.t = "str" => (Has(r, k) <=> k \in keys)
<1> DEFINE s == Contents(r).items
           n == Count(r)
           d == Data(r)
           keys == {s[i].key : i \in DOMAIN s}
           P == Places(r, k)
           Key(i) == mem[d + i * 2]
           Val(i) == mem[d + i * 2 + 1]
<1>1. r \in Range(refs) /\ mem[r].n = TYPE_MAP /\ Type(r) = TYPE_MAP
  BY DEF OfType, Type
<1>2. SoundIn(mem, r) /\ mem \in Seq(Cell)
  BY <1>1 DEF Inv, Good, AllSound, Cellular
<1>3. TYPE_ARRAY # TYPE_BYTES /\ TYPE_ARRAY # TYPE_MAP /\ TYPE_BYTES # TYPE_MAP
  BY DEF TYPE_ARRAY, TYPE_BYTES, TYPE_MAP
<1>4. n \in Nat /\ d \in Nat
  <2>1. mem[r + 1].n \in Nat /\ mem[r + 2].n \in 0 .. mem[r + 1].n /\ mem[r + 3].n \in Nat
    BY <1>1, <1>2 DEF SoundIn
  <2> QED BY <2>1 DEF Count, Data
<1>5. s = [i \in 1 .. n |-> [key |-> mem[d + i * 2 - 2], val |-> mem[d + i * 2 - 1]]]
  BY <1>1, <1>3 DEF Contents, EntriesOf
<1>6. \A i \in 0 .. n - 1 : Key(i) \in Cell
  <2>1. ASSUME NEW i \in 0 .. n - 1 PROVE Key(i) \in Cell
    <3>1. d + i * 2 \in DOMAIN mem
      <4>1. /\ ExtentIn(mem, r) \subseteq DOMAIN mem /\ n <= mem[r + 1].n /\ mem[r + 1].n \in Nat
        BY <1>1, <1>2 DEF SoundIn, Count
      <4> DEFINE c == mem[r + 1].n
      <4>2. d .. d + c * 2 - 1 \subseteq ExtentIn(mem, r)
        BY <1>1 DEF ExtentIn, Data
      <4>3. c \in Nat /\ n <= c
        BY <4>1
      <4> HIDE DEF c, d, n
      <4>4. d + i * 2 \in d .. d + c * 2 - 1
        BY <1>4, <4>3
      <4> QED BY <4>1, <4>2, <4>4
    <3> HIDE DEF d
    <3> QED BY <1>2, <3>1
  <2> QED BY <2>1
<1> HIDE DEF s, n, d
<1>7. /\ DOMAIN s = 1 .. n
      /\ \A i \in 0 .. n - 1 : i + 1 \in 1 .. n /\ s[i + 1] = [key |-> Key(i), val |-> Val(i)]
  <2>1. ASSUME NEW i \in 0 .. n - 1
        PROVE  i + 1 \in 1 .. n /\ s[i + 1] = [key |-> Key(i), val |-> Val(i)]
    <3>1. i + 1 \in 1 .. n /\ d + (i + 1) * 2 - 2 = d + i * 2 /\ d + (i + 1) * 2 - 1 = d + i * 2 + 1
      BY <1>4
    <3>2. s[i + 1] = [key |-> mem[d + (i + 1) * 2 - 2], val |-> mem[d + (i + 1) * 2 - 1]]
      BY <1>5, <3>1
    <3> QED BY <3>1, <3>2
  <2> QED BY <1>5, <2>1
<1>15. \A i \in 0 .. n - 1 : s[i + 1].key = Key(i)
  <2>1. ASSUME NEW i \in 0 .. n - 1 PROVE s[i + 1].key = Key(i)
    <3> DEFINE a == Key(i)
               b == Val(i)
               p == s[i + 1]
    <3>1. p = [key |-> a, val |-> b]
      BY <1>7
    <3> HIDE DEF a, b, p
    <3>2. p.key = a
      BY <3>1
    <3> QED BY <3>2 DEF p, a
  <2> QED BY <2>1
<1>8. P = {i \in 0 .. n - 1 : Key(i) = k}
  BY DEF Places, n, d
<1>9. EntryAt(r, k) = IF P = {} THEN Absent ELSE Val(Min(P))
  BY DEF EntryAt, d
<1>10. StringKeys(r) <=> \A i \in 0 .. n - 1 : Key(i).t = "str"
  BY DEF StringKeys, n, d
<1>11. Has(r, k) <=> \E i \in 0 .. n - 1 : Key(i).n = k.n
  BY <1>1 DEF Has, n, d
<1> HIDE DEF P, Key, Val
<1>12. k \in keys <=> P # {}
  <2>1. ASSUME k \in keys PROVE P # {}
    <3>1. PICK j \in 1 .. n : k = s[j].key
      BY <1>7, <2>1
    <3>2. j - 1 \in 0 .. n - 1 /\ (j - 1) + 1 = j
      BY <1>4
    <3>3. s[j].key = Key(j - 1)
      BY <1>15, <3>2
    <3> QED BY <1>8, <3>1, <3>2, <3>3
  <2>2. ASSUME P # {} PROVE k \in keys
    <3>1. PICK i \in 0 .. n - 1 : Key(i) = k
      BY <1>8, <2>2
    <3>2. s[i + 1].key = k
      BY <1>15, <3>1
    <3> QED BY <1>7, <3>2
  <2> QED BY <2>1, <2>2
<1>13. P # {} => [key |-> k, val |-> Val(Min(P))] \in Range(s)
  <2> SUFFICES ASSUME P # {} PROVE [key |-> k, val |-> Val(Min(P))] \in Range(s)
    OBVIOUS
  <2>1. P \subseteq Nat
    BY <1>8
  <2>2. Min(P) \in P
    BY <2>1, Smallest
  <2>3. Min(P) \in 0 .. n - 1 /\ Key(Min(P)) = k
    BY <1>8, <2>2
  <2>4. Min(P) + 1 \in DOMAIN s /\ s[Min(P) + 1] = [key |-> k, val |-> Val(Min(P))]
    BY <1>7, <2>3
  <2> HIDE DEF keys
  <2> QED BY <2>4 DEF Range
<1> HIDE DEF keys
<1>14. ASSUME StringKeys(r), k.t = "str" PROVE Has(r, k) <=> k \in keys
  <2>1. \A i \in 0 .. n - 1 : Key(i).n = k.n <=> Key(i) = k
    <3>1. ASSUME NEW i \in 0 .. n - 1, Key(i).n = k.n PROVE Key(i) = k
      <4>1. Key(i) \in Cell /\ Key(i).t = "str"
        BY <1>6, <1>10, <1>14 DEF Key
      <4>2. Key(i) = Str(Key(i).n)
        BY <4>1 DEF Cell, ByteCell, Pack, Str
      <4>3. k = Str(k.n)
        BY <1>14, ContainerConstants DEF Str
      <4> QED BY <3>1, <4>2, <4>3
    <3> QED BY <3>1
  <2> QED BY <1>8, <1>11, <1>12, <2>1
<1> QED BY <1>9, <1>12, <1>13, <1>14 DEF s, keys

(* What is read is what the collection holds.                              *)
LEMMA InvReads == Inv => ReadsAgree
<1> SUFFICES ASSUME Inv, NEW r \in Range(refs)
             PROVE  LET items == Contents(r).items
                        keys  == {items[i].key : i \in DOMAIN items}
                    IN IF Type(r) = TYPE_MAP
                       THEN \A k \in Value :
                              /\ IF k \in keys THEN [key |-> k, val |-> EntryAt(r, k)] \in Range(items)
                                 ELSE EntryAt(r, k) = Absent
                              /\ StringKeys(r) /\ k.t = "str" => (Has(r, k) <=> k \in keys)
                       ELSE /\ \A n \in 1 .. Len(items) :
                                 ItemAt(r, n - 1) = items[n] /\ ItemAt(r, n - 1 - Len(items)) = items[n]
                            /\ {ItemAt(r, Len(items)), ItemAt(r, -1 - Len(items))} = {Refused}
                            /\ \A v \in Value :
                                 /\ Type(r) = TYPE_ARRAY => (Has(r, v) <=> v \in Range(items))
                                 /\ LET e == IF Type(r) = TYPE_BYTES THEN Num(v.n) ELSE v
                                    IN IF e \in Range(items)
                                       THEN Where(r, v) = SelectInSeq(items, LAMBDA x : x = e) - 1
                                       ELSE Where(r, v) = -1
  BY Zenon DEF ReadsAgree
<1>1. CASE Type(r) = TYPE_MAP
  <2>1. r \in OfType({TYPE_MAP})
    BY <1>1 DEF OfType
  <2> QED BY <1>1, <2>1, EntriesAgree
<1>2. CASE Type(r) # TYPE_MAP
  <2> DEFINE s == Contents(r).items
             n == Len(s)
  <2>1. r \in OfType(Listed)
    <3>1. Type(r) \in {TYPE_ARRAY, TYPE_BYTES, TYPE_MAP}
      BY DEF Inv, Good, AllSound, SoundIn, Type
    <3> QED BY <1>2, <3>1 DEF OfType, Listed
  <2>2. ItemsOf(r, Length(r), s)
    BY <2>1, ItemsAre
  <2>3. n = Length(r) /\ n \in Nat
    BY <2>2 DEF ItemsOf
  <2>4. /\ \A i \in 1 .. n : ItemAt(r, i - 1) = s[i] /\ ItemAt(r, i - 1 - n) = s[i]
        /\ {ItemAt(r, n), ItemAt(r, -1 - n)} = {Refused}
    <3> HIDE DEF s, n
    <3> QED BY <2>2, <2>3, PositionsAgree
  <2> QED BY <1>2, <2>1, <2>4, SearchesAgree
<1> QED BY <1>1, <1>2
-----------------------------------------------------------------------------
(* What is read off the heap, of a memory m, references R and loops L.     *)

KindIn(m, r) ==
  IF m[r].n = TYPE_ARRAY THEN "array" ELSE IF m[r].n = TYPE_BYTES THEN "bytes" ELSE "map"
ByteIn(m, r, i) == m[r + 2 + i \div PerCell].b[i % PerCell]
ItemIn(m, r, i) == IF m[r].n = TYPE_BYTES THEN Num(ByteIn(m, r, i)) ELSE m[r + 2 + i]
EntryIn(m, r, i) == [key |-> m[m[r + 3].n + i * 2], val |-> m[m[r + 3].n + i * 2 + 1]]
ItemsIn(m, r) ==
  IF m[r].n = TYPE_MAP THEN [i \in 1 .. m[r + 2].n |-> EntryIn(m, r, i - 1)]
  ELSE [i \in 1 .. m[r + 1].n |-> ItemIn(m, r, i - 1)]
ContentsIn(m, r) == [kind |-> KindIn(m, r), items |-> ItemsIn(m, r)]
CollsOf(m, R) == [i \in DOMAIN R |-> ContentsIn(m, R[i])]

PlaceIn(R, r) == CHOOSE i \in DOMAIN R : R[i] = r
OutIn(m, l) == IF l.by = "for" THEN <<>> ELSE SubSeq(m, l.res + 2, l.res + 2 + l.kept - 1)
LoopIn(m, R, l) ==
  [by |-> l.by, of |-> PlaceIn(R, l.arr),
   pos |-> IF l.body THEN l.idx + 1 ELSE l.idx, body |-> l.body, len |-> l.len,
   given |-> l.val, out |-> OutIn(m, l)]
LoopsOf(m, R, L) == [i \in DOMAIN L |-> LoopIn(m, R, L[i])]

(* The items of arrays are values, those that natives still read and have  *)
(* kept also; what a native reads is no other object's.                    *)
ValuesAt(m, a, n) == \A c \in a .. a + n - 1 : m[c] \in Value
ReadsOf(l) == l.arr .. l.arr + 1 + l.len

Feeds(m, R, L, l) ==
  /\ m[l.arr].n = TYPE_ARRAY
  /\ ValuesAt(m, l.arr + 2, l.len) /\ ValuesAt(m, l.res + 2, l.kept)
  /\ l.body => l.val[1] \in Value
  /\ \A r \in Range(R) : r # l.arr => ReadsOf(l) \cap ExtentIn(m, r) = {}
  /\ \A j \in NativesOf(L) : ReadsOf(l) \cap Results(L[j]) = {}

Valued(m, R, L) ==
  /\ \A r \in Range(R) : m[r].n = TYPE_ARRAY => ValuesAt(m, r + 2, m[r + 1].n)
  /\ \A i \in NativesOf(L) : Feeds(m, R, L, L[i])

Mapped == Valued(mem, refs, loops) /\ colls = CollsOf(mem, refs)
-----------------------------------------------------------------------------
LEMMA TypesDiffer == TYPE_ARRAY # TYPE_BYTES /\ TYPE_ARRAY # TYPE_MAP /\ TYPE_BYTES # TYPE_MAP
  BY DEF TYPE_ARRAY, TYPE_BYTES, TYPE_MAP

(* What is read of an object is its contents.                              *)
Reading == \A r \in Range(refs) : Contents(r) = ContentsIn(mem, r)

LEMMA InvReading == Inv => Reading
<1> SUFFICES ASSUME Inv, NEW r \in Range(refs) PROVE Contents(r) = ContentsIn(mem, r)
  BY DEF Reading
<1>1. SoundIn(mem, r) /\ mem \in Seq(Cell) /\ mem[r].n \in {TYPE_ARRAY, TYPE_BYTES, TYPE_MAP}
  BY DEF Inv, Good, AllSound, Cellular, SoundIn
<1>2. Type(r) = mem[r].n
  BY DEF Type
<1>3. CASE mem[r].n \in Listed
  <2> DEFINE s == Contents(r).items
             n == mem[r + 1].n
  <2>1. r \in OfType(Listed) /\ Length(r) = n
    BY <1>3 DEF OfType, Type, Length
  <2>2. ItemsOf(r, n, s)
    BY <2>1, ItemsAre
  <2>3. \A i \in 1 .. n : Item(r, i - 1) = ItemIn(mem, r, i - 1)
    BY DEF Item, ItemIn, ByteAt, ByteIn, Type
  <2>4. s = [i \in 1 .. n |-> s[i]]
    <3>1. CASE mem[r].n = TYPE_ARRAY
      <4>1. ListAt(r, n)
        BY <2>1, ListIsAt
      <4>2. s = ItemsAt(r)
        BY <3>1, <1>2, TypesDiffer DEF Contents
      <4>3. s \in Seq(Cell) /\ Len(s) = n
        BY <3>1, <1>2, <4>1, <4>2, ItemsAtIs
      <4> HIDE DEF s, n
      <4> QED BY <4>3
    <3>2. CASE mem[r].n = TYPE_BYTES
      <4>1. s = [i \in 1 .. n |-> Num(ByteAt(r, i - 1))]
        BY <3>2, <1>2, <2>1, TypesDiffer DEF Contents
      <4> HIDE DEF s, n
      <4> QED BY <4>1
    <3> QED BY <1>3, <3>1, <3>2 DEF Listed
  <2>5. Contents(r) = [kind |-> KindIn(mem, r), items |-> s]
    <3>1. CASE mem[r].n = TYPE_ARRAY
      BY <3>1, <1>2, TypesDiffer DEF Contents, KindIn
    <3>2. CASE mem[r].n = TYPE_BYTES
      BY <3>2, <1>2, TypesDiffer DEF Contents, KindIn
    <3> QED BY <1>3, <3>1, <3>2 DEF Listed
  <2>6. mem[r].n # TYPE_MAP
    BY <1>3, TypesDiffer DEF Listed
  <2> HIDE DEF s, n
  <2>7. s = [i \in 1 .. n |-> ItemIn(mem, r, i - 1)]
    BY <2>2, <2>3, <2>4 DEF ItemsOf
  <2>8. ItemsIn(mem, r) = s
    BY <2>6, <2>7 DEF ItemsIn, n
  <2> QED BY <2>5, <2>8 DEF ContentsIn
<1>4. CASE mem[r].n = TYPE_MAP
  <2> DEFINE n == mem[r + 2].n
             d == mem[r + 3].n
  <2>1. Contents(r) = [kind |-> "map", items |-> EntriesOf(r)] /\ KindIn(mem, r) = "map"
    BY <1>2, <1>4, TypesDiffer DEF Contents, KindIn
  <2>2. n \in Nat /\ d \in Nat
    BY <1>1, <1>4 DEF SoundIn
  <2>3. EntriesOf(r) = [i \in 1 .. n |-> [key |-> mem[d + i * 2 - 2], val |-> mem[d + i * 2 - 1]]]
    BY DEF EntriesOf, Count, Data
  <2>4. ItemsIn(mem, r) = [i \in 1 .. n |-> [key |-> mem[d + (i - 1) * 2], val |-> mem[d + (i - 1) * 2 + 1]]]
    BY <1>4 DEF ItemsIn, EntryIn
  <2> HIDE DEF n, d
  <2>5. \A i \in 1 .. n : d + (i - 1) * 2 = d + i * 2 - 2 /\ d + (i - 1) * 2 + 1 = d + i * 2 - 1
    BY <2>2
  <2>6. EntriesOf(r) = ItemsIn(mem, r)
    BY <2>3, <2>4, <2>5
  <2> QED BY <2>1, <2>6 DEF ContentsIn
<1> QED BY <1>1, <1>3, <1>4 DEF Listed

(* The collections are what is read off the heap.                          *)
Seen == [i \in DOMAIN refs |-> Contents(refs[i])] = CollsOf(mem, refs)

LEMMA InvSeen == Inv => Seen
<1> SUFFICES ASSUME Inv PROVE Seen
  OBVIOUS
<1>1. \A i \in DOMAIN refs : refs[i] \in Range(refs)
  BY DEF Range
<1> QED BY <1>1, InvReading DEF Reading, Seen, CollsOf

(* The place of a reference.                                               *)
LEMMA PlaceIs ==
  ASSUME NEW R, IsInjective(R)
  PROVE  /\ \A r \in Range(R) : PlaceIn(R, r) \in DOMAIN R /\ R[PlaceIn(R, r)] = r
         /\ \A i \in DOMAIN R : PlaceIn(R, R[i]) = i
<1>1. \A r \in Range(R) : \E i \in DOMAIN R : R[i] = r
  BY DEF Range
<1>2. \A r \in Range(R) : PlaceIn(R, r) \in DOMAIN R /\ R[PlaceIn(R, r)] = r
  BY <1>1 DEF PlaceIn
<1>3. ASSUME NEW i \in DOMAIN R PROVE PlaceIn(R, R[i]) = i
  BY <1>2 DEF IsInjective, Range
<1> QED BY <1>2, <1>3

(* An object whose cells are the same is read the same.                    *)
LEMMA SameRead ==
  ASSUME NEW m, NEW w, NEW r, SoundIn(m, r), \A c \in ExtentIn(m, r) : w[c] = m[c]
  PROVE  ContentsIn(w, r) = ContentsIn(m, r)
<1>1. r \in Nat \ {0} /\ m[r].n \in {TYPE_ARRAY, TYPE_BYTES, TYPE_MAP}
  BY DEF SoundIn
<1>2. w[r] = m[r] /\ w[r + 1] = m[r + 1]
  BY OwnHeader
<1>3. CASE m[r].n = TYPE_MAP
  <2> DEFINE n == m[r + 2].n
             d == m[r + 3].n
             cap == m[r + 1].n
  <2>1. w[r + 2] = m[r + 2] /\ w[r + 3] = m[r + 3]
    BY <1>3, OwnHeader
  <2>2. n \in Nat /\ d \in Nat /\ cap \in Nat /\ n <= cap
    BY <1>3 DEF SoundIn
  <2>3. d .. d + cap * 2 - 1 \subseteq ExtentIn(m, r)
    BY <1>3 DEF ExtentIn
  <2>4. /\ ItemsIn(m, r) = [i \in 1 .. n |-> [key |-> m[d + (i - 1) * 2], val |-> m[d + (i - 1) * 2 + 1]]]
        /\ ItemsIn(w, r) = [i \in 1 .. n |-> [key |-> w[d + (i - 1) * 2], val |-> w[d + (i - 1) * 2 + 1]]]
    BY <1>2, <1>3, <2>1 DEF ItemsIn, EntryIn
  <2> HIDE DEF n, d, cap
  <2>5. \A i \in 1 .. n : d + (i - 1) * 2 \in d .. d + cap * 2 - 1 /\ d + (i - 1) * 2 + 1 \in d .. d + cap * 2 - 1
    BY <2>2
  <2>6. \A i \in 1 .. n : w[d + (i - 1) * 2] = m[d + (i - 1) * 2] /\ w[d + (i - 1) * 2 + 1] = m[d + (i - 1) * 2 + 1]
    BY <2>3, <2>5
  <2>7. ItemsIn(w, r) = ItemsIn(m, r)
    BY <2>4, <2>6
  <2> QED BY <1>2, <2>7 DEF ContentsIn, KindIn
<1>4. CASE m[r].n \in Listed
  <2> DEFINE n == m[r + 1].n
  <2>1. n \in Nat /\ m[r].n # TYPE_MAP
    BY <1>4, TypesDiffer DEF SoundIn, Listed
  <2>2. \A i \in 1 .. n : ItemIn(w, r, i - 1) = ItemIn(m, r, i - 1)
    <3>1. CASE m[r].n = TYPE_ARRAY
      <4>1. ExtentIn(m, r) = r .. r + 1 + n
        BY <3>1, TypesDiffer DEF ExtentIn
      <4> HIDE DEF n
      <4>2. \A i \in 1 .. n : r + 2 + (i - 1) \in r .. r + 1 + n
        BY <1>1, <2>1
      <4>3. \A i \in 1 .. n : w[r + 2 + (i - 1)] = m[r + 2 + (i - 1)]
        BY <4>1, <4>2
      <4> QED BY <1>2, <3>1, <4>3, TypesDiffer DEF ItemIn
    <3>2. CASE m[r].n = TYPE_BYTES
      <4> DEFINE k == Cells(n)
      <4>1. ExtentIn(m, r) = r .. r + 1 + k
        BY <3>2, TypesDiffer DEF ExtentIn
      <4>2. k \in Nat /\ \A i \in 0 .. n - 1 : i \div PerCell \in Nat /\ i \div PerCell < k
        BY <2>1, CellCount
      <4> HIDE DEF n, k
      <4>3. ASSUME NEW i \in 1 .. n PROVE ItemIn(w, r, i - 1) = ItemIn(m, r, i - 1)
        <5> DEFINE e == (i - 1) \div PerCell
                   c == r + 2 + e
        <5>1. i - 1 \in 0 .. n - 1
          BY <2>1
        <5>2. e \in Nat /\ e < k
          BY <4>2, <5>1
        <5>3. ItemIn(w, r, i - 1) = Num(w[c].b[(i - 1) % PerCell]) /\ ItemIn(m, r, i - 1) = Num(m[c].b[(i - 1) % PerCell])
          BY <1>2, <3>2 DEF ItemIn, ByteIn
        <5> HIDE DEF e
        <5>4. c \in r .. r + 1 + k
          BY <1>1, <4>2, <5>2
        <5> HIDE DEF c
        <5>5. w[c] = m[c]
          BY <4>1, <5>4
        <5> QED BY <5>3, <5>5
      <4> QED BY <4>3
    <3> QED BY <1>4, <3>1, <3>2 DEF Listed
  <2>3. /\ ItemsIn(w, r) = [i \in 1 .. n |-> ItemIn(w, r, i - 1)]
        /\ ItemsIn(m, r) = [i \in 1 .. n |-> ItemIn(m, r, i - 1)]
    BY <1>2, <2>1 DEF ItemsIn
  <2> HIDE DEF n
  <2>4. ItemsIn(w, r) = ItemsIn(m, r)
    BY <2>2, <2>3
  <2> QED BY <1>2, <2>4 DEF ContentsIn, KindIn
<1> QED BY <1>1, <1>3, <1>4 DEF Listed

(* What a native has kept is read the same if its cells are.               *)
LEMMA SameOut ==
  ASSUME NEW m \in Seq(Cell), NEW w \in Seq(Cell), NEW l \in LoopType,
         l.by # "for" => FillsIn(m, l) /\ l.res + 1 + l.len <= Len(w),
         l.by # "for" => \A c \in l.res + 2 .. l.res + 1 + l.kept : w[c] = m[c]
  PROVE  OutIn(w, l) = OutIn(m, l)
<1>1. CASE l.by = "for"
  BY <1>1 DEF OutIn
<1>2. CASE l.by # "for"
  <2> DEFINE a == l.res
             k == l.kept
             top == a + 2 + k - 1
  <2>1. a \in Nat /\ k \in Nat /\ l.len \in Nat /\ l.idx \in Nat
    BY DEF LoopType
  <2>2. k <= l.len
    BY <1>2, <2>1 DEF FillsIn
  <2>3. a + 1 + k <= Len(m) /\ a + 1 + k <= Len(w) /\ Len(m) \in Nat /\ Len(w) \in Nat
    <3>1. a + 1 + l.len <= Len(m) /\ a + 1 + l.len <= Len(w) /\ Len(m) \in Nat /\ Len(w) \in Nat
      BY <1>2 DEF FillsIn
    <3> HIDE DEF a, k
    <3> QED BY <2>1, <2>2, <3>1
  <2>4. OutIn(w, l) = SubSeq(w, a + 2, top) /\ OutIn(m, l) = SubSeq(m, a + 2, top)
    BY <1>2 DEF OutIn
  <2>5. \A c \in a + 2 .. a + 1 + k : w[c] = m[c]
    BY <1>2
  <2> HIDE DEF a, k
  <2>6. top = a + 1 + k
    BY <2>1
  <2> HIDE DEF top
  <2>7. SubSeq(w, a + 2, top) = [i \in 1 .. k |-> w[i + a + 1]] /\ SubSeq(m, a + 2, top) = [i \in 1 .. k |-> m[i + a + 1]]
    BY <2>1, <2>3, <2>6
  <2>8. \A i \in 1 .. k : i + a + 1 \in a + 2 .. a + 1 + k
    BY <2>1
  <2> QED BY <2>4, <2>5, <2>7, <2>8
<1> QED BY <1>1, <1>2
-----------------------------------------------------------------------------
(* What is read stays the same when only other cells are written.          *)
Unwritten(m, w, R, L) ==
  /\ \A r \in Range(R) : \A c \in ExtentIn(m, r) : w[c] = m[c]
  /\ \A i \in NativesOf(L) :
       /\ \A c \in ReadsOf(L[i]) : w[c] = m[c]
       /\ \A c \in L[i].res + 2 .. L[i].res + 1 + L[i].kept : w[c] = m[c]

LEMMA GoodParts ==
  ASSUME NEW m, NEW R, NEW L, Good(m, R, L)
  PROVE  /\ m \in Seq(Cell) /\ R \in Seq(Nat) /\ IsInjective(R) /\ L \in Seq(LoopType)
         /\ \A r \in Range(R) : SoundIn(m, r) /\ ExtentIn(m, r) \subseteq DOMAIN m
         /\ \A i \in DOMAIN L : L[i] \in LoopType /\ L[i].arr \in Range(R)
         /\ \A i \in NativesOf(L) : i \in DOMAIN L /\ L[i].by # "for" /\ FillsIn(m, L[i])
         /\ \A i \in DOMAIN R : R[i] \in Range(R)
<1>1. Cellular(m) /\ Listing(R, L) /\ AllSound(m, R) /\ AllFill(m, L)
  BY DEF Good
<1>2. \A r \in Range(R) : SoundIn(m, r) /\ ExtentIn(m, r) \subseteq DOMAIN m
  BY <1>1 DEF AllSound, SoundIn
<1>3. m \in Seq(Cell) /\ R \in Seq(Nat) /\ IsInjective(R) /\ L \in Seq(LoopType)
  BY <1>1 DEF Cellular, Listing
<1>4. \A i \in DOMAIN L : L[i] \in LoopType /\ L[i].arr \in Range(R)
  BY <1>1, <1>3 DEF Listing
<1>5. \A i \in NativesOf(L) : i \in DOMAIN L /\ L[i].by # "for" /\ FillsIn(m, L[i])
  BY <1>1 DEF NativesOf, AllFill
<1>6. \A i \in DOMAIN R : R[i] \in Range(R)
  BY DEF Range
<1> QED BY <1>2, <1>3, <1>4, <1>5, <1>6

LEMMA SameColls ==
  ASSUME NEW m, NEW w, NEW R, NEW L, Good(m, R, L), Unwritten(m, w, R, L)
  PROVE  CollsOf(w, R) = CollsOf(m, R)
<1>1. ASSUME NEW i \in DOMAIN R PROVE ContentsIn(w, R[i]) = ContentsIn(m, R[i])
  <2>1. R[i] \in Range(R) /\ SoundIn(m, R[i])
    BY GoodParts
  <2>2. \A c \in ExtentIn(m, R[i]) : w[c] = m[c]
    BY <2>1 DEF Unwritten
  <2> QED BY <2>1, <2>2, SameRead
<1> QED BY <1>1 DEF CollsOf

LEMMA SameLoopsRead ==
  ASSUME NEW m, NEW w, NEW R, NEW L, Good(m, R, L), Good(w, R, L), Unwritten(m, w, R, L)
  PROVE  LoopsOf(w, R, L) = LoopsOf(m, R, L)
<1>1. ASSUME NEW i \in DOMAIN L PROVE LoopIn(w, R, L[i]) = LoopIn(m, R, L[i])
  <2> DEFINE l == L[i]
  <2>1. l \in LoopType /\ m \in Seq(Cell) /\ w \in Seq(Cell)
    BY GoodParts
  <2>2. l.by # "for" => i \in NativesOf(L)
    BY DEF NativesOf
  <2>3. l.by # "for" => FillsIn(m, l) /\ FillsIn(w, l)
    BY <2>2, GoodParts
  <2>4. l.by # "for" => l.res + 1 + l.len <= Len(w)
    BY <2>3 DEF FillsIn
  <2>5. l.by # "for" => \A c \in l.res + 2 .. l.res + 1 + l.kept : w[c] = m[c]
    BY <2>2 DEF Unwritten
  <2> HIDE DEF l
  <2>6. OutIn(w, l) = OutIn(m, l)
    BY <2>1, <2>3, <2>4, <2>5, SameOut
  <2>7. LoopIn(w, R, l) = LoopIn(m, R, l)
    BY <2>6 DEF LoopIn
  <2> QED BY <2>7 DEF l
<1> QED BY <1>1 DEF LoopsOf

LEMMA StaysValued ==
  ASSUME NEW m, NEW w, NEW R, NEW L, Good(m, R, L), Valued(m, R, L), Unwritten(m, w, R, L),
         \A r \in Range(R) : ExtentIn(w, r) = ExtentIn(m, r)
  PROVE  Valued(w, R, L)
<1>1. ASSUME NEW r \in Range(R), w[r].n = TYPE_ARRAY PROVE ValuesAt(w, r + 2, w[r + 1].n)
  <2>1. SoundIn(m, r) /\ \A c \in ExtentIn(m, r) : w[c] = m[c]
    BY GoodParts DEF Unwritten
  <2>2. w[r] = m[r] /\ w[r + 1] = m[r + 1]
    BY <2>1, OwnHeader
  <2>3. ValuesAt(m, r + 2, m[r + 1].n)
    BY <1>1, <2>2 DEF Valued
  <2> DEFINE n == m[r + 1].n
  <2>4. n \in Nat /\ r \in Nat
    BY <1>1, <2>1, <2>2 DEF SoundIn, Listed
  <2>5. ExtentIn(m, r) = r .. r + 1 + n
    BY <1>1, <2>2, TypesDiffer DEF ExtentIn
  <2> HIDE DEF n
  <2>6. r + 2 .. r + 2 + n - 1 \subseteq r .. r + 1 + n
    BY <2>4
  <2>7. \A c \in r + 2 .. r + 2 + n - 1 : w[c] = m[c]
    BY <2>1, <2>5, <2>6
  <2>8. ValuesAt(w, r + 2, n)
    BY <2>3, <2>7 DEF ValuesAt, n
  <2> QED BY <2>2, <2>8 DEF n
<1>2. ASSUME NEW i \in NativesOf(L) PROVE Feeds(w, R, L, L[i])
  <2> DEFINE l == L[i]
  <2>1. /\ m[l.arr].n = TYPE_ARRAY
        /\ ValuesAt(m, l.arr + 2, l.len) /\ ValuesAt(m, l.res + 2, l.kept)
        /\ l.body => l.val[1] \in Value
        /\ \A r \in Range(R) : r # l.arr => ReadsOf(l) \cap ExtentIn(m, r) = {}
        /\ \A j \in NativesOf(L) : ReadsOf(l) \cap Results(L[j]) = {}
    BY DEF Valued, Feeds
  <2>2. l \in LoopType /\ l.arr \in Range(R)
    BY GoodParts
  <2>3. l.arr \in Nat /\ l.len \in Nat /\ l.res \in Nat /\ l.kept \in Nat
    BY <2>2 DEF LoopType
  <2>4. /\ \A c \in l.arr .. l.arr + 1 + l.len : w[c] = m[c]
        /\ \A c \in l.res + 2 .. l.res + 1 + l.kept : w[c] = m[c]
    BY DEF Unwritten, ReadsOf
  <2> HIDE DEF l
  <2>5. w[l.arr].n = TYPE_ARRAY
    BY <2>1, <2>3, <2>4
  <2>6. \A c \in l.arr + 2 .. l.arr + 2 + l.len - 1 : w[c] = m[c]
    BY <2>3, <2>4
  <2>7. \A c \in l.res + 2 .. l.res + 2 + l.kept - 1 : w[c] = m[c]
    BY <2>3, <2>4
  <2>8. ValuesAt(w, l.arr + 2, l.len) /\ ValuesAt(w, l.res + 2, l.kept)
    BY <2>1, <2>6, <2>7 DEF ValuesAt
  <2>9. Feeds(w, R, L, l)
    BY <2>1, <2>5, <2>8 DEF Feeds
  <2> QED BY <2>9 DEF l
<1> QED BY <1>1, <1>2 DEF Valued
-----------------------------------------------------------------------------
(* A reference more, behind the others.                                    *)
LEMMA MoreRefs ==
  ASSUME NEW R \in Seq(Nat), NEW r \in Nat, IsInjective(Append(R, r)), IsInjective(R)
  PROVE  /\ DOMAIN Append(R, r) = 1 .. Len(R) + 1 /\ DOMAIN R = 1 .. Len(R)
         /\ \A i \in DOMAIN R : Append(R, r)[i] = R[i]
         /\ Append(R, r)[Len(R) + 1] = r
         /\ Range(Append(R, r)) = Range(R) \cup {r} /\ r \notin Range(R)
         /\ \A q \in Range(R) : PlaceIn(Append(R, r), q) = PlaceIn(R, q)
<1>1. /\ DOMAIN Append(R, r) = 1 .. Len(R) + 1 /\ DOMAIN R = 1 .. Len(R) /\ Len(R) \in Nat
      /\ \A i \in 1 .. Len(R) : Append(R, r)[i] = R[i]
      /\ Append(R, r)[Len(R) + 1] = r
  BY Appended
<1>2. Range(Append(R, r)) = Range(R) \cup {r}
  BY Ranges
<1> DEFINE S == Append(R, r)
<1> HIDE DEF S
<1>3. r \notin Range(R)
  <2> SUFFICES ASSUME NEW i \in DOMAIN R, R[i] = r PROVE FALSE
    BY DEF Range
  <2>1. i \in 1 .. Len(R) /\ i \in DOMAIN S /\ Len(R) + 1 \in DOMAIN S /\ S[i] = S[Len(R) + 1] /\ i # Len(R) + 1
    BY <1>1 DEF S
  <2>2. IsInjective(S)
    BY DEF S
  <2> QED BY <2>1, <2>2 DEF IsInjective
<1>4. ASSUME NEW q \in Range(R) PROVE PlaceIn(S, q) = PlaceIn(R, q)
  <2> DEFINE i == PlaceIn(R, q)
  <2>1. i \in DOMAIN R /\ R[i] = q
    BY PlaceIs
  <2> HIDE DEF i
  <2>2. i \in DOMAIN S /\ S[i] = q
    BY <1>1, <2>1 DEF S
  <2>3. IsInjective(S)
    BY DEF S
  <2>4. \A j \in DOMAIN S : PlaceIn(S, S[j]) = j
    BY <2>3, PlaceIs
  <2>5. PlaceIn(S, q) = i
    BY <2>2, <2>4
  <2> QED BY <2>5 DEF i
<1> QED BY <1>1, <1>2, <1>3, <1>4 DEF S

(* The object r is of no native, and if it is an array holds values.       *)
Fresh(m, L, r) ==
  /\ m[r].n = TYPE_ARRAY => ValuesAt(m, r + 2, m[r + 1].n)
  /\ \A i \in NativesOf(L) : ReadsOf(L[i]) \cap ExtentIn(m, r) = {}

LEMMA RefAdded ==
  ASSUME NEW m, NEW R, NEW L, NEW r \in Nat, Good(m, R, L), Good(m, Append(R, r), L),
         Valued(m, R, L), Fresh(m, L, r)
  PROVE  /\ Valued(m, Append(R, r), L)
         /\ LoopsOf(m, Append(R, r), L) = LoopsOf(m, R, L)
         /\ CollsOf(m, Append(R, r)) = Append(CollsOf(m, R), ContentsIn(m, r))
<1> DEFINE S == Append(R, r)
<1>0. R \in Seq(Nat) /\ Len(R) \in Nat /\ IsInjective(R) /\ IsInjective(S) /\ \A i \in DOMAIN L : L[i].arr \in Range(R)
  BY GoodParts
<1>1. /\ DOMAIN S = 1 .. Len(R) + 1 /\ DOMAIN R = 1 .. Len(R)
      /\ \A i \in DOMAIN R : S[i] = R[i]
      /\ S[Len(R) + 1] = r
      /\ Range(S) = Range(R) \cup {r} /\ r \notin Range(R)
      /\ \A q \in Range(R) : PlaceIn(S, q) = PlaceIn(R, q)
  BY <1>0, MoreRefs
<1> HIDE DEF S
<1>2. LoopsOf(m, S, L) = LoopsOf(m, R, L)
  <2>1. \A i \in DOMAIN L : LoopIn(m, S, L[i]) = LoopIn(m, R, L[i])
    BY <1>0, <1>1 DEF LoopIn
  <2> QED BY <2>1 DEF LoopsOf
<1>3. CollsOf(m, S) = Append(CollsOf(m, R), ContentsIn(m, r))
  <2> DEFINE C == CollsOf(m, R)
             T == {ContentsIn(m, q) : q \in Nat}
             D == Append(C, ContentsIn(m, r))
  <2>1. C = [i \in 1 .. Len(R) |-> ContentsIn(m, R[i])]
    BY <1>1 DEF CollsOf
  <2>2. CollsOf(m, S) = [i \in 1 .. Len(R) + 1 |-> ContentsIn(m, S[i])]
    BY <1>1 DEF CollsOf
  <2>3. \A i \in 1 .. Len(R) : R[i] \in Nat
    BY <1>0, <1>1
  <2>4. C \in [1 .. Len(R) -> T] /\ ContentsIn(m, r) \in T
    BY <2>1, <2>3
  <2> HIDE DEF C, T
  <2>5. C \in Seq(T) /\ Len(C) = Len(R)
    BY <1>0, <2>4, FunctionIsSeq
  <2>6. /\ D \in Seq(T) /\ Len(D) = Len(R) + 1
        /\ \A i \in 1 .. Len(R) : D[i] = C[i]
        /\ D[Len(R) + 1] = ContentsIn(m, r)
    BY <2>4, <2>5, Appended
  <2> HIDE DEF D
  <2>7. \A i \in 1 .. Len(R) + 1 : D[i] = ContentsIn(m, S[i])
    <3>1. \A i \in 1 .. Len(R) : D[i] = ContentsIn(m, S[i])
      BY <1>1, <2>1, <2>6
    <3>2. D[Len(R) + 1] = ContentsIn(m, S[Len(R) + 1])
      BY <1>1, <2>6
    <3>3. \A i \in 1 .. Len(R) + 1 : i \in 1 .. Len(R) \/ i = Len(R) + 1
      BY <1>0
    <3> QED BY <3>1, <3>2, <3>3
  <2>8. D = [i \in 1 .. Len(R) + 1 |-> D[i]]
    BY <2>6
  <2>9. CollsOf(m, S) = D
    BY <2>2, <2>7, <2>8
  <2> QED BY <2>9 DEF D, C
<1>4. Valued(m, S, L)
  <2>1. \A q \in Range(S) : m[q].n = TYPE_ARRAY => ValuesAt(m, q + 2, m[q + 1].n)
    BY <1>1 DEF Valued, Fresh
  <2>2. ASSUME NEW i \in NativesOf(L) PROVE Feeds(m, S, L, L[i])
    <3>1. Feeds(m, R, L, L[i]) /\ ReadsOf(L[i]) \cap ExtentIn(m, r) = {}
      BY DEF Valued, Fresh
    <3> QED BY <1>1, <3>1 DEF Feeds
  <2> QED BY <2>1, <2>2 DEF Valued
<1> QED BY <1>2, <1>3, <1>4 DEF S
-----------------------------------------------------------------------------
(* Loops are read one by one.                                              *)
ReadLoops(m, R) == {LoopIn(m, R, l) : l \in LoopType}

LEMMA LoopsAreRead ==
  ASSUME NEW m, NEW R, NEW L \in Seq(LoopType)
  PROVE  /\ LoopsOf(m, R, L) \in Seq(ReadLoops(m, R)) /\ Len(LoopsOf(m, R, L)) = Len(L)
         /\ \A i \in 1 .. Len(L) : LoopsOf(m, R, L)[i] = LoopIn(m, R, L[i])
<1>1. DOMAIN L = 1 .. Len(L) /\ Len(L) \in Nat /\ \A i \in 1 .. Len(L) : L[i] \in LoopType
  OBVIOUS
<1> DEFINE C == LoopsOf(m, R, L)
           T == ReadLoops(m, R)
<1>2. C = [i \in 1 .. Len(L) |-> LoopIn(m, R, L[i])]
  BY <1>1 DEF LoopsOf
<1>3. C \in [1 .. Len(L) -> T]
  BY <1>1, <1>2 DEF ReadLoops
<1> HIDE DEF C, T
<1>4. C \in Seq(T) /\ Len(C) = Len(L)
  BY <1>1, <1>3, FunctionIsSeq
<1> QED BY <1>2, <1>4 DEF C, T

LEMMA SameSeq ==
  ASSUME NEW S, NEW s \in Seq(S), NEW t \in Seq(S), Len(s) = Len(t),
         \A i \in 1 .. Len(s) : s[i] = t[i]
  PROVE  s = t
<1>1. s = [i \in 1 .. Len(s) |-> s[i]] /\ t = [i \in 1 .. Len(s) |-> t[i]]
  OBVIOUS
<1> QED BY <1>1

LEMMA ReadAppend ==
  ASSUME NEW m, NEW R, NEW L \in Seq(LoopType), NEW l \in LoopType
  PROVE  LoopsOf(m, R, Append(L, l)) = Append(LoopsOf(m, R, L), LoopIn(m, R, l))
<1> DEFINE S == Append(L, l)
           C == LoopsOf(m, R, L)
           T == ReadLoops(m, R)
           e == LoopIn(m, R, l)
           D == Append(C, e)
           B == LoopsOf(m, R, S)
<1>1. S \in Seq(LoopType) /\ Len(S) = Len(L) + 1 /\ (\A i \in 1 .. Len(L) : S[i] = L[i]) /\ S[Len(L) + 1] = l
  BY Appended
<1> HIDE DEF S
<1>2. B \in Seq(T) /\ Len(B) = Len(L) + 1 /\ \A i \in 1 .. Len(L) + 1 : B[i] = LoopIn(m, R, S[i])
  BY <1>1, LoopsAreRead
<1>3. C \in Seq(T) /\ Len(C) = Len(L) /\ \A i \in 1 .. Len(L) : C[i] = LoopIn(m, R, L[i])
  BY LoopsAreRead
<1>4. e \in T
  BY DEF ReadLoops
<1>5. Len(L) \in Nat
  OBVIOUS
<1> HIDE DEF B, C, T
<1>6. D \in Seq(T) /\ Len(D) = Len(L) + 1 /\ (\A i \in 1 .. Len(L) : D[i] = C[i]) /\ D[Len(L) + 1] = e
  BY <1>3, <1>4, Appended
<1> HIDE DEF D
<1>7. \A i \in 1 .. Len(L) + 1 : B[i] = D[i]
  <2>0. \A i \in 1 .. Len(L) : i \in 1 .. Len(L) + 1
    BY <1>5
  <2>1. \A i \in 1 .. Len(L) : B[i] = D[i]
    BY <1>1, <1>2, <1>3, <1>6, <2>0, Zenon
  <2>2. B[Len(L) + 1] = D[Len(L) + 1]
    BY <1>1, <1>2, <1>5, <1>6
  <2>3. \A i \in 1 .. Len(L) + 1 : i \in 1 .. Len(L) \/ i = Len(L) + 1
    BY <1>5
  <2> QED BY <2>1, <2>2, <2>3
<1>8. B = D
  BY <1>2, <1>6, <1>7, SameSeq
<1> QED BY <1>8 DEF B, C, D, S

LEMMA ReadFront ==
  ASSUME NEW m, NEW R, NEW L \in Seq(LoopType), L # <<>>
  PROVE  /\ LoopsOf(m, R, Front(L)) = Front(LoopsOf(m, R, L))
         /\ LoopsOf(m, R, L) # <<>> /\ Last(LoopsOf(m, R, L)) = LoopIn(m, R, Last(L))
<1> DEFINE S == Front(L)
           C == LoopsOf(m, R, L)
           T == ReadLoops(m, R)
           D == Front(C)
           B == LoopsOf(m, R, S)
<1>1. /\ Len(L) \in Nat /\ Len(L) >= 1 /\ S \in Seq(LoopType) /\ Len(S) = Len(L) - 1
      /\ (\A i \in 1 .. Len(L) - 1 : S[i] = L[i]) /\ Last(L) = L[Len(L)]
  BY Fronts
<1> HIDE DEF S
<1>2. B \in Seq(T) /\ Len(B) = Len(L) - 1 /\ \A i \in 1 .. Len(L) - 1 : B[i] = LoopIn(m, R, S[i])
  BY <1>1, LoopsAreRead
<1>3. C \in Seq(T) /\ Len(C) = Len(L) /\ \A i \in 1 .. Len(L) : C[i] = LoopIn(m, R, L[i])
  BY LoopsAreRead
<1> HIDE DEF B, C, T
<1>4. C # <<>>
  BY <1>1, <1>3
<1>5. /\ D \in Seq(T) /\ Len(D) = Len(L) - 1 /\ (\A i \in 1 .. Len(L) - 1 : D[i] = C[i])
      /\ Last(C) = C[Len(L)]
  BY <1>3, <1>4, Fronts
<1> HIDE DEF D
<1>6. \A i \in 1 .. Len(L) - 1 : B[i] = D[i]
  BY <1>1, <1>2, <1>3, <1>5
<1>7. B = D
  BY <1>2, <1>5, <1>6, SameSeq
<1>8. Last(C) = LoopIn(m, R, Last(L))
  BY <1>1, <1>3, <1>5
<1> QED BY <1>4, <1>7, <1>8 DEF B, C, D, S
-----------------------------------------------------------------------------
(* A loop begins.                                                          *)
LEMMA LoopAdded ==
  ASSUME NEW m, NEW R, NEW L, NEW l \in LoopType, Good(m, R, L), Valued(m, R, L),
         l.by # "for" => /\ Feeds(m, R, Append(L, l), l)
                         /\ \A i \in NativesOf(L) : ReadsOf(L[i]) \cap Results(l) = {}
  PROVE  /\ Valued(m, R, Append(L, l))
         /\ LoopsOf(m, R, Append(L, l)) = Append(LoopsOf(m, R, L), LoopIn(m, R, l))
<1> DEFINE S == Append(L, l)
<1>1. L \in Seq(LoopType)
  BY GoodParts
<1>2. DOMAIN L = 1 .. Len(L) /\ Len(L) \in Nat
  BY <1>1
<1>3. S \in Seq(LoopType) /\ Len(S) = Len(L) + 1 /\ (\A i \in 1 .. Len(L) : S[i] = L[i]) /\ S[Len(L) + 1] = l
  BY <1>1, Appended
<1>4. LoopsOf(m, R, S) = Append(LoopsOf(m, R, L), LoopIn(m, R, l))
  BY <1>1, ReadAppend
<1>5. l.by # "for" => Feeds(m, R, S, l)
  OBVIOUS
<1> HIDE DEF S
<1>6. \A i \in NativesOf(S) : (i \in NativesOf(L) /\ S[i] = L[i]) \/ (i = Len(L) + 1 /\ S[i] = l /\ l.by # "for")
  <2> SUFFICES ASSUME NEW i \in NativesOf(S)
               PROVE (i \in NativesOf(L) /\ S[i] = L[i]) \/ (i = Len(L) + 1 /\ S[i] = l /\ l.by # "for")
    OBVIOUS
  <2>1. i \in 1 .. Len(L) + 1 /\ S[i].by # "for"
    BY <1>3 DEF NativesOf
  <2>2. i \in 1 .. Len(L) \/ i = Len(L) + 1
    BY <1>2, <2>1
  <2> QED BY <1>2, <1>3, <2>1, <2>2 DEF NativesOf
<1>7. ASSUME NEW i \in NativesOf(L) PROVE Feeds(m, R, S, L[i])
  <2>1. Feeds(m, R, L, L[i])
    BY DEF Valued
  <2>2. \A j \in NativesOf(S) : ReadsOf(L[i]) \cap Results(S[j]) = {}
    BY <1>6, <2>1 DEF Feeds
  <2> QED BY <2>1, <2>2 DEF Feeds
<1>8. \A i \in NativesOf(S) : Feeds(m, R, S, S[i])
  BY <1>5, <1>6, <1>7
<1>9. Valued(m, R, S)
  BY <1>8 DEF Valued
<1> QED BY <1>4, <1>9 DEF S

(* The innermost loop ends.                                                *)
LEMMA LoopEnded ==
  ASSUME NEW m, NEW R, NEW L, Good(m, R, L), Valued(m, R, L), L # <<>>
  PROVE  /\ Valued(m, R, Front(L))
         /\ LoopsOf(m, R, Front(L)) = Front(LoopsOf(m, R, L))
         /\ Last(L).by # "for" => \A i \in NativesOf(Front(L)) : ReadsOf(Front(L)[i]) \cap Results(Last(L)) = {}
<1> DEFINE S == Front(L)
<1>1. L \in Seq(LoopType)
  BY GoodParts
<1>2. /\ DOMAIN L = 1 .. Len(L) /\ Len(L) \in Nat /\ Len(L) >= 1
      /\ S \in Seq(LoopType) /\ Len(S) = Len(L) - 1 /\ (\A i \in 1 .. Len(L) - 1 : S[i] = L[i])
      /\ Last(L) = L[Len(L)]
  BY <1>1, Fronts
<1>3. LoopsOf(m, R, S) = Front(LoopsOf(m, R, L))
  BY <1>1, ReadFront
<1> HIDE DEF S
<1>4. \A i \in NativesOf(S) : i \in NativesOf(L) /\ S[i] = L[i]
  <2> SUFFICES ASSUME NEW i \in NativesOf(S) PROVE i \in NativesOf(L) /\ S[i] = L[i]
    OBVIOUS
  <2>1. i \in 1 .. Len(L) - 1 /\ S[i].by # "for"
    BY <1>2 DEF NativesOf
  <2> QED BY <1>2, <2>1 DEF NativesOf
<1>5. \A i \in NativesOf(S) : Feeds(m, R, S, S[i])
  <2> SUFFICES ASSUME NEW i \in NativesOf(S) PROVE Feeds(m, R, S, S[i])
    OBVIOUS
  <2>1. Feeds(m, R, L, S[i])
    BY <1>4 DEF Valued
  <2> QED BY <1>4, <2>1 DEF Feeds
<1>6. Last(L).by # "for" => Len(L) \in NativesOf(L)
  BY <1>2 DEF NativesOf
<1>7. Last(L).by # "for" => \A i \in NativesOf(S) : ReadsOf(S[i]) \cap Results(Last(L)) = {}
  <2> SUFFICES ASSUME Last(L).by # "for", NEW i \in NativesOf(S) PROVE ReadsOf(S[i]) \cap Results(Last(L)) = {}
    OBVIOUS
  <2>1. Feeds(m, R, L, S[i])
    BY <1>4 DEF Valued
  <2> QED BY <1>2, <1>6, <2>1 DEF Feeds
<1>8. Valued(m, R, S)
  BY <1>5 DEF Valued
<1> QED BY <1>3, <1>7, <1>8 DEF S

(* The innermost loop goes on.                                             *)
GoesOn(m, k, l) ==
  /\ k \in LoopType
  /\ k.by = l.by /\ k.arr = l.arr /\ k.res = l.res /\ k.len = l.len
  /\ k.by # "for" => ValuesAt(m, k.res + 2, k.kept) /\ (k.body => k.val[1] \in Value)

LEMMA LoopTurned ==
  ASSUME NEW m, NEW R, NEW L, NEW k, Good(m, R, L), Valued(m, R, L), L # <<>>,
         GoesOn(m, k, Last(L))
  PROVE  /\ Valued(m, R, Append(Front(L), k))
         /\ LoopsOf(m, R, Append(Front(L), k)) = Append(Front(LoopsOf(m, R, L)), LoopIn(m, R, k))
<1> DEFINE S == Front(L)
           K == Append(S, k)
<1>1. L \in Seq(LoopType) /\ k \in LoopType
  BY GoodParts DEF GoesOn
<1>2. /\ DOMAIN L = 1 .. Len(L) /\ Len(L) \in Nat /\ Len(L) >= 1
      /\ S \in Seq(LoopType) /\ Len(S) = Len(L) - 1 /\ (\A i \in 1 .. Len(L) - 1 : S[i] = L[i])
      /\ Last(L) = L[Len(L)]
  BY <1>1, Fronts
<1>3. LoopsOf(m, R, S) = Front(LoopsOf(m, R, L))
  BY <1>1, ReadFront
<1>4. LoopsOf(m, R, K) = Append(LoopsOf(m, R, S), LoopIn(m, R, k))
  BY <1>1, <1>2, ReadAppend
<1> HIDE DEF S
<1>5. K \in Seq(LoopType) /\ Len(K) = Len(S) + 1 /\ (\A i \in 1 .. Len(S) : K[i] = S[i]) /\ K[Len(S) + 1] = k
  <2>1. S \in Seq(LoopType) /\ k \in LoopType
    BY <1>1, <1>2
  <2> QED BY <2>1, Appended
<1> HIDE DEF K
<1>6. DOMAIN K = 1 .. Len(L) /\ (\A i \in 1 .. Len(L) - 1 : K[i] = L[i]) /\ K[Len(L)] = k
  BY <1>2, <1>5
<1>7. \A i \in NativesOf(K) : /\ i \in NativesOf(L)
                              /\ K[i].arr = L[i].arr /\ K[i].len = L[i].len /\ K[i].res = L[i].res
                              /\ (K[i] = L[i] \/ (K[i] = k /\ k.by # "for"))
  <2> SUFFICES ASSUME NEW i \in NativesOf(K)
               PROVE /\ i \in NativesOf(L)
                     /\ K[i].arr = L[i].arr /\ K[i].len = L[i].len /\ K[i].res = L[i].res
                     /\ (K[i] = L[i] \/ (K[i] = k /\ k.by # "for"))
    OBVIOUS
  <2>1. i \in 1 .. Len(L) /\ K[i].by # "for"
    BY <1>6 DEF NativesOf
  <2>2. CASE i = Len(L)
    BY <1>2, <1>6, <2>1, <2>2 DEF NativesOf, GoesOn
  <2>3. CASE i # Len(L)
    <3>0. \A n \in Nat : \A p \in 1 .. n : p # n => p \in 1 .. n - 1
      OBVIOUS
    <3>1. i \in 1 .. Len(L) - 1
      BY <1>2, <2>1, <2>3, <3>0
    <3> QED BY <1>2, <1>6, <2>1, <3>1 DEF NativesOf
  <2> QED BY <2>2, <2>3
<1>8. \A i \in NativesOf(K) : ReadsOf(K[i]) = ReadsOf(L[i]) /\ Results(K[i]) = Results(L[i])
  BY <1>7, Zenon DEF ReadsOf, Results
<1>9. ASSUME NEW i \in NativesOf(K) PROVE Feeds(m, R, K, K[i])
  <2>1. Feeds(m, R, L, L[i])
    BY <1>7 DEF Valued
  <2>2. \A j \in NativesOf(K) : ReadsOf(K[i]) \cap Results(K[j]) = {}
    BY <1>7, <1>8, <2>1 DEF Feeds
  <2>3. ValuesAt(m, K[i].res + 2, K[i].kept) /\ (K[i].body => K[i].val[1] \in Value)
    BY <1>7, <2>1 DEF Feeds, GoesOn
  <2>4. \A r \in Range(R) : r # K[i].arr => ReadsOf(K[i]) \cap ExtentIn(m, r) = {}
    BY <1>7, <1>8, <2>1 DEF Feeds
  <2>5. m[K[i].arr].n = TYPE_ARRAY /\ ValuesAt(m, K[i].arr + 2, K[i].len)
    BY <1>7, <2>1 DEF Feeds
  <2> QED BY <2>2, <2>3, <2>4, <2>5 DEF Feeds
<1>10. Valued(m, R, K)
  BY <1>9 DEF Valued
<1> QED BY <1>3, <1>4, <1>10 DEF K, S
-----------------------------------------------------------------------------
(* One object is written; an array's items are values again.               *)
Rewrites(m, w, r) ==
  /\ \A c \in DOMAIN m \ ExtentIn(m, r) : w[c] = m[c]
  /\ w[r].n = m[r].n
  /\ ExtentIn(w, r) \subseteq ExtentIn(m, r) \cup (Len(m) + 1 .. Len(w))
  /\ m[r].n = TYPE_ARRAY =>
       w[r + 1].n <= m[r + 1].n /\ \A c \in r + 2 .. r + 1 + m[r + 1].n : w[c] \in Value

LEMMA OthersRead ==
  ASSUME NEW m, NEW w, NEW R, NEW L, NEW r \in Range(R), Good(m, R, L), Rewrites(m, w, r)
  PROVE  /\ \A q \in Range(R) : q # r => \A c \in ExtentIn(m, q) : w[c] = m[c]
         /\ \A i \in NativesOf(L) : \A c \in Results(L[i]) : w[c] = m[c]
<1>1. Apart(m, R, L)
  BY DEF Good
<1>2. \A q \in Range(R) : ExtentIn(m, q) \subseteq DOMAIN m
  BY GoodParts
<1>3. \A c \in DOMAIN m \ ExtentIn(m, r) : w[c] = m[c]
  BY DEF Rewrites
<1>4. \A q \in Range(R) : q # r => \A c \in ExtentIn(m, q) : w[c] = m[c]
  BY <1>1, <1>2, <1>3, Zenon DEF Apart
<1>5. \A i \in NativesOf(L) : Results(L[i]) \subseteq DOMAIN m
  BY GoodParts, OwnResults
<1>6. \A i \in NativesOf(L) : \A c \in Results(L[i]) : c \notin ExtentIn(m, r)
  BY <1>1 DEF Apart
<1> QED BY <1>3, <1>4, <1>5, <1>6

LEMMA RewrittenColls ==
  ASSUME NEW m, NEW w, NEW R, NEW L, NEW r \in Range(R), Good(m, R, L), Rewrites(m, w, r)
  PROVE  CollsOf(w, R) = [CollsOf(m, R) EXCEPT ![PlaceIn(R, r)].items = ItemsIn(w, r)]
<1> DEFINE p == PlaceIn(R, r)
           C == CollsOf(m, R)
<1>1. p \in DOMAIN R /\ R[p] = r /\ IsInjective(R)
  BY GoodParts, PlaceIs
<1>2. ContentsIn(w, r) = [kind |-> C[p].kind, items |-> ItemsIn(w, r)]
  <2>1. C[p] = [kind |-> KindIn(m, r), items |-> ItemsIn(m, r)]
    BY <1>1 DEF CollsOf, ContentsIn
  <2>2. KindIn(w, r) = KindIn(m, r)
    BY DEF Rewrites, KindIn
  <2> HIDE DEF p, C
  <2> QED BY <2>1, <2>2 DEF ContentsIn
<1>3. \A i \in DOMAIN R : i # p => ContentsIn(w, R[i]) = ContentsIn(m, R[i])
  <2> SUFFICES ASSUME NEW i \in DOMAIN R, i # p PROVE ContentsIn(w, R[i]) = ContentsIn(m, R[i])
    OBVIOUS
  <2>1. R[i] # r
    BY <1>1 DEF IsInjective
  <2>2. R[i] \in Range(R) /\ SoundIn(m, R[i])
    BY GoodParts
  <2> HIDE DEF p
  <2>3. \A c \in ExtentIn(m, R[i]) : w[c] = m[c]
    BY <2>1, <2>2, OthersRead
  <2> QED BY <2>2, <2>3, SameRead
<1>4. DOMAIN C = DOMAIN R /\ \A i \in DOMAIN R : C[i] = ContentsIn(m, R[i])
  BY DEF CollsOf
<1>5. C[p] = [kind |-> C[p].kind, items |-> C[p].items]
  BY <1>1, <1>4 DEF ContentsIn
<1>6. CollsOf(w, R) = [i \in DOMAIN R |-> ContentsIn(w, R[i])]
  BY DEF CollsOf
<1> HIDE DEF p, C
<1>7. [C EXCEPT ![p].items = ItemsIn(w, r)] = [i \in DOMAIN R |-> IF i = p THEN [C[p] EXCEPT !.items = ItemsIn(w, r)] ELSE C[i]]
  BY <1>1, <1>4
<1>8. [C[p] EXCEPT !.items = ItemsIn(w, r)] = [kind |-> C[p].kind, items |-> ItemsIn(w, r)]
  BY <1>5
<1>9. \A i \in DOMAIN R : ContentsIn(w, R[i]) = IF i = p THEN [C[p] EXCEPT !.items = ItemsIn(w, r)] ELSE C[i]
  BY <1>1, <1>2, <1>3, <1>4, <1>8
<1>10. CollsOf(w, R) = [C EXCEPT ![p].items = ItemsIn(w, r)]
  BY <1>6, <1>7, <1>9
<1> QED BY <1>10 DEF p, C

LEMMA AlikeRead ==
  ASSUME NEW m, NEW R, NEW K, NEW L, L \in Seq(LoopType), LoopsAlike(K, L)
  PROVE  /\ LoopsOf(m, R, K) = LoopsOf(m, R, L)
         /\ NativesOf(K) = NativesOf(L)
         /\ \A i \in DOMAIN L : ReadsOf(K[i]) = ReadsOf(L[i]) /\ Results(K[i]) = Results(L[i])
<1>1. DOMAIN K = DOMAIN L /\ \A i \in DOMAIN L : Alike(K[i], L[i])
  BY DEF LoopsAlike
<1>2. ASSUME NEW i \in DOMAIN L PROVE LoopIn(m, R, K[i]) = LoopIn(m, R, L[i])
  <2>1. OutIn(m, K[i]) = OutIn(m, L[i])
    BY <1>1, Zenon DEF OutIn, Alike
  <2> QED BY <1>1, <2>1 DEF LoopIn, Alike
<1>3. LoopsOf(m, R, K) = LoopsOf(m, R, L)
  BY <1>1, <1>2 DEF LoopsOf
<1>4. NativesOf(K) = NativesOf(L)
  BY <1>1 DEF NativesOf, Alike
<1>5. \A i \in DOMAIN L : ReadsOf(K[i]) = ReadsOf(L[i]) /\ Results(K[i]) = Results(L[i])
  BY <1>1, Zenon DEF ReadsOf, Results, Alike
<1> QED BY <1>3, <1>4, <1>5

LEMMA RewrittenLoops ==
  ASSUME NEW m, NEW w, NEW R, NEW L, NEW K, NEW r \in Range(R),
         Good(m, R, L), Good(w, R, K), Rewrites(m, w, r), LoopsAlike(K, L)
  PROVE  LoopsOf(w, R, K) = LoopsOf(m, R, L)
<1>1. L \in Seq(LoopType) /\ m \in Seq(Cell) /\ w \in Seq(Cell)
  BY GoodParts
<1>2. LoopsOf(w, R, K) = LoopsOf(w, R, L) /\ NativesOf(K) = NativesOf(L)
  BY <1>1, AlikeRead
<1>3. ASSUME NEW i \in DOMAIN L PROVE LoopIn(w, R, L[i]) = LoopIn(m, R, L[i])
  <2> DEFINE l == L[i]
  <2>1. l \in LoopType
    BY GoodParts
  <2>2. l.by # "for" => i \in NativesOf(L)
    BY DEF NativesOf
  <2>3. l.by # "for" => FillsIn(m, l)
    BY <2>2, GoodParts
  <2>4. l.by # "for" => l.res + 1 + l.len <= Len(w)
    <3>0. l.by # "for" => i \in NativesOf(K)
      BY <1>2, <2>2
    <3>1. l.by # "for" => FillsIn(w, K[i])
      BY <3>0, GoodParts
    <3>2. K[i].res = l.res /\ K[i].len = l.len
      BY DEF LoopsAlike, Alike
    <3> QED BY <3>1, <3>2 DEF FillsIn
  <2>5. l.by # "for" => \A c \in Results(l) : w[c] = m[c]
    BY <2>2, OthersRead
  <2> HIDE DEF l
  <2>6. l.by # "for" => l.res + 2 .. l.res + 1 + l.kept \subseteq Results(l)
    <3>1. l.by # "for" => l.kept <= l.len
      BY <2>1, <2>3 DEF FillsIn, LoopType
    <3>2. l.kept \in Nat /\ l.len \in Nat /\ l.res \in Nat
      BY <2>1 DEF LoopType
    <3> QED BY <3>1, <3>2 DEF Results
  <2>7. l.by # "for" => \A c \in l.res + 2 .. l.res + 1 + l.kept : w[c] = m[c]
    BY <2>5, <2>6
  <2>8. OutIn(w, l) = OutIn(m, l)
    BY <1>1, <2>1, <2>3, <2>4, <2>7, SameOut
  <2>9. LoopIn(w, R, l) = LoopIn(m, R, l)
    BY <2>8 DEF LoopIn
  <2> QED BY <2>9 DEF l
<1>4. LoopsOf(w, R, L) = LoopsOf(m, R, L)
  BY <1>3 DEF LoopsOf
<1> QED BY <1>2, <1>4

LEMMA RewrittenValued ==
  ASSUME NEW m, NEW w, NEW R, NEW L, NEW K, NEW r \in Range(R),
         Good(m, R, L), Good(w, R, K), Valued(m, R, L), Rewrites(m, w, r), LoopsAlike(K, L)
  PROVE  Valued(w, R, K)
<1>1. L \in Seq(LoopType) /\ m \in Seq(Cell) /\ w \in Seq(Cell)
  BY GoodParts
<1>2. NativesOf(K) = NativesOf(L) /\ \A i \in DOMAIN L : ReadsOf(K[i]) = ReadsOf(L[i]) /\ Results(K[i]) = Results(L[i])
  BY <1>1, AlikeRead
<1>3. /\ \A q \in Range(R) : q # r => \A c \in ExtentIn(m, q) : w[c] = m[c]
      /\ \A i \in NativesOf(L) : \A c \in Results(L[i]) : w[c] = m[c]
  BY OthersRead
<1>4. \A q \in Range(R) : SoundIn(m, q) /\ SoundIn(w, q)
  BY GoodParts
<1>5. \A q \in Range(R) : q # r => w[q] = m[q] /\ w[q + 1] = m[q + 1] /\ ExtentIn(w, q) = ExtentIn(m, q)
  <2> SUFFICES ASSUME NEW q \in Range(R), q # r
               PROVE w[q] = m[q] /\ w[q + 1] = m[q + 1] /\ ExtentIn(w, q) = ExtentIn(m, q)
    OBVIOUS
  <2>1. \A c \in ExtentIn(m, q) : w[c] = m[c]
    BY <1>3
  <2>2. w[q] = m[q] /\ w[q + 1] = m[q + 1] /\ (m[q].n = TYPE_MAP => w[q + 3] = m[q + 3])
    BY <1>4, <2>1, OwnHeader
  <2> QED BY <2>2, Zenon DEF ExtentIn
<1>6. ASSUME NEW q \in Range(R), w[q].n = TYPE_ARRAY PROVE ValuesAt(w, q + 2, w[q + 1].n)
  <2> DEFINE n == w[q + 1].n
             k == m[q + 1].n
  <2>1. m[q].n = TYPE_ARRAY /\ q \in Nat
    BY <1>4, <1>5, <1>6 DEF Rewrites, SoundIn
  <2>2. n \in Nat /\ k \in Nat
    BY <1>4, <1>6, <2>1 DEF SoundIn, Listed
  <2>3. CASE q = r
    <3>1. n <= k /\ \A c \in q + 2 .. q + 1 + k : w[c] \in Value
      BY <2>1, <2>3 DEF Rewrites
    <3> HIDE DEF n, k
    <3>2. \A c \in q + 2 .. q + 2 + n - 1 : c \in q + 2 .. q + 1 + k
      BY <2>1, <2>2, <3>1
    <3>3. ValuesAt(w, q + 2, n)
      BY <3>1, <3>2 DEF ValuesAt
    <3> QED BY <3>3 DEF n
  <2>4. CASE q # r
    <3>1. n = k /\ (\A c \in ExtentIn(m, q) : w[c] = m[c]) /\ ExtentIn(m, q) = q .. q + 1 + k
      BY <1>3, <1>5, <2>1, <2>4, TypesDiffer DEF ExtentIn
    <3>2. ValuesAt(m, q + 2, k)
      BY <2>1 DEF Valued
    <3> HIDE DEF n, k
    <3>3. \A c \in q + 2 .. q + 2 + n - 1 : c \in q .. q + 1 + k
      BY <2>1, <2>2, <3>1
    <3>4. ValuesAt(w, q + 2, n)
      BY <3>1, <3>2, <3>3 DEF ValuesAt
    <3> QED BY <3>4 DEF n
  <2> QED BY <2>3, <2>4
<1>7. ASSUME NEW i \in NativesOf(L) PROVE Feeds(w, R, L, L[i])
  <2> DEFINE l == L[i]
  <2>1. /\ m[l.arr].n = TYPE_ARRAY
        /\ ValuesAt(m, l.arr + 2, l.len) /\ ValuesAt(m, l.res + 2, l.kept)
        /\ l.body => l.val[1] \in Value
        /\ \A q \in Range(R) : q # l.arr => ReadsOf(l) \cap ExtentIn(m, q) = {}
        /\ \A j \in NativesOf(L) : ReadsOf(l) \cap Results(L[j]) = {}
    BY DEF Valued, Feeds
  <2>2. l \in LoopType /\ l.arr \in Range(R) /\ FillsIn(m, l)
    BY GoodParts
  <2>3. l.arr \in Nat \ {0} /\ l.len \in Nat /\ l.res \in Nat /\ l.kept \in Nat /\ l.idx \in Nat
    BY <1>4, <2>2 DEF LoopType, SoundIn
  <2>4. \A c \in Results(l) : w[c] = m[c]
    BY <1>3
  <2>5. l.arr + 1 + l.len <= Len(m) /\ Len(m) \in Nat /\ l.kept <= l.len
    <3>1. l.arr + 1 + l.len <= Len(m) /\ l.kept <= l.idx /\ l.idx <= l.len
      BY <2>2 DEF FillsIn
    <3>2. Len(m) \in Nat
      BY <1>1
    <3>3. l.kept <= l.len
      BY <2>3, <3>1
    <3> QED BY <3>1, <3>2, <3>3
  <2> HIDE DEF l
  <2>6. w[l.arr].n = TYPE_ARRAY
    BY <1>5, <2>1, <2>2 DEF Rewrites
  <2>7. ReadsOf(l) \subseteq DOMAIN m
    <3>1. DOMAIN m = 1 .. Len(m)
      BY <1>1
    <3> QED BY <2>3, <2>5, <3>1 DEF ReadsOf
  <2>8. ValuesAt(w, l.arr + 2, l.len)
    <3>1. \A c \in l.arr + 2 .. l.arr + 2 + l.len - 1 : m[c] \in Value /\ c \in DOMAIN m /\ c \in ReadsOf(l)
      BY <2>1, <2>3, <2>7 DEF ValuesAt, ReadsOf
    <3>2. \A c \in DOMAIN m \ ExtentIn(m, r) : w[c] = m[c]
      BY DEF Rewrites
    <3>3. CASE l.arr = r
      <4> DEFINE k == m[r + 1].n
      <4>1. k \in Nat /\ ExtentIn(m, r) = r .. r + 1 + k /\ \A c \in r + 2 .. r + 1 + k : w[c] \in Value
        BY <1>4, <2>1, <3>3, TypesDiffer DEF SoundIn, Listed, ExtentIn, Rewrites
      <4> HIDE DEF k
      <4>2. \A c \in r + 2 .. r + 2 + l.len - 1 : c \in r .. r + 1 + k => c \in r + 2 .. r + 1 + k
        BY <2>3, <3>3, <4>1
      <4>3. \A c \in r + 2 .. r + 2 + l.len - 1 : w[c] \in Value
        BY <3>1, <3>2, <3>3, <4>1, <4>2
      <4> QED BY <3>3, <4>3 DEF ValuesAt
    <3>4. CASE l.arr # r
      <4>1. ReadsOf(l) \cap ExtentIn(m, r) = {}
        BY <2>1, <3>4
      <4>2. \A c \in l.arr + 2 .. l.arr + 2 + l.len - 1 : w[c] \in Value
        BY <3>1, <3>2, <4>1
      <4> QED BY <4>2 DEF ValuesAt
    <3> QED BY <3>3, <3>4
  <2>9. ValuesAt(w, l.res + 2, l.kept)
    <3>1. \A c \in l.res + 2 .. l.res + 2 + l.kept - 1 : m[c] \in Value
      BY <2>1 DEF ValuesAt
    <3>2. \A c \in l.res + 2 .. l.res + 2 + l.kept - 1 : c \in Results(l)
      <4> DEFINE e == l.res
                 h == l.kept
                 z == l.len
      <4>1. e \in Nat /\ h \in Nat /\ z \in Nat /\ h <= z
        BY <2>3, <2>5
      <4> HIDE DEF e, h, z
      <4>2. \A c \in e + 2 .. e + 2 + h - 1 : c \in e .. e + 1 + z
        BY <4>1
      <4> QED BY <4>2 DEF Results, e, h, z
    <3> QED BY <2>4, <3>1, <3>2 DEF ValuesAt
  <2>10. \A q \in Range(R) : q # l.arr => ReadsOf(l) \cap ExtentIn(w, q) = {}
    <3> SUFFICES ASSUME NEW q \in Range(R), q # l.arr PROVE ReadsOf(l) \cap ExtentIn(w, q) = {}
      OBVIOUS
    <3>1. ReadsOf(l) \cap ExtentIn(m, q) = {}
      BY <2>1
    <3>2. CASE q = r
      <4>1. ExtentIn(w, r) \subseteq ExtentIn(m, r) \cup (Len(m) + 1 .. Len(w))
        BY DEF Rewrites
      <4>2. \A c \in DOMAIN m : c \notin Len(m) + 1 .. Len(w)
        <5>1. Len(m) \in Nat /\ Len(w) \in Nat /\ DOMAIN m = 1 .. Len(m)
          BY <1>1
        <5> QED BY <5>1
      <4> QED BY <2>7, <3>1, <3>2, <4>1, <4>2
    <3>3. CASE q # r
      BY <1>5, <3>1, <3>3
    <3> QED BY <3>2, <3>3
  <2>11. Feeds(w, R, L, l)
    BY <2>1, <2>6, <2>8, <2>9, <2>10 DEF Feeds
  <2> QED BY <2>11 DEF l
<1>8. ASSUME NEW i \in NativesOf(K) PROVE Feeds(w, R, K, K[i])
  <2>1. Feeds(w, R, L, L[i]) /\ i \in DOMAIN L
    BY <1>2, <1>7 DEF NativesOf
  <2>2. /\ K[i].arr = L[i].arr /\ K[i].len = L[i].len /\ K[i].res = L[i].res /\ K[i].kept = L[i].kept
        /\ K[i].body = L[i].body /\ K[i].val = L[i].val
    BY <2>1 DEF LoopsAlike, Alike
  <2>3. \A j \in NativesOf(K) : Results(K[j]) = Results(L[j]) /\ j \in NativesOf(L)
    BY <1>2 DEF NativesOf
  <2>4. ReadsOf(K[i]) = ReadsOf(L[i])
    BY <1>2, <2>1
  <2> QED BY <2>1, <2>2, <2>3, <2>4 DEF Feeds
<1> QED BY <1>6, <1>8 DEF Valued
-----------------------------------------------------------------------------
(* New objects are read as what they were made of.                         *)

(* At the end of a heap are a header of two cells and cells s.             *)
Headers(w, r, a, b, s) ==
  /\ w \in Seq(Cell) /\ r \in Nat \ {0} /\ w[r] = a /\ w[r + 1] = b
  /\ \A j \in 1 .. Len(s) : w[r + 1 + j] = s[j]

LEMMA AtTheEnd ==
  ASSUME NEW m \in Seq(Cell), NEW a \in Cell, NEW b \in Cell, NEW s \in Seq(Cell)
  PROVE  Headers(m \o (<<a, b>> \o s), Len(m) + 1, a, b, s)
<1> DEFINE t == <<a, b>> \o s
           w == m \o t
           r == Len(m) + 1
<1>1. t \in Seq(Cell) /\ Len(t) = Len(s) + 2 /\ t[1] = a /\ t[2] = b /\ \A j \in 1 .. Len(s) : t[j + 2] = s[j]
  BY Headed
<1> HIDE DEF t
<1>2. /\ w \in Seq(Cell)
      /\ \A j \in 1 .. Len(m) + Len(t) : w[j] = IF j <= Len(m) THEN m[j] ELSE t[j - Len(m)]
  BY <1>1, Concatenated
<1>3. Len(m) \in Nat /\ Len(s) \in Nat
  OBVIOUS
<1> HIDE DEF w
<1>4. \A j \in 1 .. Len(s) + 2 : w[Len(m) + j] = t[j]
  <2>1. \A j \in 1 .. Len(s) + 2 : /\ Len(m) + j \in 1 .. Len(m) + Len(t) /\ ~(Len(m) + j <= Len(m))
                                   /\ Len(m) + j - Len(m) = j
    BY <1>1, <1>3
  <2> QED BY <1>2, <2>1
<1>5. 1 \in 1 .. Len(s) + 2 /\ 2 \in 1 .. Len(s) + 2 /\ r + 1 = Len(m) + 2 /\ r \in Nat \ {0}
  BY <1>3
<1>6. \A j \in 1 .. Len(s) : j + 2 \in 1 .. Len(s) + 2 /\ r + 1 + j = Len(m) + (j + 2)
  BY <1>3
<1>7. w[r] = a /\ w[r + 1] = b
  BY <1>1, <1>4, <1>5
<1>8. \A j \in 1 .. Len(s) : w[r + 1 + j] = s[j]
  BY <1>1, <1>4, <1>6
<1> HIDE DEF r
<1>9. Headers(w, r, a, b, s)
  BY <1>2, <1>5, <1>7, <1>8 DEF Headers
<1> QED BY <1>9 DEF Headers, t, w, r

LEMMA ArrayReads ==
  ASSUME NEW m \in Seq(Cell), NEW items \in Seq(Cell)
  PROVE  LET w == m \o Array(items)
             r == Len(m) + 1
         IN /\ ContentsIn(w, r) = [kind |-> "array", items |-> items]
            /\ (\A i \in 1 .. Len(items) : items[i] \in Value) => ValuesAt(w, r + 2, w[r + 1].n)
<1> DEFINE w == m \o Array(items)
           r == Len(m) + 1
           n == Len(items)
<1>1. n \in Nat /\ TYPE_ARRAY \in Int
  BY DEF TYPE_ARRAY
<1>2. Raw(TYPE_ARRAY) \in Cell /\ Raw(n) \in Cell /\ Raw(TYPE_ARRAY).n = TYPE_ARRAY /\ Raw(n).n = n
  BY <1>1, RawCells
<1>3. Headers(w, r, Raw(TYPE_ARRAY), Raw(n), items)
  BY <1>2, AtTheEnd DEF Array
<1> HIDE DEF w, r
<1>4. w[r].n = TYPE_ARRAY /\ w[r + 1].n = n /\ r \in Nat /\ \A j \in 1 .. n : w[r + 1 + j] = items[j]
  BY <1>2, <1>3 DEF Headers
<1>5. items = [i \in 1 .. n |-> items[i]]
  OBVIOUS
<1> HIDE DEF n
<1>6. \A i \in 1 .. n : r + 2 + (i - 1) = r + 1 + i
  BY <1>1, <1>4
<1>7. \A i \in 1 .. n : ItemIn(w, r, i - 1) = items[i]
  BY <1>4, <1>6, TypesDiffer DEF ItemIn
<1>8. ItemsIn(w, r) = items
  BY <1>4, <1>5, <1>7, TypesDiffer DEF ItemsIn
<1>9. KindIn(w, r) = "array"
  BY <1>4 DEF KindIn
<1>10. ASSUME \A i \in 1 .. n : items[i] \in Value PROVE ValuesAt(w, r + 2, n)
  <2>1. \A c \in r + 2 .. r + 2 + n - 1 : c - r - 1 \in 1 .. n /\ r + 1 + (c - r - 1) = c
    BY <1>1, <1>4
  <2> QED BY <1>4, <1>10, <2>1 DEF ValuesAt
<1> QED BY <1>4, <1>8, <1>9, <1>10 DEF ContentsIn, w, r, n

(* Bytes are found where they were packed.                                 *)
LEMMA Unpacked ==
  ASSUME NEW bytes \in Seq(0 .. BYTE - 1), NEW i \in 0 .. Len(bytes) - 1
  PROVE  /\ i \div PerCell + 1 \in 1 .. Len(Packed(bytes))
         /\ Packed(bytes)[i \div PerCell + 1].b[i % PerCell] = bytes[i + 1]
<1> DEFINE n == Len(bytes)
           q == i \div PerCell
           p == i % PerCell
<1>1. PerCell \in Nat \ {0} /\ n \in Nat /\ i \in Nat /\ DOMAIN bytes = 1 .. n
  BY ContainerConstants
<1>2. q \in Nat /\ p \in 0 .. PerCell - 1 /\ i = q * PerCell + p
  BY <1>1, Division
<1>3. q < Cells(n) /\ Cells(n) \in Nat
  BY <1>1, CellCount
<1>4. Len(Packed(bytes)) = Cells(n)
  BY PackedCells
<1> HIDE DEF q, p, n
<1>5. q + 1 \in 1 .. Cells(n)
  BY <1>2, <1>3
<1> DEFINE c == q + 1
           f == [o \in 0 .. PerCell - 1 |->
             LET j == (c - 1) * PerCell + o + 1 IN IF j \in DOMAIN bytes THEN bytes[j] ELSE 0]
<1>6. Packed(bytes)[c] = Pack(f)
  <2>1. c \in 1 .. Cells(Len(bytes))
    BY <1>5 DEF n
  <2> HIDE DEF c
  <2> QED BY <2>1 DEF Packed
<1>7. (c - 1) * PerCell + p + 1 = i + 1
  <2>1. c - 1 = q
    BY <1>2
  <2> QED BY <1>2, <2>1
<1>8. i + 1 \in DOMAIN bytes
  BY <1>1 DEF n
<1>9. f[p] = bytes[i + 1]
  BY <1>2, <1>7, <1>8
<1> HIDE DEF f
<1>10. Packed(bytes)[q + 1].b[p] = bytes[i + 1]
  BY <1>6, <1>9 DEF Pack
<1> QED BY <1>4, <1>5, <1>10 DEF q, p

LEMMA BytesRead ==
  ASSUME NEW m \in Seq(Cell), NEW bytes \in Seq(0 .. BYTE - 1)
  PROVE  LET w == m \o Bytes(bytes)
             r == Len(m) + 1
         IN /\ ContentsIn(w, r) = [kind |-> "bytes", items |-> [i \in 1 .. Len(bytes) |-> Num(bytes[i])]]
            /\ w[r].n # TYPE_ARRAY
<1> DEFINE w == m \o Bytes(bytes)
           r == Len(m) + 1
           n == Len(bytes)
           s == Packed(bytes)
<1>1. n \in Nat /\ TYPE_BYTES \in Int
  BY DEF TYPE_BYTES
<1>2. Raw(TYPE_BYTES) \in Cell /\ Raw(n) \in Cell /\ Raw(TYPE_BYTES).n = TYPE_BYTES /\ Raw(n).n = n
  BY <1>1, RawCells
<1>3. s \in Seq(Cell)
  BY PackedCells
<1>4. Headers(w, r, Raw(TYPE_BYTES), Raw(n), s)
  <2>1. w = m \o (<<Raw(TYPE_BYTES), Raw(n)>> \o s)
    BY DEF Bytes
  <2> HIDE DEF s, n, w
  <2> QED BY <1>2, <1>3, <2>1, AtTheEnd
<1> HIDE DEF w, r
<1>5. w[r].n = TYPE_BYTES /\ w[r + 1].n = n /\ r \in Nat /\ \A j \in 1 .. Len(s) : w[r + 1 + j] = s[j]
  BY <1>2, <1>4 DEF Headers
<1>6. \A i \in 0 .. n - 1 : i \div PerCell + 1 \in 1 .. Len(s) /\ s[i \div PerCell + 1].b[i % PerCell] = bytes[i + 1]
  BY Unpacked
<1> HIDE DEF n, s
<1>7. \A i \in 0 .. n - 1 : ByteIn(w, r, i) = bytes[i + 1]
  <2> SUFFICES ASSUME NEW i \in 0 .. n - 1 PROVE ByteIn(w, r, i) = bytes[i + 1]
    OBVIOUS
  <2> DEFINE q == i \div PerCell
  <2>0. i \in Nat /\ PerCell \in Nat \ {0}
    BY <1>1, ContainerConstants
  <2>1. q \in Nat
    BY <2>0, Division
  <2>2. q + 1 \in 1 .. Len(s) /\ s[q + 1].b[i % PerCell] = bytes[i + 1]
    BY <1>6
  <2>3. ByteIn(w, r, i) = w[r + 2 + q].b[i % PerCell]
    BY DEF ByteIn
  <2> HIDE DEF q
  <2>4. r + 2 + q = r + 1 + (q + 1)
    BY <1>5, <2>1
  <2>5. w[r + 2 + q] = s[q + 1]
    BY <1>5, <2>2, <2>4
  <2> QED BY <2>2, <2>3, <2>5
<1>8. \A i \in 1 .. n : ItemIn(w, r, i - 1) = Num(bytes[i])
  <2> SUFFICES ASSUME NEW i \in 1 .. n PROVE ItemIn(w, r, i - 1) = Num(bytes[i])
    OBVIOUS
  <2>1. i - 1 \in 0 .. n - 1 /\ i - 1 + 1 = i
    BY <1>1
  <2>2. ItemIn(w, r, i - 1) = Num(ByteIn(w, r, i - 1))
    BY <1>5 DEF ItemIn
  <2> QED BY <1>7, <2>1, <2>2
<1>9. ItemsIn(w, r) = [i \in 1 .. n |-> Num(bytes[i])]
  BY <1>5, <1>8, TypesDiffer DEF ItemsIn
<1>10. KindIn(w, r) = "bytes" /\ w[r].n # TYPE_ARRAY
  BY <1>5, TypesDiffer DEF KindIn
<1> QED BY <1>9, <1>10 DEF ContentsIn, w, r, n

LEMMA MapReads ==
  ASSUME NEW m, NEW R, NEW L, Good(m, R, L), Len(m) + Len(MapCells(Len(m))) < MAX_HEAP
  PROVE  LET w == m \o MapCells(Len(m))
             r == Len(m) + 1
         IN ContentsIn(w, r) = [kind |-> "map", items |-> <<>>] /\ w[r].n # TYPE_ARRAY
<1> DEFINE s == MapCells(Len(m))
           b == [c \in 1 .. MAP_INITIAL_CAP * 2 |-> Unset]
           h == <<Raw(0), Raw(Len(m) + 5)>>
           t == h \o b
           w == m \o s
           r == Len(m) + 1
<1>1. s \in Seq(Cell) /\ m \in Seq(Cell) /\ Len(m) \in Nat
  BY MapIsSound, GoodParts
<1>2. w[r].n = TYPE_MAP /\ w[r + 2].n = 0
  <2> DEFINE g == <<Raw(TYPE_MAP), Raw(MAP_INITIAL_CAP), Raw(0), Raw(Len(m) + 5)>>
             cap == MAP_INITIAL_CAP
  <2>1. cap \in Nat \ {0} /\ cap * 2 \in Nat
    BY ContainerConstants
  <2>2. g \in Seq(Cell) /\ Len(g) = 4 /\ g[1] = Raw(TYPE_MAP) /\ g[3] = Raw(0)
    <3>1. Raw(TYPE_MAP) \in Cell /\ Raw(cap) \in Cell /\ Raw(0) \in Cell /\ Raw(Len(m) + 5) \in Cell
      BY <1>1, <2>1, RawCells DEF TYPE_MAP
    <3> QED BY <3>1
  <2> HIDE DEF g, cap
  <2>3. [c \in 1 .. cap * 2 |-> Unset] \in Seq(Cell)
    BY <2>1, RawCells
  <2> DEFINE z == [c \in 1 .. cap * 2 |-> Unset]
  <2> HIDE DEF z
  <2>4. s = g \o z
    BY DEF MapCells, g, z, cap
  <2>5. z \in Seq(Cell) /\ Len(z) \in Nat
    <3>1. z \in Seq(Cell)
      BY <2>3 DEF z
    <3> QED BY <3>1
  <2> HIDE DEF s
  <2>6. Len(s) = 4 + Len(z) /\ s[1] = Raw(TYPE_MAP) /\ s[3] = Raw(0)
    <3>1. /\ Len(g \o z) = Len(g) + Len(z)
          /\ \A j \in 1 .. Len(g) + Len(z) : (g \o z)[j] = IF j <= Len(g) THEN g[j] ELSE z[j - Len(g)]
      BY <2>2, <2>5, Concatenated
    <3>2. 1 \in 1 .. Len(g) + Len(z) /\ 3 \in 1 .. Len(g) + Len(z) /\ 1 <= Len(g) /\ 3 <= Len(g)
      BY <2>2, <2>5
    <3> QED BY <2>2, <2>4, <3>1, <3>2
  <2>7. w[r] = s[1] /\ w[r + 2] = s[3]
    <3>1. \A j \in 1 .. Len(m) + Len(s) : w[j] = IF j <= Len(m) THEN m[j] ELSE s[j - Len(m)]
      BY <1>1, Concatenated
    <3>2. r = Len(m) + 1 /\ r + 2 = Len(m) + 3
      BY <1>1
    <3> HIDE DEF r, w
    <3>3. /\ r \in 1 .. Len(m) + Len(s) /\ ~(r <= Len(m)) /\ r - Len(m) = 1
          /\ r + 2 \in 1 .. Len(m) + Len(s) /\ ~(r + 2 <= Len(m)) /\ r + 2 - Len(m) = 3
      BY <1>1, <2>5, <2>6, <3>2
    <3> QED BY <3>1, <3>3
  <2>8. Raw(TYPE_MAP).n = TYPE_MAP /\ Raw(0).n = 0
    BY DEF Raw
  <2> QED BY <2>6, <2>7, <2>8
<1> HIDE DEF s, w, r
<1>3. ItemsIn(w, r) = <<>> /\ KindIn(w, r) = "map" /\ w[r].n # TYPE_ARRAY
  <2>1. KindIn(w, r) = "map" /\ w[r].n # TYPE_ARRAY
    BY <1>2, TypesDiffer DEF KindIn
  <2>2. ItemsIn(w, r) = [i \in 1 .. 0 |-> EntryIn(w, r, i - 1)]
    BY <1>2 DEF ItemsIn
  <2>3. 1 .. 0 = {}
    OBVIOUS
  <2>4. ItemsIn(w, r) = [i \in {} |-> EntryIn(w, r, i - 1)]
    BY <2>2, <2>3
  <2>5. <<>> = [i \in {} |-> EntryIn(w, r, i - 1)]
    OBVIOUS
  <2> QED BY <2>1, <2>4, <2>5
<1> QED BY <1>3 DEF ContentsIn, s, w, r
-----------------------------------------------------------------------------
(* The state of Collections.                                               *)
Loops == LoopsOf(mem, refs, loops)
LoopsSeen == [i \in DOMAIN loops |-> LoopOf(loops[i])] = Loops

LEMMA LoopsAreSeen == LoopsSeen
  BY DEF LoopsSeen, Loops, LoopsOf, LoopOf, LoopIn, OutIn, Block, Of, PlaceIn

LEMMA LoopsAreSeenNext == LoopsSeen'
  BY DEF LoopsSeen, Loops, LoopsOf, LoopOf, LoopIn, OutIn, Block, Of, PlaceIn

LEMMA Watched ==
  ASSUME Inv', Watch
  PROVE  colls' = CollsOf(mem', refs')
<1>1. Seen'
  BY InvSeen, PTL
<1> QED BY <1>1 DEF Watch, Seen

LEMMA InBody ==
  ASSUME Inv, Ready
  PROVE  Held!Ready /\ Len(Loops) = Len(loops)
<1>1. loops \in Seq(LoopType)
  BY LoopsAreLoops
<1>2. Len(Loops) = Len(loops) /\ Loops \in Seq(ReadLoops(mem, refs))
  BY <1>1, LoopsAreRead DEF Loops
<1>3. CASE loops = <<>>
  <2>1. Loops = <<>>
    BY <1>2, <1>3
  <2> QED BY <1>2, <2>1, LoopsAreSeen DEF Held!Ready, LoopsSeen
<1>4. CASE loops # <<>>
  <2>1. Last(Loops) = LoopIn(mem, refs, Last(loops))
    BY <1>1, <1>4, ReadFront DEF Loops
  <2>2. Last(Loops).body
    BY <1>4, <2>1 DEF Ready, LoopIn
  <2> QED BY <1>2, <2>2, LoopsAreSeen DEF Held!Ready, LoopsSeen, Held!Last, Last
<1> QED BY <1>3, <1>4

LEMMA ObjectMapped ==
  ASSUME Inv, Mapped, NEW r \in Range(refs)
  PROVE  /\ Of(r) = PlaceIn(refs, r) /\ Of(r) \in DOMAIN colls
         /\ colls[Of(r)] = [kind |-> KindIn(mem, r), items |-> ItemsIn(mem, r)]
         /\ Held!ItemsOf(Of(r)) = ItemsIn(mem, r) /\ Held!Size(Of(r)) = Len(ItemsIn(mem, r))
<1> DEFINE p == Of(r)
<1>1. p = PlaceIn(refs, r)
  BY DEF Of, PlaceIn
<1>2. p \in DOMAIN refs /\ refs[p] = r
  BY <1>1, GoodParts, PlaceIs DEF Inv
<1> HIDE DEF p
<1>3. p \in DOMAIN colls /\ colls[p] = [kind |-> KindIn(mem, r), items |-> ItemsIn(mem, r)]
  BY <1>2 DEF Mapped, CollsOf, ContentsIn
<1>4. Held!ItemsOf(p) = ItemsIn(mem, r) /\ Held!Size(p) = Len(ItemsIn(mem, r))
  BY <1>3 DEF Held!ItemsOf, Held!Size
<1> QED BY <1>1, <1>3, <1>4 DEF p

LEMMA CollsCount ==
  ASSUME Inv, Mapped
  PROVE  Len(colls) = Len(refs) /\ DOMAIN colls = DOMAIN refs
<1>1. refs \in Seq(Nat)
  BY LoopsAreLoops
<1>2. DOMAIN colls = 1 .. Len(refs) /\ Len(refs) \in Nat /\ DOMAIN refs = 1 .. Len(refs)
  BY <1>1 DEF Mapped, CollsOf
<1>3. colls = [i \in 1 .. Len(refs) |-> ContentsIn(mem, refs[i])]
  BY <1>2 DEF Mapped, CollsOf
<1> QED BY <1>2, <1>3

(* A list's items.                                                         *)
LEMMA ListMapped ==
  ASSUME Inv, Mapped, NEW r \in OfType(Listed)
  PROVE  /\ r \in Range(refs) /\ Length(r) \in Nat /\ Type(r) \in Listed
         /\ ItemsIn(mem, r) = [i \in 1 .. Length(r) |-> Item(r, i - 1)]
         /\ Len(ItemsIn(mem, r)) = Length(r)
         /\ Type(r) = TYPE_ARRAY =>
              /\ KindIn(mem, r) = "array"
              /\ \A i \in 1 .. Length(r) : ItemsIn(mem, r)[i] = mem[r + 1 + i] /\ mem[r + 1 + i] \in Value
         /\ Type(r) = TYPE_BYTES =>
              /\ KindIn(mem, r) = "bytes"
              /\ ItemsIn(mem, r) = [i \in 1 .. Length(r) |-> Num(BytesOf(r)[i])]
<1> DEFINE n == Length(r)
<1>1. r \in Range(refs) /\ Type(r) = mem[r].n /\ n = mem[r + 1].n /\ mem[r].n \in Listed
  BY DEF OfType, Type, Length
<1>2. ListAt(r, n)
  BY ListIsAt
<1>3. n \in Nat /\ r \in Nat
  BY <1>2 DEF ListAt
<1>4. mem[r].n # TYPE_MAP
  BY <1>1, TypesDiffer DEF Listed
<1>5. \A i \in 1 .. n : Item(r, i - 1) = ItemIn(mem, r, i - 1)
  BY DEF Item, ItemIn, ByteAt, ByteIn, Type
<1>6. ItemsIn(mem, r) = [i \in 1 .. n |-> Item(r, i - 1)]
  BY <1>1, <1>4, <1>5 DEF ItemsIn
<1>7. ASSUME Type(r) = TYPE_ARRAY
      PROVE /\ KindIn(mem, r) = "array"
            /\ \A i \in 1 .. n : ItemsIn(mem, r)[i] = mem[r + 1 + i] /\ mem[r + 1 + i] \in Value
  <2>1. ValuesAt(mem, r + 2, n)
    BY <1>1, <1>7 DEF Mapped, Valued
  <2>2. KindIn(mem, r) = "array"
    BY <1>1, <1>7 DEF KindIn
  <2>3. \A i \in 1 .. n : Item(r, i - 1) = mem[r + 2 + (i - 1)]
    BY <1>7, TypesDiffer DEF Item
  <2> HIDE DEF n
  <2>4. \A i \in 1 .. n : r + 2 + (i - 1) = r + 1 + i /\ r + 1 + i \in r + 2 .. r + 2 + n - 1
    BY <1>3
  <2> QED BY <1>6, <2>1, <2>2, <2>3, <2>4 DEF ValuesAt
<1>8. ASSUME Type(r) = TYPE_BYTES
      PROVE  KindIn(mem, r) = "bytes" /\ ItemsIn(mem, r) = [i \in 1 .. n |-> Num(BytesOf(r)[i])]
  <2>1. KindIn(mem, r) = "bytes"
    BY <1>1, <1>8, TypesDiffer DEF KindIn
  <2>2. \A i \in 1 .. n : Item(r, i - 1) = Num(ByteAt(r, i - 1)) /\ BytesOf(r)[i] = ByteAt(r, i - 1)
    BY <1>8 DEF Item, BytesOf
  <2> QED BY <1>6, <2>1, <2>2
<1> HIDE DEF n
<1>9. Len(ItemsIn(mem, r)) = n
  BY <1>3, <1>6
<1> QED BY <1>1, <1>3, <1>6, <1>7, <1>8, <1>9 DEF n
-----------------------------------------------------------------------------
(* Making an object.                                                       *)
NewObject(object) ==
  /\ object \in Seq(Cell)
  /\ SoundIn(mem \o object, Len(mem) + 1)
  /\ ExtentIn(mem \o object, Len(mem) + 1) \subseteq Len(mem) + 1 .. Len(mem) + Len(object)

IsOf(object, kind, items) ==
  LET w == mem \o object
      r == Len(mem) + 1
  IN /\ ContentsIn(w, r) = [kind |-> kind, items |-> items]
     /\ w[r].n = TYPE_ARRAY => ValuesAt(w, r + 2, w[r + 1].n)

(* The program has made a collection c.                                    *)
MadeOne(c) ==
  /\ Held!Ready /\ Len(colls) < MaxObjects
  /\ colls' = Append(colls, c) /\ Loops' = Loops

(* Cells that other objects have stay, and with them all that is read.     *)
LEMMA UnwrittenStays ==
  ASSUME NEW m, NEW w, NEW R, NEW L, Good(m, R, L), Good(w, R, L), Valued(m, R, L),
         Unwritten(m, w, R, L), DOMAIN m \subseteq DOMAIN w
  PROVE  /\ CollsOf(w, R) = CollsOf(m, R) /\ LoopsOf(w, R, L) = LoopsOf(m, R, L)
         /\ Valued(w, R, L)
<1>1. \A r \in Range(R) : ExtentIn(w, r) = ExtentIn(m, r)
  <2> SUFFICES ASSUME NEW r \in Range(R) PROVE ExtentIn(w, r) = ExtentIn(m, r)
    OBVIOUS
  <2>1. m \in Seq(Cell) /\ w \in Seq(Cell) /\ SoundIn(m, r) /\ ExtentIn(m, r) \subseteq DOMAIN m
    BY GoodParts
  <2>2. \A c \in ExtentIn(m, r) : c \in DOMAIN w /\ w[c] = m[c]
    BY <2>1 DEF Unwritten
  <2> QED BY <2>1, <2>2, SoundSame
<1> QED BY <1>1, SameColls, SameLoopsRead, StaysValued

(* What a native reads and has kept lies in the heap.                      *)
LEMMA NativeInside ==
  ASSUME NEW m \in Seq(Cell), NEW l \in LoopType, FillsIn(m, l), SoundIn(m, l.arr)
  PROVE  ReadsOf(l) \subseteq DOMAIN m /\ l.res + 2 .. l.res + 1 + l.kept \subseteq Results(l)
<1> DEFINE r == l.arr
           n == l.len
           a == l.res
           k == l.kept
           i == l.idx
<1>1. r \in Nat \ {0} /\ n \in Nat /\ a \in Nat /\ k \in Nat /\ i \in Nat /\ Len(m) \in Nat /\ DOMAIN m = 1 .. Len(m)
  BY DEF LoopType, SoundIn
<1>2. r + 1 + n <= Len(m) /\ k <= i /\ i <= n
  BY DEF FillsIn
<1>3. ReadsOf(l) = r .. r + 1 + n /\ Results(l) = a .. a + 1 + n
  BY DEF ReadsOf, Results
<1> HIDE DEF r, n, a, k, i
<1>4. r .. r + 1 + n \subseteq DOMAIN m
  BY <1>1, <1>2
<1>5. a + 2 .. a + 1 + k \subseteq a .. a + 1 + n
  BY <1>1, <1>2
<1> QED BY <1>3, <1>4, <1>5 DEF a, k

(* The heap grows.                                                         *)
LEMMA HeapGrownMapped ==
  ASSUME Inv, Mapped, NEW s \in Seq(Cell), Len(mem) + Len(s) < MAX_HEAP
  PROVE  /\ Good(mem \o s, refs, loops) /\ Valued(mem \o s, refs, loops)
         /\ mem \o s \in Seq(Cell) /\ Len(mem \o s) = Len(mem) + Len(s)
         /\ \A c \in DOMAIN mem : (mem \o s)[c] = mem[c]
         /\ CollsOf(mem \o s, refs) = CollsOf(mem, refs)
         /\ LoopsOf(mem \o s, refs, loops) = LoopsOf(mem, refs, loops)
         /\ \A i \in NativesOf(loops) : ReadsOf(loops[i]) \subseteq DOMAIN mem
         /\ \A q \in Range(refs) : ExtentIn(mem \o s, q) = ExtentIn(mem, q) /\ ExtentIn(mem, q) \subseteq DOMAIN mem
<1> DEFINE w == mem \o s
<1>3. Good(mem, refs, loops) /\ Valued(mem, refs, loops) /\ mem \in Seq(Cell)
  BY LoopsAreLoops DEF Inv, Mapped
<1>4. /\ Good(w, refs, loops) /\ w \in Seq(Cell) /\ Len(w) = Len(mem) + Len(s)
      /\ \A c \in DOMAIN mem : w[c] = mem[c]
      /\ \A q \in Range(refs) : ExtentIn(w, q) = ExtentIn(mem, q) /\ ExtentIn(mem, q) \subseteq DOMAIN mem
      /\ \A i \in NativesOf(loops) : Results(loops[i]) \subseteq DOMAIN mem
  BY <1>3, HeapGrows
<1> HIDE DEF w
<1>5. \A i \in NativesOf(loops) : ReadsOf(loops[i]) \subseteq DOMAIN mem
  BY <1>3, GoodParts, NativeInside
<1>6. Unwritten(mem, w, refs, loops)
  <2>1. ASSUME NEW i \in NativesOf(loops)
        PROVE  \A c \in loops[i].res + 2 .. loops[i].res + 1 + loops[i].kept : w[c] = mem[c]
    <3>1. loops[i].res + 2 .. loops[i].res + 1 + loops[i].kept \subseteq Results(loops[i])
      BY <1>3, GoodParts, NativeInside
    <3> QED BY <1>4, <3>1
  <2> QED BY <1>4, <1>5, <2>1 DEF Unwritten
<1>7. DOMAIN mem \subseteq DOMAIN w
  BY <1>3, <1>4
<1>8. /\ CollsOf(w, refs) = CollsOf(mem, refs) /\ LoopsOf(w, refs, loops) = LoopsOf(mem, refs, loops)
      /\ Valued(w, refs, loops)
  BY <1>3, <1>4, <1>6, <1>7, UnwrittenStays
<1> QED BY <1>4, <1>5, <1>8 DEF w

LEMMA MakesMapped ==
  ASSUME Inv, Mapped, NEW object, NEW kind, NEW items,
         Makes(object), NewObject(object), IsOf(object, kind, items)
  PROVE  Mapped' /\ MadeOne([kind |-> kind, items |-> items])
<1> DEFINE r == Len(mem) + 1
           w == mem \o object
<1>1. /\ Len(mem) + Len(object) < MAX_HEAP /\ Len(refs) < MaxObjects /\ Ready
      /\ mem' = w /\ refs' = Append(refs, r) /\ loops' = loops /\ Watch
  BY DEF Makes, HasRoom
<1>2. object \in Seq(Cell) /\ Inv'
  BY MakesGood DEF NewObject
<1>3. Good(mem, refs, loops) /\ Valued(mem, refs, loops) /\ mem \in Seq(Cell) /\ refs \in Seq(Nat)
  BY LoopsAreLoops DEF Inv, Mapped
<1>4. /\ Good(w, refs, loops) /\ Valued(w, refs, loops)
      /\ \A i \in NativesOf(loops) : ReadsOf(loops[i]) \subseteq DOMAIN mem
      /\ CollsOf(w, refs) = CollsOf(mem, refs) /\ LoopsOf(w, refs, loops) = LoopsOf(mem, refs, loops)
  BY <1>1, <1>2, HeapGrownMapped
<1> HIDE DEF w
<1>8. Good(w, Append(refs, r), loops)
  BY <1>1, <1>2 DEF Inv
<1>9. Fresh(w, loops, r)
  <2>1. w[r].n = TYPE_ARRAY => ValuesAt(w, r + 2, w[r + 1].n)
    BY DEF IsOf, w
  <2>2. ExtentIn(w, r) \subseteq r .. Len(mem) + Len(object)
    BY DEF NewObject, w
  <2>3. DOMAIN mem \cap (r .. Len(mem) + Len(object)) = {}
    BY <1>2, <1>3
  <2> QED BY <1>4, <2>1, <2>2, <2>3 DEF Fresh
<1>10. ContentsIn(w, r) = [kind |-> kind, items |-> items]
  BY DEF IsOf, w
<1>11. r \in Nat
  BY <1>3
<1> HIDE DEF r
<1>12. /\ Valued(w, Append(refs, r), loops)
       /\ LoopsOf(w, Append(refs, r), loops) = LoopsOf(w, refs, loops)
       /\ CollsOf(w, Append(refs, r)) = Append(CollsOf(w, refs), ContentsIn(w, r))
  BY <1>4, <1>8, <1>9, <1>11, RefAdded
<1>13. colls' = CollsOf(mem', refs')
  BY <1>1, <1>2, Watched
<1>14. Mapped' /\ Loops' = Loops /\ colls' = Append(colls, [kind |-> kind, items |-> items])
  BY <1>1, <1>3, <1>4, <1>10, <1>12, <1>13 DEF Mapped, Loops
<1>15. Held!Ready /\ Len(colls) < MaxObjects
  BY <1>1, InBody, CollsCount
<1> QED BY <1>14, <1>15 DEF MadeOne
-----------------------------------------------------------------------------
Numbered(s) == [i \in 1 .. Len(s) |-> Num(s[i])]

LEMMA MakesArrayMapped ==
  ASSUME Inv, Mapped, NEW items \in Seq(Value), Makes(Array(items))
  PROVE  Mapped' /\ MadeOne([kind |-> "array", items |-> items])
<1>1. items \in Seq(Cell) /\ \A i \in 1 .. Len(items) : items[i] \in Value
  <2>1. Value \subseteq Cell
    BY RawCells
  <2>2. Len(items) \in Nat /\ items \in [1 .. Len(items) -> Value]
    OBVIOUS
  <2>3. items \in [1 .. Len(items) -> Cell]
    BY <2>1, <2>2
  <2> QED BY <2>2, <2>3, FunctionIsSeq
<1>2. Len(mem) + Len(Array(items)) < MAX_HEAP
  BY DEF Makes, HasRoom
<1>3. NewObject(Array(items))
  <2>1. /\ Array(items) \in Seq(Cell) /\ SoundIn(mem \o Array(items), Len(mem) + 1)
        /\ ExtentIn(mem \o Array(items), Len(mem) + 1) = Len(mem) + 1 .. Len(mem) + Len(Array(items))
    BY <1>1, <1>2, ArrayIsSound DEF Inv
  <2> QED BY <2>1 DEF NewObject
<1>4. IsOf(Array(items), "array", items)
  <2>1. mem \in Seq(Cell)
    BY LoopsAreLoops
  <2> QED BY <1>1, <2>1, ArrayReads DEF IsOf
<1> QED BY <1>3, <1>4, MakesMapped

LEMMA MakesBytesMapped ==
  ASSUME Inv, Mapped, NEW bytes \in Seq(0 .. BYTE - 1), Makes(Bytes(bytes))
  PROVE  Mapped' /\ MadeOne([kind |-> "bytes", items |-> Numbered(bytes)])
<1>2. Len(mem) + Len(Bytes(bytes)) < MAX_HEAP
  BY DEF Makes, HasRoom
<1>3. NewObject(Bytes(bytes))
  <2>1. /\ Bytes(bytes) \in Seq(Cell) /\ SoundIn(mem \o Bytes(bytes), Len(mem) + 1)
        /\ ExtentIn(mem \o Bytes(bytes), Len(mem) + 1) = Len(mem) + 1 .. Len(mem) + Len(Bytes(bytes))
    BY <1>2, BytesAreSound DEF Inv
  <2> QED BY <2>1 DEF NewObject
<1>4. IsOf(Bytes(bytes), "bytes", Numbered(bytes))
  <2>1. mem \in Seq(Cell)
    BY LoopsAreLoops
  <2> QED BY <2>1, BytesRead DEF IsOf, Numbered
<1> QED BY <1>3, <1>4, MakesMapped

LEMMA WrittenItems ==
  ASSUME NEW items \in Written
  PROVE  \E n \in 0 .. MaxItems : n \in Nat /\ items \in [1 .. n -> Value] /\ DOMAIN items = 1 .. n /\ items \in Seq(Value)
                                  /\ Len(items) = n
<1>1. PICK n \in 0 .. MaxItems : items \in [1 .. n -> Literals]
  BY DEF Written
<1>2. n \in Nat /\ items \in [1 .. n -> Value]
  BY <1>1, ContainerConstants
<1>3. items \in Seq(Value) /\ Len(items) = n
  BY <1>2, FunctionIsSeq
<1> QED BY <1>1, <1>2, <1>3

LEMMA MakeArrayMapped ==
  ASSUME Inv, Mapped, NEW items \in Written, MakeArray(items)
  PROVE  Mapped' /\ Held!Next
<1>1. PICK n \in 0 .. MaxItems : items \in [1 .. n -> Value] /\ items \in Seq(Value)
  BY WrittenItems
<1>2. Mapped' /\ MadeOne([kind |-> "array", items |-> items])
  BY <1>1, MakesArrayMapped DEF MakeArray
<1>3. Held!New("array", items)
  BY <1>2, LoopsAreSeen, LoopsAreSeenNext
  DEF LoopsSeen, MadeOne, MakeArray, Asked, Held!New, Held!Asked, Held!Made, Held!Coll
<1>4. Held!Making
  BY <1>1, <1>2, <1>3 DEF MadeOne, Held!Making
<1> QED BY <1>2, <1>4 DEF MadeOne, Held!Next

LEMMA MakeBytesMapped ==
  ASSUME Inv, Mapped, NEW nums \in Written, MakeBytes(nums)
  PROVE  Mapped' /\ Held!Next
<1> DEFINE bytes == [i \in DOMAIN nums |-> nums[i].n % BYTE]
           items == [p \in DOMAIN nums |-> StoredByte(nums[p])]
<1>1. PICK n \in 0 .. MaxItems : n \in Nat /\ nums \in [1 .. n -> Value] /\ DOMAIN nums = 1 .. n
  BY WrittenItems
<1>2. \A i \in 1 .. n : (nums[i].n % BYTE) \in 0 .. BYTE - 1
  <2>1. \A v \in Value : v.n \in Nat
    BY ContainerConstants
  <2>2. \A k \in Nat : (k % BYTE) \in 0 .. BYTE - 1
    BY ContainerConstants
  <2> QED BY <1>1, <2>1, <2>2
<1>3. bytes \in [1 .. n -> 0 .. BYTE - 1]
  BY <1>1, <1>2
<1>4. Makes(Bytes(bytes))
  BY DEF MakeBytes
<1>5. items = [i \in 1 .. n |-> Num(bytes[i])]
  BY <1>1 DEF StoredByte
<1> HIDE DEF bytes, items
<1>6. bytes \in Seq(0 .. BYTE - 1) /\ Len(bytes) = n
  <2>1. n \in Nat
    BY <1>1
  <2> QED BY <2>1, <1>3, FunctionIsSeq
<1>7. Numbered(bytes) = items
  BY <1>5, <1>6 DEF Numbered
<1>8. Mapped' /\ MadeOne([kind |-> "bytes", items |-> items])
  BY <1>4, <1>6, <1>7, MakesBytesMapped
<1>9. Held!New("bytes", nums)
  BY <1>8, LoopsAreSeen, LoopsAreSeenNext
  DEF LoopsSeen, MadeOne, MakeBytes, Asked, Held!New, Held!Asked, Held!Made, Held!Coll, items
<1>10. Held!Making
  BY <1>1, <1>8, <1>9 DEF MadeOne, Held!Making
<1> QED BY <1>8, <1>10 DEF MadeOne, Held!Next

LEMMA MakeMapMapped ==
  ASSUME Inv, Mapped, MakeMap
  PROVE  Mapped' /\ Held!Next
<1>1. Makes(MapCells(Len(mem)))
  BY DEF MakeMap, MapCells
<1>2. Len(mem) + Len(MapCells(Len(mem))) < MAX_HEAP
  BY <1>1 DEF Makes, HasRoom
<1>3. NewObject(MapCells(Len(mem)))
  BY <1>2, MapIsSound DEF Inv, NewObject
<1>4. IsOf(MapCells(Len(mem)), "map", <<>>)
  BY <1>2, MapReads DEF Inv, IsOf
<1>5. Mapped' /\ MadeOne([kind |-> "map", items |-> <<>>])
  BY <1>1, <1>3, <1>4, MakesMapped
<1>6. Held!New("map", <<>>)
  BY <1>5, LoopsAreSeen, LoopsAreSeenNext
  DEF LoopsSeen, MadeOne, MakeMap, Asked, Held!New, Held!Asked, Held!Made, Held!Coll
<1>7. Held!Making
  BY <1>5, <1>6 DEF MadeOne, Held!Making
<1> QED BY <1>5, <1>7 DEF MadeOne, Held!Next

LEMMA TheSameMinMax ==
  \A S : Held!Min(S) = Min(S) /\ Held!Max(S) = Max(S)
BY DEF Held!Min, Min, Held!Max, Max

LEMMA MakeRangeMapped ==
  ASSUME Inv, Mapped, NEW a \in Index, NEW b \in Index,
         {Num(n) : n \in (a .. b) \cup (b .. a)} \subseteq Value, MakeRange(a, b)
  PROVE  Mapped' /\ Held!Next
<1> DEFINE step == IF b >= a THEN 1 ELSE -1
           count == step * (b - a) + 1
           items == [i \in 1 .. count |-> Num(a + (i - 1) * step)]
           made == [p \in 1 .. Held!Max({a - b, b - a}) + 1 |->
                      [t |-> "num", n |-> IF a <= b THEN a + p - 1 ELSE a - p + 1]]
<1>1. a \in Int /\ b \in Int
  BY ContainerConstants
<1>2. step \in Int /\ count \in Nat
  BY <1>1
<1>3. Makes(Array(items))
  BY DEF MakeRange
<1>4. \A i \in 1 .. count : /\ a + (i - 1) * step \in (a .. b) \cup (b .. a)
                            /\ a + (i - 1) * step = IF a <= b THEN a + i - 1 ELSE a - i + 1
  BY <1>1
<1>5. Held!Max({a - b, b - a}) + 1 = count
  <2>1. a - b \in Int /\ b - a \in Int
    BY <1>1
  <2>2. Held!Max({a - b, b - a}) = IF a - b <= b - a THEN b - a ELSE a - b
    BY <2>1, OfTwo, TheSameMinMax
  <2> QED BY <1>1, <2>2
<1> HIDE DEF step, count
<1>6. items \in [1 .. count -> Value]
  BY <1>4
<1>7. items = made
  BY <1>4, <1>5 DEF Num
<1> HIDE DEF items, made
<1>8. items \in Seq(Value)
  BY <1>2, <1>6, FunctionIsSeq
<1>9. Mapped' /\ MadeOne([kind |-> "array", items |-> made])
  BY <1>3, <1>7, <1>8, MakesArrayMapped
<1>10. Held!MakeRange(a, b)
  BY <1>9, LoopsAreSeen, LoopsAreSeenNext
  DEF LoopsSeen, MadeOne, MakeRange, Asked, Held!MakeRange, Held!Asked, Held!Made, Held!Coll, made
<1>11. Held!Making
  BY <1>9, <1>10 DEF MadeOne, Held!Making
<1> QED BY <1>9, <1>11 DEF MadeOne, Held!Next

LEMMA ArrayItems ==
  ASSUME Inv, Mapped, NEW r \in OfType(Listed), Type(r) = TYPE_ARRAY
  PROVE  ItemsAt(r) = ItemsIn(mem, r) /\ ItemsAt(r) \in Seq(Value)
<1>1. Contents(r) = ContentsIn(mem, r)
  BY InvReading, ListMapped DEF Reading
<1>2. Contents(r) = [kind |-> "array", items |-> ItemsAt(r)]
  BY TypesDiffer DEF Contents
<1>3. ItemsAt(r) = ItemsIn(mem, r)
  BY <1>1, <1>2 DEF ContentsIn
<1> DEFINE n == Length(r)
           s == ItemsIn(mem, r)
<1>4. n \in Nat /\ s = [i \in 1 .. n |-> Item(r, i - 1)] /\ \A i \in 1 .. n : s[i] \in Value
  BY ListMapped
<1> HIDE DEF n, s
<1>5. s \in [1 .. n -> Value]
  BY <1>4
<1>6. s \in Seq(Value)
  BY <1>4, <1>5, FunctionIsSeq
<1> QED BY <1>3, <1>6 DEF s

LEMMA BytesItems ==
  ASSUME Inv, Mapped, NEW r \in OfType(Listed), Type(r) = TYPE_BYTES
  PROVE  /\ ItemsIn(mem, r) = Numbered(BytesOf(r))
         /\ BytesOf(r) \in Seq(0 .. BYTE - 1) /\ Len(BytesOf(r)) = Length(r)
<1>1. BytesOf(r) \in Seq(0 .. BYTE - 1) /\ Len(BytesOf(r)) = Length(r)
  BY ListIsAt, BytesOfIs
<1> QED BY <1>1, ListMapped DEF Numbered

LEMMA NumberedJoined ==
  ASSUME NEW s \in Seq(0 .. BYTE - 1), NEW t \in Seq(0 .. BYTE - 1)
  PROVE  Numbered(s \o t) = Numbered(s) \o Numbered(t)
<1> DEFINE B == 0 .. BYTE - 1
           N == {Num(b) : b \in B}
           x == Numbered(s)
           y == Numbered(t)
           u == s \o t
           j == Len(s)
           k == Len(t)
<1>1. u \in Seq(B) /\ Len(u) = j + k /\ \A i \in 1 .. j + k : u[i] = IF i <= j THEN s[i] ELSE t[i - j]
  BY Concatenated
<1>2. j \in Nat /\ k \in Nat /\ (\A i \in 1 .. j : s[i] \in B) /\ (\A i \in 1 .. k : t[i] \in B)
  <2>1. s \in Seq(B) /\ t \in Seq(B)
    OBVIOUS
  <2> HIDE DEF B, N, x, y, u
  <2> QED BY <2>1
<1>3. x = [i \in 1 .. j |-> Num(s[i])] /\ y = [i \in 1 .. k |-> Num(t[i])] /\ Numbered(u) = [i \in 1 .. j + k |-> Num(u[i])]
  BY <1>1 DEF Numbered
<1> HIDE DEF j, k, u, x, y
<1>4. x \in [1 .. j -> N] /\ y \in [1 .. k -> N]
  BY <1>2, <1>3
<1> HIDE DEF N
<1>5. x \in Seq(N) /\ Len(x) = j /\ y \in Seq(N) /\ Len(y) = k
  BY <1>2, <1>4, FunctionIsSeq
<1>6. x \o y \in Seq(N) /\ Len(x \o y) = j + k /\ \A i \in 1 .. j + k : (x \o y)[i] = IF i <= j THEN x[i] ELSE y[i - j]
  BY <1>5, Concatenated
<1>7. \A i \in 1 .. j + k : (x \o y)[i] = Num(u[i])
  <2> SUFFICES ASSUME NEW i \in 1 .. j + k PROVE (x \o y)[i] = Num(u[i])
    OBVIOUS
  <2>1. CASE i <= j
    BY <1>1, <1>2, <1>3, <1>6, <2>1
  <2>2. CASE ~(i <= j)
    <3>1. i - j \in 1 .. k
      BY <1>2, <2>2
    <3> QED BY <1>1, <1>3, <1>6, <2>2, <3>1
  <2> QED BY <2>1, <2>2
<1> DEFINE z == x \o y
<1> HIDE DEF z
<1>8. z = [i \in 1 .. j + k |-> z[i]]
  <2>1. z \in Seq(N) /\ Len(z) = j + k
    BY <1>6 DEF z
  <2> QED BY <2>1
<1>9. z = [i \in 1 .. j + k |-> Num(u[i])]
  BY <1>7, <1>8 DEF z
<1> QED BY <1>3, <1>9 DEF z, x, y, u

LEMMA ConcatMapped ==
  ASSUME Inv, Mapped, NEW r \in OfType(Listed), NEW q \in OfType({Type(r)}), Concat(r, q)
  PROVE  Mapped' /\ Held!Next
<1> DEFINE x == ItemsIn(mem, r)
           y == ItemsIn(mem, q)
<1>1. Type(q) = Type(r) /\ Type(r) \in Listed /\ q \in OfType(Listed)
  BY DEF OfType
<1>2. r \in Range(refs) /\ q \in Range(refs)
  BY <1>1, ListMapped
<1>3. /\ Of(r) \in DOMAIN colls /\ colls[Of(r)] = [kind |-> KindIn(mem, r), items |-> x] /\ Held!ItemsOf(Of(r)) = x
      /\ Of(q) \in DOMAIN colls /\ colls[Of(q)] = [kind |-> KindIn(mem, q), items |-> y] /\ Held!ItemsOf(Of(q)) = y
  BY <1>2, ObjectMapped
<1>4. KindIn(mem, q) = KindIn(mem, r) /\ KindIn(mem, r) \in {"array", "bytes"}
  <2>1. mem[q].n = mem[r].n /\ mem[r].n \in Listed
    BY <1>1 DEF Type
  <2> QED BY <2>1 DEF KindIn, Listed
<1>5. Mapped' /\ MadeOne([kind |-> KindIn(mem, r), items |-> x \o y])
  <2>1. CASE Type(r) = TYPE_ARRAY
    <3>1. ItemsAt(r) = x /\ ItemsAt(q) = y /\ x \in Seq(Value) /\ y \in Seq(Value)
      BY <1>1, <2>1, ArrayItems
    <3>2. Makes(Array(x \o y))
      BY <2>1, <3>1 DEF Concat
    <3>3. KindIn(mem, r) = "array"
      BY <2>1 DEF KindIn, Type
    <3> HIDE DEF x, y
    <3>4. x \o y \in Seq(Value)
      BY <3>1, Concatenated
    <3> QED BY <3>2, <3>3, <3>4, MakesArrayMapped
  <2>2. CASE Type(r) = TYPE_BYTES
    <3> DEFINE s == BytesOf(r)
               t == BytesOf(q)
    <3>1. x = Numbered(s) /\ y = Numbered(t) /\ s \in Seq(0 .. BYTE - 1) /\ t \in Seq(0 .. BYTE - 1)
      BY <1>1, <2>2, BytesItems
    <3>2. Makes(Bytes(s \o t))
      BY <2>2, TypesDiffer DEF Concat
    <3>3. KindIn(mem, r) = "bytes"
      BY <2>2, TypesDiffer DEF KindIn, Type
    <3> HIDE DEF x, y, s, t
    <3>4. s \o t \in Seq(0 .. BYTE - 1) /\ Numbered(s \o t) = x \o y
      BY <3>1, Concatenated, NumberedJoined
    <3> QED BY <3>2, <3>3, <3>4, MakesBytesMapped
  <2> QED BY <1>1, <2>1, <2>2 DEF Listed
<1> HIDE DEF x, y
<1>6. Held!Concat(Of(r), Of(q))
  BY <1>3, <1>5, LoopsAreSeen, LoopsAreSeenNext
  DEF LoopsSeen, MadeOne, Concat, Asked, Held!Concat, Held!Asked, Held!Made, Held!Coll
<1>7. Of(r) \in Held!OfKind({"array", "bytes"}) /\ Of(q) \in Held!OfKind({colls[Of(r)].kind})
  BY <1>3, <1>4 DEF Held!OfKind
<1>8. Held!Making
  BY <1>5, <1>6, <1>7 DEF MadeOne, Held!Making
<1> QED BY <1>5, <1>8 DEF MadeOne, Held!Next

LEMMA BroadcastMapped ==
  ASSUME Inv, Mapped, NEW r \in OfType(Listed), NEW v \in Literals,
         Sums(r, v) \subseteq Value, Broadcast(r, v)
  PROVE  Mapped' /\ Held!Next
<1> DEFINE n == Length(r)
           x == ItemsIn(mem, r)
           items == [i \in 1 .. n |-> Plus(Item(r, i - 1), v)]
<1>1. /\ r \in Range(refs) /\ n \in Nat /\ Type(r) \in Listed /\ x = [i \in 1 .. n |-> Item(r, i - 1)] /\ Len(x) = n
  BY ListMapped
<1>2. \A i \in 1 .. n : Plus(Item(r, i - 1), v) \in Value
  <2>1. \A i \in 1 .. n : i - 1 \in 0 .. n - 1
    BY <1>1
  <2> QED BY <2>1 DEF Sums
<1>3. Makes(Array(items))
  BY DEF Broadcast
<1>4. /\ Of(r) \in DOMAIN colls /\ colls[Of(r)] = [kind |-> KindIn(mem, r), items |-> x] /\ Held!ItemsOf(Of(r)) = x
      /\ Held!Size(Of(r)) = n
  BY <1>1, ObjectMapped
<1>5. KindIn(mem, r) \in {"array", "bytes"}
  BY <1>1 DEF KindIn, Listed, Type
<1>6. items \in [1 .. n -> Value] /\ items = [p \in 1 .. n |-> Plus(x[p], v)]
  BY <1>1, <1>2
<1> HIDE DEF n, x, items
<1>7. items \in Seq(Value)
  BY <1>1, <1>6, FunctionIsSeq
<1>8. Mapped' /\ MadeOne([kind |-> "array", items |-> items])
  BY <1>3, <1>7, MakesArrayMapped
<1>9. Held!AddToAll(Of(r), v)
  BY <1>4, <1>6, <1>8, LoopsAreSeen, LoopsAreSeenNext
  DEF LoopsSeen, MadeOne, Broadcast, Asked, Held!AddToAll, Held!Asked, Held!Made, Held!Coll
<1>10. Of(r) \in Held!OfKind({"array", "bytes"}) /\ v \in Value
  BY <1>4, <1>5, ContainerConstants DEF Held!OfKind
<1>11. Held!Making
  BY <1>8, <1>9, <1>10 DEF MadeOne, Held!Making
<1> QED BY <1>8, <1>11 DEF MadeOne, Held!Next
-----------------------------------------------------------------------------
(* Numbers kept within bounds.                                             *)
LEMMA Within ==
  ASSUME NEW lo \in Int, NEW hi \in Int, NEW p \in Int
  PROVE  /\ Max({lo, p}) = IF p >= lo THEN p ELSE lo
         /\ Min({hi, Max({lo, p})}) = IF p >= lo THEN (IF hi <= p THEN hi ELSE p) ELSE IF hi <= lo THEN hi ELSE lo
<1> DEFINE z == Max({lo, p})
<1>1. z = IF p >= lo THEN p ELSE lo
  <2>1. z = IF lo <= p THEN p ELSE lo
    BY OfTwo
  <2> HIDE DEF z
  <2> QED BY <2>1
<1> HIDE DEF z
<1>4. Min({hi, z}) = IF hi <= z THEN hi ELSE z
  BY <1>1, OfTwo
<1>6. Min({hi, z}) = IF p >= lo THEN (IF hi <= p THEN hi ELSE p) ELSE IF hi <= lo THEN hi ELSE lo
  BY <1>1, <1>4
<1> QED BY <1>1, <1>6 DEF z

LEMMA ClampIs ==
  ASSUME NEW lo \in Int, NEW hi \in Int, NEW p \in Int
  PROVE  Held!Clamp(p, lo, hi) =
           IF hi <= p THEN (IF lo <= hi THEN hi ELSE lo) ELSE IF lo <= p THEN p ELSE lo
<1> DEFINE y == Min({hi, p})
<1>1. Held!Clamp(p, lo, hi) = Held!Max({lo, Held!Min({p, hi})})
  BY DEF Held!Clamp
<1>2. {p, hi} = {hi, p}
  OBVIOUS
<1>3. Held!Clamp(p, lo, hi) = Max({lo, y})
  BY <1>1, <1>2, TheSameMinMax, Zenon
<1>4. y = IF hi <= p THEN hi ELSE p
  BY OfTwo
<1> HIDE DEF y
<1>5. Max({lo, y}) = IF lo <= y THEN y ELSE lo
  BY <1>4, OfTwo
<1> QED BY <1>3, <1>4, <1>5

(* Blocks of an array are parts of its items.                              *)
IsPart(r, at, k, a, b) ==
  /\ a \in Nat \ {0} /\ b \in Int /\ b <= Length(r) /\ k <= Length(r)
  /\ at = r + 1 + a /\ k = b - a + 1

LEMMA BlockIsPart ==
  ASSUME Inv, Mapped, NEW r \in OfType(Listed), Type(r) = TYPE_ARRAY,
         NEW at, NEW k, NEW a, NEW b, IsPart(r, at, k, a, b)
  PROVE  /\ Block(at, k) = SubSeq(ItemsIn(mem, r), a, b)
         /\ SubSeq(ItemsIn(mem, r), a, b) \in Seq(Value)
         /\ Len(SubSeq(ItemsIn(mem, r), a, b)) = IF k > 0 THEN k ELSE 0
<1> DEFINE n == Length(r)
           x == ItemsIn(mem, r)
<1>1. n \in Nat /\ Len(x) = n /\ \A i \in 1 .. n : x[i] = mem[r + 1 + i]
  BY ListMapped
<1>2. x \in Seq(Value)
  BY ArrayItems
<1>3. mem \in Seq(Cell) /\ r \in Nat /\ r + 1 + n <= Len(mem) /\ Len(mem) \in Nat
  BY ListIsAt DEF ListAt
<1>0. b <= n /\ a \in Nat \ {0} /\ b \in Int /\ at = r + 1 + a /\ k = b - a + 1 /\ k <= n
  BY DEF IsPart
<1> HIDE DEF n, x
<1>4. SubSeq(x, a, b) = [i \in 1 .. k |-> x[a + i - 1]]
  BY <1>0, <1>1, <1>2
<1>5. Block(at, k) = [i \in 1 .. k |-> mem[at + i - 1]]
  <2>1. Block(at, k) = SubSeq(mem, at, at + k - 1)
    BY DEF Block
  <2> DEFINE t == at + k - 1
  <2>2. at \in Nat /\ t \in Int /\ k = t - at + 1
    BY <1>0, <1>3
  <2>3. t <= Len(mem)
    BY <1>0, <1>1, <1>3
  <2>4. SubSeq(mem, at, t) = [i \in 1 .. k |-> mem[at + i - 1]]
    <3> HIDE DEF t
    <3> QED BY <1>3, <2>2, <2>3
  <2> QED BY <2>1, <2>4
<1>6. \A i \in 1 .. k : a + i - 1 \in 1 .. n /\ r + 1 + (a + i - 1) = at + i - 1
  BY <1>0, <1>1, <1>3
<1>7. Block(at, k) = SubSeq(x, a, b)
  <2>1. \A i \in 1 .. k : x[a + i - 1] = mem[at + i - 1]
    <3> SUFFICES ASSUME NEW i \in 1 .. k PROVE x[a + i - 1] = mem[at + i - 1]
      OBVIOUS
    <3> DEFINE j == a + i - 1
    <3>1. j \in 1 .. n /\ r + 1 + j = at + i - 1
      BY <1>6
    <3> HIDE DEF j
    <3>2. x[j] = mem[at + i - 1]
      BY <1>1, <3>1
    <3> QED BY <3>2 DEF j
  <2> QED BY <1>4, <1>5, <2>1
<1>8. SubSeq(x, a, b) \in Seq(Value) /\ Len(SubSeq(x, a, b)) = IF a <= b THEN b - a + 1 ELSE 0
  BY <1>0, <1>1, <1>2, Subsequence
<1>9. Len(SubSeq(x, a, b)) = IF k > 0 THEN k ELSE 0
  BY <1>0, <1>8
<1> QED BY <1>7, <1>8, <1>9 DEF x

LEMMA AddMapped ==
  ASSUME Inv, Mapped, NEW r \in OfType({TYPE_ARRAY}), NEW n \in Index, NEW v \in Literals, Add(r, n, v)
  PROVE  Mapped' /\ Held!Next
<1> DEFINE len == Length(r)
           x == ItemsIn(mem, r)
           idx == Min({len, Max({0, FromEnd(n, len)})})
           at == Held!Clamp(Held!Place(n, len), 0, len) + 1
           left == SubSeq(x, 1, idx)
           right == SubSeq(x, idx + 1, len)
<1>1. r \in OfType(Listed) /\ Type(r) = TYPE_ARRAY
  BY DEF OfType, Listed
<1>2. r \in Range(refs) /\ len \in Nat /\ Len(x) = len /\ KindIn(mem, r) = "array"
  BY <1>1, ListMapped
<1>3. /\ Of(r) \in DOMAIN colls /\ colls[Of(r)] = [kind |-> "array", items |-> x] /\ Held!ItemsOf(Of(r)) = x
      /\ Held!Size(Of(r)) = len
  BY <1>2, ObjectMapped
<1>4. Makes(Array(Block(r + 2, idx) \o <<v>> \o Block(r + 2 + idx, len - idx)))
  BY DEF Add
<1>5. idx \in 0 .. len /\ at = idx + 1
  <2> DEFINE p == FromEnd(n, len)
  <2>1. p \in Int /\ Held!Place(n, len) = p
    BY <1>2, ContainerConstants DEF FromEnd, Held!Place
  <2> HIDE DEF p, len
  <2>2. 0 \in Int /\ len \in Int
    BY <1>2
  <2>3. Min({len, Max({0, p})}) = IF p >= 0 THEN (IF len <= p THEN len ELSE p) ELSE IF len <= 0 THEN len ELSE 0
    BY <2>1, <2>2, Within
  <2>4. Held!Clamp(p, 0, len) = IF len <= p THEN (IF 0 <= len THEN len ELSE 0) ELSE IF 0 <= p THEN p ELSE 0
    BY <2>1, <2>2, ClampIs
  <2>6. idx = Min({len, Max({0, p})}) /\ at = Held!Clamp(p, 0, len) + 1
    BY <2>1 DEF p
  <2> HIDE DEF idx, at
  <2>7. idx = IF p >= 0 THEN (IF len <= p THEN len ELSE p) ELSE 0
    BY <1>2, <2>1, <2>3, <2>6
  <2>8. at = (IF p >= 0 THEN (IF len <= p THEN len ELSE p) ELSE 0) + 1
    BY <1>2, <2>1, <2>4, <2>6
  <2> QED BY <1>2, <2>1, <2>7, <2>8
<1>0. r \in Nat
  BY <1>1, ListIsAt DEF ListAt
<1>6. Block(r + 2, idx) = left /\ left \in Seq(Value) /\ Len(left) = idx
  <2> HIDE DEF idx
  <2> DEFINE one == 1
             start == r + 2
  <2>1. IsPart(r, start, idx, one, idx)
    BY <1>0, <1>2, <1>5 DEF IsPart
  <2> HIDE DEF one, start
  <2>2. /\ Block(start, idx) = SubSeq(x, one, idx) /\ SubSeq(x, one, idx) \in Seq(Value)
        /\ Len(SubSeq(x, one, idx)) = IF idx > 0 THEN idx ELSE 0
    BY <1>1, <2>1, BlockIsPart
  <2>3. Block(r + 2, idx) = left /\ left \in Seq(Value) /\ Len(left) = IF idx > 0 THEN idx ELSE 0
    BY <2>2 DEF one, start
  <2> HIDE DEF left, len
  <2> QED BY <1>2, <1>5, <2>3
<1>7. Block(r + 2 + idx, len - idx) = right /\ right \in Seq(Value) /\ Len(right) = len - idx
  <2> HIDE DEF idx
  <2>1. IsPart(r, r + 2 + idx, len - idx, idx + 1, len)
    BY <1>0, <1>2, <1>5 DEF IsPart
  <2>2. /\ Block(r + 2 + idx, len - idx) = right /\ right \in Seq(Value)
        /\ Len(right) = IF len - idx > 0 THEN len - idx ELSE 0
    BY <1>1, <2>1, BlockIsPart
  <2> HIDE DEF right, len
  <2> QED BY <1>2, <1>5, <2>2
<1> HIDE DEF len, x, idx, left, right, at
<1> DEFINE items == left \o <<v>> \o right
<1>8. items \in Seq(Value)
  <2>1. v \in Value
    BY ContainerConstants
  <2>2. <<v>> \in Seq(Value)
    BY <2>1
  <2>3. left \o <<v>> \in Seq(Value)
    BY <1>6, <2>2, Concatenated
  <2> QED BY <1>7, <2>3, Concatenated
<1>9. Makes(Array(items))
  BY <1>4, <1>6, <1>7
<1>10. items = InsertAt(x, at, v)
  <2>1. InsertAt(x, at, v) = SubSeq(x, 1, at - 1) \o <<v>> \o SubSeq(x, at, Len(x))
    BY DEF InsertAt
  <2>2. at - 1 = idx
    BY <1>5
  <2> QED BY <1>2, <1>5, <2>1, <2>2 DEF left, right
<1> HIDE DEF items
<1>11. Mapped' /\ MadeOne([kind |-> "array", items |-> items])
  BY <1>8, <1>9, MakesArrayMapped
<1>12. Held!InsertAt(x, at, v) = InsertAt(x, at, v)
  BY DEF Held!InsertAt, InsertAt
<1>13. Held!Add(Of(r), n, v)
  BY <1>3, <1>10, <1>11, <1>12, LoopsAreSeen, LoopsAreSeenNext
  DEF LoopsSeen, MadeOne, Add, Asked, Held!Add, Held!Asked, Held!Made, Held!Coll, at
<1>14. Of(r) \in Held!OfKind({"array"}) /\ v \in Value
  BY <1>3, ContainerConstants DEF Held!OfKind
<1>15. Held!Making
  BY <1>11, <1>13, <1>14 DEF MadeOne, Held!Making
<1> QED BY <1>11, <1>15 DEF MadeOne, Held!Next

(* What a slice holds, from one and to one position.                       *)
LEMMA SliceIs ==
  ASSUME NEW r, NEW n, ListAt(r, n), NEW s \in Index, NEW e \in Index, NEW S, NEW x \in Seq(S), Len(x) = n
  PROVE  /\ Held!Slice(x, s, e) = SubSeq(x, Start(r, s) + 1, Start(r, s) + SliceLen(r, s, e))
         /\ Held!First(s, n) \in Int /\ Held!Final(e, n) \in Int
         /\ SliceLen(r, s, e) > 0 => Held!First(s, n) = Start(r, s) + 1
         /\ SliceLen(r, s, e) = IF Held!Final(e, n) >= Held!First(s, n) THEN Held!Final(e, n) - Held!First(s, n) + 1 ELSE 0
<1> DEFINE a == Start(r, s)
           k == SliceLen(r, s, e)
           z == Stop(r, e)
           f == Held!First(s, n)
           g == Held!Final(e, n)
           p == FromEnd(s, n)
           q == FromEnd(e, n)
<1>1. n \in Nat /\ Length(r) = n
  BY DEF ListAt
<1>2. p \in Int /\ q \in Int /\ Held!Place(s, n) = p /\ Held!Place(e, n) = q
  BY <1>1, ContainerConstants DEF FromEnd, Held!Place
<1>3. a = Max({0, p}) /\ z = IF q >= n THEN n - 1 ELSE q
  BY <1>1 DEF Start, Stop
<1>4. f = Held!Clamp(p, 0, n) + 1 /\ g = Held!Clamp(q, -1, n - 1) + 1
  BY <1>2 DEF Held!First, Held!Final
<1>5. k = IF z >= a /\ a < n THEN z - a + 1 ELSE 0
  BY <1>1 DEF SliceLen
<1> HIDE DEF p, q, a, z, k, f, g
<1>6. a = IF p >= 0 THEN p ELSE 0
  <2>1. 0 \in Int
    OBVIOUS
  <2>2. Max({0, p}) = IF p >= 0 THEN p ELSE 0
    BY <1>2, <2>1, Within
  <2> QED BY <1>3, <2>2
<1>7. Held!Clamp(p, 0, n) = IF p < 0 THEN 0 ELSE IF n <= p THEN n ELSE p
  <2>1. 0 \in Int /\ n \in Int
    BY <1>1
  <2>2. Held!Clamp(p, 0, n) = IF n <= p THEN (IF 0 <= n THEN n ELSE 0) ELSE IF 0 <= p THEN p ELSE 0
    BY <1>2, <2>1, ClampIs
  <2> QED BY <1>1, <1>2, <2>2
<1>8. Held!Clamp(q, -1, n - 1) = IF q < -1 THEN -1 ELSE IF n - 1 <= q THEN n - 1 ELSE q
  <2> DEFINE t == n - 1
  <2>0. t \in Int /\ -1 <= t
    BY <1>1
  <2> HIDE DEF t
  <2>2. -1 \in Int
    OBVIOUS
  <2>3. Held!Clamp(q, -1, t) = IF t <= q THEN (IF -1 <= t THEN t ELSE -1) ELSE IF -1 <= q THEN q ELSE -1
    BY <1>2, <2>0, <2>2, ClampIs
  <2>4. Held!Clamp(q, -1, t) = IF q < -1 THEN -1 ELSE IF t <= q THEN t ELSE q
    BY <2>0, <1>2, <2>3
  <2> QED BY <2>4 DEF t
<1>9. f = IF p < 0 THEN 1 ELSE IF n <= p THEN n + 1 ELSE p + 1
  BY <1>1, <1>2, <1>4, <1>7
<1>10. g = IF q < -1 THEN 0 ELSE IF n - 1 <= q THEN n ELSE q + 1
  BY <1>1, <1>2, <1>4, <1>8
<1>11. a \in Nat /\ z \in Int
  BY <1>1, <1>2, <1>3, <1>6
<1>12. k = (IF g >= f THEN g - f + 1 ELSE 0) /\ (k > 0 => f = a + 1 /\ g = a + k)
  <2>1. z = IF q >= n THEN n - 1 ELSE q
    BY <1>3
  <2>2. CASE p < 0
    <3>1. a = 0 /\ f = 1
      BY <2>2, <1>6, <1>9, <1>2
    <3> QED BY <3>1, <2>1, <1>1, <1>2, <1>5, <1>10
  <2>3. CASE n <= p
    <3>1. a = p /\ f = n + 1 /\ k = 0
      BY <2>3, <1>1, <1>2, <1>5, <1>6, <1>9, <1>11
    <3>2. g <= n /\ g \in Int
      BY <1>1, <1>2, <1>10
    <3> QED BY <3>1, <3>2, <1>1
  <2>4. CASE 0 <= p /\ p < n
    <3>1. a = p /\ f = p + 1
      BY <2>4, <1>1, <1>2, <1>6, <1>9
    <3> QED BY <3>1, <2>1, <2>4, <1>1, <1>2, <1>5, <1>10
  <2> QED BY <2>2, <2>3, <2>4, <1>1, <1>2
<1>13. f \in Int /\ g \in Int /\ k \in Nat /\ g <= n /\ f >= 1
  BY <1>1, <1>2, <1>9, <1>10, <1>12
<1>14. SubSeq(x, f, g) = SubSeq(x, a + 1, a + k)
  <2>1. CASE k > 0
    BY <1>12, <2>1
  <2>2. CASE k = 0
    <3>1. f > g /\ a + k = a /\ a + 1 > a
      BY <1>11, <1>12, <1>13, <2>2
    <3>2. SubSeq(x, f, g) = <<>> /\ SubSeq(x, a + 1, a) = <<>>
      BY <1>11, <1>13, <3>1
    <3> QED BY <3>1, <3>2
  <2>3. k > 0 \/ k = 0
    BY <1>13
  <2> QED BY <2>1, <2>2, <2>3, Zenon
<1>15. Held!Slice(x, s, e) = SubSeq(x, f, g)
  BY DEF Held!Slice, f, g
<1> QED BY <1>12, <1>13, <1>14, <1>15 DEF f, g, a, k
-----------------------------------------------------------------------------
LEMMA NumberedPart ==
  ASSUME NEW s \in Seq(0 .. BYTE - 1), NEW a \in Nat \ {0}, NEW k \in Nat, k > 0 => a + k - 1 <= Len(s)
  PROVE  /\ SubSeq(s, a, a + k - 1) \in Seq(0 .. BYTE - 1)
         /\ Numbered(SubSeq(s, a, a + k - 1)) = SubSeq(Numbered(s), a, a + k - 1)
<1> DEFINE B == 0 .. BYTE - 1
           N == {Num(b) : b \in B}
           x == Numbered(s)
           n == Len(s)
           u == SubSeq(s, a, a + k - 1)
<1>1. n \in Nat /\ s \in Seq(B) /\ \A i \in 1 .. n : s[i] \in B
  <2>1. s \in Seq(B)
    OBVIOUS
  <2> HIDE DEF B, x, u, N
  <2> QED BY <2>1
<1>2. x = [i \in 1 .. n |-> Num(s[i])]
  BY DEF Numbered
<1> HIDE DEF x
<1>3. x \in [1 .. n -> N]
  BY <1>1, <1>2
<1> HIDE DEF N
<1>4. x \in Seq(N) /\ Len(x) = n
  <2> HIDE DEF n
  <2> QED BY <1>1, <1>3, FunctionIsSeq
<1>5. u \in Seq(B) /\ u = [i \in 1 .. k |-> s[a + i - 1]] /\ Len(u) = k
  <2> HIDE DEF B
  <2>1. CASE k = 0
    <3>1. u = <<>>
      BY <1>1, <2>1
    <3> QED BY <2>1, <3>1
  <2>2. CASE k > 0
    <3>1. a + k - 1 <= Len(s) /\ a <= a + k - 1
      BY <2>2
    <3>2. u = [i \in 1 .. k |-> s[a + i - 1]]
      BY <1>1, <2>2, <3>1
    <3>3. u \in Seq(B) /\ Len(u) = IF a <= a + k - 1 THEN a + k - 1 - a + 1 ELSE 0
      BY <1>1, <3>1, Subsequence
    <3> QED BY <2>2, <3>1, <3>2, <3>3
  <2> QED BY <2>1, <2>2
<1>6. SubSeq(x, a, a + k - 1) = [i \in 1 .. k |-> x[a + i - 1]]
  <2> HIDE DEF n
  <2>1. CASE k = 0
    <3>1. SubSeq(x, a, a + k - 1) = <<>>
      BY <1>4, <2>1
    <3> QED BY <2>1, <3>1
  <2>2. CASE k > 0
    <3>1. a + k - 1 <= Len(x)
      BY <1>4, <2>2 DEF n
    <3> QED BY <1>4, <2>2, <3>1
  <2> QED BY <2>1, <2>2
<1>7. Numbered(u) = [i \in 1 .. k |-> Num(u[i])]
  BY <1>5 DEF Numbered
<1> HIDE DEF u
<1>8. \A i \in 1 .. k : Num(u[i]) = x[a + i - 1]
  <2> SUFFICES ASSUME NEW i \in 1 .. k PROVE Num(u[i]) = x[a + i - 1]
    OBVIOUS
  <2> DEFINE j == a + i - 1
  <2>1. j \in 1 .. n
    BY <1>1
  <2>2. u[i] = s[j]
    BY <1>5
  <2> HIDE DEF j
  <2>3. x[j] = Num(s[j])
    BY <1>2, <2>1
  <2> QED BY <2>2, <2>3 DEF j
<1>9. Numbered(u) = SubSeq(x, a, a + k - 1)
  BY <1>6, <1>7, <1>8
<1> QED BY <1>5, <1>9 DEF u, x

LEMMA SliceMapped ==
  ASSUME Inv, Mapped, NEW r \in OfType(Listed), NEW s \in Index, NEW e \in Index, Slice(r, s, e)
  PROVE  Mapped' /\ Held!Next
<1> DEFINE n == Length(r)
           x == ItemsIn(mem, r)
           a == Start(r, s)
           k == SliceLen(r, s, e)
           part == SubSeq(x, a + 1, a + k)
<1>1. r \in Range(refs) /\ n \in Nat /\ Type(r) \in Listed /\ Len(x) = n
  BY ListMapped
<1>2. ListAt(r, n) /\ r \in Nat
  BY ListIsAt DEF ListAt
<1>3. a \in Nat /\ k \in Nat /\ (k > 0 => a + k <= n)
  BY <1>2, SliceInside
<1>4. /\ Of(r) \in DOMAIN colls /\ colls[Of(r)] = [kind |-> KindIn(mem, r), items |-> x] /\ Held!ItemsOf(Of(r)) = x
  BY <1>1, ObjectMapped
<1>5. KindIn(mem, r) \in {"array", "bytes"}
  BY <1>1 DEF KindIn, Listed, Type
<1>6. ASSUME NEW S, x \in Seq(S) PROVE Held!Slice(x, s, e) = part
  BY <1>1, <1>2, <1>6, SliceIs
<1>7. Mapped' /\ MadeOne([kind |-> KindIn(mem, r), items |-> part]) /\ Held!Slice(x, s, e) = part
  <2>1. CASE Type(r) = TYPE_ARRAY
    <3>1. x \in Seq(Value)
      BY <2>1, ArrayItems
    <3>2. Makes(Array(Block(r + 2 + a, k)))
      BY <2>1, TypesDiffer DEF Slice
    <3>3. KindIn(mem, r) = "array"
      BY <2>1 DEF KindIn, Type
    <3>4. Held!Slice(x, s, e) = part
      BY <1>6, <3>1
    <3>5. Block(r + 2 + a, k) = part /\ part \in Seq(Value)
      <4>1. CASE k > 0
        <5> HIDE DEF a, k
        <5> DEFINE at == r + 2 + a
                   from == a + 1
                   to == a + k
        <5>1. at = r + 1 + from /\ k = to - from + 1 /\ from \in Nat \ {0} /\ to \in Int /\ to <= n /\ k <= n
          BY <1>1, <1>2, <1>3, <4>1
        <5> HIDE DEF at, from, to
        <5>2. IsPart(r, at, k, from, to)
          BY <5>1 DEF IsPart
        <5>3. Block(at, k) = SubSeq(x, from, to) /\ SubSeq(x, from, to) \in Seq(Value)
          BY <2>1, <5>2, BlockIsPart
        <5> QED BY <5>3 DEF at, from, to
      <4>2. CASE k = 0
        <5> DEFINE b == r + 2 + a
        <5>1. mem \in Seq(Cell) /\ b \in Nat
          BY <1>2, <1>3 DEF ListAt
        <5>2. Block(b, k) = SubSeq(mem, b, b + k - 1)
          BY DEF Block
        <5> HIDE DEF a, k, x, b
        <5>3. SubSeq(mem, b, b + k - 1) = <<>>
          BY <4>2, <5>1
        <5>4. SubSeq(x, a + 1, a + k) = <<>>
          BY <1>3, <3>1, <4>2
        <5>5. <<>> \in Seq(Value)
          OBVIOUS
        <5> QED BY <5>2, <5>3, <5>4, <5>5 DEF b
      <4> HIDE DEF a, k, part
      <4> QED BY <1>3, <4>1, <4>2
    <3> HIDE DEF part, a, k, x
    <3> QED BY <3>2, <3>3, <3>4, <3>5, MakesArrayMapped
  <2>2. CASE Type(r) = TYPE_BYTES
    <3> DEFINE b == BytesOf(r)
    <3>1. x = Numbered(b) /\ b \in Seq(0 .. BYTE - 1) /\ Len(b) = n
      BY <2>2, BytesItems
    <3>2. Makes(Bytes(SubSeq(b, a + 1, a + k)))
      BY <2>2 DEF Slice
    <3>3. KindIn(mem, r) = "bytes"
      BY <2>2, TypesDiffer DEF KindIn, Type
    <3> HIDE DEF a, k, x, b
    <3>4. a + 1 + k - 1 = a + k /\ a + 1 \in Nat \ {0} /\ (k > 0 => a + 1 + k - 1 <= Len(b))
      BY <1>3, <3>1
    <3>5. SubSeq(b, a + 1, a + 1 + k - 1) \in Seq(0 .. BYTE - 1) /\ Numbered(SubSeq(b, a + 1, a + 1 + k - 1)) = SubSeq(Numbered(b), a + 1, a + 1 + k - 1)
      BY <1>3, <3>1, <3>4, NumberedPart
    <3>6. SubSeq(b, a + 1, a + k) \in Seq(0 .. BYTE - 1) /\ Numbered(SubSeq(b, a + 1, a + k)) = part
      BY <3>1, <3>4, <3>5
    <3>7. x \in Seq({Num(i) : i \in 0 .. BYTE - 1})
      <4> DEFINE N == {Num(i) : i \in 0 .. BYTE - 1}
      <4> HIDE DEF n, N
      <4>1. n \in Nat /\ \A i \in 1 .. n : b[i] \in 0 .. BYTE - 1
        <5> DEFINE B == 0 .. BYTE - 1
        <5>1. b \in Seq(B)
          BY <3>1
        <5> HIDE DEF B
        <5>2. \A i \in 1 .. n : b[i] \in B
          BY <3>1, <5>1
        <5> QED BY <1>1, <5>2 DEF B
      <4>2. x = [i \in 1 .. n |-> Num(b[i])]
        BY <3>1 DEF Numbered
      <4> USE DEF N
      <4>3. x \in [1 .. n -> N]
        BY <4>1, <4>2
      <4> HIDE DEF N
      <4>4. x \in Seq(N)
        BY <4>1, <4>3, FunctionIsSeq
      <4> QED BY <4>4 DEF N
    <3>8. Held!Slice(x, s, e) = part
      BY <1>6, <3>7
    <3> HIDE DEF part
    <3> QED BY <3>2, <3>3, <3>6, <3>8, MakesBytesMapped
  <2> QED BY <1>1, <2>1, <2>2 DEF Listed
<1> HIDE DEF n, x, a, k, part
<1>8. Held!MakeSlice(Of(r), s, e)
  BY <1>4, <1>7, LoopsAreSeen, LoopsAreSeenNext
  DEF LoopsSeen, MadeOne, Slice, Asked, Held!MakeSlice, Held!Asked, Held!Made, Held!Coll
<1>9. Of(r) \in Held!OfKind({"array", "bytes"})
  BY <1>4, <1>5 DEF Held!OfKind
<1>10. Held!Making
  BY <1>7, <1>8, <1>9 DEF MadeOne, Held!Making
<1> QED BY <1>7, <1>10 DEF MadeOne, Held!Next
-----------------------------------------------------------------------------
(* Changing an object.                                                     *)

(* The items of the object r have become these, and nothing else changed.  *)
BecomesOne(r, items) ==
  /\ Held!Ready /\ colls' = [colls EXCEPT ![Of(r)].items = items]
  /\ Loops' = Loops

Rewritten(r, w, K) ==
  /\ r \in Range(refs) /\ Ready /\ mem' = w /\ refs' = refs /\ loops' = K /\ Watch
  /\ Good(w, refs, K) /\ Rewrites(mem, w, r) /\ LoopsAlike(K, loops)

LEMMA RewrittenMapped ==
  ASSUME Inv, Mapped, NEW r, NEW w, NEW K, Rewritten(r, w, K)
  PROVE  Mapped' /\ BecomesOne(r, ItemsIn(w, r))
<1>1. /\ r \in Range(refs) /\ Ready /\ mem' = w /\ refs' = refs /\ loops' = K /\ Watch
      /\ Good(w, refs, K) /\ Rewrites(mem, w, r) /\ LoopsAlike(K, loops)
  BY DEF Rewritten
<1>2. Good(mem, refs, loops) /\ Valued(mem, refs, loops) /\ colls = CollsOf(mem, refs)
  BY DEF Inv, Mapped
<1>3. Inv'
  BY <1>1 DEF Inv
<1>4. CollsOf(w, refs) = [CollsOf(mem, refs) EXCEPT ![PlaceIn(refs, r)].items = ItemsIn(w, r)]
  BY <1>1, <1>2, RewrittenColls
<1>5. LoopsOf(w, refs, K) = LoopsOf(mem, refs, loops)
  BY <1>1, <1>2, RewrittenLoops
<1>6. Valued(w, refs, K)
  BY <1>1, <1>2, RewrittenValued
<1>7. colls' = CollsOf(mem', refs')
  BY <1>1, <1>3, Watched
<1>8. Of(r) = PlaceIn(refs, r)
  BY DEF Of, PlaceIn
<1>9. Mapped'
  BY <1>1, <1>6, <1>7 DEF Mapped
<1>10. Loops' = Loops
  BY <1>1, <1>5 DEF Loops
<1>11. Held!Ready
  BY <1>1, InBody
<1> QED BY <1>1, <1>2, <1>4, <1>7, <1>8, <1>9, <1>10, <1>11 DEF BecomesOne

LEMMA ListRewrites ==
  ASSUME Inv, NEW r \in OfType(Listed), NEW w, ListWritten(mem, w, r),
         Type(r) = TYPE_ARRAY => \A c \in r + 2 .. r + 1 + Length(r) : w[c] \in Value
  PROVE  Rewrites(mem, w, r)
<1>1. r \in Range(refs) /\ mem[r].n \in Listed /\ Type(r) = mem[r].n /\ Length(r) = mem[r + 1].n
  BY DEF OfType, Type, Length
<1>2. SoundIn(mem, r)
  BY <1>1, GoodParts DEF Inv
<1>3. r \in Nat \ {0} /\ mem[r + 1].n \in Nat /\ w[r + 1].n \in Nat /\ w[r + 1].n <= mem[r + 1].n
  BY <1>1, <1>2 DEF SoundIn, ListWritten
<1>4. ExtentIn(w, r) \subseteq ExtentIn(mem, r)
  <2>1. CASE mem[r].n = TYPE_BYTES
    BY <2>1, <1>3 DEF ExtentIn, ListWritten, TYPE_BYTES, TYPE_MAP
  <2>2. CASE mem[r].n = TYPE_ARRAY
    BY <2>2, <1>3 DEF ExtentIn, ListWritten, TYPE_ARRAY, TYPE_BYTES, TYPE_MAP
  <2> QED BY <1>1, <2>1, <2>2 DEF Listed
<1>5. mem[r].n = TYPE_ARRAY => \A c \in r + 2 .. r + 1 + mem[r + 1].n : w[c] \in Value
  BY <1>1
<1> QED BY <1>3, <1>4, <1>5 DEF Rewrites, ListWritten

(* A list is changed, and its items are z now.                             *)
LEMMA ListChangedMapped ==
  ASSUME Inv, Mapped, NEW r \in OfType(Listed), NEW w \in Seq(Cell), ListWritten(mem, w, r), Changes(w),
         Type(r) = TYPE_ARRAY => \A c \in r + 2 .. r + 1 + Length(r) : w[c] \in Value,
         NEW z, ItemsIn(w, r) = z
  PROVE  Mapped' /\ BecomesOne(r, z)
<1>1. r \in Range(refs) /\ mem[r].n \in Listed
  BY DEF OfType, Type
<1>2. Ready /\ mem' = w /\ refs' = refs /\ loops' = loops /\ Watch
  BY DEF Changes
<1>3. LoopsAlike(loops, loops)
  BY SameLoops DEF Inv
<1>4. Good(w, refs, loops)
  BY <1>1, <1>3, ListStaysGood DEF Inv
<1>5. Rewrites(mem, w, r)
  BY ListRewrites
<1>6. Rewritten(r, w, loops)
  BY <1>1, <1>2, <1>3, <1>4, <1>5 DEF Rewritten
<1> QED BY <1>6, RewrittenMapped

(* Items of an array that was written.                                     *)
IsArray(w, r, k, z) ==
  /\ w[r].n = TYPE_ARRAY /\ w[r + 1].n = k /\ r \in Nat /\ k \in Nat
  /\ \A i \in 1 .. k : w[r + 1 + i] = z[i]

LEMMA ArrayWritten ==
  ASSUME NEW w, NEW r, NEW k, NEW z, IsArray(w, r, k, z)
  PROVE  ItemsIn(w, r) = [i \in 1 .. k |-> z[i]]
<1>1. w[r].n = TYPE_ARRAY /\ w[r + 1].n = k /\ r \in Nat /\ k \in Nat /\ \A i \in 1 .. k : w[r + 1 + i] = z[i]
  BY DEF IsArray
<1>2. \A i \in 1 .. k : r + 2 + (i - 1) = r + 1 + i
  BY <1>1
<1>3. \A i \in 1 .. k : ItemIn(w, r, i - 1) = z[i]
  BY <1>1, <1>2, TypesDiffer DEF ItemIn
<1>4. ItemsIn(w, r) = [i \in 1 .. k |-> ItemIn(w, r, i - 1)]
  BY <1>1, TypesDiffer DEF ItemsIn
<1> QED BY <1>3, <1>4

(* Bytes that were written.                                                *)
PutItems(r, n, at, bytes) ==
  [i \in 1 .. n |-> Num(IF i \in at + 1 .. at + Len(bytes) THEN bytes[i - at] ELSE ByteAt(r, i - 1))]

LEMMA BytesPutRead ==
  ASSUME NEW r, NEW n, ListAt(r, n), Type(r) = TYPE_BYTES, NEW at \in Int,
         NEW bytes \in Seq(0 .. BYTE - 1)
  PROVE  ItemsIn(BytesPut(r, at, bytes), r) = PutItems(r, n, at, bytes)
<1> DEFINE all == [i \in 1 .. n |-> IF i \in at + 1 .. at + Len(bytes)
                                    THEN bytes[i - at] ELSE ByteAt(r, i - 1)]
           cells == Packed(all)
           w == BytesPut(r, at, bytes)
<1>1. /\ mem \in Seq(Cell) /\ Len(mem) \in Nat /\ r \in Nat \ {0} /\ n \in Nat /\ Length(r) = n
      /\ r + 1 + Cells(n) <= Len(mem) /\ Len(bytes) \in Nat /\ DOMAIN mem = 1 .. Len(mem)
  BY DEF ListAt
<1>2. \A i \in 1 .. n : (IF i \in at + 1 .. at + Len(bytes) THEN bytes[i - at] ELSE ByteAt(r, i - 1))
                        \in 0 .. BYTE - 1
  <2>1. ASSUME NEW i \in 1 .. n
        PROVE  (IF i \in at + 1 .. at + Len(bytes) THEN bytes[i - at] ELSE ByteAt(r, i - 1))
                 \in 0 .. BYTE - 1
    <3>1. CASE i \in at + 1 .. at + Len(bytes)
      <4>1. i - at \in 1 .. Len(bytes)
        BY <3>1, <1>1
      <4>2. bytes[i - at] \in 0 .. BYTE - 1
        BY <4>1, ElementOfSeq
      <4> QED BY <3>1, <4>2
    <3>2. CASE i \notin at + 1 .. at + Len(bytes)
      <4>1. i - 1 \in 0 .. n - 1
        BY <1>1
      <4>2. ByteAt(r, i - 1) \in 0 .. BYTE - 1
        BY <4>1, ByteIs
      <4> QED BY <3>2, <4>2
    <3> QED BY <3>1, <3>2
  <2> QED BY <2>1
<1>3. all \in [1 .. n -> 0 .. BYTE - 1]
  BY <1>2
<1>4. w = [c \in DOMAIN mem |-> IF c \in r + 2 .. r + 1 + Len(cells) THEN cells[c - r - 1] ELSE mem[c]]
  BY <1>1 DEF BytesPut
<1>5. all = [i \in 1 .. n |-> IF i \in at + 1 .. at + Len(bytes) THEN bytes[i - at] ELSE ByteAt(r, i - 1)]
  OBVIOUS
<1> HIDE DEF all, w
<1>6. all \in Seq(0 .. BYTE - 1) /\ Len(all) = n
  BY <1>1, <1>3, FunctionIsSeq
<1>7. Len(cells) = Cells(n) /\ Cells(n) \in Nat
  BY <1>6, PackedCells
<1>8. \A i \in 0 .. n - 1 : i \div PerCell + 1 \in 1 .. Len(cells) /\ cells[i \div PerCell + 1].b[i % PerCell] = all[i + 1]
  BY <1>6, Unpacked
<1>9. w[r] = mem[r] /\ w[r + 1] = mem[r + 1]
  <2>1. /\ r \in DOMAIN mem /\ r + 1 \in DOMAIN mem
        /\ r \notin r + 2 .. r + 1 + Len(cells) /\ r + 1 \notin r + 2 .. r + 1 + Len(cells)
    BY <1>1, <1>7
  <2> HIDE DEF cells
  <2> QED BY <2>1, <1>4
<1> HIDE DEF cells
<1>10. w[r].n = TYPE_BYTES /\ w[r + 1].n = n
  BY <1>1, <1>9 DEF Type, Length
<1>11. ASSUME NEW i \in 1 .. n PROVE ItemIn(w, r, i - 1) = Num(all[i])
  <2> DEFINE j == i - 1
             q == j \div PerCell
             c == r + 2 + q
  <2>1. j \in 0 .. n - 1 /\ j + 1 = i /\ j \in Nat
    BY <1>1
  <2> HIDE DEF j
  <2>2. q + 1 \in 1 .. Len(cells) /\ cells[q + 1].b[j % PerCell] = all[i]
    BY <1>8, <2>1
  <2>3. ItemIn(w, r, j) = Num(w[c].b[j % PerCell])
    BY <1>10 DEF ItemIn, ByteIn
  <2>4. q \in Nat
    <3>1. PerCell \in Nat \ {0}
      BY ContainerConstants
    <3> QED BY <2>1, <3>1, Division
  <2> HIDE DEF q
  <2>5. c \in r + 2 .. r + 1 + Len(cells) /\ c \in DOMAIN mem /\ c - r - 1 = q + 1
    BY <1>1, <1>7, <2>2, <2>4
  <2> HIDE DEF c
  <2>6. w[c] = cells[q + 1]
    BY <1>4, <2>5
  <2>7. ItemIn(w, r, j) = Num(all[i])
    BY <2>2, <2>3, <2>6
  <2> QED BY <2>7 DEF j
<1>12. ItemsIn(w, r) = [i \in 1 .. n |-> ItemIn(w, r, i - 1)]
  BY <1>10, TypesDiffer DEF ItemsIn
<1>13. \A i \in 1 .. n : all[i] = IF i \in at + 1 .. at + Len(bytes) THEN bytes[i - at] ELSE ByteAt(r, i - 1)
  BY <1>5
<1>14. ItemsIn(w, r) = [i \in 1 .. n |-> Num(IF i \in at + 1 .. at + Len(bytes) THEN bytes[i - at] ELSE ByteAt(r, i - 1))]
  BY <1>11, <1>12, <1>13
<1> QED BY <1>14 DEF w, PutItems
-----------------------------------------------------------------------------
LEMMA SetItemMapped ==
  ASSUME Inv, Mapped, NEW r \in OfType(Listed), NEW i \in Index, NEW v \in Literals, SetItem(r, i, v)
  PROVE  Mapped' /\ Held!Next
<1> DEFINE n == Length(r)
           x == ItemsIn(mem, r)
           y == IF KindIn(mem, r) = "bytes" THEN StoredByte(v) ELSE v
           z == [x EXCEPT ![i + 1] = y]
<1>1. r \in Range(refs) /\ n \in Nat /\ Type(r) \in Listed /\ Len(x) = n /\ x = [j \in 1 .. n |-> Item(r, j - 1)]
  BY ListMapped
<1>2. ListAt(r, n) /\ r \in Nat
  BY ListIsAt DEF ListAt
<1>3. /\ Of(r) \in DOMAIN colls /\ colls[Of(r)] = [kind |-> KindIn(mem, r), items |-> x] /\ Held!ItemsOf(Of(r)) = x
      /\ Held!Size(Of(r)) = n
  BY <1>1, ObjectMapped
<1>4. KindIn(mem, r) \in {"array", "bytes"}
  BY <1>1 DEF KindIn, Listed, Type
<1>5. i \in 0 .. n - 1 /\ i \in Int /\ v \in Value /\ v \in Cell /\ v.n \in Nat
  BY RawCells, ContainerConstants DEF SetItem
<1>6. i + 1 \in 1 .. n
  BY <1>1, <1>5
<1>7. DOMAIN x = 1 .. n
  BY <1>1
<1>8. Mapped' /\ BecomesOne(r, z)
  <2>1. CASE Type(r) = TYPE_ARRAY
    <3> DEFINE c == r + 2 + i
               w == [mem EXCEPT ![c] = v]
    <3>1. w \in Seq(Cell) /\ ListWritten(mem, w, r)
      BY <1>2, <1>5, <2>1, ItemWritten
    <3>2. Changes(w)
      BY <2>1 DEF SetItem
    <3>3. y = v
      BY <2>1 DEF KindIn, Type
    <3>4. mem \in Seq(Cell) /\ DOMAIN mem = 1 .. Len(mem) /\ r \in Nat \ {0} /\ r + 1 + n <= Len(mem) /\ Len(mem) \in Nat
      BY <1>2, <2>1 DEF ListAt
    <3>5. mem[r].n = TYPE_ARRAY /\ mem[r + 1].n = n
      BY <1>2, <2>1 DEF ListAt, Type, Length
    <3>6. c \in DOMAIN mem /\ r # c /\ r + 1 # c
      BY <1>1, <1>5, <3>4
    <3>7. \A j \in 1 .. n : x[j] = mem[r + 1 + j] /\ x[j] \in Value
      BY <2>1, ListMapped
    <3> HIDE DEF w, y, x, n
    <3>8. \A j \in 1 .. n : r + 1 + j \in DOMAIN mem /\ (r + 1 + j = c <=> j = i + 1)
      BY <1>1, <1>5, <3>4
    <3> HIDE DEF c
    <3>9. \A q \in DOMAIN mem : w[q] = IF q = c THEN v ELSE mem[q]
      BY <3>4, <3>6 DEF w
    <3>10. \A j \in 1 .. n : z[j] = IF j = i + 1 THEN v ELSE x[j]
      BY <1>6, <1>7, <3>3
    <3>11. \A j \in 1 .. n : w[r + 1 + j] = z[j] /\ w[r + 1 + j] \in Value
      BY <1>5, <3>7, <3>8, <3>9, <3>10
    <3>12. w[r].n = TYPE_ARRAY /\ w[r + 1].n = n
      <4>1. r \in DOMAIN mem /\ r + 1 \in DOMAIN mem
        BY <1>1, <3>4
      <4> QED BY <3>5, <3>6, <3>9, <4>1
    <3>13. z = [j \in 1 .. n |-> z[j]]
      BY <1>7
    <3> HIDE DEF z
    <3>14. IsArray(w, r, n, z)
      BY <1>1, <1>2, <3>11, <3>12 DEF IsArray
    <3>15. ItemsIn(w, r) = z
      <4>1. ItemsIn(w, r) = [j \in 1 .. n |-> z[j]]
        BY <3>14, ArrayWritten
      <4> QED BY <3>13, <4>1
    <3>16. \A q \in r + 2 .. r + 1 + n : w[q] \in Value
      <4>1. \A q \in r + 2 .. r + 1 + n : q - r - 1 \in 1 .. n /\ r + 1 + (q - r - 1) = q
        BY <1>1, <1>2
      <4> QED BY <3>11, <4>1
    <3>17. Type(r) = TYPE_ARRAY => \A q \in r + 2 .. r + 1 + Length(r) : w[q] \in Value
      BY <3>16 DEF n
    <3> QED BY <3>1, <3>2, <3>15, <3>17, ListChangedMapped
  <2>2. CASE Type(r) = TYPE_BYTES
    <3> DEFINE b == v.n % BYTE
               B == 0 .. BYTE - 1
               bytes == <<b>>
               w == BytesPut(r, i, bytes)
    <3>1. b \in B
      BY <1>5, ContainerConstants
    <3>2. Changes(w)
      BY <2>2, TypesDiffer DEF SetItem
    <3>3. y = Num(b)
      BY <2>2, TypesDiffer DEF KindIn, Type, StoredByte
    <3>4. x = [j \in 1 .. n |-> Num(ByteAt(r, j - 1))]
      BY <1>1, <2>2 DEF Item
    <3> HIDE DEF b, w, y, x, n
    <3>5. bytes \in Seq(B) /\ Len(bytes) = 1 /\ bytes[1] = b
      <4> HIDE DEF B
      <4> QED BY <3>1
    <3> HIDE DEF bytes
    <3>6. w \in Seq(Cell) /\ ListWritten(mem, w, r)
      BY <1>2, <1>5, <2>2, <3>5, BytesWritten DEF w
    <3>7. ItemsIn(w, r) = [j \in 1 .. n |-> Num(IF j \in i + 1 .. i + Len(bytes) THEN bytes[j - i] ELSE ByteAt(r, j - 1))]
      <4>1. ItemsIn(BytesPut(r, i, bytes), r) = PutItems(r, n, i, bytes)
        BY <1>2, <1>5, <2>2, <3>5, BytesPutRead
      <4> QED BY <4>1 DEF w, PutItems
    <3>8. \A j \in 1 .. n : (IF j \in i + 1 .. i + Len(bytes) THEN bytes[j - i] ELSE ByteAt(r, j - 1))
                              = IF j = i + 1 THEN b ELSE ByteAt(r, j - 1)
      BY <1>5, <3>5
    <3>9. ItemsIn(w, r) = [j \in 1 .. n |-> Num(IF j = i + 1 THEN b ELSE ByteAt(r, j - 1))]
      BY <3>7, <3>8
    <3>10. z = [j \in 1 .. n |-> Num(IF j = i + 1 THEN b ELSE ByteAt(r, j - 1))]
      BY <1>6, <1>7, <3>3, <3>4
    <3>11. ItemsIn(w, r) = z
      BY <3>9, <3>10
    <3> HIDE DEF z
    <3> QED BY <2>2, <3>2, <3>6, <3>11, TypesDiffer, ListChangedMapped
  <2> QED BY <1>1, <2>1, <2>2 DEF Listed
<1> HIDE DEF n, x
<1>9. Held!SetItem(Of(r), i, v)
  <2>1. z = [Held!ItemsOf(Of(r)) EXCEPT ![i + 1] = IF colls[Of(r)].kind = "bytes" THEN StoredByte(v) ELSE v]
    <3>1. colls[Of(r)].kind = KindIn(mem, r)
      BY <1>3
    <3> QED BY <1>3, <3>1
  <2> HIDE DEF z
  <2>2. Held!Becomes(Of(r), z)
    BY <1>8, LoopsAreSeen, LoopsAreSeenNext DEF LoopsSeen, BecomesOne, Held!Becomes
  <2>3. Held!Asked(<<"set item", Of(r), i, v>>)
    BY DEF SetItem, Asked, Held!Asked
  <2> QED BY <1>3, <1>5, <2>1, <2>2, <2>3 DEF Held!SetItem
<1>10. Of(r) \in Held!OfKind({"array", "bytes"})
  BY <1>3, <1>4 DEF Held!OfKind
<1>11. Held!Changing
  BY <1>5, <1>9, <1>10 DEF Held!Changing
<1> QED BY <1>8, <1>11 DEF BecomesOne, Held!Next
-----------------------------------------------------------------------------
LEMMA BecomesHeld ==
  ASSUME NEW r, NEW z, BecomesOne(r, z)
  PROVE  Held!Becomes(Of(r), z)
  BY LoopsAreSeen, LoopsAreSeenNext DEF LoopsSeen, BecomesOne, Held!Becomes

(* A sequence without one of its elements.                                 *)
LEMMA TakenOut ==
  ASSUME NEW S, NEW x \in Seq(S), NEW p \in 1 .. Len(x)
  PROVE  /\ Held!RemoveAt(x, p) = [j \in 1 .. Len(x) - 1 |-> IF j < p THEN x[j] ELSE x[j + 1]]
         /\ Held!RemoveAt(x, p) \in Seq(S)
<1> DEFINE n == Len(x)
           left == SubSeq(x, 1, p - 1)
           right == SubSeq(x, p + 1, n)
           z == left \o right
<1>1. n \in Nat /\ p \in Nat /\ p >= 1 /\ p <= n
  OBVIOUS
<1>2. left \in Seq(S) /\ Len(left) = p - 1 /\ \A j \in 1 .. p - 1 : left[j] = x[j]
  <2> DEFINE one == 1
             b == p - 1
  <2>1. one \in Nat \ {0} /\ b \in Int /\ b <= Len(x) /\ b - one + 1 = b /\ (one <= b \/ b = 0)
    BY <1>1
  <2> HIDE DEF one, b
  <2>2. /\ SubSeq(x, one, b) \in Seq(S) /\ Len(SubSeq(x, one, b)) = IF one <= b THEN b - one + 1 ELSE 0
    BY <2>1, Subsequence
  <2>3. left \in Seq(S) /\ Len(left) = b
    BY <2>1, <2>2 DEF one, b
  <2>4. \A j \in 1 .. p - 1 : left[j] = x[j]
    <3>1. left = [j \in 1 .. p - 1 |-> x[j]]
      BY <1>1
    <3> QED BY <3>1
  <2> QED BY <2>3, <2>4 DEF b
<1>3. right \in Seq(S) /\ Len(right) = n - p /\ \A j \in 1 .. n - p : right[j] = x[p + j]
  <2> DEFINE a == p + 1
  <2>1. a \in Nat \ {0} /\ n \in Int /\ n <= Len(x) /\ (a <= n => n - a + 1 = n - p) /\ (~ a <= n => n - p = 0)
    BY <1>1
  <2>2. \A j \in 1 .. n - p : right[j] = x[p + j]
    <3>1. right = [j \in 1 .. n - p |-> x[p + j]]
      BY <1>1
    <3> QED BY <3>1
  <2> HIDE DEF a
  <2>3. SubSeq(x, a, n) \in Seq(S) /\ Len(SubSeq(x, a, n)) = IF a <= n THEN n - a + 1 ELSE 0
    BY <2>1, Subsequence
  <2>4. right \in Seq(S) /\ Len(right) = IF a <= n THEN n - a + 1 ELSE 0
    BY <2>3 DEF a
  <2> HIDE DEF right
  <2> QED BY <2>1, <2>2, <2>4
<1>4. Held!RemoveAt(x, p) = z
  BY DEF Held!RemoveAt
<1> HIDE DEF left, right, n
<1>5. /\ z \in Seq(S) /\ Len(z) = p - 1 + (n - p)
      /\ \A j \in 1 .. p - 1 + (n - p) : z[j] = IF j <= p - 1 THEN left[j] ELSE right[j - (p - 1)]
  <2> DEFINE j == p - 1
             k == n - p
  <2>1. left \in Seq(S) /\ Len(left) = j /\ right \in Seq(S) /\ Len(right) = k
    BY <1>2, <1>3
  <2> HIDE DEF j, k
  <2>2. /\ z \in Seq(S) /\ Len(z) = j + k
        /\ \A i \in 1 .. j + k : z[i] = IF i <= j THEN left[i] ELSE right[i - j]
    <3>1. /\ z \in Seq(S) /\ Len(z) = Len(left) + Len(right)
          /\ \A i \in 1 .. Len(left) + Len(right) : z[i] = IF i <= Len(left) THEN left[i] ELSE right[i - Len(left)]
      BY <2>1, Concatenated
    <3> HIDE DEF z
    <3> QED BY <2>1, <3>1
  <2> QED BY <2>2 DEF j, k
<1> HIDE DEF z
<1>6. p - 1 + (n - p) = n - 1
  BY <1>1
<1>7. \A j \in 1 .. n - 1 : z[j] = IF j < p THEN x[j] ELSE x[j + 1]
  <2> SUFFICES ASSUME NEW j \in 1 .. n - 1 PROVE z[j] = IF j < p THEN x[j] ELSE x[j + 1]
    OBVIOUS
  <2>1. z[j] = IF j <= p - 1 THEN left[j] ELSE right[j - (p - 1)]
    BY <1>5, <1>6
  <2>2. CASE j < p
    <3>1. j <= p - 1 /\ j \in 1 .. p - 1
      BY <1>1, <2>2
    <3> QED BY <1>2, <2>1, <2>2, <3>1
  <2>3. CASE ~ j < p
    <3> DEFINE i == j - (p - 1)
    <3>1. ~ j <= p - 1 /\ i \in 1 .. n - p /\ p + i = j + 1
      BY <1>1, <2>3
    <3> HIDE DEF i
    <3>2. right[i] = x[j + 1]
      BY <1>3, <3>1
    <3> QED BY <2>1, <2>3, <3>1, <3>2 DEF i
  <2> QED BY <2>2, <2>3
<1>8. z = [j \in 1 .. n - 1 |-> z[j]]
  BY <1>5, <1>6
<1>9. z = [j \in 1 .. n - 1 |-> IF j < p THEN x[j] ELSE x[j + 1]]
  BY <1>7, <1>8
<1> QED BY <1>4, <1>5, <1>9 DEF n

(* An array without one of its items.                                      *)
WithoutItem(r, n, i) == [Copied(r + 2 + i, r + 3 + i, n - 1 - i) EXCEPT ![r + 1] = Raw(n - 1)]

ItemGone(w, r, n, i) ==
  /\ w[r].n = TYPE_ARRAY /\ w[r + 1].n = n - 1 /\ w[r + 1 + n] = mem[r + 1 + n]
  /\ \A j \in 1 .. n - 1 : w[r + 1 + j] = IF j <= i THEN mem[r + 1 + j] ELSE mem[r + 2 + j]

LEMMA WithoutItemIs ==
  ASSUME NEW r, NEW n, ListAt(r, n), Type(r) = TYPE_ARRAY, NEW i \in 0 .. n - 1
  PROVE  ItemGone(WithoutItem(r, n, i), r, n, i)
<1> DEFINE to == r + 2 + i
           from == r + 3 + i
           len == n - 1 - i
           f == Copied(to, from, len)
           a == r + 1
           y == Raw(n - 1)
           w == [f EXCEPT ![a] = y]
<1>1. /\ mem \in Seq(Cell) /\ Len(mem) \in Nat /\ r \in Nat \ {0} /\ n \in Nat /\ n >= 1
      /\ r + 1 + n <= Len(mem) /\ DOMAIN mem = 1 .. Len(mem)
  BY DEF ListAt
<1>2. mem[r].n = TYPE_ARRAY
  BY DEF Type
<1>3. w = WithoutItem(r, n, i)
  BY DEF WithoutItem
<1>4. /\ to \in Nat /\ from \in Nat /\ len \in Nat /\ to <= from
      /\ to .. to + len - 1 \subseteq 1 .. Len(mem) /\ from .. from + len - 1 \subseteq 1 .. Len(mem)
  BY <1>1
<1>5. /\ to = r + 2 + i /\ from = to + 1 /\ len = n - 1 - i /\ a = r + 1 /\ y.n = n - 1
  BY <1>1 DEF Raw
<1> HIDE DEF to, from, len, a, y
<1>6. CanCopy(to, from, len)
  BY <1>1, <1>4 DEF CanCopy
<1>7. f = [c \in DOMAIN mem |-> IF c \in to .. to + len - 1 THEN mem[from + c - to] ELSE mem[c]]
  BY <1>6, CopyIs DEF Moved
<1> HIDE DEF f
<1>8. a \in DOMAIN f
  BY <1>1, <1>5, <1>7
<1>9. w[a] = y /\ \A c \in DOMAIN f : c # a => w[c] = f[c]
  BY <1>8
<1> HIDE DEF w
<1>10. \A c \in DOMAIN mem : c # a => w[c] = IF c \in to .. to + len - 1 THEN mem[from + c - to] ELSE mem[c]
  BY <1>7, <1>9
<1>11. w[r] = mem[r]
  <2>1. r \in DOMAIN mem /\ r # a /\ r \notin to .. to + len - 1
    BY <1>1, <1>5
  <2> QED BY <1>10, <2>1
<1>12. w[r + 1 + n] = mem[r + 1 + n]
  <2> DEFINE c == r + 1 + n
  <2>1. c \in DOMAIN mem /\ c # a /\ c \notin to .. to + len - 1
    BY <1>1, <1>5
  <2> HIDE DEF c
  <2>2. w[c] = mem[c]
    BY <1>10, <2>1
  <2> QED BY <2>2 DEF c
<1>13. \A j \in 1 .. n - 1 : w[r + 1 + j] = IF j <= i THEN mem[r + 1 + j] ELSE mem[r + 2 + j]
  <2> SUFFICES ASSUME NEW j \in 1 .. n - 1 PROVE w[r + 1 + j] = IF j <= i THEN mem[r + 1 + j] ELSE mem[r + 2 + j]
    OBVIOUS
  <2> DEFINE c == r + 1 + j
             d == r + 2 + j
  <2>1. c \in DOMAIN mem /\ c # a
    BY <1>1, <1>5
  <2>2. j <= i => c \notin to .. to + len - 1
    BY <1>1, <1>5
  <2>3. ~ j <= i => c \in to .. to + len - 1 /\ from + c - to = d
    BY <1>1, <1>5
  <2> HIDE DEF c, d
  <2>4. w[c] = IF j <= i THEN mem[c] ELSE mem[d]
    BY <1>10, <2>1, <2>2, <2>3
  <2> QED BY <2>4 DEF c, d
<1>14. w[r].n = TYPE_ARRAY /\ w[r + 1].n = n - 1
  BY <1>2, <1>5, <1>9, <1>11
<1>15. ItemGone(w, r, n, i)
  BY <1>12, <1>13, <1>14 DEF ItemGone
<1> QED BY <1>3, <1>15

LEMMA RemoveItemMapped ==
  ASSUME Inv, Mapped, NEW r \in OfType({TYPE_ARRAY}), NEW k \in Index, RemoveItem(r, k)
  PROVE  Mapped' /\ Held!Next
<1> DEFINE n == Length(r)
           i == FromEnd(k, n)
           x == ItemsIn(mem, r)
           w == WithoutItem(r, n, i)
           z == IF i \in 0 .. n - 1 THEN Held!RemoveAt(x, i + 1) ELSE x
<1>1. r \in OfType(Listed) /\ Type(r) = TYPE_ARRAY /\ r \in Range(refs) /\ mem[r].n \in Listed
  BY DEF OfType, Listed, Type
<1>2. ListAt(r, n) /\ r \in Nat
  BY <1>1, ListIsAt DEF ListAt
<1>3. n \in Nat /\ Len(x) = n /\ KindIn(mem, r) = "array" /\ \A j \in 1 .. n : x[j] = mem[r + 1 + j] /\ mem[r + 1 + j] \in Value
  BY <1>1, ListMapped
<1>4. /\ Of(r) \in DOMAIN colls /\ colls[Of(r)] = [kind |-> "array", items |-> x] /\ Held!ItemsOf(Of(r)) = x
      /\ Held!Size(Of(r)) = n
  BY <1>1, <1>3, ObjectMapped
<1>5. x \in Seq(Value)
  BY <1>1, ArrayItems
<1>6. IF i \in 0 .. n - 1 THEN Shrinks(r, w) ELSE Changes(mem)
  BY DEF RemoveItem, WithoutItem
<1>7. i = Held!Place(k, n)
  BY DEF FromEnd, Held!Place
<1>8. TRUE
  OBVIOUS
<1> HIDE DEF i, x, n
<1>9. Mapped' /\ BecomesOne(r, z)
  <2>1. CASE i \in 0 .. n - 1
    <3> DEFINE p == i + 1
               less == n - 1
    <3>1. p \in 1 .. Len(x) /\ less \in Nat /\ Len(x) - 1 = less /\ less <= n
      BY <1>3, <2>1
    <3>2. z = Held!RemoveAt(x, p)
      BY <2>1
    <3>3. \A j \in 1 .. less : (j < p <=> j <= i) /\ r + 2 + j = r + 1 + (j + 1) /\ j \in 1 .. n /\ j + 1 \in 1 .. n
      BY <1>2, <1>3, <2>1
    <3>4. w \in Seq(Cell) /\ ListWritten(mem, w, r)
      BY <1>1, <1>2, <2>1, ItemTaken DEF WithoutItem
    <3>5. ItemGone(w, r, n, i)
      BY <1>1, <1>2, <2>1, WithoutItemIs
    <3> HIDE DEF w, z
    <3>6. /\ w[r].n = TYPE_ARRAY /\ w[r + 1].n = less /\ w[r + 1 + n] = mem[r + 1 + n]
          /\ \A j \in 1 .. less : w[r + 1 + j] = IF j <= i THEN mem[r + 1 + j] ELSE mem[r + 2 + j]
      BY <3>5 DEF ItemGone
    <3> HIDE DEF p, less
    <3>7. z = [j \in 1 .. less |-> IF j < p THEN x[j] ELSE x[j + 1]] /\ z \in Seq(Value)
      BY <1>5, <3>1, <3>2, TakenOut
    <3>8. \A j \in 1 .. less : w[r + 1 + j] = IF j < p THEN x[j] ELSE x[j + 1]
      BY <1>3, <3>3, <3>6
    <3>9. \A j \in 1 .. less : w[r + 1 + j] = z[j] /\ w[r + 1 + j] \in Value
      BY <1>3, <3>3, <3>7, <3>8
    <3>10. IsArray(w, r, less, z)
      BY <1>2, <3>1, <3>6, <3>9 DEF IsArray
    <3>11. ItemsIn(w, r) = z
      <4>1. ItemsIn(w, r) = [j \in 1 .. less |-> z[j]]
        BY <3>10, ArrayWritten
      <4>2. z = [j \in 1 .. less |-> z[j]]
        BY <3>7
      <4> QED BY <4>1, <4>2
    <3>12. \A c \in r + 2 .. r + 1 + n : w[c] \in Value
      <4> SUFFICES ASSUME NEW c \in r + 2 .. r + 1 + n PROVE w[c] \in Value
        OBVIOUS
      <4>1. CASE c = r + 1 + n
        <5>1. n \in 1 .. n
          BY <1>2, <1>3, <4>1
        <5> QED BY <1>3, <3>6, <4>1, <5>1
      <4>2. CASE c # r + 1 + n
        <5>1. c - r - 1 \in 1 .. less /\ r + 1 + (c - r - 1) = c
          BY <1>2, <1>3, <4>2 DEF less
        <5> QED BY <3>9, <5>1
      <4> QED BY <4>1, <4>2
    <3>13. Type(r) = TYPE_ARRAY => \A c \in r + 2 .. r + 1 + Length(r) : w[c] \in Value
      BY <3>12 DEF n
    <3>14. Rewrites(mem, w, r)
      BY <1>1, <3>4, <3>13, ListRewrites
    <3>15. LoopsAlike(Knowing(loops, r), loops)
      BY LoopsTold, LoopsAreLoops
    <3>16. Good(w, refs, Knowing(loops, r))
      BY <1>1, <3>4, <3>15, ListStaysGood DEF Inv
    <3>17. Ready /\ mem' = w /\ refs' = refs /\ loops' = Knowing(loops, r) /\ Watch
      BY <1>6, <2>1 DEF Shrinks, Knowing
    <3>18. Rewritten(r, w, Knowing(loops, r))
      BY <1>1, <3>14, <3>15, <3>16, <3>17 DEF Rewritten
    <3> QED BY <3>11, <3>18, RewrittenMapped
  <2>2. CASE i \notin 0 .. n - 1
    <3>1. Changes(mem) /\ z = x
      BY <1>6, <2>2
    <3>2. Ready /\ mem' = mem /\ refs' = refs /\ loops' = loops /\ Watch
      BY <3>1 DEF Changes
    <3>3. LoopsAlike(loops, loops) /\ Good(mem, refs, loops)
      BY SameLoops DEF Inv
    <3>4. \A c \in r + 2 .. r + 1 + mem[r + 1].n : mem[c] \in Value
      <4>1. mem[r + 1].n = n
        BY DEF n, Length
      <4>2. \A c \in r + 2 .. r + 1 + n : c - r - 1 \in 1 .. n /\ r + 1 + (c - r - 1) = c
        BY <1>2, <1>3
      <4> QED BY <1>3, <4>1, <4>2
    <3>5. Rewrites(mem, mem, r)
      <4>1. mem[r + 1].n \in Nat
        BY <1>3 DEF n, Length
      <4> QED BY <3>4, <4>1 DEF Rewrites
    <3>6. Rewritten(r, mem, loops)
      BY <1>1, <3>2, <3>3, <3>5 DEF Rewritten
    <3>7. ItemsIn(mem, r) = z
      BY <3>1 DEF x
    <3> QED BY <3>6, <3>7, RewrittenMapped
  <2> QED BY <2>1, <2>2
<1>10. Held!RemoveItem(Of(r), k)
  <2> HIDE DEF z
  <2>1. Held!Becomes(Of(r), z)
    BY <1>9, BecomesHeld
  <2>2. Held!Asked(<<"remove item", Of(r), k>>)
    BY DEF RemoveItem, Asked, Held!Asked
  <2>3. z = IF Held!Place(k, Held!Size(Of(r))) \in 0 .. Held!Size(Of(r)) - 1
            THEN Held!RemoveAt(Held!ItemsOf(Of(r)), Held!Place(k, Held!Size(Of(r))) + 1)
            ELSE Held!ItemsOf(Of(r))
    BY <1>4, <1>7 DEF z
  <2> QED BY <2>1, <2>2, <2>3 DEF Held!RemoveItem
<1>11. Of(r) \in Held!OfKind({"array"})
  BY <1>4 DEF Held!OfKind
<1>12. Held!Changing
  BY <1>10, <1>11 DEF Held!Changing
<1> QED BY <1>9, <1>12 DEF BecomesOne, Held!Next
-----------------------------------------------------------------------------
(* Items x, with those of y over them from a.                              *)
Overlaid(x, y, a, len) == [p \in DOMAIN x |-> IF p \in a + 1 .. a + len THEN y[p - a] ELSE x[p]]

(* How many items a slice takes.                                           *)
Taking(r, s, e, q) == Min({SliceLen(r, s, e), Length(q)})

LEMMA TakingIs ==
  ASSUME NEW r, NEW n, ListAt(r, n), NEW q, NEW k, ListAt(q, k), NEW s \in Index, NEW e \in Index
  PROVE  /\ Taking(r, s, e, q) \in Nat /\ Taking(r, s, e, q) <= k
         /\ Taking(r, s, e, q) > 0 => Start(r, s) + Taking(r, s, e, q) <= n
<1> DEFINE a == Start(r, s)
           x == SliceLen(r, s, e)
           len == Taking(r, s, e, q)
<1>1. a \in Nat /\ x \in Nat /\ (x > 0 => a + x <= n)
  BY SliceInside
<1>2. k = Length(q) /\ k \in Nat /\ n \in Nat
  BY DEF ListAt
<1>3. len = Min({x, k})
  BY <1>2 DEF Taking
<1> HIDE DEF len, a, x
<1>4. len = IF x <= k THEN x ELSE k
  BY <1>1, <1>2, <1>3, OfTwo
<1>5. len \in Nat /\ len <= k /\ (len > 0 => a + len <= n)
  BY <1>1, <1>2, <1>4
<1> QED BY <1>5 DEF len, a

(* What Collections says of the same slices.                               *)
SaysOverlaid(s, e, n, k, x, y) ==
  LET from == Held!First(s, n)
      room == Held!Max({0, Held!Final(e, n) - from + 1})
      len  == Held!Min({room, k})
  IN [p \in DOMAIN x |-> IF p \in from .. from + len - 1 THEN y[p - from + 1] ELSE x[p]]

Overlays(r, n, q, k, s, e, x) ==
  ListAt(r, n) /\ ListAt(q, k) /\ s \in Index /\ e \in Index /\ Len(x) = n /\ \E S : x \in Seq(S)

LEMMA OverlaidIs ==
  ASSUME NEW r, NEW n, NEW q, NEW k, NEW s, NEW e, NEW x, NEW y, Overlays(r, n, q, k, s, e, x)
  PROVE  SaysOverlaid(s, e, n, k, x, y) = Overlaid(x, y, Start(r, s), Taking(r, s, e, q))
<1> DEFINE from == Held!First(s, n)
           final == Held!Final(e, n)
           more == final - from + 1
           room == Held!Max({0, more})
           len == Held!Min({room, k})
           a == Start(r, s)
           t == SliceLen(r, s, e)
           take == Taking(r, s, e, q)
<1>0. ListAt(r, n) /\ ListAt(q, k) /\ s \in Index /\ e \in Index /\ Len(x) = n
  BY DEF Overlays
<1> PICK S : x \in Seq(S)
  BY DEF Overlays
<1>1. /\ from \in Int /\ final \in Int /\ (t > 0 => from = a + 1)
      /\ t = IF final >= from THEN final - from + 1 ELSE 0
  BY <1>0, SliceIs
<1>2. n \in Nat /\ k \in Nat /\ k = Length(q)
  BY <1>0 DEF ListAt
<1>3. a \in Nat /\ t \in Nat
  BY <1>0, SliceInside
<1>4. take = Min({t, k})
  BY <1>2 DEF Taking
<1>5. take \in Nat /\ take <= k
  BY <1>0, TakingIs
<1> HIDE DEF a, t, take
<1>6. room = t
  <2>1. more \in Int /\ 0 \in Int
    BY <1>1
  <2>2. t = IF more >= 0 THEN more ELSE 0
    BY <1>1
  <2> HIDE DEF more
  <2>3. Max({0, more}) = IF more >= 0 THEN more ELSE 0
    BY <2>1, Within
  <2>4. room = Max({0, more})
    BY TheSameMinMax
  <2> QED BY <2>2, <2>3, <2>4
<1>7. len = take
  <2>1. len = Min({room, k})
    BY TheSameMinMax
  <2> QED BY <1>4, <1>6, <2>1
<1>8. take > 0 => t > 0
  <2>1. take = IF t <= k THEN t ELSE k
    BY <1>2, <1>3, <1>4, OfTwo
  <2> QED BY <1>2, <1>3, <2>1
<1> HIDE DEF from, len
<1>9. ASSUME NEW p \in DOMAIN x
      PROVE  (IF p \in from .. from + len - 1 THEN y[p - from + 1] ELSE x[p]) = IF p \in a + 1 .. a + take THEN y[p - a] ELSE x[p]
  <2>0. p \in Int
    OBVIOUS
  <2>1. CASE take = 0
    <3>1. p \notin from .. from + len - 1 /\ p \notin a + 1 .. a + take
      BY <1>1, <1>3, <1>7, <2>0, <2>1 DEF from
    <3> QED BY <3>1
  <2>2. CASE take > 0
    <3>1. from = a + 1
      BY <1>1, <1>8, <2>2 DEF from
    <3>2. (p \in from .. from + len - 1 <=> p \in a + 1 .. a + take) /\ p - from + 1 = p - a
      BY <1>3, <1>5, <1>7, <2>0, <3>1
    <3> QED BY <3>2
  <2> QED BY <1>5, <2>1, <2>2
<1>10. [p \in DOMAIN x |-> IF p \in from .. from + len - 1 THEN y[p - from + 1] ELSE x[p]] = Overlaid(x, y, a, take)
  BY <1>9 DEF Overlaid
<1> QED BY <1>10 DEF from, len, a, take, SaysOverlaid

LEMMA SetSliceMapped ==
  ASSUME Inv, Mapped, NEW r \in OfType(Listed), NEW q \in OfType({Type(r)}),
         NEW s \in Index, NEW e \in Index, SetSlice(r, s, e, q)
  PROVE  Mapped' /\ Held!Next
<1> DEFINE n == Length(r)
           k == Length(q)
           a == Start(r, s)
           len == Taking(r, s, e, q)
           x == ItemsIn(mem, r)
           y == ItemsIn(mem, q)
           z == Overlaid(x, y, a, len)
<1>1. Type(q) = Type(r) /\ q \in OfType(Listed) /\ q # r
  BY DEF OfType, SetSlice
<1>2. ListAt(r, n) /\ ListAt(q, k)
  BY <1>1, ListIsAt
<1>3. a \in Nat
  BY <1>2, SliceInside
<1>4. len \in Nat /\ len <= k /\ (len > 0 => a + len <= n)
  BY <1>2, TakingIs
<1>5. /\ Type(r) = TYPE_ARRAY => Changes(Copied(r + 2 + a, q + 2, len))
      /\ Type(r) # TYPE_ARRAY => Changes(BytesPut(r, a, SubSeq(BytesOf(q), 1, len)))
  BY DEF SetSlice, Taking
<1>6. /\ r \in Range(refs) /\ Type(r) \in Listed /\ Len(x) = n /\ x = [j \in 1 .. n |-> Item(r, j - 1)]
  BY ListMapped
<1>7. /\ q \in Range(refs) /\ Len(y) = k /\ y = [j \in 1 .. k |-> Item(q, j - 1)]
  BY <1>1, ListMapped
<1>8. /\ Of(r) \in DOMAIN colls /\ colls[Of(r)] = [kind |-> KindIn(mem, r), items |-> x] /\ Held!ItemsOf(Of(r)) = x
      /\ Held!Size(Of(r)) = n
  BY <1>6, ObjectMapped
<1>9. /\ Of(q) \in DOMAIN colls /\ colls[Of(q)] = [kind |-> KindIn(mem, q), items |-> y] /\ Held!ItemsOf(Of(q)) = y
      /\ Held!Size(Of(q)) = k
  BY <1>7, ObjectMapped
<1>10. KindIn(mem, r) \in {"array", "bytes"} /\ KindIn(mem, q) = KindIn(mem, r)
  BY <1>1, <1>6 DEF KindIn, Listed, Type
<1>11. TRUE
  OBVIOUS
<1>12. /\ n \in Nat /\ k \in Nat /\ r \in Nat \ {0} /\ q \in Nat \ {0}
       /\ mem \in Seq(Cell) /\ Len(mem) \in Nat /\ DOMAIN mem = 1 .. Len(mem)
  BY <1>2 DEF ListAt
<1>13. DOMAIN x = 1 .. n
  BY <1>6
<1> HIDE DEF n, k, a, len, x, y
<1>14. Mapped' /\ BecomesOne(r, z) /\ \E S : x \in Seq(S)
  <2>1. CASE Type(r) = TYPE_ARRAY
    <3> DEFINE to == r + 2 + a
               from == q + 2
               w == Moved(to, from, len)
    <3>1. r \in OfType({TYPE_ARRAY}) /\ q \in OfType({TYPE_ARRAY})
      BY <1>1, <2>1 DEF OfType
    <3>2. r + 1 + n < q \/ q + 1 + k < r
      BY <1>1, <1>2, <3>1, ListsApart
    <3>3. r + 1 + n <= Len(mem) /\ q + 1 + k <= Len(mem)
      BY <1>1, <1>2, <2>1 DEF ListAt
    <3>4. to \in Nat /\ from \in Nat
      BY <1>3, <1>12
    <3>5. to .. to + len - 1 \subseteq 1 .. Len(mem) /\ from .. from + len - 1 \subseteq 1 .. Len(mem)
      <4>1. CASE len > 0
        BY <4>1, <1>3, <1>4, <1>12, <3>3
      <4>2. CASE ~ len > 0
        BY <4>2, <1>3, <1>4, <1>12
      <4> QED BY <4>1, <4>2
    <3>6. to <= from \/ from + len <= to
      <4>1. CASE len > 0
        BY <4>1, <1>3, <1>4, <1>12, <3>2
      <4>2. CASE ~ len > 0
        BY <4>2, <1>3, <1>4, <1>12
      <4> QED BY <4>1, <4>2
    <3>7. Inside(to, len, r, n)
      <4>1. CASE len > 0
        BY <4>1, <1>3, <1>4, <1>12 DEF Inside
      <4>2. CASE ~ len > 0
        BY <4>2, <1>3, <1>4, <1>12 DEF Inside
      <4> QED BY <4>1, <4>2
    <3>8. Changes(Copied(to, from, len))
      BY <1>5, <2>1
    <3>9. /\ r \in 1 .. Len(mem) /\ r + 1 \in 1 .. Len(mem)
          /\ r \notin to .. to + len - 1 /\ r + 1 \notin to .. to + len - 1
      BY <1>3, <1>4, <1>12, <3>3
    <3>10. \A j \in 1 .. n : /\ r + 1 + j \in 1 .. Len(mem)
                             /\ r + 1 + j \in to .. to + len - 1 <=> j \in a + 1 .. a + len
                             /\ j \in a + 1 .. a + len => j - a \in 1 .. k /\ from + (r + 1 + j) - to = q + 1 + (j - a)
      BY <1>3, <1>4, <1>12, <3>3
    <3> HIDE DEF to, from
    <3>11. CanCopy(to, from, len)
      BY <1>4, <1>12, <3>4, <3>5, <3>6 DEF CanCopy
    <3>12. Copied(to, from, len) = w
      BY <3>11, CopyIs
    <3>13. w \in Seq(Cell) /\ ListWritten(mem, w, r)
      BY <1>2, <2>1, <3>7, <3>11, MovedIs, ItemsCopied
    <3>14. \A c \in 1 .. Len(mem) : w[c] = IF c \in to .. to + len - 1 THEN mem[from + c - to] ELSE mem[c]
      BY <1>12 DEF Moved
    <3> HIDE DEF w
    <3>15. \A j \in 1 .. n : x[j] = mem[r + 1 + j] /\ x[j] \in Value
      BY <2>1, ListMapped DEF x, n
    <3>16. \A j \in 1 .. k : y[j] = mem[q + 1 + j] /\ y[j] \in Value
      BY <1>1, <2>1, ListMapped DEF y, k
    <3>17. \A j \in 1 .. n : z[j] = IF j \in a + 1 .. a + len THEN y[j - a] ELSE x[j]
      BY <1>13 DEF Overlaid
    <3>18. DOMAIN z = 1 .. n /\ z = [j \in 1 .. n |-> z[j]]
      BY <1>13 DEF Overlaid
    <3> HIDE DEF z
    <3>19. \A j \in 1 .. n : w[r + 1 + j] = z[j] /\ z[j] \in Value
      <4> SUFFICES ASSUME NEW j \in 1 .. n PROVE w[r + 1 + j] = z[j] /\ z[j] \in Value
        OBVIOUS
      <4> DEFINE c == r + 1 + j
                 i == j - a
      <4>1. c \in 1 .. Len(mem) /\ w[c] = IF c \in to .. to + len - 1 THEN mem[from + c - to] ELSE mem[c]
        BY <3>10, <3>14
      <4>2. z[j] = IF j \in a + 1 .. a + len THEN y[i] ELSE x[j]
        BY <3>17
      <4>3. c \in to .. to + len - 1 <=> j \in a + 1 .. a + len
        BY <3>10
      <4>4. CASE j \in a + 1 .. a + len
        <5>1. i \in 1 .. k /\ from + c - to = q + 1 + i
          BY <3>10, <4>4
        <5> HIDE DEF c, i
        <5>2. y[i] = mem[q + 1 + i] /\ y[i] \in Value
          BY <3>16, <5>1
        <5>3. w[c] = mem[q + 1 + i] /\ z[j] = y[i]
          BY <4>1, <4>2, <4>3, <4>4, <5>1
        <5>4. w[c] = z[j] /\ z[j] \in Value
          BY <5>2, <5>3
        <5> QED BY <5>4 DEF c
      <4>5. CASE j \notin a + 1 .. a + len
        BY <3>15, <4>1, <4>2, <4>3, <4>5
      <4> QED BY <4>4, <4>5
    <3>20. w[r].n = TYPE_ARRAY /\ w[r + 1].n = n
      <4>1. mem[r].n = TYPE_ARRAY /\ mem[r + 1].n = n
        BY <2>1 DEF Type, Length, n
      <4> QED BY <3>9, <3>14, <4>1
    <3>21. IsArray(w, r, n, z)
      BY <1>12, <3>19, <3>20 DEF IsArray
    <3>22. ItemsIn(w, r) = z
      <4>1. ItemsIn(w, r) = [j \in 1 .. n |-> z[j]]
        BY <3>21, ArrayWritten
      <4> QED BY <3>18, <4>1
    <3>23. \A c \in r + 2 .. r + 1 + n : w[c] \in Value
      <4>1. \A c \in r + 2 .. r + 1 + n : c - r - 1 \in 1 .. n /\ r + 1 + (c - r - 1) = c
        BY <1>12
      <4> QED BY <3>19, <4>1
    <3>24. Type(r) = TYPE_ARRAY => \A c \in r + 2 .. r + 1 + Length(r) : w[c] \in Value
      BY <3>23 DEF n
    <3>25. Changes(w)
      BY <3>8, <3>12
    <3>26. x \in Seq(Value)
      BY <2>1, ArrayItems DEF x
    <3> QED BY <3>13, <3>22, <3>24, <3>25, <3>26, ListChangedMapped
  <2>2. CASE Type(r) = TYPE_BYTES
    <3> DEFINE t == BytesOf(q)
               bytes == SubSeq(t, 1, len)
               w == BytesPut(r, a, bytes)
               B == 0 .. BYTE - 1
    <3>1. t \in Seq(B) /\ Len(t) = k
      BY <1>1, <1>2, <2>2, BytesOfIs
    <3>2. Changes(w)
      BY <1>5, <2>2, TypesDiffer
    <3>3. x = [j \in 1 .. n |-> Num(ByteAt(r, j - 1))]
      BY <1>6, <2>2 DEF Item
    <3>4. y = [j \in 1 .. k |-> Num(t[j])]
      BY <1>1, <2>2, ListMapped DEF y, k
    <3> HIDE DEF t, B
    <3>5. bytes \in Seq(B) /\ Len(bytes) = len /\ \A j \in 1 .. len : bytes[j] = t[j]
      <4> DEFINE one == 1
      <4>1. one \in Nat \ {0} /\ len \in Int /\ len <= Len(t) /\ (one <= len \/ len = 0) /\ len - one + 1 = len
        BY <1>4, <3>1
      <4>2. bytes = [j \in 1 .. len |-> t[j]]
        BY <1>4, <3>1
      <4>3. \A j \in 1 .. len : bytes[j] = t[j]
        BY <4>2
      <4> HIDE DEF one, bytes
      <4>4. SubSeq(t, one, len) \in Seq(B) /\ Len(SubSeq(t, one, len)) = IF one <= len THEN len - one + 1 ELSE 0
        BY <3>1, <4>1, Subsequence
      <4>5. bytes = SubSeq(t, one, len)
        BY DEF bytes, one
      <4>6. ~ one <= len => len = 0
        BY <4>1
      <4>7. Len(bytes) = len
        BY <4>1, <4>4, <4>5, <4>6
      <4> QED BY <4>3, <4>4, <4>5, <4>7
    <3> HIDE DEF bytes
    <3>6. a \in Int
      BY <1>3
    <3>7. w \in Seq(Cell) /\ ListWritten(mem, w, r)
      BY <1>2, <2>2, <3>5, <3>6, BytesWritten DEF B
    <3>8. ItemsIn(w, r) = PutItems(r, n, a, bytes)
      BY <1>2, <2>2, <3>5, <3>6, BytesPutRead DEF B
    <3> HIDE DEF w
    <3>9. PutItems(r, n, a, bytes) = [j \in 1 .. n |-> Num(IF j \in a + 1 .. a + len THEN bytes[j - a] ELSE ByteAt(r, j - 1))]
      BY <3>5 DEF PutItems
    <3>10. z = [j \in 1 .. n |-> IF j \in a + 1 .. a + len THEN y[j - a] ELSE x[j]]
      BY <1>13 DEF Overlaid
    <3>11. \A j \in 1 .. n : Num(IF j \in a + 1 .. a + len THEN bytes[j - a] ELSE ByteAt(r, j - 1))
                              = IF j \in a + 1 .. a + len THEN y[j - a] ELSE x[j]
      <4> SUFFICES ASSUME NEW j \in 1 .. n
                   PROVE  Num(IF j \in a + 1 .. a + len THEN bytes[j - a] ELSE ByteAt(r, j - 1))
                            = IF j \in a + 1 .. a + len THEN y[j - a] ELSE x[j]
        OBVIOUS
      <4> DEFINE i == j - a
      <4>1. CASE j \in a + 1 .. a + len
        <5>1. i \in 1 .. len /\ i \in 1 .. k
          BY <1>3, <1>4, <1>12, <4>1
        <5> HIDE DEF i
        <5>2. Num(bytes[i]) = y[i]
          BY <3>4, <3>5, <5>1
        <5> QED BY <4>1, <5>2 DEF i
      <4>2. CASE j \notin a + 1 .. a + len
        BY <3>3, <4>2
      <4> QED BY <4>1, <4>2
    <3>12. ItemsIn(w, r) = z
      BY <3>8, <3>9, <3>10, <3>11
    <3>13. \E S : x \in Seq(S)
      <4> DEFINE N == {x[j] : j \in 1 .. n}
      <4>1. x \in [1 .. n -> N]
        BY <3>3
      <4> HIDE DEF N
      <4>2. x \in Seq(N)
        BY <1>12, <4>1, FunctionIsSeq
      <4> QED BY <4>2
    <3> HIDE DEF z
    <3> QED BY <2>2, <3>2, <3>7, <3>12, <3>13, TypesDiffer, ListChangedMapped
  <2> QED BY <1>6, <2>1, <2>2 DEF Listed
<1>15. PICK S : x \in Seq(S)
  BY <1>14
<1>16. Held!SetSlice(Of(r), s, e, Of(q))
  <2> DEFINE u == SaysOverlaid(s, e, n, k, x, y)
  <2>1. u = z
    <3>1. u = Overlaid(x, y, Start(r, s), Taking(r, s, e, q))
      <4>1. Overlays(r, n, q, k, s, e, x)
        BY <1>2, <1>6, <1>15 DEF Overlays
      <4> HIDE DEF z
      <4> QED BY <4>1, OverlaidIs
    <3> QED BY <3>1 DEF a, len
  <2> HIDE DEF z
  <2>2. Held!Becomes(Of(r), u)
    BY <1>14, <2>1, BecomesHeld
  <2>3. Held!Asked(<<"set slice", Of(r), s, e, Of(q)>>)
    BY DEF SetSlice, Asked, Held!Asked
  <2> QED BY <1>8, <1>9, <2>2, <2>3 DEF Held!SetSlice, SaysOverlaid
<1>17. Of(r) \in Held!OfKind({"array", "bytes"}) /\ Of(q) \in Held!OfKind({colls[Of(r)].kind})
  BY <1>8, <1>9, <1>10 DEF Held!OfKind
<1>18. Held!Changing
  BY <1>16, <1>17 DEF Held!Changing
<1> QED BY <1>14, <1>18 DEF BecomesOne, Held!Next
-----------------------------------------------------------------------------
(* The entries of a map.                                                   *)
HasEntries(w, r, n, data) ==
  /\ w[r].n = TYPE_MAP /\ w[r + 2].n = n /\ w[r + 3].n = data /\ n \in Nat /\ data \in Nat

EntryOf(w, data, j) == [key |-> w[data + j * 2], val |-> w[data + j * 2 + 1]]

LEMMA EntriesRead ==
  ASSUME NEW w, NEW r, NEW n, NEW data, HasEntries(w, r, n, data)
  PROVE  ItemsIn(w, r) = [i \in 1 .. n |-> EntryOf(w, data, i - 1)]
  BY DEF HasEntries, ItemsIn, EntryIn, EntryOf

LEMMA MapMapped ==
  ASSUME Inv, Mapped, NEW r \in OfType({TYPE_MAP}), NEW k
  PROVE  /\ r \in Range(refs) /\ mem[r].n = TYPE_MAP /\ KindIn(mem, r) = "map"
         /\ MapAt(mem, r, mem[r + 1].n, mem[r + 2].n, mem[r + 3].n)
         /\ HasEntries(mem, r, mem[r + 2].n, mem[r + 3].n)
         /\ Len(ItemsIn(mem, r)) = mem[r + 2].n /\ \E S : ItemsIn(mem, r) \in Seq(S)
         /\ k \in Held!KeysOf(ItemsIn(mem, r)) <=> Places(r, k) # {}
         /\ Places(r, k) # {} =>
              /\ Min(Places(r, k)) \in 0 .. mem[r + 2].n - 1
              /\ Held!PlaceOf(ItemsIn(mem, r), k) = Min(Places(r, k)) + 1
<1> DEFINE cap == mem[r + 1].n
           n == mem[r + 2].n
           data == mem[r + 3].n
           x == ItemsIn(mem, r)
           P == Places(r, k)
<1>1. r \in Range(refs) /\ mem[r].n = TYPE_MAP
  BY DEF OfType, Type
<1>2. KindIn(mem, r) = "map"
  BY <1>1, TypesDiffer DEF KindIn
<1>3. MapAt(mem, r, cap, n, data)
  BY <1>1, MapIsAt DEF Inv
<1>4. P = {j \in 0 .. n - 1 : mem[data + j * 2] = k}
  BY DEF Places, Count, Data
<1>5. /\ n \in Nat /\ data \in Nat /\ mem[r + 2].n = n /\ mem[r + 3].n = data
      /\ \A i, j \in 0 .. n - 1 : mem[data + i * 2] = mem[data + j * 2] => i = j
  BY <1>3 DEF MapAt
<1>6. HasEntries(mem, r, n, data)
  BY <1>1, <1>5 DEF HasEntries
<1>7. x = [i \in 1 .. n |-> EntryOf(mem, data, i - 1)]
  BY <1>6, EntriesRead
<1> HIDE DEF n, data, x, P, cap
<1>8. Len(x) = n /\ \E S : x \in Seq(S)
  <2> DEFINE N == {EntryOf(mem, data, i - 1) : i \in 1 .. n}
  <2>1. x \in [1 .. n -> N]
    BY <1>7
  <2> HIDE DEF N
  <2>2. x \in Seq(N) /\ Len(x) = n
    BY <1>5, <2>1, FunctionIsSeq
  <2> QED BY <2>2
<1>9. DOMAIN x = 1 .. n /\ \A i \in 1 .. n : x[i].key = mem[data + (i - 1) * 2]
  BY <1>7 DEF EntryOf
<1>10. \A i \in 1 .. n : x[i].key = k <=> i - 1 \in P
  <2>1. \A i \in 1 .. n : i - 1 \in 0 .. n - 1
    BY <1>5
  <2> QED BY <1>4, <1>9, <2>1
<1>11. \A j \in P : j \in 0 .. n - 1 /\ j + 1 \in 1 .. n /\ (j + 1) - 1 = j
  BY <1>4, <1>5
<1>12. k \in Held!KeysOf(x) <=> P # {}
  BY <1>9, <1>10, <1>11 DEF Held!KeysOf
<1>13. ASSUME P # {} PROVE Min(P) \in 0 .. n - 1 /\ Held!PlaceOf(x, k) = Min(P) + 1
  <2> DEFINE j == Min(P)
  <2>1. P \in SUBSET Nat
    BY <1>4, <1>5
  <2>2. j \in P
    BY <1>13, <2>1, Smallest
  <2> HIDE DEF j
  <2>3. j + 1 \in 1 .. n /\ x[j + 1].key = k
    BY <1>10, <1>11, <2>2
  <2>4. \A i \in 1 .. n : x[i].key = k => i = j + 1
    <3> SUFFICES ASSUME NEW i \in 1 .. n, x[i].key = k PROVE i = j + 1
      OBVIOUS
    <3>1. i - 1 \in P
      BY <1>10
    <3>2. mem[data + (i - 1) * 2] = k /\ mem[data + j * 2] = k /\ i - 1 \in 0 .. n - 1 /\ j \in 0 .. n - 1
      BY <1>4, <2>2, <3>1
    <3>3. i - 1 = j
      BY <1>5, <3>2
    <3> QED BY <1>5, <3>2, <3>3
  <2>5. Held!PlaceOf(x, k) = j + 1
    BY <1>9, <2>3, <2>4 DEF Held!PlaceOf
  <2> QED BY <1>11, <2>2, <2>5 DEF j
<1> QED BY <1>1, <1>2, <1>3, <1>6, <1>8, <1>12, <1>13 DEF n, data, x, P, cap

(* A map was written, its loops may know.                                  *)
MapNow(r, w, K) ==
  /\ Ready /\ mem' = w /\ refs' = refs /\ loops' = K /\ Watch
  /\ Good(w, refs, K) /\ MapChanged(mem, w, r) /\ LoopsAlike(K, loops)

LEMMA MapChangedMapped ==
  ASSUME Inv, Mapped, NEW r \in OfType({TYPE_MAP}), NEW w, NEW K, MapNow(r, w, K), NEW z, ItemsIn(w, r) = z
  PROVE  Mapped' /\ BecomesOne(r, z)
<1>1. r \in Range(refs) /\ mem[r].n = TYPE_MAP
  BY DEF OfType, Type
<1>2. /\ Ready /\ mem' = w /\ refs' = refs /\ loops' = K /\ Watch
      /\ Good(w, refs, K) /\ MapChanged(mem, w, r) /\ LoopsAlike(K, loops)
  BY DEF MapNow
<1>3. Rewrites(mem, w, r)
  BY <1>1, <1>2, TypesDiffer DEF Rewrites, MapChanged
<1>4. Rewritten(r, w, K)
  BY <1>1, <1>2, <1>3 DEF Rewritten
<1> QED BY <1>4, RewrittenMapped

LEMMA MapKeptMapped ==
  ASSUME Inv, Mapped, NEW r \in OfType({TYPE_MAP}), Changes(mem)
  PROVE  Mapped' /\ BecomesOne(r, ItemsIn(mem, r))
<1>1. Good(mem, refs, loops) /\ LoopsAlike(loops, loops)
  BY SameLoops DEF Inv
<1>2. mem[r].n = TYPE_MAP
  BY DEF OfType, Type
<1>3. MapChanged(mem, mem, r)
  BY <1>2 DEF MapChanged
<1>4. MapNow(r, mem, loops)
  BY <1>1, <1>3 DEF MapNow, Changes
<1> QED BY <1>4, MapChangedMapped
-----------------------------------------------------------------------------
(* The value of a key.                                                     *)
(* Entries with another value at a place, counted from 0. *)
ValueGiven(x, at, v) == [x EXCEPT ![at + 1].val = v]

LEMMA ValueRead ==
  ASSUME NEW m, NEW r, NEW cap, NEW n, NEW data, MapAt(m, r, cap, n, data), NEW at \in 0 .. n - 1, NEW v
  PROVE  ItemsIn([m EXCEPT ![data + at * 2 + 1] = v], r) = ValueGiven(ItemsIn(m, r), at, v)
<1> DEFINE d == data + at * 2 + 1
           w == [m EXCEPT ![d] = v]
           x == ItemsIn(m, r)
           z == [x EXCEPT ![at + 1].val = v]
<1>1. /\ m \in Seq(Cell) /\ r \in Nat \ {0}
      /\ cap \in Nat \ {0} /\ n \in Nat /\ n <= cap
      /\ data \in Nat \ {0} /\ r + 4 <= data /\ data + cap * 2 - 1 <= Len(m)
      /\ Len(m) \in Nat /\ DOMAIN m = 1 .. Len(m)
      /\ m[r].n = TYPE_MAP /\ m[r + 2].n = n /\ m[r + 3].n = data
      /\ r .. r + 3 \subseteq DOMAIN m
  BY DEF MapAt
<1>2. d \in DOMAIN m /\ d \notin r .. r + 3
  BY <1>1
<1>3. \A i \in 1 .. n : /\ data + (i - 1) * 2 \in DOMAIN m /\ data + (i - 1) * 2 + 1 \in DOMAIN m
                        /\ data + (i - 1) * 2 # d
                        /\ data + (i - 1) * 2 + 1 = d <=> i = at + 1
  BY <1>1
<1>4. at + 1 \in 1 .. n
  BY <1>1
<1> HIDE DEF d
<1>5. \A c \in DOMAIN m : w[c] = IF c = d THEN v ELSE m[c]
  BY <1>2
<1> HIDE DEF w
<1>6. w[r] = m[r] /\ w[r + 2] = m[r + 2] /\ w[r + 3] = m[r + 3]
  <2>1. r \in r .. r + 3 /\ r + 2 \in r .. r + 3 /\ r + 3 \in r .. r + 3
    BY <1>1
  <2> QED BY <2>1, <1>1, <1>2, <1>5
<1>7. HasEntries(m, r, n, data) /\ HasEntries(w, r, n, data)
  BY <1>1, <1>6 DEF HasEntries
<1>8. x = [i \in 1 .. n |-> EntryOf(m, data, i - 1)] /\ ItemsIn(w, r) = [i \in 1 .. n |-> EntryOf(w, data, i - 1)]
  BY <1>7, EntriesRead
<1> HIDE DEF x
<1>9. ASSUME NEW i \in 1 .. n PROVE EntryOf(w, data, i - 1) = z[i]
  <2> DEFINE c == data + (i - 1) * 2
             e == c + 1
  <2>1. c \in DOMAIN m /\ e \in DOMAIN m /\ c # d /\ (e = d <=> i = at + 1)
    BY <1>3
  <2>2. x[i] = [key |-> m[c], val |-> m[e]] /\ EntryOf(w, data, i - 1) = [key |-> w[c], val |-> w[e]]
    BY <1>8 DEF EntryOf
  <2> HIDE DEF c, e
  <2>3. w[c] = m[c] /\ w[e] = IF i = at + 1 THEN v ELSE m[e]
    BY <1>5, <2>1
  <2>4. DOMAIN x = 1 .. n
    BY <1>8
  <2>5. CASE i = at + 1
    <3>1. z[i] = [x[i] EXCEPT !.val = v]
      BY <1>4, <2>4, <2>5
    <3>2. EntryOf(w, data, i - 1) = [key |-> m[c], val |-> v]
      BY <2>2, <2>3, <2>5
    <3>3. [x[i] EXCEPT !.val = v] = [key |-> m[c], val |-> v]
      BY <2>2
    <3> QED BY <3>1, <3>2, <3>3
  <2>6. CASE i # at + 1
    <3>1. z[i] = x[i]
      BY <2>4, <2>6
    <3> QED BY <2>2, <2>3, <2>6, <3>1
  <2> QED BY <2>5, <2>6
<1>10. z = [i \in 1 .. n |-> z[i]]
  BY <1>8
<1> HIDE DEF z
<1>11. ItemsIn(w, r) = z
  BY <1>8, <1>9, <1>10
<1> QED BY <1>11 DEF w, d, z, x, ValueGiven

(* Another entry.                                                          *)
LEMMA EntryRead ==
  ASSUME NEW m, NEW r, NEW cap0, NEW n, NEW data0, MapAt(m, r, cap0, n, data0),
         NEW g, NEW cap, NEW data, HasPlace(m, g, r, n, cap, data), NEW k \in Cell, NEW v \in Cell
  PROVE  ItemsIn(Put(g, r, n, cap, data, k, v), r) = Append(ItemsIn(m, r), [key |-> k, val |-> v])
<1> DEFINE w == Put(g, r, n, cap, data, k, v)
           d == data + n * 2
           x == ItemsIn(m, r)
           p == [key |-> k, val |-> v]
           z == Append(x, p)
<1>1. /\ m \in Seq(Cell) /\ r \in Nat \ {0} /\ n \in Nat /\ data0 \in Nat
      /\ m[r].n = TYPE_MAP /\ m[r + 2].n = n /\ m[r + 3].n = data0
      /\ r .. r + 3 \subseteq DOMAIN m
  BY DEF MapAt
<1>2. /\ g \in Seq(Cell) /\ Len(m) <= Len(g) /\ cap \in Nat \ {0} /\ n < cap /\ data \in Nat /\ r + 4 <= data
      /\ data + cap * 2 - 1 <= Len(g) /\ Len(g) \in Nat /\ DOMAIN g = 1 .. Len(g) /\ Len(m) \in Nat /\ DOMAIN m = 1 .. Len(m)
      /\ \A c \in DOMAIN m : g[c] = m[c]
      /\ \A i \in 0 .. n - 1 : g[data + i * 2] = KeyIn(m, r, i) /\ g[data + i * 2 + 1] = ValIn(m, r, i)
  BY <1>1 DEF HasPlace
<1>3. IsPut(w, g, r, n, cap, data, k, v)
  <2>1. Fits(g, r, n, cap, data)
    BY <1>1, <1>2 DEF Fits
  <2> QED BY <2>1, PutIs
<1> HIDE DEF w
<1>4. /\ w[r + 2].n = n + 1 /\ w[r + 3].n = data /\ w[d] = k /\ w[d + 1] = v
      /\ \A c \in DOMAIN g \ {r + 1, r + 2, r + 3, d, d + 1} : w[c] = g[c]
  BY <1>3 DEF IsPut
<1>5. w[r].n = TYPE_MAP
  <2>1. r \in r .. r + 3 /\ r \notin {r + 1, r + 2, r + 3, d, d + 1}
    BY <1>1, <1>2
  <2>2. r \in DOMAIN g
    BY <2>1, <1>1, <1>2
  <2> QED BY <2>1, <2>2, <1>1, <1>2, <1>4
<1>6. \A i \in 0 .. n - 1 : w[data + i * 2] = KeyIn(m, r, i) /\ w[data + i * 2 + 1] = ValIn(m, r, i)
  <2>1. \A i \in 0 .. n - 1 : /\ data + i * 2 \in 1 .. Len(g) /\ data + i * 2 + 1 \in 1 .. Len(g)
                              /\ data + i * 2 \notin {r + 1, r + 2, r + 3, d, d + 1}
                              /\ data + i * 2 + 1 \notin {r + 1, r + 2, r + 3, d, d + 1}
    BY <1>1, <1>2
  <2> HIDE DEF d
  <2> QED BY <2>1, <1>2, <1>4
<1> DEFINE more == n + 1
<1>7. HasEntries(m, r, n, data0) /\ HasEntries(w, r, more, data)
  BY <1>1, <1>2, <1>4, <1>5 DEF HasEntries
<1>8. x = [i \in 1 .. n |-> EntryOf(m, data0, i - 1)] /\ ItemsIn(w, r) = [i \in 1 .. more |-> EntryOf(w, data, i - 1)]
  <2> HIDE DEF more, x
  <2>1. x = [i \in 1 .. n |-> EntryOf(m, data0, i - 1)]
    BY <1>7, EntriesRead DEF x
  <2>2. ItemsIn(w, r) = [i \in 1 .. more |-> EntryOf(w, data, i - 1)]
    BY <1>7, EntriesRead
  <2> QED BY <2>1, <2>2
<1> HIDE DEF x, p
<1>9. \A i \in 1 .. n : EntryOf(w, data, i - 1) = x[i]
  <2> SUFFICES ASSUME NEW i \in 1 .. n PROVE EntryOf(w, data, i - 1) = x[i]
    OBVIOUS
  <2> DEFINE j == i - 1
  <2>1. j \in 0 .. n - 1
    BY <1>1
  <2>2. x[i] = EntryOf(m, data0, j)
    BY <1>8
  <2> HIDE DEF j
  <2>3. KeyIn(m, r, j) = m[data0 + j * 2] /\ ValIn(m, r, j) = m[data0 + j * 2 + 1]
    BY <1>1 DEF KeyIn, ValIn
  <2>4. EntryOf(w, data, j) = x[i]
    BY <1>6, <2>1, <2>2, <2>3 DEF EntryOf
  <2> QED BY <2>4 DEF j
<1>10. EntryOf(w, data, n) = p
  BY <1>4 DEF EntryOf, p
<1>11. z = [i \in 1 .. more |-> IF i = more THEN p ELSE x[i]]
  <2> DEFINE N == {EntryOf(m, data0, i - 1) : i \in 1 .. n} \cup {p}
  <2>1. x \in [1 .. n -> N] /\ p \in N
    BY <1>8
  <2> HIDE DEF N
  <2>2. x \in Seq(N) /\ Len(x) = n
    BY <1>1, <2>1, FunctionIsSeq
  <2>3. /\ z \in Seq(N) /\ Len(z) = n + 1 /\ \A i \in 1 .. n : z[i] = x[i]
        /\ z[n + 1] = p
    <3>1. /\ z \in Seq(N) /\ Len(z) = Len(x) + 1
          /\ \A i \in 1 .. Len(x) : z[i] = x[i]
          /\ z[Len(x) + 1] = p
      BY <2>1, <2>2, Appended
    <3> QED BY <2>2, <3>1
  <2> HIDE DEF z
  <2>4. z = [i \in 1 .. more |-> z[i]]
    BY <2>3
  <2>5. \A i \in 1 .. more : z[i] = IF i = more THEN p ELSE x[i]
    <3>1. \A i \in 1 .. more : i = n + 1 \/ (i \in 1 .. n /\ i # n + 1)
      BY <1>1
    <3> QED BY <2>3, <3>1
  <2> QED BY <2>4, <2>5
<1>12. \A i \in 1 .. more : EntryOf(w, data, i - 1) = IF i = more THEN p ELSE x[i]
  <2> SUFFICES ASSUME NEW i \in 1 .. more PROVE EntryOf(w, data, i - 1) = IF i = more THEN p ELSE x[i]
    OBVIOUS
  <2>1. CASE i = more
    <3>1. i - 1 = n
      BY <1>1, <2>1
    <3> QED BY <1>10, <2>1, <3>1
  <2>2. CASE i # more
    <3>1. i \in 1 .. n
      BY <1>1, <2>2
    <3> QED BY <1>9, <2>2, <3>1
  <2> QED BY <2>1, <2>2
<1> HIDE DEF z, more
<1>13. ItemsIn(w, r) = z
  BY <1>8, <1>11, <1>12
<1> QED BY <1>13 DEF w, z, x, p
-----------------------------------------------------------------------------
LEMMA SetEntryMapped ==
  ASSUME Inv, Mapped, NEW r \in OfType({TYPE_MAP}), NEW k \in Literals, NEW v \in Literals, SetEntry(r, k, v)
  PROVE  Mapped' /\ Held!Next
<1> DEFINE cap == mem[r + 1].n
           n == mem[r + 2].n
           data == mem[r + 3].n
           x == ItemsIn(mem, r)
           at == Min(Places(r, k))
           p == [key |-> k, val |-> v]
           z == IF k \in Held!KeysOf(x) THEN [x EXCEPT ![Held!PlaceOf(x, k)].val = v] ELSE Append(x, p)
<1>1. /\ r \in Range(refs) /\ mem[r].n = TYPE_MAP /\ KindIn(mem, r) = "map" /\ MapAt(mem, r, cap, n, data)
      /\ k \in Held!KeysOf(x) <=> Places(r, k) # {}
      /\ Places(r, k) # {} => at \in 0 .. n - 1 /\ Held!PlaceOf(x, k) = at + 1
  BY MapMapped
<1>2. /\ Of(r) \in DOMAIN colls /\ colls[Of(r)] = [kind |-> "map", items |-> x] /\ Held!ItemsOf(Of(r)) = x
  BY <1>1, ObjectMapped
<1>3. k \in Value /\ v \in Value /\ k \in Cell /\ v \in Cell
  BY RawCells, ContainerConstants
<1>4. LoopsAlike(loops, loops)
  BY SameLoops DEF Inv
<1>5. Mapped' /\ BecomesOne(r, z)
  <2>1. CASE ValueSet(r, k, v)
    <3>1. Places(r, k) # {} /\ Changes([mem EXCEPT ![data + at * 2 + 1] = v])
      BY <2>1 DEF ValueSet
    <3>2. at \in 0 .. n - 1 /\ z = ValueGiven(x, at, v)
      BY <1>1, <3>1 DEF ValueGiven
    <3> HIDE DEF cap, n, data, at, z
    <3> DEFINE w == [mem EXCEPT ![data + at * 2 + 1] = v]
    <3>3. Good(w, refs, loops) /\ MapChanged(mem, w, r)
      BY <1>1, <1>3, <3>2, ValuePut DEF Inv
    <3>4. ItemsIn(w, r) = z
      BY <1>1, <3>2, ValueRead
    <3>5. MapNow(r, w, loops)
      BY <1>4, <3>1, <3>3 DEF MapNow, Changes
    <3> QED BY <3>4, <3>5, MapChangedMapped
  <2>2. CASE EntryAdded(r, k, v)
    <3>1. NewKey(mem, r, n, k) /\ Places(r, k) = {}
      BY <2>2 DEF EntryAdded
    <3>2. PICK g, room, next : HasPlace(mem, g, r, n, room, next) /\ Changes(Put(g, r, n, room, next, k, v))
      BY <2>2 DEF EntryAdded
    <3>3. z = Append(x, p)
      BY <1>1, <3>1
    <3> HIDE DEF cap, n, data, at, z
    <3> DEFINE w == Put(g, r, n, room, next, k, v)
    <3>4. Good(w, refs, loops) /\ MapChanged(mem, w, r)
      BY <1>1, <1>3, <3>1, <3>2, EntryPut DEF Inv
    <3>5. ItemsIn(w, r) = z
      BY <1>1, <1>3, <3>2, <3>3, EntryRead
    <3>6. MapNow(r, w, loops)
      BY <1>4, <3>2, <3>4 DEF MapNow, Changes
    <3> QED BY <3>5, <3>6, MapChangedMapped
  <2> QED BY <2>1, <2>2, SetEntryIs
<1>6. Held!SetEntry(Of(r), k, v)
  <2>1. z = IF k \in Held!KeysOf(Held!ItemsOf(Of(r)))
            THEN [Held!ItemsOf(Of(r)) EXCEPT ![Held!PlaceOf(Held!ItemsOf(Of(r)), k)].val = v]
            ELSE Append(Held!ItemsOf(Of(r)), Held!Entry(k, v))
    BY <1>2 DEF Held!Entry
  <2> HIDE DEF z
  <2>2. Held!Becomes(Of(r), z)
    BY <1>5, BecomesHeld
  <2>3. Held!Asked(<<"set entry", Of(r), k, v>>)
    BY DEF SetEntry, Asked, Held!Asked
  <2> QED BY <2>1, <2>2, <2>3 DEF Held!SetEntry
<1>7. Of(r) \in Held!OfKind({"map"})
  BY <1>2 DEF Held!OfKind
<1>8. Held!Changing
  BY <1>3, <1>6, <1>7 DEF Held!Changing
<1> QED BY <1>5, <1>8 DEF BecomesOne, Held!Next

(* A map without one of its entries.                                       *)
WithoutEntry(r, n, data, at) ==
  [Copied(data + at * 2, data + at * 2 + 2, (n - 1 - at) * 2) EXCEPT ![r + 2] = Raw(n - 1)]

LEMMA WithoutEntryRead ==
  ASSUME NEW r, NEW cap, NEW n, NEW data, MapAt(mem, r, cap, n, data), NEW at \in 0 .. n - 1,
         NEW S, ItemsIn(mem, r) \in Seq(S)
  PROVE  ItemsIn(WithoutEntry(r, n, data, at), r) = Held!RemoveAt(ItemsIn(mem, r), at + 1)
<1> DEFINE cell == data + at * 2
           from == cell + 2
           len  == (n - 1 - at) * 2
           f    == Copied(cell, from, len)
           a    == r + 2
           y    == Raw(n - 1)
           w    == [f EXCEPT ![a] = y]
           x    == ItemsIn(mem, r)
           less == n - 1
<1>1. /\ mem \in Seq(Cell) /\ r \in Nat \ {0}
      /\ cap \in Nat \ {0} /\ n \in Nat /\ n <= cap
      /\ data \in Nat \ {0} /\ r + 4 <= data /\ data + cap * 2 - 1 <= Len(mem)
      /\ Len(mem) \in Nat /\ DOMAIN mem = 1 .. Len(mem)
      /\ mem[r].n = TYPE_MAP /\ mem[r + 2].n = n /\ mem[r + 3].n = data
      /\ r .. r + 3 \subseteq DOMAIN mem
  BY DEF MapAt
<1>2. WithoutEntry(r, n, data, at) = w
  BY DEF WithoutEntry
<1>3. /\ len \in Nat /\ cell \in Nat /\ from \in Nat /\ cell <= from
      /\ cell .. cell + len - 1 \subseteq 1 .. Len(mem)
      /\ from .. from + len - 1 \subseteq 1 .. Len(mem)
      /\ r + 3 < cell
  BY <1>1
<1>4. \A i \in 1 .. less :
        /\ data + (i - 1) * 2 \in 1 .. Len(mem) /\ data + (i - 1) * 2 + 1 \in 1 .. Len(mem)
        /\ data + (i - 1) * 2 # a /\ data + (i - 1) * 2 + 1 # a
        /\ i < at + 1 => /\ data + (i - 1) * 2 \notin cell .. cell + len - 1
                         /\ data + (i - 1) * 2 + 1 \notin cell .. cell + len - 1
        /\ ~ i < at + 1 => /\ data + (i - 1) * 2 \in cell .. cell + len - 1
                           /\ data + (i - 1) * 2 + 1 \in cell .. cell + len - 1
                           /\ from + (data + (i - 1) * 2) - cell = data + ((i + 1) - 1) * 2
                           /\ from + (data + (i - 1) * 2 + 1) - cell = data + ((i + 1) - 1) * 2 + 1
  BY <1>1
<1>5. a \in 1 .. Len(mem) /\ r \in 1 .. Len(mem) /\ r + 3 \in 1 .. Len(mem) /\ a # r /\ a # r + 3
      /\ a = r + 2 /\ r \notin cell .. cell + len - 1 /\ r + 3 \notin cell .. cell + len - 1
  <2>1. a \in r .. r + 3 /\ r \in r .. r + 3 /\ r + 3 \in r .. r + 3 /\ a # r /\ a # r + 3
    BY <1>1
  <2>2. a \in 1 .. Len(mem) /\ r \in 1 .. Len(mem) /\ r + 3 \in 1 .. Len(mem)
    BY <2>1, <1>1
  <2> HIDE DEF cell, len
  <2>3. r \notin cell .. cell + len - 1 /\ r + 3 \notin cell .. cell + len - 1
    BY <1>1, <1>3
  <2> QED BY <2>1, <2>2, <2>3
<1>6. less \in Nat /\ y.n = less /\ at + 1 \in 1 .. n
  BY <1>1 DEF Raw
<1> HIDE DEF cell, from, len, a, y
<1>7. CanCopy(cell, from, len)
  BY <1>1, <1>3 DEF CanCopy
<1>8. f = [c \in DOMAIN mem |-> IF c \in cell .. cell + len - 1 THEN mem[from + c - cell] ELSE mem[c]]
  BY <1>7, CopyIs DEF Moved
<1> HIDE DEF f
<1>9. w[a] = y /\ \A c \in DOMAIN mem : c # a => w[c] = IF c \in cell .. cell + len - 1 THEN mem[from + c - cell] ELSE mem[c]
  BY <1>1, <1>5, <1>8
<1> HIDE DEF w
<1>10. w[r] = mem[r] /\ w[r + 3] = mem[r + 3] /\ w[r + 2] = y
  BY <1>1, <1>5, <1>9
<1>11. HasEntries(mem, r, n, data) /\ HasEntries(w, r, less, data)
  BY <1>1, <1>6, <1>10 DEF HasEntries
<1> HIDE DEF less
<1>12. x = [i \in 1 .. n |-> EntryOf(mem, data, i - 1)] /\ ItemsIn(w, r) = [i \in 1 .. less |-> EntryOf(w, data, i - 1)]
  BY <1>11, EntriesRead
<1> HIDE DEF x
<1>13. Len(x) = n
  BY <1>1, <1>12
<1> DEFINE p == at + 1
<1>14. p \in 1 .. Len(x) /\ Len(x) - 1 = less
  BY <1>6, <1>13 DEF less
<1> HIDE DEF p
<1>15. Held!RemoveAt(x, p) = [i \in 1 .. less |-> IF i < p THEN x[i] ELSE x[i + 1]]
  <2>1. x \in Seq(S)
    BY DEF x
  <2> QED BY <1>14, <2>1, TakenOut
<1>16. \A i \in 1 .. less : EntryOf(w, data, i - 1) = IF i < p THEN x[i] ELSE x[i + 1]
  <2> SUFFICES ASSUME NEW i \in 1 .. less PROVE EntryOf(w, data, i - 1) = IF i < p THEN x[i] ELSE x[i + 1]
    OBVIOUS
  <2> DEFINE c == data + (i - 1) * 2
             e == c + 1
             j == i + 1
             d == data + (j - 1) * 2
  <2>1. /\ c \in DOMAIN mem /\ e \in DOMAIN mem /\ c # a /\ e # a
        /\ i < p => c \notin cell .. cell + len - 1 /\ e \notin cell .. cell + len - 1
        /\ ~ i < p => /\ c \in cell .. cell + len - 1 /\ e \in cell .. cell + len - 1
                      /\ from + c - cell = d /\ from + e - cell = d + 1
    BY <1>1, <1>4 DEF p
  <2>2. i \in 1 .. n /\ j \in 1 .. n
    BY <1>1 DEF less
  <2>3. EntryOf(w, data, i - 1) = [key |-> w[c], val |-> w[e]] /\ x[i] = [key |-> mem[c], val |-> mem[e]]
    BY <1>12, <2>2 DEF EntryOf
  <2> HIDE DEF c, e, j
  <2>4. x[j] = [key |-> mem[d], val |-> mem[d + 1]]
    BY <1>12, <2>2 DEF EntryOf
  <2> HIDE DEF d
  <2>5. CASE i < p
    BY <1>9, <2>1, <2>3, <2>5
  <2>6. CASE ~ i < p
    <3>1. w[c] = mem[d] /\ w[e] = mem[d + 1]
      BY <1>9, <2>1, <2>6
    <3>2. EntryOf(w, data, i - 1) = x[j]
      BY <2>3, <2>4, <3>1
    <3> QED BY <2>6, <3>2 DEF j
  <2> QED BY <2>5, <2>6
<1>17. ItemsIn(w, r) = Held!RemoveAt(x, p)
  BY <1>12, <1>15, <1>16
<1> QED BY <1>2, <1>17 DEF x, p

LEMMA RemoveEntryMapped ==
  ASSUME Inv, Mapped, NEW r \in OfType({TYPE_MAP}), NEW k \in Literals, RemoveEntry(r, k)
  PROVE  Mapped' /\ Held!Next
<1> DEFINE cap == mem[r + 1].n
           n == mem[r + 2].n
           data == mem[r + 3].n
           x == ItemsIn(mem, r)
           at == Min(Places(r, k))
           z == IF k \in Held!KeysOf(x) THEN Held!RemoveAt(x, Held!PlaceOf(x, k)) ELSE x
<1>1. /\ r \in Range(refs) /\ mem[r].n = TYPE_MAP /\ KindIn(mem, r) = "map" /\ MapAt(mem, r, cap, n, data)
      /\ k \in Held!KeysOf(x) <=> Places(r, k) # {}
      /\ Places(r, k) # {} => at \in 0 .. n - 1 /\ Held!PlaceOf(x, k) = at + 1
      /\ \E S : x \in Seq(S)
  BY MapMapped
<1>2. /\ Of(r) \in DOMAIN colls /\ colls[Of(r)] = [kind |-> "map", items |-> x] /\ Held!ItemsOf(Of(r)) = x
  BY <1>1, ObjectMapped
<1>3. k \in Value
  BY ContainerConstants
<1>4. IF Places(r, k) # {} THEN Shrinks(r, WithoutEntry(r, n, data, at)) ELSE Changes(mem)
  BY DEF RemoveEntry, Count, Data, WithoutEntry
<1>5. Mapped' /\ BecomesOne(r, z)
  <2>1. CASE Places(r, k) # {}
    <3>1. at \in 0 .. n - 1 /\ z = Held!RemoveAt(x, at + 1)
      BY <1>1, <2>1
    <3> HIDE DEF cap, n, data, at, z, x
    <3> DEFINE w == WithoutEntry(r, n, data, at)
               K == Knowing(loops, r)
    <3>2. LoopsAlike(K, loops) /\ Told(K, loops, r)
      BY LoopsTold, LoopsAreLoops
    <3> HIDE DEF K
    <3>3. Good(w, refs, K) /\ MapChanged(mem, w, r)
      BY <1>1, <3>1, <3>2, EntryTaken DEF Inv, WithoutEntry
    <3>4. PICK S : x \in Seq(S)
      BY <1>1
    <3>5. ItemsIn(w, r) = z
      BY <1>1, <3>1, <3>4, WithoutEntryRead DEF x
    <3>6. MapNow(r, w, K)
      BY <1>4, <2>1, <3>2, <3>3 DEF MapNow, Shrinks, K, Knowing
    <3> QED BY <3>5, <3>6, MapChangedMapped
  <2>2. CASE Places(r, k) = {}
    <3>1. z = x
      BY <1>1, <2>2
    <3> QED BY <1>4, <2>2, <3>1, MapKeptMapped
  <2> QED BY <2>1, <2>2
<1>6. Held!RemoveEntry(Of(r), k)
  <2>1. z = IF k \in Held!KeysOf(Held!ItemsOf(Of(r)))
            THEN Held!RemoveAt(Held!ItemsOf(Of(r)), Held!PlaceOf(Held!ItemsOf(Of(r)), k))
            ELSE Held!ItemsOf(Of(r))
    BY <1>2
  <2> HIDE DEF z
  <2>2. Held!Becomes(Of(r), z)
    BY <1>5, BecomesHeld
  <2>3. Held!Asked(<<"remove entry", Of(r), k>>)
    BY DEF RemoveEntry, Asked, Held!Asked
  <2> QED BY <2>1, <2>2, <2>3 DEF Held!RemoveEntry
<1>7. Of(r) \in Held!OfKind({"map"})
  BY <1>2 DEF Held!OfKind
<1>8. Held!Changing
  BY <1>3, <1>6, <1>7 DEF Held!Changing
<1> QED BY <1>5, <1>8 DEF BecomesOne, Held!Next
-----------------------------------------------------------------------------
(* Loops.                                                                  *)
HeldLoop(by, of, pos, body, len, given, out) ==
  [by |-> by, of |-> of, pos |-> pos, body |-> body, len |-> len, given |-> given, out |-> out]

(* A loop that has gone on: with y for body, v given, at p, with list z.    *)
Given(h, y, v)      == [h EXCEPT !.body = y, !.given = v]
GivenAt(h, p, y, v) == [h EXCEPT !.pos = p, !.body = y, !.given = v]
Taken(h, y, v, z)   == [h EXCEPT !.body = y, !.given = v, !.out = z]

LEMMA HeldLoopChanged ==
  ASSUME NEW b, NEW o, NEW p, NEW y, NEW n, NEW v, NEW z, NEW p2, NEW y2, NEW v2, NEW z2
  PROVE  /\ Given(HeldLoop(b, o, p, y, n, v, z), y2, v2) = HeldLoop(b, o, p, y2, n, v2, z)
         /\ GivenAt(HeldLoop(b, o, p, y, n, v, z), p2, y2, v2) = HeldLoop(b, o, p2, y2, n, v2, z)
         /\ Taken(HeldLoop(b, o, p, y, n, v, z), y2, v2, z2) = HeldLoop(b, o, p, y2, n, v2, z2)
<1> DEFINE h == HeldLoop(b, o, p, y, n, v, z)
           hp == HeldLoop(b, o, p2, y, n, v, z)
           hb == HeldLoop(b, o, p, y2, n, v, z)
           hpb == HeldLoop(b, o, p2, y2, n, v, z)
           hg == HeldLoop(b, o, p, y2, n, v2, z)
<1>1. [h EXCEPT !.pos = p2] = hp
  BY DEF HeldLoop
<1>2. [h EXCEPT !.body = y2] = hb
  BY DEF HeldLoop
<1>3. [hp EXCEPT !.body = y2] = hpb
  BY DEF HeldLoop
<1>4. [hb EXCEPT !.given = v2] = hg
  BY DEF HeldLoop
<1>5. [hpb EXCEPT !.given = v2] = HeldLoop(b, o, p2, y2, n, v2, z)
  BY DEF HeldLoop
<1>6. [hg EXCEPT !.out = z2] = HeldLoop(b, o, p, y2, n, v2, z2)
  BY DEF HeldLoop
<1> HIDE DEF h, hp, hb, hpb, hg
<1>7. Given(h, y2, v2) = [[h EXCEPT !.body = y2] EXCEPT !.given = v2]
  BY DEF Given
<1>8. GivenAt(h, p2, y2, v2) = [[[h EXCEPT !.pos = p2] EXCEPT !.body = y2] EXCEPT !.given = v2]
  BY DEF GivenAt
<1>9. Taken(h, y2, v2, z2) = [[[h EXCEPT !.body = y2] EXCEPT !.given = v2] EXCEPT !.out = z2]
  BY DEF Taken
<1> QED BY <1>1, <1>2, <1>3, <1>4, <1>5, <1>6, <1>7, <1>8, <1>9 DEF h, hg

HeldLoops == [i \in DOMAIN loops |-> LoopOf(loops[i])]

(* The innermost loop is now a loop l of Collections.                      *)
TurnsTo(l) == Loops' = Append(Front(Loops), l) /\ colls' = colls

LEMMA TurnsHeld ==
  ASSUME NEW l, TurnsTo(l)
  PROVE  Held!SetLoop(l)
BY LoopsAreSeen, LoopsAreSeenNext DEF LoopsSeen, TurnsTo, Held!SetLoop, Held!Front, Front

LEMMA LoopMapped ==
  ASSUME Inv, loops # <<>>
  PROVE  HeldLoops # <<>> /\ Held!Last(HeldLoops) = LoopIn(mem, refs, loop)
<1>1. loops \in Seq(LoopType)
  BY LoopsAreLoops
<1>2. Loops # <<>> /\ Last(Loops) = LoopIn(mem, refs, loop)
  BY <1>1, ReadFront DEF Loops, loop
<1> QED BY <1>2, LoopsAreSeen DEF LoopsSeen, HeldLoops, Held!Last, Last

(* A step of the innermost loop that writes no cell.                       *)
Turns(k) ==
  /\ loops # <<>> /\ GoesOn(mem, k, loop)
  /\ mem' = mem /\ refs' = refs /\ colls' = colls /\ loops' = Append(Front(loops), k)

LEMMA TurnMapped ==
  ASSUME Inv, Mapped, NEW k, Turns(k)
  PROVE  Mapped' /\ TurnsTo(LoopIn(mem, refs, k))
<1>1. Good(mem, refs, loops) /\ Valued(mem, refs, loops) /\ colls = CollsOf(mem, refs)
  BY DEF Inv, Mapped
<1>2. loops # <<>> /\ GoesOn(mem, k, Last(loops))
  BY DEF Turns, loop
<1>3. /\ Valued(mem, refs, Append(Front(loops), k))
      /\ LoopsOf(mem, refs, Append(Front(loops), k)) = Append(Front(LoopsOf(mem, refs, loops)), LoopIn(mem, refs, k))
  BY <1>1, <1>2, LoopTurned
<1>4. mem' = mem /\ refs' = refs /\ colls' = colls /\ loops' = Append(Front(loops), k)
  BY DEF Turns
<1>5. Mapped'
  BY <1>1, <1>3, <1>4 DEF Mapped
<1> QED BY <1>3, <1>4, <1>5 DEF TurnsTo, Loops

LEMMA NextRoundMapped ==
  ASSUME Inv, Mapped, NextRound
  PROVE  Mapped' /\ Held!Next
<1> DEFINE l == loop
           k == [l EXCEPT !.body = FALSE, !.idx = @ + 1, !.val = <<>>]
           h == LoopIn(mem, refs, l)
           g == [h EXCEPT !.body = FALSE, !.given = <<>>]
<1>1. /\ loops # <<>> /\ l.body /\ l.by = "for" /\ last' = <<"through">>
      /\ mem' = mem /\ refs' = refs /\ colls' = colls /\ loops' = Append(Front(loops), k)
  BY DEF NextRound, SetLoop, Asked
<1>2. l \in LoopType
  BY <1>1, Innermost
<1>3. HeldLoops # <<>> /\ Held!Last(HeldLoops) = h
  BY <1>1, LoopMapped
<1> HIDE DEF l
<1> DEFINE next == l.idx + 1
           none == <<>>
<1>4. next \in Nat /\ none \in Seq(Cell \cup [key : Cell, val : Cell])
  BY <1>2 DEF LoopType
<1>5. k = [l EXCEPT !.body = FALSE, !.idx = next, !.val = none]
  OBVIOUS
<1>6. h = HeldLoop(l.by, PlaceIn(refs, l.arr), next, l.body, l.len, l.val, <<>>)
  BY <1>1 DEF LoopIn, OutIn, HeldLoop
<1> HIDE DEF next, k, none
<1>7. /\ k \in LoopType /\ k.by = l.by /\ k.arr = l.arr /\ k.res = l.res /\ k.len = l.len
      /\ k.body = FALSE /\ k.idx = next /\ k.val = none
  BY <1>2, <1>4, <1>5 DEF LoopType
<1>8. LoopIn(mem, refs, k) = HeldLoop(l.by, PlaceIn(refs, l.arr), next, FALSE, l.len, none, <<>>)
  BY <1>1, <1>7 DEF LoopIn, OutIn, HeldLoop
<1> HIDE DEF h
<1>9. LoopIn(mem, refs, k) = g
  <2> DEFINE no == FALSE
             z == <<>>
  <2>1. g = Given(h, no, none) /\ h = HeldLoop(l.by, PlaceIn(refs, l.arr), next, l.body, l.len, l.val, z)
        /\ LoopIn(mem, refs, k) = HeldLoop(l.by, PlaceIn(refs, l.arr), next, no, l.len, none, z)
    BY <1>6, <1>8 DEF none, Given
  <2> HIDE DEF no, z, g
  <2> QED BY <2>1, HeldLoopChanged
<1>10. Turns(k)
  BY <1>1, <1>7 DEF Turns, GoesOn, l
<1>11. Mapped' /\ TurnsTo(g)
  BY <1>9, <1>10, TurnMapped
<1>12. Held!SetLoop(g)
  BY <1>11, TurnsHeld
<1>13. h.body /\ h.by = "for"
  BY <1>1, <1>6 DEF HeldLoop
<1>14. Held!Through
  BY <1>1, <1>3, <1>12, <1>13 DEF Held!Through, Held!Asked, HeldLoops
<1> QED BY <1>11, <1>14 DEF Held!Looping, Held!Next

LEMMA ForInMapped ==
  ASSUME Inv, Mapped, NEW r \in Range(refs), ForIn(r)
  PROVE  Mapped' /\ Held!Next
<1> DEFINE l == Loop("for", r, 0)
           i == Of(r)
<1>1. /\ mem' = mem /\ refs' = refs /\ colls' = colls /\ loops' = Append(loops, l)
      /\ Len(loops) < MaxLoops /\ Ready /\ last' = <<"for", i>>
  BY DEF ForIn, Asked
<1>2. r \in Nat /\ Good(mem, refs, loops) /\ Valued(mem, refs, loops) /\ colls = CollsOf(mem, refs)
  BY DEF Inv, Good, AllSound, SoundIn, Mapped
<1>3. l = [by |-> "for", arr |-> r, idx |-> 0, len |-> 0, body |-> FALSE, val |-> <<>>,
           res |-> 0, kept |-> 0, shrunk |-> FALSE, seen |-> <<>>]
  BY DEF Loop
<1>4. i = PlaceIn(refs, r) /\ i \in DOMAIN colls
  BY ObjectMapped
<1> HIDE DEF l, i
<1>5. l \in LoopType /\ l.by = "for"
  BY <1>2, <1>3 DEF LoopType
<1>6. /\ Valued(mem, refs, Append(loops, l))
      /\ LoopsOf(mem, refs, Append(loops, l)) = Append(LoopsOf(mem, refs, loops), LoopIn(mem, refs, l))
  BY <1>2, <1>5, LoopAdded
<1>7. LoopIn(mem, refs, l) = Held!Loop("for", i)
  BY <1>3, <1>4 DEF LoopIn, OutIn, Held!Loop
<1>8. Mapped' /\ Loops' = Append(Loops, Held!Loop("for", i))
  BY <1>1, <1>2, <1>6, <1>7 DEF Mapped, Loops
<1>9. Held!Ready /\ Len(Loops) = Len(loops)
  BY <1>1, InBody
<1> DEFINE e == Held!Loop("for", i)
<1> HIDE DEF e
<1>10. Held!Begin("for", i)
  <2>1. Loops' = Append(Loops, e)
    BY <1>8 DEF e
  <2>2. HeldLoops' = Append(HeldLoops, e) /\ Len(HeldLoops) < MaxLoops
    BY <1>1, <1>9, <2>1, LoopsAreSeen, LoopsAreSeenNext DEF LoopsSeen, HeldLoops
  <2> QED BY <1>1, <1>9, <2>2 DEF Held!Begin, Held!Asked, HeldLoops, e
<1> QED BY <1>4, <1>8, <1>10 DEF Held!Looping, Held!Next
-----------------------------------------------------------------------------
(* The innermost loop k takes v, which is there at its position or, behind *)
(* the items, was there when its native began.                             *)
Takes(k, v) ==
  LET items == ItemsIn(mem, loop.arr)
  IN /\ ~loop.body /\ k.body /\ k.idx = loop.idx /\ k.kept = loop.kept /\ k.val = <<v>>
     /\ IF loop.by = "for" THEN loop.idx < Len(items) ELSE loop.idx < loop.len
     /\ v \in IF loop.idx < Len(items) THEN {items[loop.idx + 1]} ELSE Value

LEMMA RoundMapped ==
  ASSUME Inv, Mapped, NEW k, NEW v, Turns(k), Takes(k, v), Asked(<<"round">>)
  PROVE  Mapped' /\ Held!Next
<1> DEFINE l == loop
           r == l.arr
           items == ItemsIn(mem, r)
           h == LoopIn(mem, refs, l)
           i == l.idx
           p == i + 1
           o == Of(r)
           out == OutIn(mem, l)
           no == FALSE
           yes == TRUE
           one == <<v>>
           g == GivenAt(h, p, yes, one)
<1>1. /\ loops # <<>> /\ k \in LoopType /\ k.by = l.by /\ k.arr = r /\ k.res = l.res /\ k.len = l.len
      /\ k.body = yes /\ k.idx = i /\ k.kept = l.kept /\ k.val = one /\ l.body = no
  <2>1. /\ loops # <<>> /\ k \in LoopType /\ k.by = l.by /\ k.arr = r /\ k.res = l.res /\ k.len = l.len
    BY DEF Turns, GoesOn
  <2>2. k.body /\ k.idx = i /\ k.kept = l.kept /\ k.val = one /\ ~ l.body
    BY DEF Takes
  <2>3. l \in LoopType
    BY <2>1, Innermost
  <2>4. k.body \in BOOLEAN /\ l.body \in BOOLEAN
    BY <2>1, <2>3 DEF LoopType
  <2> QED BY <2>1, <2>2, <2>4
<1>2. /\ IF l.by = "for" THEN i < Len(items) ELSE i < l.len
      /\ v \in IF i < Len(items) THEN {items[i + 1]} ELSE Value
  BY DEF Takes
<1>3. HeldLoops # <<>> /\ Held!Last(HeldLoops) = h
  BY <1>1, LoopMapped
<1>4. r \in Range(refs) /\ l \in LoopType
  BY <1>1, Innermost
<1>5. o = PlaceIn(refs, r) /\ Held!ItemsOf(o) = items
  BY <1>4, ObjectMapped
<1> HIDE DEF items
<1>6. h = HeldLoop(l.by, o, i, no, l.len, l.val, out)
  <2>1. ~ l.body /\ l.body = no
    BY <1>1
  <2> HIDE DEF l, out, o, no
  <2>2. LoopIn(mem, refs, l) = [by |-> l.by, of |-> o, pos |-> i, body |-> l.body, len |-> l.len, given |-> l.val, out |-> out]
    BY <1>5, <2>1 DEF LoopIn, out
  <2> QED BY <2>1, <2>2 DEF HeldLoop
<1>7. LoopIn(mem, refs, k) = HeldLoop(l.by, o, p, yes, l.len, one, out)
  <2>1. k.body
    BY <1>1
  <2>2. OutIn(mem, k) = out
    BY <1>1 DEF OutIn
  <2> HIDE DEF l, out, o, one
  <2> QED BY <1>1, <1>5, <2>1, <2>2 DEF LoopIn, HeldLoop
<1> HIDE DEF h, out, no, yes, one, o, p, l
<1>8. LoopIn(mem, refs, k) = g
  BY <1>6, <1>7, HeldLoopChanged
<1>9. Mapped' /\ TurnsTo(g)
  BY <1>8, TurnMapped
<1>10. Held!SetLoop(g)
  BY <1>9, TurnsHeld
<1>11. h.by = l.by /\ h.of = o /\ h.pos = i /\ h.body = no /\ h.len = l.len
  BY <1>6 DEF HeldLoop
<1>12. g = [h EXCEPT !.pos = @ + 1, !.body = TRUE, !.given = <<v>>]
  <2>1. h.pos + 1 = p
    BY <1>11 DEF p
  <2> QED BY <2>1 DEF GivenAt, yes, one
<1> HIDE DEF g, i
<1>13. /\ IF h.by = "for" THEN h.pos < Len(Held!ItemsOf(h.of)) ELSE h.pos < h.len
       /\ v \in IF h.pos < Len(Held!ItemsOf(h.of)) THEN {Held!ItemsOf(h.of)[h.pos + 1]} ELSE Value
  BY <1>2, <1>5, <1>11
<1>14. Held!Asked(<<"round">>) /\ ~ h.body
  BY <1>11 DEF Asked, Held!Asked, no
<1>15. Held!SetLoop([h EXCEPT !.pos = @ + 1, !.body = TRUE, !.given = <<v>>])
  BY <1>10, <1>12
<1>16. Held!Round
  BY <1>3, <1>13, <1>14, <1>15 DEF Held!Round, HeldLoops
<1> QED BY <1>9, <1>16 DEF Held!Looping, Held!Next

LEMMA CallBackMapped ==
  ASSUME Inv, Mapped, CallBack
  PROVE  Mapped' /\ Held!Next
<1> DEFINE l == loop
           r == l.arr
           i == l.idx
           v == mem[r + 2 + i]
           k == [l EXCEPT !.body = TRUE, !.val = <<v>>]
<1>1. /\ mem' = mem /\ refs' = refs /\ colls' = colls /\ loops' = Append(Front(loops), k) /\ loops # <<>>
      /\ l.by # "for" /\ i < l.len /\ ~ l.body /\ Asked(<<"round">>)
  BY DEF CallBack, SetLoop
<1>2. /\ l \in LoopType /\ FillsIn(mem, l) /\ r \in Range(refs) /\ mem \in Seq(Cell)
      /\ Len(loops) \in NativesOf(loops) /\ l = loops[Len(loops)]
  BY <1>1, Innermost, LoopsAreLoops
<1>3. mem[r].n = TYPE_ARRAY /\ ValuesAt(mem, r + 2, l.len) /\ ValuesAt(mem, l.res + 2, l.kept)
  BY <1>2 DEF Mapped, Valued, Feeds
<1>4. r \in OfType(Listed) /\ Type(r) = TYPE_ARRAY
  BY <1>2, <1>3 DEF OfType, Type, Listed
<1>5. /\ Len(ItemsIn(mem, r)) = Length(r) /\ Length(r) \in Nat
      /\ \A j \in 1 .. Length(r) : ItemsIn(mem, r)[j] = mem[r + 1 + j]
  BY <1>4, ListMapped
<1>6. r \in Nat /\ i \in Nat /\ l.len \in Nat /\ Len(mem) \in Nat
  BY <1>2 DEF LoopType
<1>7. r + 1 + l.len <= Len(mem)
  BY <1>2 DEF FillsIn
<1> HIDE DEF l, r, i
<1>8. v \in Value
  <2>1. r + 2 + i \in r + 2 .. r + 2 + l.len - 1
    BY <1>1, <1>6
  <2> QED BY <1>3, <2>1 DEF ValuesAt
<1>9. i < Length(r) => v = ItemsIn(mem, r)[i + 1]
  <2>1. i < Length(r) => i + 1 \in 1 .. Length(r) /\ r + 1 + (i + 1) = r + 2 + i
    BY <1>5, <1>6
  <2> QED BY <1>5, <2>1
<1>10. v \in Cell
  <2>1. r + 2 + i \in 1 .. Len(mem)
    BY <1>1, <1>6, <1>7
  <2> QED BY <1>2, <2>1, ElementOfSeq
<1> HIDE DEF v
<1>11. <<v>> \in Seq(Cell \cup [key : Cell, val : Cell]) /\ <<v>>[1] = v
  BY <1>10
<1>12. /\ k \in LoopType /\ k.by = l.by /\ k.arr = r /\ k.res = l.res /\ k.len = l.len
       /\ k.idx = i /\ k.kept = l.kept /\ k.body = TRUE /\ k.val = <<v>>
  BY <1>2, <1>11 DEF LoopType, r, i
<1> HIDE DEF k
<1>13. Turns(k)
  BY <1>1, <1>3, <1>8, <1>11, <1>12 DEF Turns, GoesOn, l, r
<1>14. Takes(k, v)
  BY <1>1, <1>5, <1>8, <1>9, <1>12 DEF Takes, l, r, i
<1> QED BY <1>1, <1>13, <1>14, RoundMapped

LEMMA NextItemMapped ==
  ASSUME Inv, Mapped, NextItem
  PROVE  Mapped' /\ Held!Next
<1> DEFINE l == loop
           r == l.arr
           i == l.idx
<1>1. /\ mem' = mem /\ refs' = refs /\ colls' = colls /\ loops # <<>>
      /\ l.by = "for" /\ ~ l.body /\ Asked(<<"round">>) /\ i < Size(r)
  BY DEF NextItem, More
<1>2. l \in LoopType /\ r \in Range(refs) /\ mem \in Seq(Cell) /\ SoundIn(mem, r)
  BY <1>1, Innermost, LoopsAreLoops
<1>3. i \in Nat
  BY <1>2 DEF LoopType
<1>4. CASE Type(r) = TYPE_MAP
  <2> DEFINE cap == mem[r + 1].n
             n == mem[r + 2].n
             data == mem[r + 3].n
             d == data + i * 2
             key == mem[d]
             val == mem[d + 1]
             v == [key |-> key, val |-> val]
             k == [l EXCEPT !.body = TRUE, !.val = <<v>>, !.seen = Append(l.seen, key)]
  <2>1. loops' = Append(Front(loops), k)
    BY <1>4 DEF NextItem, SetLoop, Data
  <2>2. mem[r].n = TYPE_MAP
    BY <1>4 DEF Type
  <2>3. MapAt(mem, r, cap, n, data)
    BY <1>2, <2>2, MapIsAt DEF Inv
  <2>4. i < n
    BY <1>1, <1>4 DEF Size, Count
  <2>5. ItemsIn(mem, r) = [j \in 1 .. n |-> EntryIn(mem, r, j - 1)]
    BY <2>2 DEF ItemsIn
  <2>6. EntryIn(mem, r, i) = v
    BY DEF EntryIn
  <2> HIDE DEF l, cap, n, data
  <2>7. d \in 1 .. Len(mem) /\ d + 1 \in 1 .. Len(mem) /\ n \in Nat
    <3>1. /\ cap \in Nat \ {0} /\ n \in Nat /\ n <= cap /\ Len(mem) \in Nat
          /\ data \in Nat \ {0} /\ data + cap * 2 - 1 <= Len(mem)
      BY <2>3, <1>2 DEF MapAt
    <3> HIDE DEF i
    <3> QED BY <3>1, <1>3, <2>4
  <2>8. key \in Cell /\ val \in Cell
    BY <1>2, <2>7, ElementOfSeq
  <2> HIDE DEF key, val
  <2> DEFINE item == <<v>>
             more == Append(l.seen, key)
  <2>9. item \in Seq(Cell \cup [key : Cell, val : Cell])
    BY <2>8
  <2>10. more \in Seq(Cell)
    BY <1>2, <2>8, Appended DEF LoopType
  <2>11. k = [l EXCEPT !.body = TRUE, !.val = item, !.seen = more]
    OBVIOUS
  <2> HIDE DEF item, more, k
  <2>12. /\ k \in LoopType /\ k.by = l.by /\ k.arr = l.arr /\ k.res = l.res /\ k.len = l.len
         /\ k.idx = l.idx /\ k.kept = l.kept /\ k.body = TRUE /\ k.val = item
    BY <1>2, <2>9, <2>10, <2>11 DEF LoopType
  <2> HIDE DEF i, r, v
  <2>13. Len(ItemsIn(mem, r)) = n /\ ItemsIn(mem, r)[i + 1] = v
    <3>1. i + 1 \in 1 .. n /\ i + 1 - 1 = i
      BY <1>3, <2>4, <2>7
    <3> DEFINE x == ItemsIn(mem, r)
    <3> HIDE DEF x, d
    <3>2. x = [j \in 1 .. n |-> EntryIn(mem, r, j - 1)]
      BY <2>5 DEF x
    <3> DEFINE p == i + 1
    <3>3. p \in 1 .. n /\ p - 1 = i
      BY <1>3, <2>4, <2>7
    <3> HIDE DEF p
    <3>4. Len(x) = n
      BY <2>7, <3>2
    <3>5. x[p] = EntryIn(mem, r, p - 1)
      BY <3>2, <3>3
    <3>6. Len(x) = n /\ x[i + 1] = EntryIn(mem, r, i)
      BY <3>3, <3>4, <3>5 DEF p
    <3> QED BY <2>6, <3>6 DEF x
  <2>14. Turns(k)
    BY <1>1, <2>1, <2>12 DEF Turns, GoesOn, l
  <2>15. Takes(k, v)
    BY <1>1, <2>4, <2>12, <2>13 DEF Takes, l, i, r, item
  <2> QED BY <1>1, <2>14, <2>15, RoundMapped
<1>5. CASE Type(r) # TYPE_MAP
  <2> DEFINE v == Item(r, i)
             k == [l EXCEPT !.body = TRUE, !.val = <<v>>]
             n == Length(r)
  <2>1. loops' = Append(Front(loops), k)
    BY <1>5 DEF NextItem, SetLoop
  <2>2. Type(r) \in Listed
    BY <1>2, <1>5 DEF SoundIn, Listed, Type
  <2>3. r \in OfType(Listed)
    BY <1>2, <2>2 DEF OfType
  <2>4. n \in Nat /\ i < n /\ ItemsIn(mem, r) = [j \in 1 .. n |-> Item(r, j - 1)] /\ Len(ItemsIn(mem, r)) = n
    BY <1>1, <1>5, <2>3, ListMapped DEF Size
  <2> HIDE DEF l, r, i, n
  <2>5. i \in 0 .. n - 1 /\ i + 1 \in 1 .. n /\ i + 1 - 1 = i
    BY <1>3, <2>4
  <2>6. v \in Cell
    BY <2>3, <2>5, ItemIs DEF n
  <2>7. ItemsIn(mem, r)[i + 1] = v
    BY <2>4, <2>5
  <2> HIDE DEF v
  <2> DEFINE item == <<v>>
  <2>8. item \in Seq(Cell \cup [key : Cell, val : Cell])
    BY <2>6
  <2>9. k = [l EXCEPT !.body = TRUE, !.val = item]
    OBVIOUS
  <2> HIDE DEF item, k
  <2>10. /\ k \in LoopType /\ k.by = l.by /\ k.arr = l.arr /\ k.res = l.res /\ k.len = l.len
         /\ k.idx = l.idx /\ k.kept = l.kept /\ k.body = TRUE /\ k.val = item
    BY <1>2, <2>8, <2>9 DEF LoopType
  <2>11. Turns(k)
    BY <1>1, <2>1, <2>10 DEF Turns, GoesOn, l
  <2>12. Takes(k, v)
    BY <1>1, <2>4, <2>7, <2>10 DEF Takes, l, i, r, item
  <2> QED BY <1>1, <2>11, <2>12, RoundMapped
<1> QED BY <1>4, <1>5
-----------------------------------------------------------------------------
LEMMA SizeMapped ==
  ASSUME Inv, Mapped, NEW r \in Range(refs)
  PROVE  Size(r) = Len(ItemsIn(mem, r)) /\ Size(r) \in Nat
<1>1. SoundIn(mem, r) /\ Type(r) = mem[r].n
  BY DEF Inv, Good, AllSound, Type
<1>2. CASE Type(r) = TYPE_MAP
  <2> DEFINE n == mem[r + 2].n
             x == ItemsIn(mem, r)
  <2>1. n \in Nat /\ Size(r) = n
    BY <1>1, <1>2 DEF SoundIn, Size, Count
  <2>2. x = [j \in 1 .. n |-> EntryIn(mem, r, j - 1)]
    BY <1>1, <1>2 DEF ItemsIn
  <2> HIDE DEF n, x
  <2>3. Len(x) = n
    BY <2>1, <2>2
  <2> QED BY <2>1, <2>3 DEF x
<1>3. CASE Type(r) # TYPE_MAP
  <2>1. r \in OfType(Listed)
    BY <1>1, <1>3 DEF SoundIn, OfType, Listed
  <2> QED BY <1>3, <2>1, ListMapped DEF Size
<1> QED BY <1>2, <1>3

LEMMA LeaveMapped ==
  ASSUME Inv, Mapped, Leave
  PROVE  Mapped' /\ Held!Next
<1> DEFINE l == loop
           r == l.arr
           o == Of(r)
           h == LoopIn(mem, refs, l)
<1>1. /\ mem' = mem /\ refs' = refs /\ colls' = colls /\ loops' = Front(loops) /\ loops # <<>>
      /\ l.by = "for" /\ Asked(<<"end">>) /\ (l.body \/ ~ l.idx < Size(r))
  BY DEF Leave, More
<1>2. Good(mem, refs, loops) /\ Valued(mem, refs, loops) /\ colls = CollsOf(mem, refs)
  BY DEF Inv, Mapped
<1>3. Valued(mem, refs, Front(loops)) /\ LoopsOf(mem, refs, Front(loops)) = Front(LoopsOf(mem, refs, loops))
  BY <1>1, <1>2, LoopEnded
<1>4. Mapped' /\ Loops' = Front(Loops)
  BY <1>1, <1>2, <1>3 DEF Mapped, Loops
<1>5. HeldLoops # <<>> /\ Held!Last(HeldLoops) = h
  BY <1>1, LoopMapped
<1>6. r \in Range(refs) /\ l \in LoopType
  BY <1>1, Innermost
<1>7. o = PlaceIn(refs, r) /\ Held!Size(o) = Size(r) /\ Size(r) \in Nat
  BY <1>6, ObjectMapped, SizeMapped
<1>8. h.by = "for" /\ (h.body \/ h.pos >= Held!Size(h.of))
  <2>1. h.by = l.by /\ h.of = o /\ h.body = l.body /\ (~ l.body => h.pos = l.idx)
    BY <1>7 DEF LoopIn
  <2>2. l.idx \in Nat
    BY <1>6 DEF LoopType
  <2> HIDE DEF h, l, r, o
  <2> QED BY <1>1, <1>7, <2>1, <2>2
<1>9. HeldLoops' = Held!Front(HeldLoops)
  BY <1>4, LoopsAreSeen, LoopsAreSeenNext DEF LoopsSeen, HeldLoops, Held!Front, Front
<1> HIDE DEF h
<1>10. Held!Asked(<<"end">>)
  BY <1>1 DEF Asked, Held!Asked
<1>11. Held!End
  BY <1>1, <1>5, <1>8, <1>9, <1>10 DEF Held!End, HeldLoops
<1> QED BY <1>4, <1>11 DEF Held!Looping, Held!Next
-----------------------------------------------------------------------------
(* The list a native is to fill.                                           *)
LEMMA NativeBegins ==
  ASSUME NEW m, NEW R, NEW L, NEW l \in LoopType, NEW n, Good(m, R, L), Valued(m, R, L),
         l.by # "for", l.arr \in Range(R), m[l.arr].n = TYPE_ARRAY, m[l.arr + 1].n = n, l.len = n,
         l.kept = 0, ~ l.body,
         \A i \in NativesOf(L) : ReadsOf(L[i]) \cap Results(l) = {},
         ExtentIn(m, l.arr) \cap Results(l) = {}
  PROVE  /\ Feeds(m, R, Append(L, l), l)
         /\ \A i \in NativesOf(L) : ReadsOf(L[i]) \cap Results(l) = {}
<1> DEFINE S == Append(L, l)
           r == l.arr
<1>1. L \in Seq(LoopType) /\ Len(L) \in Nat /\ DOMAIN L = 1 .. Len(L)
  BY GoodParts
<1>2. S \in Seq(LoopType) /\ Len(S) = Len(L) + 1 /\ (\A i \in 1 .. Len(L) : S[i] = L[i]) /\ S[Len(L) + 1] = l
  BY <1>1, Appended
<1>3. Apart(m, R, L)
  BY DEF Good
<1>4. ExtentIn(m, r) = ReadsOf(l)
  BY TypesDiffer DEF ExtentIn, ReadsOf
<1>5. ValuesAt(m, r + 2, l.len)
  BY DEF Valued
<1>6. ValuesAt(m, l.res + 2, l.kept)
  <2>1. l.res \in Nat
    BY DEF LoopType
  <2> QED BY <2>1 DEF ValuesAt
<1>7. \A q \in Range(R) : q # r => ReadsOf(l) \cap ExtentIn(m, q) = {}
  BY <1>3, <1>4 DEF Apart
<1> HIDE DEF S
<1>8. ASSUME NEW j \in NativesOf(S) PROVE ReadsOf(l) \cap Results(S[j]) = {}
  <2>1. j \in 1 .. Len(L) + 1 /\ S[j].by # "for"
    BY <1>2 DEF NativesOf
  <2>2. j \in 1 .. Len(L) \/ j = Len(L) + 1
    BY <1>1, <2>1
  <2>3. CASE j \in 1 .. Len(L)
    <3>1. S[j] = L[j] /\ j \in NativesOf(L)
      BY <1>1, <1>2, <2>1, <2>3 DEF NativesOf
    <3> QED BY <1>3, <1>4, <3>1 DEF Apart
  <2>4. CASE j = Len(L) + 1
    BY <1>2, <1>4, <2>4
  <2> QED BY <2>2, <2>3, <2>4
<1>9. Feeds(m, R, S, l)
  BY <1>5, <1>6, <1>7, <1>8 DEF Feeds
<1> QED BY <1>9 DEF S

LEMMA ApplyMapped ==
  ASSUME Inv, Mapped, NEW r \in OfType({TYPE_ARRAY}), NEW by \in {"for_list", "filter"}, Apply(by, r)
  PROVE  Mapped' /\ Held!Next
<1> DEFINE n == Length(r)
           res == Len(mem) + 1
           l == Loop(by, r, res)
           s == ResultCells(by, n)
           w == mem \o s
           o == Of(r)
<1>1. /\ mem' = w /\ refs' = refs /\ loops' = Append(loops, l) /\ Len(loops) < MaxLoops
      /\ Len(refs) < MaxObjects /\ Len(mem) + (n + 2) < MAX_HEAP /\ Ready /\ Watch /\ last' = <<by, o>>
  BY DEF Apply, HasRoom, Asked
<1>2. r \in OfType(Listed) /\ Type(r) = TYPE_ARRAY /\ r \in Range(refs) /\ mem[r].n = TYPE_ARRAY
  BY DEF OfType, Listed, Type
<1>3. ListAt(r, n) /\ KindIn(mem, r) = "array" /\ Len(ItemsIn(mem, r)) = n
  BY <1>2, ListIsAt, ListMapped
<1>4. l = [by |-> by, arr |-> r, idx |-> 0, len |-> n, body |-> FALSE, val |-> <<>>,
           res |-> res, kept |-> 0, shrunk |-> FALSE, seen |-> <<>>]
  BY DEF Loop
<1>5. mem[r + 1].n = n
  BY DEF Length
<1>6. /\ o = PlaceIn(refs, r) /\ o \in DOMAIN colls /\ Held!Size(o) = n
      /\ colls[o].kind = "array"
  <2>1. /\ o = PlaceIn(refs, r) /\ o \in DOMAIN colls /\ Held!Size(o) = Len(ItemsIn(mem, r))
        /\ colls[o] = [kind |-> KindIn(mem, r), items |-> ItemsIn(mem, r)]
    BY <1>2, ObjectMapped
  <2> HIDE DEF n, o
  <2>2. colls[o].kind = KindIn(mem, r)
    BY <2>1
  <2> QED BY <1>3, <2>1, <2>2
<1> HIDE DEF n, l, o
<1>7. r \in Nat \ {0} /\ n \in Nat /\ r + 1 + n <= Len(mem) /\ Len(mem) \in Nat /\ mem \in Seq(Cell)
  BY <1>2, <1>3 DEF ListAt
<1>8. s \in Seq(Cell) /\ Len(s) = n + 2
  BY <1>7, ResultCellsAre
<1> HIDE DEF s
<1>9. /\ Good(w, refs, loops) /\ Valued(w, refs, loops) /\ w \in Seq(Cell) /\ Len(w) = Len(mem) + Len(s)
      /\ \A c \in DOMAIN mem : w[c] = mem[c]
      /\ CollsOf(w, refs) = CollsOf(mem, refs) /\ LoopsOf(w, refs, loops) = LoopsOf(mem, refs, loops)
      /\ \A i \in NativesOf(loops) : ReadsOf(loops[i]) \subseteq DOMAIN mem
      /\ \A q \in Range(refs) : ExtentIn(w, q) = ExtentIn(mem, q) /\ ExtentIn(mem, q) \subseteq DOMAIN mem
  BY <1>1, <1>8, HeapGrownMapped
<1> HIDE DEF w
<1>10. res \in Nat \ {0} /\ Len(w) = Len(mem) + n + 2
  BY <1>7, <1>8, <1>9
<1>11. DOMAIN mem \cap (res .. res + 1 + n) = {} /\ r \in DOMAIN mem /\ r + 1 \in DOMAIN mem
  BY <1>7
<1> HIDE DEF res
<1>12. l \in LoopType
  BY <1>4, <1>7, <1>10 DEF LoopType
<1>13. /\ l.by = by /\ l.arr = r /\ l.idx = 0 /\ l.len = n /\ ~ l.body /\ l.res = res
       /\ l.kept = 0 /\ l.by # "for"
  BY <1>4
<1>14. Results(l) = res .. res + 1 + n
  BY <1>13 DEF Results
<1>15. /\ \A i \in NativesOf(loops) : ReadsOf(loops[i]) \cap Results(l) = {}
       /\ ExtentIn(w, l.arr) \cap Results(l) = {}
  BY <1>2, <1>9, <1>11, <1>13, <1>14
<1>16. w[l.arr].n = TYPE_ARRAY /\ w[l.arr + 1].n = n
  BY <1>2, <1>5, <1>9, <1>11, <1>13
<1>17. /\ Feeds(w, refs, Append(loops, l), l)
       /\ \A i \in NativesOf(loops) : ReadsOf(loops[i]) \cap Results(l) = {}
  BY <1>2, <1>9, <1>12, <1>13, <1>15, <1>16, NativeBegins
<1>18. /\ Valued(w, refs, Append(loops, l))
       /\ LoopsOf(w, refs, Append(loops, l)) = Append(LoopsOf(w, refs, loops), LoopIn(w, refs, l))
  BY <1>9, <1>12, <1>17, LoopAdded
<1>19. LoopIn(w, refs, l) = Held!Loop(by, o)
  <2>1. OutIn(w, l) = SubSeq(w, res + 2, res + 2 + 0 - 1)
    BY <1>13 DEF OutIn
  <2>2. SubSeq(w, res + 2, res + 2 + 0 - 1) = <<>>
    <3> DEFINE a == res + 2
               b == res + 2 + 0 - 1
    <3>1. a \in Nat /\ b \in Nat /\ b < a
      BY <1>10
    <3> HIDE DEF a, b
    <3>2. SubSeq(w, a, b) = <<>>
      BY <1>9, <3>1
    <3> QED BY <3>2 DEF a, b
  <2>3. OutIn(w, l) = <<>> /\ by # "for"
    BY <2>1, <2>2
  <2> QED BY <1>4, <1>6, <2>3 DEF LoopIn, Held!Loop
<1>20. colls' = colls
  <2>1. Inv'
    BY ApplyGood
  <2> QED BY <1>1, <1>9, <2>1, Watched DEF Mapped
<1>21. Mapped' /\ Loops' = Append(Loops, Held!Loop(by, o))
  BY <1>1, <1>9, <1>18, <1>19, <1>20 DEF Mapped, Loops
<1>22. Held!Ready /\ Len(Loops) = Len(loops)
  BY <1>1, InBody
<1> DEFINE e == Held!Loop(by, o)
<1> HIDE DEF e
<1>23. Held!Begin(by, o)
  <2>1. Loops' = Append(Loops, e)
    BY <1>21 DEF e
  <2>2. HeldLoops' = Append(HeldLoops, e) /\ Len(HeldLoops) < MaxLoops
    BY <1>1, <1>22, <2>1, LoopsAreSeen, LoopsAreSeenNext DEF LoopsSeen, HeldLoops
  <2> QED BY <1>1, <1>20, <1>22, <2>2 DEF Held!Begin, Held!Asked, HeldLoops, e
<1>24. o \in Held!OfKind({"array"})
  BY <1>6 DEF Held!OfKind
<1> QED BY <1>21, <1>23, <1>24 DEF Held!Looping, Held!Next
-----------------------------------------------------------------------------
(* One cell more of a list that is filled.                                 *)
LEMMA OneMore ==
  ASSUME NEW m \in Seq(Cell), NEW a \in Nat \ {0}, NEW k \in Nat, a + k <= Len(m)
  PROVE  SubSeq(m, a, a + (k + 1) - 1) = SubSeq(m, a, a + k - 1) \o <<m[a + k]>>
<1> DEFINE top == a + k - 1
           next == a + (k + 1) - 1
           c == a + k
           e == m[c]
           s == SubSeq(m, a, top)
           t == SubSeq(m, a, next)
           z == <<e>>
           more == k + 1
<1>1. Len(m) \in Nat /\ c \in 1 .. Len(m) /\ next = c /\ more \in Nat /\ top <= Len(m) /\ top + 1 = c
  OBVIOUS
<1>2. e \in Cell
  BY <1>1, ElementOfSeq
<1> HIDE DEF top, next, c, e, more
<1>3. s = [i \in 1 .. k |-> m[i + a - 1]] /\ t = [i \in 1 .. more |-> m[i + a - 1]]
  <2>1. s = [i \in 1 .. k |-> m[i + a - 1]]
    BY <1>1 DEF top, c
  <2>2. t = [i \in 1 .. more |-> m[i + a - 1]]
    BY <1>1 DEF next, c, more
  <2> QED BY <2>1, <2>2
<1>4. \A i \in 1 .. more : m[i + a - 1] \in Cell
  <2>1. \A i \in 1 .. more : i + a - 1 \in 1 .. Len(m)
    BY <1>1 DEF more, c
  <2> QED BY <2>1, ElementOfSeq
<1>5. \A i \in 1 .. more : i \in 1 .. k \/ i = more
  BY DEF more
<1>6. \A i \in 1 .. k : i \in 1 .. more
  BY DEF more
<1>7. s \in Seq(Cell) /\ Len(s) = k
  <2>1. s \in [1 .. k -> Cell]
    BY <1>3, <1>4, <1>6
  <2> HIDE DEF s
  <2> QED BY <2>1, FunctionIsSeq
<1>8. t \in Seq(Cell) /\ Len(t) = more
  <2>1. t \in [1 .. more -> Cell]
    BY <1>3, <1>4
  <2> HIDE DEF t
  <2> QED BY <1>1, <2>1, FunctionIsSeq
<1>9. z \in Seq(Cell) /\ Len(z) = 1 /\ z[1] = e
  BY <1>2
<1> HIDE DEF s, t, z
<1>10. /\ s \o z \in Seq(Cell) /\ Len(s \o z) = k + 1
       /\ \A j \in 1 .. k + 1 : (s \o z)[j] = IF j <= k THEN s[j] ELSE z[j - k]
  <2>1. /\ s \o z \in Seq(Cell) /\ Len(s \o z) = Len(s) + Len(z)
        /\ \A j \in 1 .. Len(s) + Len(z) : (s \o z)[j] = IF j <= Len(s) THEN s[j] ELSE z[j - Len(s)]
    <3>1. s \in Seq(Cell) /\ z \in Seq(Cell)
      BY <1>7, <1>9
    <3> QED BY <3>1, Concatenated, Zenon
  <2> DEFINE u == s \o z
  <2> HIDE DEF u
  <2> QED BY <1>7, <1>9, <2>1 DEF u
<1> DEFINE u == s \o z
<1> HIDE DEF u
<1>11. \A i \in 1 .. more : t[i] = u[i]
  <2>1. ASSUME NEW i \in 1 .. k PROVE t[i] = u[i]
    <3>1. i <= k /\ i \in 1 .. k + 1 /\ i \in 1 .. more
      BY <1>6
    <3> QED BY <1>3, <1>10, <3>1 DEF u
  <2>2. t[more] = u[more]
    <3>1. more \in 1 .. k + 1 /\ ~ more <= k /\ more - k = 1 /\ more + a - 1 = c /\ more \in 1 .. more
      BY <1>1 DEF more, c
    <3>2. u[more] = e
      BY <1>9, <1>10, <3>1 DEF u
    <3>3. t[more] = m[c]
      BY <1>3, <3>1
    <3> QED BY <3>2, <3>3 DEF e
  <2> QED BY <1>5, <2>1, <2>2
<1>12. t = u
  <2>1. u \in Seq(Cell) /\ Len(u) = more
    BY <1>10 DEF u, more
  <2> QED BY <1>8, <1>11, <2>1, SameSeq
<1> QED BY <1>12 DEF u, t, s, z, e, c, top, next

(* The cell the innermost loop writes next is no other's, and nobody reads *)
(* it.                                                                     *)
LEMMA ResultUnread ==
  ASSUME Inv, Mapped, loops # <<>>, loop.by # "for", loop.body, NEW x \in Cell
  PROVE  LET w == [mem EXCEPT ![loop.res + 2 + loop.kept] = x]
         IN Good(w, refs, loops) /\ Unwritten(mem, w, refs, loops) /\ DOMAIN mem \subseteq DOMAIN w
<1> DEFINE l == loop
           c == l.res + 2 + l.kept
           w == [mem EXCEPT ![c] = x]
           n == Len(loops)
<1>1. /\ l \in LoopType /\ FillsIn(mem, l) /\ n \in NativesOf(loops) /\ l = loops[n]
      /\ mem \in Seq(Cell)
  BY Innermost, LoopsAreLoops
<1>2. Good(mem, refs, loops) /\ Valued(mem, refs, loops) /\ Apart(mem, refs, loops)
  BY DEF Inv, Mapped, Good
<1>3. l.res \in Nat /\ l.kept \in Nat /\ l.len \in Nat /\ l.idx \in Nat
  BY <1>1 DEF LoopType
<1>4. l.kept <= l.idx /\ l.idx < l.len
  BY <1>1 DEF FillsIn
<1>5. /\ c \in Results(l) /\ c # l.res /\ c # l.res + 1
      /\ c \notin l.res + 2 .. l.res + 1 + l.kept
  <2> DEFINE a == l.res
             k == l.kept
             len == l.len
  <2>1. a \in Nat /\ k \in Nat /\ len \in Nat /\ k < len
    BY <1>3, <1>4
  <2>2. Results(l) = a .. a + 1 + len /\ c = a + 2 + k
    BY DEF Results
  <2> HIDE DEF a, k, len, c
  <2>3. c \in a .. a + 1 + len /\ c # a /\ c # a + 1 /\ c \notin a + 2 .. a + 1 + k
    BY <2>1, <2>2
  <2> QED BY <2>2, <2>3 DEF a, k
<1>6. Good(w, refs, loops)
  BY <1>1, <1>5, ResultPut
<1>7. \A y : y # c => w[y] = mem[y] \/ y \notin DOMAIN mem
  OBVIOUS
<1>8. DOMAIN w = DOMAIN mem
  OBVIOUS
<1> HIDE DEF w, c
<1>9. \A r \in Range(refs) : \A y \in ExtentIn(mem, r) : w[y] = mem[y]
  <2>1. \A r \in Range(refs) : ExtentIn(mem, r) \subseteq DOMAIN mem /\ c \notin ExtentIn(mem, r)
    BY <1>1, <1>2, <1>5, GoodParts DEF Apart
  <2> QED BY <1>7, <2>1
<1>10. ASSUME NEW i \in NativesOf(loops)
       PROVE  /\ \A y \in ReadsOf(loops[i]) : w[y] = mem[y]
              /\ \A y \in loops[i].res + 2 .. loops[i].res + 1 + loops[i].kept : w[y] = mem[y]
  <2> DEFINE k == loops[i]
  <2>1. k \in LoopType /\ FillsIn(mem, k) /\ k.arr \in Range(refs) /\ SoundIn(mem, k.arr)
    BY <1>2, GoodParts
  <2>2. ReadsOf(k) \cap Results(l) = {}
    BY <1>1, <1>2 DEF Valued, Feeds
  <2>3. ReadsOf(k) \subseteq DOMAIN mem /\ k.res + 2 .. k.res + 1 + k.kept \subseteq Results(k)
    BY <1>1, <2>1, NativeInside
  <2>4. Results(k) \subseteq DOMAIN mem
    BY <1>1, <2>1, OwnResults
  <2>5. i # n => Results(k) \cap Results(l) = {}
    BY <1>1, <1>2 DEF Apart
  <2>6. i = n => k = l
    BY <1>1
  <2> HIDE DEF k, n, l
  <2>9. \A y \in ReadsOf(k) : w[y] = mem[y]
    BY <1>5, <1>7, <2>2, <2>3
  <2>10. c \notin k.res + 2 .. k.res + 1 + k.kept
    BY <1>5, <2>3, <2>5, <2>6
  <2>11. \A y \in k.res + 2 .. k.res + 1 + k.kept : w[y] = mem[y]
    BY <1>7, <2>3, <2>4, <2>10
  <2> QED BY <2>9, <2>11 DEF k
<1>11. Unwritten(mem, w, refs, loops)
  BY <1>9, <1>10 DEF Unwritten
<1> QED BY <1>6, <1>8, <1>11 DEF w, c
-----------------------------------------------------------------------------
LEMMA InsideResults ==
  ASSUME NEW r \in Nat, NEW n \in Nat, NEW i \in Nat, NEW len \in Nat, NEW top \in Nat,
         n <= i, i < len, r + 1 + len <= top
  PROVE  /\ r + 2 \in Nat \ {0} /\ r + 2 + n \in 1 .. top /\ r + 2 + n <= top
         /\ r + 2 + n - 1 \in Int /\ r + 2 + n - 1 <= top
  OBVIOUS

(* What a native has kept, when it kept x also.                            *)
LEMMA KeptMore ==
  ASSUME NEW m \in Seq(Cell), NEW l \in LoopType, NEW k \in LoopType, NEW x,
         l.by # "for", FillsIn(m, l), l.body, k.by = l.by, k.res = l.res, k.kept = l.kept + 1,
         m[l.res + 2 + l.kept] = x
  PROVE  OutIn(m, k) = OutIn(m, l) \o <<x>>
<1> DEFINE a == l.res + 2
           n == l.kept
           c == a + n
<1>1. l.res \in Nat /\ n \in Nat /\ l.len \in Nat /\ l.idx \in Nat /\ Len(m) \in Nat
  BY DEF LoopType
<1>2. n <= l.idx /\ l.idx < l.len /\ l.res + 1 + l.len <= Len(m)
  BY DEF FillsIn
<1>3. OutIn(m, k) = SubSeq(m, a, a + (n + 1) - 1) /\ OutIn(m, l) = SubSeq(m, a, a + n - 1)
  BY DEF OutIn
<1>4. m[c] = x
  OBVIOUS
<1>5. a \in Nat \ {0} /\ a + n <= Len(m)
  <2> HIDE DEF n
  <2> QED BY <1>1, <1>2, InsideResults
<1> HIDE DEF a, n
<1>6. SubSeq(m, a, a + (n + 1) - 1) = SubSeq(m, a, a + n - 1) \o <<m[a + n]>>
  BY <1>1, <1>5, OneMore
<1> QED BY <1>3, <1>4, <1>6

LEMMA OneLong ==
  ASSUME NEW S, NEW s \in Seq(S), Len(s) = 1
  PROVE  s = <<s[1]>> /\ Head(s) = s[1]
  OBVIOUS

LEMMA NoneMore ==
  ASSUME NEW S, NEW s \in Seq(S)
  PROVE  s \o <<>> = s
  OBVIOUS

LEMMA TakeResultMapped ==
  ASSUME Inv, Mapped, NEW v \in Literals, TakeResult(v)
  PROVE  Mapped' /\ Held!Next
<1> DEFINE l == loop
           keep == l.by = "for_list" \/ (v.t = "num" /\ v.n # 0)
           count == IF keep THEN l.kept + 1 ELSE l.kept
           next == l.idx + 1
           none == <<>>
           no == FALSE
           k == [l EXCEPT !.body = FALSE, !.idx = next, !.val = none, !.kept = count]
           c == l.res + 2 + l.kept
           x == IF l.by = "for_list" THEN v ELSE Head(l.val)
           w == [mem EXCEPT ![c] = x]
           m == IF keep THEN w ELSE mem
           n == Len(loops)
           o == PlaceIn(refs, l.arr)
           out == OutIn(mem, l)
           h == LoopIn(mem, refs, l)
           more == IF l.by = "for_list" THEN <<v>> ELSE IF v.t = "num" /\ v.n # 0 THEN l.val ELSE <<>>
           longer == out \o more
           g == Taken(h, no, none, longer)
<1>1. /\ mem' = m /\ refs' = refs /\ loops' = Append(Front(loops), k) /\ Watch
      /\ loops # <<>> /\ l.body /\ l.by # "for" /\ Asked(<<"result", v>>)
  BY DEF TakeResult, SetLoop
<1>2. /\ l \in LoopType /\ FillsIn(mem, l) /\ n \in NativesOf(loops) /\ l = loops[n]
      /\ mem \in Seq(Cell) /\ loops \in Seq(LoopType)
  BY <1>1, Innermost, LoopsAreLoops
<1>3. Good(mem, refs, loops) /\ Valued(mem, refs, loops) /\ colls = CollsOf(mem, refs)
  BY DEF Inv, Mapped
<1>4. HeldLoops # <<>> /\ Held!Last(HeldLoops) = h
  BY <1>1, LoopMapped
<1>5. Last(loops) = l
  BY DEF loop
<1> HIDE DEF l
<1>6. /\ l.idx \in Nat /\ l.len \in Nat /\ l.kept \in Nat /\ l.res \in Nat
      /\ l.by \in {"for_list", "filter"} /\ l.val \in Seq(Cell \cup [key : Cell, val : Cell])
  BY <1>1, <1>2 DEF LoopType
<1>7. Len(l.val) = 1 /\ l.val[1] \in Cell /\ l.val[1] \in Value
  <2>1. Feeds(mem, refs, loops, l)
    BY <1>2, <1>3 DEF Valued
  <2> QED BY <1>1, <1>2, <2>1 DEF FillsIn, Feeds
<1>8. l.val = <<l.val[1]>> /\ Head(l.val) = l.val[1]
  BY <1>6, <1>7, OneLong
<1>9. x \in Cell /\ x \in Value /\ v \in Value
  BY <1>7, <1>8, RawCells, ContainerConstants
<1>10. more = IF keep THEN <<x>> ELSE <<>>
  BY <1>6, <1>8
<1>11. count \in Nat /\ next \in Nat
  BY <1>6
<1>12. h = HeldLoop(l.by, o, next, l.body, l.len, l.val, out)
  BY <1>1 DEF LoopIn, HeldLoop
<1> HIDE DEF x
<1>13. Good(w, refs, loops) /\ Unwritten(mem, w, refs, loops) /\ DOMAIN mem \subseteq DOMAIN w /\ w[c] = x
  <2>1. Good(w, refs, loops) /\ Unwritten(mem, w, refs, loops) /\ DOMAIN mem \subseteq DOMAIN w
    BY <1>1, <1>9, ResultUnread DEF l
  <2>2. c \in DOMAIN mem
    <3>1. l.kept <= l.idx /\ l.idx < l.len /\ l.res # 0 /\ l.res + 1 + l.len <= Len(mem)
      BY <1>1, <1>2 DEF FillsIn
    <3>2. Len(mem) \in Nat
      BY <1>2
    <3>3. c \in 1 .. Len(mem)
      BY <1>6, <3>1, <3>2, InsideResults
    <3> QED BY <1>2, <3>3
  <2> QED BY <2>1, <2>2
<1>14. keep => m = w
  OBVIOUS
<1>15. ~keep => m = mem
  OBVIOUS
<1>16. (keep => count = l.kept + 1) /\ (~keep => count = l.kept)
  OBVIOUS
<1>17. k \in LoopType
  <2>1. none \in Seq(Cell \cup [key : Cell, val : Cell])
    OBVIOUS
  <2> HIDE DEF none, count, next
  <2> QED BY <1>2, <1>11, <2>1 DEF LoopType
<1>18. /\ k.by = l.by /\ k.arr = l.arr /\ k.res = l.res /\ k.len = l.len
       /\ k.idx = next /\ k.kept = count /\ k.body = FALSE /\ k.val = none
  BY <1>2 DEF LoopType
<1> HIDE DEF w, m, count, next, k, h, none, keep, more
<1>19. /\ Good(m, refs, loops) /\ Valued(m, refs, loops)
       /\ CollsOf(m, refs) = CollsOf(mem, refs) /\ LoopsOf(m, refs, loops) = LoopsOf(mem, refs, loops)
  <2>1. CASE keep
    BY <1>3, <1>13, <1>14, <2>1, UnwrittenStays
  <2>2. CASE ~keep
    BY <1>3, <1>15, <2>2
  <2> QED BY <2>1, <2>2
<1>20. m \in Seq(Cell) /\ FillsIn(m, l) /\ Feeds(m, refs, loops, l)
  BY <1>2, <1>19, GoodParts DEF Valued
<1>21. OutIn(m, l) = out
  <2>1. LoopIn(m, refs, l) = h
    BY <1>1, <1>2, <1>5, <1>19, ReadFront DEF h
  <2>2. LoopIn(m, refs, l).out = OutIn(m, l) /\ h.out = out
    BY DEF LoopIn, h
  <2> QED BY <2>1, <2>2
<1>22. OutIn(m, k) = longer
  <2>1. CASE keep
    <3>1. m[c] = x
      BY <1>13, <1>14, <2>1
    <3>2. OutIn(m, k) = OutIn(m, l) \o <<x>>
      BY <1>1, <1>2, <1>16, <1>17, <1>18, <1>20, <2>1, <3>1, KeptMore
    <3> QED BY <1>10, <1>21, <2>1, <3>2
  <2>2. CASE ~keep
    <3>1. OutIn(m, k) = out
      BY <1>16, <1>18, <1>21, <2>2 DEF OutIn
    <3>2. out \in Seq(Cell)
      <4> DEFINE a == l.res + 2
                 b == l.res + 2 + l.kept - 1
      <4>1. out = SubSeq(mem, a, b)
        BY <1>1 DEF OutIn
      <4>2. l.kept <= l.idx /\ l.idx < l.len /\ l.res + 1 + l.len <= Len(mem)
        BY <1>1, <1>2 DEF FillsIn
      <4>3. a \in Nat \ {0} /\ b \in Int /\ b <= Len(mem)
        <5>1. Len(mem) \in Nat
          BY <1>2
        <5> QED BY <1>6, <4>2, <5>1, InsideResults
      <4> HIDE DEF a, b
      <4> QED BY <1>2, <4>1, <4>3, Subsequence
    <3> HIDE DEF out
    <3>3. longer = out
      BY <1>10, <2>2, <3>2, NoneMore
    <3> QED BY <3>1, <3>3
  <2> QED BY <2>1, <2>2
<1>23. ValuesAt(m, k.res + 2, k.kept)
  <2>1. ValuesAt(m, l.res + 2, l.kept)
    BY <1>20 DEF Feeds
  <2>2. CASE keep
    <3>1. m[c] = x
      BY <1>13, <1>14, <2>2
    <3> DEFINE a == l.res + 2
               j == l.kept
    <3>2. a \in Nat /\ j \in Nat /\ c = a + j /\ ValuesAt(m, a, j)
      BY <1>6, <2>1
    <3> HIDE DEF a, j, c
    <3>3. \A y \in a .. a + (j + 1) - 1 : y \in a .. a + j - 1 \/ y = c
      BY <3>2
    <3>4. ValuesAt(m, a, j + 1)
      BY <1>9, <3>1, <3>2, <3>3 DEF ValuesAt
    <3> QED BY <1>16, <1>18, <2>2, <3>4 DEF a, j
  <2>3. CASE ~keep
    BY <1>16, <1>18, <2>1, <2>3
  <2> QED BY <2>2, <2>3
<1>24. GoesOn(m, k, Last(loops))
  BY <1>5, <1>17, <1>18, <1>23 DEF GoesOn
<1>25. /\ Valued(m, refs, Append(Front(loops), k))
       /\ LoopsOf(m, refs, Append(Front(loops), k)) = Append(Front(LoopsOf(m, refs, loops)), LoopIn(m, refs, k))
  BY <1>1, <1>19, <1>24, LoopTurned
<1>26. LoopIn(m, refs, k) = HeldLoop(l.by, o, next, no, l.len, none, longer)
  <2> HIDE DEF longer, o
  <2>1. PlaceIn(refs, k.arr) = o
    BY <1>18 DEF o
  <2> QED BY <1>18, <1>22, <2>1 DEF LoopIn, HeldLoop
<1> HIDE DEF o, out, longer, no
<1>27. LoopIn(m, refs, k) = g
  BY <1>12, <1>26, HeldLoopChanged
<1>28. colls' = CollsOf(m, refs)
  <2>1. Inv'
    BY TakeResultGood
  <2> QED BY <1>1, <2>1, Watched
<1>29. Mapped' /\ TurnsTo(g)
  BY <1>1, <1>3, <1>19, <1>25, <1>27, <1>28 DEF Mapped, TurnsTo, Loops
<1>30. Held!SetLoop(g)
  BY <1>29, TurnsHeld
<1>31. /\ h.by = l.by /\ h.body /\ h.given = l.val /\ h.out = out
  BY <1>1, <1>12 DEF HeldLoop
<1>32. g = [h EXCEPT !.body = FALSE, !.given = <<>>, !.out = @ \o more]
  BY <1>31 DEF Taken, no, none, longer
<1>33. more = IF h.by = "for_list" THEN <<v>> ELSE IF v.t = "num" /\ v.n # 0 THEN h.given ELSE <<>>
  BY <1>31 DEF more
<1> HIDE DEF g
<1>34. Held!SetLoop([h EXCEPT !.body = FALSE, !.given = <<>>,
          !.out = @ \o IF h.by = "for_list" THEN <<v>> ELSE IF v.t = "num" /\ v.n # 0 THEN h.given ELSE <<>>])
  BY <1>30, <1>32, <1>33
<1>35. Held!Asked(<<"result", v>>) /\ h.by # "for"
  BY <1>1, <1>31 DEF Asked, Held!Asked
<1>36. Held!Result(v)
  BY <1>4, <1>31, <1>34, <1>35 DEF Held!Result, HeldLoops
<1> QED BY <1>9, <1>29, <1>36 DEF Held!Looping, Held!Next
-----------------------------------------------------------------------------
(* Without a reference the others are still to good objects.               *)
LEMMA FewerRefs ==
  ASSUME NEW m, NEW w, NEW R, NEW r, NEW L, Good(w, Append(R, r), L), Good(m, R, L), r \in Nat
  PROVE  Good(w, R, L)
<1>0. R \in Seq(Nat)
  BY GoodParts
<1>1. Range(Append(R, r)) = Range(R) \cup {r}
  BY <1>0, Ranges
<1>2. Cellular(w) /\ Listing(R, L) /\ AllFill(w, L) /\ AllVisit(w, L)
  BY DEF Good
<1>3. AllSound(w, Append(R, r)) /\ Apart(w, Append(R, r), L)
  BY DEF Good
<1>4. AllSound(w, R) /\ Apart(w, R, L)
  BY <1>1, <1>3 DEF AllSound, Apart
<1> QED BY <1>2, <1>4 DEF Good

(* A part of a sequence, item by item.                                     *)
LEMMA PartIs ==
  ASSUME NEW S, NEW s \in Seq(S), NEW b \in Nat, b >= 1, NEW t, NEW k \in Nat, t = b + k - 1, t <= Len(s)
  PROVE  SubSeq(s, b, t) = [i \in 1 .. k |-> s[i + b - 1]]
<1>1. t \in Int /\ t - b + 1 = k
  OBVIOUS
<1>2. SubSeq(s, b, t) = [i \in 1 .. t - b + 1 |-> s[i + b - 1]]
  BY <1>1
<1> QED BY <1>1, <1>2

(* A list that was filled is an array of what was kept.                    *)
LEMMA FilledIs ==
  ASSUME NEW m \in Seq(Cell), NEW l \in LoopType, l.by # "for", FillsIn(m, l), NEW w,
         w[l.res].n = TYPE_ARRAY, w[l.res + 1].n = l.kept,
         \A c \in l.res + 2 .. l.res + 1 + l.kept : w[c] = m[c]
  PROVE  /\ ContentsIn(w, l.res) = [kind |-> "array", items |-> OutIn(m, l)]
         /\ ValuesAt(m, l.res + 2, l.kept) => ValuesAt(w, l.res + 2, l.kept)
<1> DEFINE a == l.res
           k == l.kept
           top == a + 2 + k - 1
           x == ItemsIn(w, a)
           out == OutIn(m, l)
<1>1. a \in Nat /\ k \in Nat /\ l.len \in Nat /\ l.idx \in Nat /\ Len(m) \in Nat
  BY DEF LoopType
<1>2. k <= l.idx /\ l.idx <= l.len /\ l.res + 1 + l.len <= Len(m)
  BY DEF FillsIn
<1>3. out = SubSeq(m, a + 2, top)
  BY DEF OutIn
<1>4. x = [i \in 1 .. k |-> w[a + 2 + (i - 1)]] /\ KindIn(w, a) = "array"
  BY TypesDiffer DEF ItemsIn, ItemIn, KindIn
<1>5. \A c \in a + 2 .. a + 1 + k : w[c] = m[c]
  OBVIOUS
<1> DEFINE len == l.len
           idx == l.idx
<1>6. len \in Nat /\ idx \in Nat /\ k <= idx /\ idx <= len /\ a + 1 + len <= Len(m)
  BY <1>1, <1>2
<1> HIDE DEF a, k, len, idx, x, out
<1>7. top = a + 1 + k /\ top <= Len(m) /\ a + 2 \in Nat \ {0} /\ top \in Int
  BY <1>1, <1>6
<1> HIDE DEF top
<1>8. out = [i \in 1 .. k |-> m[i + (a + 2) - 1]]
  <2> DEFINE b == a + 2
  <2>1. b \in Nat /\ b >= 1 /\ top = b + k - 1 /\ top <= Len(m)
    BY <1>1, <1>7
  <2>2. out = SubSeq(m, b, top)
    BY <1>3
  <2> HIDE DEF b
  <2>3. out = [i \in 1 .. k |-> m[i + b - 1]]
    BY <1>1, <2>1, <2>2, PartIs
  <2> QED BY <2>3 DEF b
<1>9. \A i \in 1 .. k : a + 2 + (i - 1) = i + (a + 2) - 1 /\ i + (a + 2) - 1 \in a + 2 .. a + 1 + k
  BY <1>1
<1>10. x = out
  BY <1>4, <1>5, <1>8, <1>9
<1>11. ValuesAt(m, a + 2, k) => ValuesAt(w, a + 2, k)
  <2>1. \A c \in a + 2 .. a + 2 + k - 1 : c \in a + 2 .. a + 1 + k
    BY <1>1
  <2> QED BY <1>5, <2>1 DEF ValuesAt
<1> QED BY <1>4, <1>10, <1>11 DEF ContentsIn, a, k, x, out

LEMMA GiveResultMapped ==
  ASSUME Inv, Mapped, GiveResult
  PROVE  Mapped' /\ Held!Next
<1> DEFINE l == loop
           K == Front(loops)
           r == l.res
           c == r + 1
           y == Raw(l.kept)
           w == IF l.by = "filter" THEN [mem EXCEPT ![c] = y] ELSE mem
           h == LoopIn(mem, refs, l)
           out == OutIn(mem, l)
           len == l.len
           kept == l.kept
           new == [kind |-> "array", items |-> out]
<1>1. /\ mem' = w /\ refs' = Append(refs, r) /\ loops' = K /\ Watch /\ Asked(<<"end">>)
      /\ loops # <<>> /\ l.by # "for" /\ l.idx = len /\ ~ l.body
  BY DEF GiveResult
<1>2. /\ l \in LoopType /\ FillsIn(mem, l) /\ mem \in Seq(Cell) /\ loops \in Seq(LoopType)
      /\ Len(loops) \in NativesOf(loops) /\ l = loops[Len(loops)] /\ l.arr \in Range(refs)
  BY <1>1, Innermost, LoopsAreLoops
<1>3. Good(mem, refs, loops) /\ Valued(mem, refs, loops) /\ colls = CollsOf(mem, refs)
  BY DEF Inv, Mapped
<1>4. HeldLoops # <<>> /\ Held!Last(HeldLoops) = h
  BY <1>1, LoopMapped
<1>5. /\ Good(mem, refs, K)
      /\ \A q \in Range(refs) : ExtentIn(mem, q) \cap Results(l) = {}
      /\ \A i \in NativesOf(K) : Results(K[i]) \cap Results(l) = {}
  BY <1>1, <1>3, Fewer DEF loop
<1>6. /\ Valued(mem, refs, K) /\ LoopsOf(mem, refs, K) = Front(LoopsOf(mem, refs, loops))
      /\ \A i \in NativesOf(K) : ReadsOf(K[i]) \cap Results(l) = {}
  BY <1>1, <1>3, LoopEnded DEF loop
<1>7. ValuesAt(mem, r + 2, kept)
  BY <1>2, <1>3 DEF Valued, Feeds
<1>8. Inv'
  BY GiveResultGood
<1>9. h = HeldLoop(l.by, PlaceIn(refs, l.arr), len, l.body, len, l.val, out)
  BY <1>1 DEF LoopIn, HeldLoop
<1> HIDE DEF l, K, h, out
<1>10. len \in Nat /\ kept \in Nat /\ r \in Nat /\ Len(mem) \in Nat /\ l.by \in {"for_list", "filter"}
  <2>1. Len(mem) \in Nat
    BY <1>2
  <2>2. len \in Nat /\ kept \in Nat /\ r \in Nat /\ l.by \in {"for", "for_list", "filter"}
    BY <1>2 DEF LoopType
  <2>3. l.by # "for"
    BY <1>1
  <2> HIDE DEF len, kept, r
  <2> QED BY <2>1, <2>2, <2>3
<1>11. /\ r # 0 /\ r + 1 + len <= Len(mem) /\ mem[r].n = TYPE_ARRAY /\ kept <= len
       /\ (l.by = "for_list" => mem[r + 1].n = len /\ kept = len)
  BY <1>1, <1>2 DEF FillsIn
<1>12. Results(l) = r .. r + 1 + len
  BY DEF Results
<1>13. w[r].n = TYPE_ARRAY /\ w[c].n = kept /\ DOMAIN w = DOMAIN mem /\ \A d \in DOMAIN mem : d # c => w[d] = mem[d]
  <2>1. c \in DOMAIN mem /\ r \in DOMAIN mem /\ r # c
    <3> HIDE DEF r, len
    <3>1. c \in 1 .. Len(mem) /\ r \in 1 .. Len(mem) /\ r # c
      BY <1>10, <1>11
    <3> QED BY <1>2, <3>1
  <2>2. y.n = kept
    BY DEF Raw
  <2> HIDE DEF y, kept, r, c
  <2>3. CASE l.by = "filter"
    BY <1>11, <2>1, <2>2, <2>3
  <2>4. CASE l.by # "filter"
    <3>1. w = mem /\ mem[c].n = kept
      BY <1>10, <1>11, <2>4 DEF c
    <3> QED BY <1>11, <3>1
  <2> QED BY <2>3, <2>4
<1> HIDE DEF w
<1>14. \A d \in r + 2 .. r + 1 + kept : d \in DOMAIN mem /\ d # c /\ d \in Results(l)
  <2> HIDE DEF r, len, kept
  <2>1. \A d \in r + 2 .. r + 1 + kept : d \in 1 .. Len(mem) /\ d # c /\ d \in r .. r + 1 + len
    BY <1>10, <1>11
  <2> QED BY <1>2, <1>12, <2>1
<1>15. c \in Results(l) /\ r \in Nat
  <2> HIDE DEF r, len
  <2> QED BY <1>10, <1>12
<1>16. /\ ContentsIn(w, r) = new
       /\ ValuesAt(w, r + 2, kept)
  <2>1. \A d \in l.res + 2 .. l.res + 1 + l.kept : w[d] = mem[d]
    BY <1>13, <1>14
  <2> QED BY <1>1, <1>2, <1>7, <1>13, <2>1, FilledIs DEF out
<1>17. Good(w, Append(refs, r), K) /\ Good(w, refs, K)
  <2>1. Good(w, Append(refs, r), K)
    BY <1>1, <1>8 DEF Inv
  <2> QED BY <1>5, <1>15, <2>1, FewerRefs
<1>18. Unwritten(mem, w, refs, K)
  <2>1. \A q \in Range(refs) : \A d \in ExtentIn(mem, q) : w[d] = mem[d]
    <3>1. \A q \in Range(refs) : ExtentIn(mem, q) \subseteq DOMAIN mem
      BY <1>3, GoodParts
    <3> QED BY <1>5, <1>13, <1>15, <3>1
  <2>2. ASSUME NEW i \in NativesOf(K)
        PROVE  /\ \A d \in ReadsOf(K[i]) : w[d] = mem[d]
               /\ \A d \in K[i].res + 2 .. K[i].res + 1 + K[i].kept : w[d] = mem[d]
    <3> DEFINE k == K[i]
    <3>1. k \in LoopType /\ FillsIn(mem, k) /\ SoundIn(mem, k.arr)
      BY <1>5, GoodParts
    <3>2. ReadsOf(k) \cap Results(l) = {} /\ Results(k) \cap Results(l) = {}
      BY <1>5, <1>6
    <3> HIDE DEF k
    <3>3. ReadsOf(k) \subseteq DOMAIN mem /\ k.res + 2 .. k.res + 1 + k.kept \subseteq Results(k)
      BY <1>2, <3>1, NativeInside
    <3>4. Results(k) \subseteq DOMAIN mem
      BY <1>2, <3>1, OwnResults
    <3>5. /\ \A d \in ReadsOf(k) : w[d] = mem[d]
          /\ \A d \in k.res + 2 .. k.res + 1 + k.kept : w[d] = mem[d]
      BY <1>13, <1>15, <3>2, <3>3, <3>4
    <3> QED BY <3>5 DEF k
  <2> QED BY <2>1, <2>2 DEF Unwritten
<1>19. /\ CollsOf(w, refs) = CollsOf(mem, refs) /\ LoopsOf(w, refs, K) = LoopsOf(mem, refs, K)
       /\ Valued(w, refs, K)
  BY <1>5, <1>6, <1>13, <1>17, <1>18, UnwrittenStays
<1>20. Fresh(w, K, r)
  <2>1. ExtentIn(w, r) = r .. r + 1 + kept
    BY <1>13, TypesDiffer DEF ExtentIn
  <2>2. ExtentIn(w, r) \subseteq Results(l)
    <3> HIDE DEF r, kept, len
    <3> QED BY <1>10, <1>11, <1>12, <2>1
  <2>3. ValuesAt(w, r + 2, w[r + 1].n)
    BY <1>13, <1>16
  <2> QED BY <1>6, <2>2, <2>3 DEF Fresh
<1>21. /\ Valued(w, Append(refs, r), K)
       /\ LoopsOf(w, Append(refs, r), K) = LoopsOf(w, refs, K)
       /\ CollsOf(w, Append(refs, r)) = Append(CollsOf(w, refs), ContentsIn(w, r))
  BY <1>15, <1>17, <1>19, <1>20, RefAdded
<1>22. colls' = CollsOf(mem', refs')
  BY <1>1, <1>8, Watched
<1> HIDE DEF r
<1>23. Mapped' /\ Loops' = Front(Loops) /\ colls' = Append(colls, new)
  BY <1>1, <1>3, <1>6, <1>16, <1>19, <1>21, <1>22 DEF Mapped, Loops
<1>24. HeldLoops' = Held!Front(HeldLoops)
  BY <1>23, LoopsAreSeen, LoopsAreSeenNext DEF LoopsSeen, HeldLoops, Held!Front, Front
<1>25. h.by # "for" /\ ~ h.body /\ h.pos = h.len /\ h.out = out
  BY <1>1, <1>9 DEF HeldLoop
<1>26. colls' = Append(colls, Held!Coll("array", h.out))
  BY <1>23, <1>25 DEF Held!Coll
<1>27. Held!Asked(<<"end">>)
  BY <1>1 DEF Asked, Held!Asked
<1>28. Held!End
  BY <1>4, <1>24, <1>25, <1>26, <1>27 DEF Held!End, HeldLoops
<1> QED BY <1>23, <1>28 DEF Held!Looping, Held!Next
-----------------------------------------------------------------------------
(* Every step is one of Collections, or none.                              *)
LEMMA StepMapped ==
  ASSUME Inv, Mapped, Next
  PROVE  Mapped' /\ Held!Next
<1>1. ASSUME NEW items \in Written, MakeArray(items) \/ MakeBytes(items) PROVE Mapped' /\ Held!Next
  BY <1>1, MakeArrayMapped, MakeBytesMapped
<1>2. CASE MakeMap
  BY <1>2, MakeMapMapped
<1>3. ASSUME NEW a \in Index, NEW b \in Index,
             {Num(n) : n \in (a .. b) \cup (b .. a)} \subseteq Value /\ MakeRange(a, b)
      PROVE  Mapped' /\ Held!Next
  BY <1>3, MakeRangeMapped
<1>4. ASSUME NEW r \in OfType(Listed), NEW q \in OfType({Type(r)}),
             Concat(r, q) \/ \E s, e \in Index : SetSlice(r, s, e, q)
      PROVE  Mapped' /\ Held!Next
  BY <1>4, ConcatMapped, SetSliceMapped
<1>5. ASSUME NEW r \in OfType(Listed),
             \/ \E v \in Literals : Sums(r, v) \subseteq Value /\ Broadcast(r, v)
             \/ \E s, e \in Index : Slice(r, s, e)
             \/ \E i \in Index, v \in Literals : SetItem(r, i, v)
      PROVE  Mapped' /\ Held!Next
  BY <1>5, BroadcastMapped, SliceMapped, SetItemMapped
<1>6. ASSUME NEW r \in OfType({TYPE_ARRAY}),
             \/ \E n \in Index : RemoveItem(r, n) \/ \E v \in Literals : Add(r, n, v)
             \/ \E by \in {"for_list", "filter"} : Apply(by, r)
      PROVE  Mapped' /\ Held!Next
  BY <1>6, RemoveItemMapped, AddMapped, ApplyMapped
<1>7. ASSUME NEW r \in OfType({TYPE_MAP}), NEW k \in Literals,
             RemoveEntry(r, k) \/ \E v \in Literals : SetEntry(r, k, v)
      PROVE  Mapped' /\ Held!Next
  BY <1>7, RemoveEntryMapped, SetEntryMapped
<1>8. ASSUME NEW r \in Range(refs), ForIn(r) PROVE Mapped' /\ Held!Next
  BY <1>8, ForInMapped
<1>9. CASE NextItem \/ NextRound \/ Leave
  BY <1>9, NextItemMapped, NextRoundMapped, LeaveMapped
<1>10. CASE CallBack \/ GiveResult \/ \E v \in Literals : TakeResult(v)
  BY <1>10, CallBackMapped, GiveResultMapped, TakeResultMapped
<1> QED BY <1>1, <1>2, <1>3, <1>4, <1>5, <1>6, <1>7, <1>8, <1>9, <1>10 DEF Next

LEMMA MappedKept ==
  ASSUME Inv, Mapped, [Next]_vars
  PROVE  Mapped' /\ [Held!Next]_Held!vars
<1>1. CASE UNCHANGED vars
  <2>1. mem' = mem /\ refs' = refs /\ loops' = loops /\ colls' = colls /\ last' = last
    BY <1>1 DEF vars
  <2>2. Loops' = Loops /\ Mapped'
    BY <2>1 DEF Loops, Mapped
  <2>3. HeldLoops' = HeldLoops
    BY <2>2, LoopsAreSeen, LoopsAreSeenNext DEF LoopsSeen, HeldLoops
  <2> QED BY <2>1, <2>2, <2>3 DEF Held!vars, HeldLoops
<1>2. CASE Next
  BY <1>2, StepMapped
<1> QED BY <1>1, <1>2

LEMMA InitMapped ==
  ASSUME Init
  PROVE  Mapped /\ Held!Init
<1>1. mem = <<>> /\ refs = <<>> /\ loops = <<>> /\ colls = <<>> /\ last = <<>>
  BY DEF Init
<1>2. Range(<<>>) = {} /\ DOMAIN <<>> = {}
  BY DEF Range
<1>3. NativesOf(<<>>) = {}
  BY <1>2 DEF NativesOf
<1>4. HeldLoops = <<>> /\ colls = CollsOf(mem, refs)
  BY <1>1, <1>2 DEF HeldLoops, CollsOf
<1> QED BY <1>1, <1>2, <1>3, <1>4 DEF Mapped, Valued, Held!Init, HeldLoops
-----------------------------------------------------------------------------
(* The cells, the references and the loops keep their types: a step leaves *)
(* bytes bytes and numbers numbers, and never passes the end of the heap.  *)
THEOREM TypeCorrect == Spec => []TypeOK
  BY Invariance, InvTyped, PTL

(* No two objects share a cell, the list a native is filling and the data  *)
(* block of a map that moved included: an element written, a map that      *)
(* grows, a result a callback returns never reach another object.          *)
THEOREM ObjectsAreApart == Spec => []ObjectsApart
  BY Invariance, InvApart, PTL

(* A for loop over a map gives each key once, also when the map grows and  *)
(* moves under it.                                                         *)
THEOREM EachIsVisited == Spec => []VisitsEach
  BY Invariance, InvVisits, PTL

(* What code reads is what the collection holds: positions from either     *)
(* end, the first place of an item, and the one value of a key.            *)
THEOREM ReadsAreRight == Spec => []ReadsAgree
  BY Invariance, InvReads, PTL

(* Objects behave as the collections of Collections: each step of the      *)
(* program, seen through what is read off the heap, is the step a          *)
(* collection promises or changes nothing: the items an operation leaves,  *)
(* the one object it is about, the loops' rounds and their natives' lists. *)
THEOREM ObjectsBehave == Spec => IsCollections
<1>1. Init => Inv /\ Mapped /\ Held!Init
  BY InitGood, InitMapped
<1>2. Inv /\ Mapped /\ [Next]_vars => Inv' /\ Mapped' /\ [Held!Next]_Held!vars
  BY InvKept, MappedKept
<1> QED BY <1>1, <1>2, PTL DEF Spec, IsCollections, Held!Spec
=============================================================================
