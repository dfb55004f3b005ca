----------------------------- MODULE Containers -----------------------------
(***************************************************************************)
(* Arrays, bytes and maps as vm.c and mylolib.c keep them: a header and    *)
(* cells in the heap, one object after the other.                          *)
(*                                                                         *)
(*   array  TYPE_ARRAY  len    item ...                                    *)
(*   bytes  TYPE_BYTES  len    cells of PerCell bytes ...                  *)
(*   map    TYPE_MAP    cap    count  data  --->  key value key value ...  *)
(*                                                                         *)
(* The program is any code that holds every object it made.  It is in for  *)
(* loops, and in for_list and filter, which call it back; what it does in  *)
(* their bodies is anything it does outside.  It writes inside arrays,     *)
(* which no code checks, and copies slices from another object: from its   *)
(* own, items that were just written would be copied again.  Nothing is    *)
(* reclaimed (ScopedHeap), and a full heap ends the program.               *)
(***************************************************************************)
EXTENDS Integers, Sequences, SequencesExt, FiniteSets, FiniteSetsExt

CONSTANTS
  Value,            (* Numbers and strings: a type, and the double.        *)
  Literals,         (* Those the program writes down.                      *)
  BYTE,             (* How many values a byte has.                         *)
  PerCell,          (* Bytes in a double.                                  *)
  Index,            (* Numbers used as positions.                          *)
  Joined(_, _),     (* The string two strings are joined to.               *)
  MAP_INITIAL_CAP,
  MAX_HEAP,         (* Cells of the arena.                                 *)
  MaxItems,         (* Bound: items of an array that is written down.      *)
  MaxObjects,       (* Bound: collections.                                 *)
  MaxLoops,         (* Bound: loops within each other.                     *)
  MaxOps            (* Bound: operations, loops counting as one.           *)

ASSUME ContainerConstants ==
  /\ Value \subseteq [t : {"num", "str"}, n : Nat] /\ Literals \subseteq Value
  /\ \A a, b \in Value : Joined(a.n, b.n) \in Nat
  /\ BYTE \in Nat \ {0} /\ PerCell \in Nat \ {0}
  /\ Index \subseteq Int
  /\ MAP_INITIAL_CAP \in Nat \ {0} /\ MAX_HEAP \in Nat \ {0}
  /\ MaxItems \in Nat /\ MaxObjects \in Nat /\ MaxLoops \in Nat /\ MaxOps \in Nat

VARIABLES
  mem,     (* the cells below the head                                     *)
  refs,    (* the references the program holds, in the order it got them   *)
  loops,   (* the loops that run, the innermost last                       *)
  colls,   (* what the references refer to, read off the heap (history)    *)
  ops,     (* how many operations there were (history)                     *)
  last     (* the last one, objects by their places in refs (history)      *)

vars == <<mem, refs, loops, colls, ops, last>>
view == <<mem, refs, loops, ops>>
-----------------------------------------------------------------------------
TYPE_ARRAY == -1
TYPE_BYTES == -2
TYPE_MAP   == -3

(* Cells: a value, a header's number, or bytes.  Memory is zero at first. *)
Num(n) == [t |-> "num", n |-> n]
Str(n) == [t |-> "str", n |-> n]
Raw(n) == [t |-> "raw", n |-> n]
Pack(b) == [t |-> "bytes", b |-> b]
Unset  == Raw(0)
ByteCell == {Pack(b) : b \in [0 .. PerCell - 1 -> 0 .. BYTE - 1]}
Cell == [t : {"num", "str", "raw"}, n : Int] \cup ByteCell

Type(r)  == mem[r].n
Length(r)  == mem[r + 1].n
Cap(r)   == mem[r + 1].n
Count(r) == mem[r + 2].n
Data(r)  == mem[r + 3].n
Size(r)  == IF Type(r) = TYPE_MAP THEN Count(r) ELSE Length(r)

OfType(types) == {r \in Range(refs) : Type(r) \in types}

Block(at, n) == SubSeq(mem, at, at + n - 1)

(* Cells copied one by one, upwards. *)
Copied(to, from, n) ==
  LET step[i \in 0 .. n] ==
        IF i = 0 THEN mem
        ELSE [step[i - 1] EXCEPT ![to + i - 1] = step[i - 1][from + i - 1]]
  IN step[n]

Cells(bytes) == (bytes + PerCell - 1) \div PerCell
ByteAt(r, i) == mem[r + 2 + i \div PerCell].b[i % PerCell]
BytesOf(r)   == [i \in 1 .. Length(r) |-> ByteAt(r, i - 1)]
Packed(bytes) ==
  [c \in 1 .. Cells(Len(bytes)) |->
     Pack([p \in 0 .. PerCell - 1 |->
             LET i == (c - 1) * PerCell + p + 1 IN IF i \in DOMAIN bytes THEN bytes[i] ELSE 0])]

Array(items) == <<Raw(TYPE_ARRAY), Raw(Len(items))>> \o items
Bytes(bytes) == <<Raw(TYPE_BYTES), Raw(Len(bytes))>> \o Packed(bytes)
ItemsAt(r)   == Block(r + 2, Length(r))
Item(r, i)   == IF Type(r) = TYPE_BYTES THEN Num(ByteAt(r, i)) ELSE mem[r + 2 + i]
-----------------------------------------------------------------------------
(* The collections, read off the heap. *)
EntriesOf(r) == [i \in 1 .. Count(r) |->
                   [key |-> mem[Data(r) + i * 2 - 2], val |-> mem[Data(r) + i * 2 - 1]]]

Contents(r) ==
  CASE Type(r) = TYPE_ARRAY -> [kind |-> "array", items |-> ItemsAt(r)]
    [] Type(r) = TYPE_BYTES -> [kind |-> "bytes",
                                items |-> [i \in 1 .. Length(r) |-> Num(ByteAt(r, i - 1))]]
    [] OTHER -> [kind |-> "map", items |-> EntriesOf(r)]

Watch == colls' = [i \in DOMAIN refs |-> Contents(refs[i])]'

Asked(op) == last' = op
Of(r) == CHOOSE i \in DOMAIN refs : refs[i] = r

-----------------------------------------------------------------------------
(* The program is in no loop, or in the body of one. *)
Ready ==
  /\ loops # <<>> => Last(loops).body
  /\ ops < MaxOps /\ ops' = ops + 1

(* Mutant: a full heap is not noticed. *)
HasRoomAlways(n) == TRUE
HasRoom(n) == Len(mem) + n < MAX_HEAP

Makes(object) ==
  /\ Ready /\ Len(refs) < MaxObjects
  /\ HasRoom(Len(object))
  /\ mem' = mem \o object
  /\ refs' = Append(refs, Len(mem) + 1)
  /\ UNCHANGED loops /\ Watch

Changes(m) == Ready /\ mem' = m /\ UNCHANGED <<refs, loops>> /\ Watch
-----------------------------------------------------------------------------
(* Making objects.                                                         *)

MakeArray(items) == Asked(<<"array", items>>) /\ Makes(Array(items))

MakeBytes(nums) ==
  /\ Asked(<<"bytes", nums>>)
  /\ Makes(Bytes([i \in DOMAIN nums |-> nums[i].n % BYTE]))

(* The header, then the data. *)
MakeMap ==
  /\ Asked(<<"map", <<>>>>)
  /\ Makes(<<Raw(TYPE_MAP), Raw(MAP_INITIAL_CAP), Raw(0), Raw(Len(mem) + 5)>>
             \o [c \in 1 .. MAP_INITIAL_CAP * 2 |-> Unset])

MakeRange(start, stop) ==
  LET step  == IF stop >= start THEN 1 ELSE -1
      count == step * (stop - start) + 1
  IN /\ Asked(<<"range", start, stop>>)
     /\ Makes(Array([i \in 1 .. count |-> Num(start + (i - 1) * step)]))

Concat(r, q) ==
  /\ Asked(<<"concat", Of(r), Of(q)>>)
  /\ Makes(IF Type(r) = TYPE_ARRAY THEN Array(ItemsAt(r) \o ItemsAt(q))
           ELSE Bytes(BytesOf(r) \o BytesOf(q)))

(* + of an object and a number or string; types that do not fit give 0. *)
Plus(el, v) ==
  IF el.t = "num" /\ v.t = "num" THEN Num(el.n + v.n)
  ELSE IF el.t = "str" /\ v.t = "str" THEN Str(Joined(el.n, v.n))
  ELSE Num(0)

Sums(r, v) == {Plus(Item(r, i), v) : i \in 0 .. Length(r) - 1}

Broadcast(r, v) ==
  /\ Asked(<<"add to all", Of(r), v>>)
  /\ Makes(Array([i \in 1 .. Length(r) |-> Plus(Item(r, i - 1), v)]))

FromEnd(n, len) == IF n < 0 THEN n + len ELSE n

(* add() *)
Add(r, n, v) ==
  LET len == Length(r)
      idx == Min({len, Max({0, FromEnd(n, len)})})
  IN /\ Asked(<<"add", Of(r), n, v>>)
     /\ Makes(Array(Block(r + 2, idx) \o <<v>> \o Block(r + 2 + idx, len - idx)))

(* Where a slice starts, and its length. *)
Start(r, s)  == Max({0, FromEnd(s, Length(r))})
Stop(r, e)   == IF FromEnd(e, Length(r)) >= Length(r) THEN Length(r) - 1 ELSE FromEnd(e, Length(r))
SliceLen(r, s, e) ==
  IF Stop(r, e) >= Start(r, s) /\ Start(r, s) < Length(r)
  THEN Stop(r, e) - Start(r, s) + 1 ELSE 0

Slice(r, s, e) ==
  LET n == SliceLen(r, s, e)
  IN /\ Asked(<<"slice", Of(r), s, e>>)
     /\ Makes(IF Type(r) = TYPE_BYTES
              THEN Bytes(SubSeq(BytesOf(r), Start(r, s) + 1, Start(r, s) + n))
              ELSE Array(Block(r + 2 + Start(r, s), n)))
-----------------------------------------------------------------------------
(* Changing objects.                                                       *)

(* The cells of bytes r with others written from `at`. *)
BytesPut(r, at, bytes) ==
  LET all   == [i \in 1 .. Length(r) |-> IF i \in at + 1 .. at + Len(bytes)
                                       THEN bytes[i - at] ELSE ByteAt(r, i - 1)]
      cells == Packed(all)
  IN [c \in DOMAIN mem |-> IF c \in r + 2 .. r + 1 + Len(cells)
                           THEN cells[c - r - 1] ELSE mem[c]]

SetItem(r, idx, v) ==
  /\ Asked(<<"set item", Of(r), idx, v>>)
  /\ idx \in 0 .. Length(r) - 1
  /\ Changes(IF Type(r) = TYPE_ARRAY THEN [mem EXCEPT ![r + 2 + idx] = v]
             ELSE BytesPut(r, idx, <<v.n % BYTE>>))

SetSlice(r, s, e, q) ==
  LET n == Min({SliceLen(r, s, e), Length(q)})
  IN /\ Asked(<<"set slice", Of(r), s, e, Of(q)>>)
     /\ q # r
     /\ Changes(IF Type(r) = TYPE_ARRAY THEN Copied(r + 2 + Start(r, s), q + 2, n)
                ELSE BytesPut(r, Start(r, s), SubSeq(BytesOf(q), 1, n)))

(* Mutant: a number and a string are the same key if their doubles are. *)
PlacesByNumber(r, k) == {i \in 0 .. Count(r) - 1 : mem[Data(r) + i * 2].n = k.n}

(* Mutant: the entry added last is not looked at. *)
PlacesButLast(r, k) == {i \in 0 .. Count(r) - 2 : mem[Data(r) + i * 2] = k}

(* Where the key is in a map. *)
Places(r, k) == {i \in 0 .. Count(r) - 1 : mem[Data(r) + i * 2] = k}

(* Mutant: as many cells as entries are copied. *)
GrownHalf(r) ==
  mem \o Block(Data(r), Count(r)) \o [c \in 1 .. Cap(r) * 4 - Count(r) |-> Unset]

(* The heap with a new data block, twice as long, for a map that is full. *)
Grown(r) ==
  mem \o Block(Data(r), Count(r) * 2) \o [c \in 1 .. Cap(r) * 4 - Count(r) * 2 |-> Unset]

SetEntry(r, k, v) ==
  LET n    == Count(r)
      full == n >= Cap(r)
      data == IF full THEN Len(mem) + 1 ELSE Data(r)
      cap  == IF full THEN Cap(r) * 2 ELSE Cap(r)
  IN /\ Asked(<<"set entry", Of(r), k, v>>)
     /\ IF Places(r, k) # {}
        THEN Changes([mem EXCEPT ![Data(r) + Min(Places(r, k)) * 2 + 1] = v])
        ELSE /\ full => HasRoom(Cap(r) * 4)
             /\ Changes([IF full THEN Grown(r) ELSE mem EXCEPT
                           ![r + 1] = Raw(cap), ![r + 2] = Raw(n + 1), ![r + 3] = Raw(data),
                           ![data + n * 2] = k, ![data + n * 2 + 1] = v])

(* A loop over r sees it shrink. *)
Shrinks(r, m) ==
  /\ Ready /\ mem' = m
  /\ loops' = [i \in DOMAIN loops |->
                 IF loops[i].arr = r THEN [loops[i] EXCEPT !.shrunk = TRUE] ELSE loops[i]]
  /\ UNCHANGED refs /\ Watch

(* remove() *)
RemoveItem(r, n) ==
  LET len == Length(r)
      idx == FromEnd(n, len)
  IN /\ Asked(<<"remove item", Of(r), n>>)
     /\ IF idx \in 0 .. len - 1
        THEN Shrinks(r, [Copied(r + 2 + idx, r + 3 + idx, len - 1 - idx) EXCEPT
                           ![r + 1] = Raw(len - 1)])
        ELSE Changes(mem)

RemoveEntry(r, k) ==
  LET at   == Min(Places(r, k))
      cell == Data(r) + at * 2
      n    == Count(r)
  IN /\ Asked(<<"remove entry", Of(r), k>>)
     /\ IF Places(r, k) # {}
        THEN Shrinks(r, [Copied(cell, cell + 2, (n - 1 - at) * 2) EXCEPT ![r + 2] = Raw(n - 1)])
        ELSE Changes(mem)
-----------------------------------------------------------------------------
(* Loops.  A for loop keeps the object and the position; for_list and      *)
(* filter have read the length, and made room for as many results.         *)

Loop(by, r, res) ==
  [by |-> by, arr |-> r, idx |-> 0, len |-> IF by = "for" THEN 0 ELSE Length(r),
   body |-> FALSE, val |-> <<>>, res |-> res, kept |-> 0,
   shrunk |-> FALSE, seen |-> <<>>]   (* history: keys of a map it gave    *)

ForIn(r) ==
  /\ Asked(<<"for", Of(r)>>)
  /\ Ready /\ Len(loops) < MaxLoops
  /\ loops' = Append(loops, Loop("for", r, 0))
  /\ UNCHANGED <<mem, refs, colls>>

(* Mutant: room for the results, but not for the header. *)
ResultCellsShort(by, n) ==
  <<Raw(TYPE_ARRAY), IF by = "for_list" THEN Raw(n) ELSE Unset>> \o [i \in 1 .. n - 2 |-> Unset]

(* filter writes the length at its end. *)
ResultCells(by, n) ==
  <<Raw(TYPE_ARRAY), IF by = "for_list" THEN Raw(n) ELSE Unset>> \o [i \in 1 .. n |-> Unset]

Apply(by, r) ==
  LET n == Length(r)
  IN /\ Asked(<<by, Of(r)>>)
     /\ Ready /\ Len(loops) < MaxLoops
     /\ HasRoom(n + 2) /\ Len(refs) < MaxObjects
     /\ mem' = mem \o ResultCells(by, n)
     /\ loops' = Append(loops, Loop(by, r, Len(mem) + 1))
     /\ UNCHANGED refs /\ Watch

loop == Last(loops)
SetLoop(l) == loops' = Append(Front(loops), l)

(* OP_ALEN and OP_LT, each round. *)
More == loop.idx < Size(loop.arr)

NextItem ==
  LET r == loop.arr
      d == Data(r) + loop.idx * 2
  IN /\ Asked(<<"round">>)
     /\ loops # <<>> /\ ~loop.body /\ loop.by = "for"
     /\ More
     /\ IF Type(r) = TYPE_MAP
        THEN SetLoop([loop EXCEPT !.body = TRUE, !.val = <<[key |-> mem[d], val |-> mem[d + 1]]>>,
                                  !.seen = Append(@, mem[d])])
        ELSE SetLoop([loop EXCEPT !.body = TRUE, !.val = <<Item(r, loop.idx)>>])
     /\ UNCHANGED <<mem, refs, colls, ops>>

NextRound ==
  /\ Asked(<<"through">>)
  /\ loops # <<>> /\ loop.body /\ loop.by = "for"
  /\ SetLoop([loop EXCEPT !.body = FALSE, !.idx = @ + 1, !.val = <<>>])
  /\ UNCHANGED <<mem, refs, colls, ops>>

(* The condition fails, or break. *)
Leave ==
  /\ Asked(<<"end">>)
  /\ loops # <<>> /\ loop.by = "for"
  /\ loop.body \/ ~More
  /\ loops' = Front(loops)
  /\ UNCHANGED <<mem, refs, colls, ops>>

CallBack ==
  /\ Asked(<<"round">>)
  /\ loops # <<>> /\ ~loop.body /\ loop.by # "for"
  /\ loop.idx < loop.len
  /\ SetLoop([loop EXCEPT !.body = TRUE, !.val = <<mem[loop.arr + 2 + loop.idx]>>])
  /\ UNCHANGED <<mem, refs, colls, ops>>

(* for_list keeps the result, filter the item if it is a number but 0. *)
TakeResult(v) ==
  LET keep == loop.by = "for_list" \/ (v.t = "num" /\ v.n # 0)
  IN /\ Asked(<<"result", v>>)
     /\ loops # <<>> /\ loop.body /\ loop.by # "for"
     /\ SetLoop([loop EXCEPT !.body = FALSE, !.idx = @ + 1, !.val = <<>>,
                             !.kept = IF keep THEN @ + 1 ELSE @])
     /\ mem' = IF keep THEN [mem EXCEPT ![loop.res + 2 + loop.kept] =
                               IF loop.by = "for_list" THEN v ELSE Head(loop.val)]
               ELSE mem
     /\ UNCHANGED <<refs, ops>> /\ Watch

GiveResult ==
  /\ Asked(<<"end">>)
  /\ loops # <<>> /\ ~loop.body /\ loop.by # "for"
  /\ loop.idx = loop.len
  /\ mem' = IF loop.by = "filter" THEN [mem EXCEPT ![loop.res + 1] = Raw(loop.kept)] ELSE mem
  /\ refs' = Append(refs, loop.res)
  /\ loops' = Front(loops) /\ UNCHANGED ops /\ Watch
-----------------------------------------------------------------------------
Init == mem = <<>> /\ refs = <<>> /\ loops = <<>> /\ colls = <<>> /\ ops = 0 /\ last = <<>>

Written == UNION {[1 .. n -> Literals] : n \in 0 .. MaxItems}
Listed  == {TYPE_ARRAY, TYPE_BYTES}

(* Bound: ranges and sums hold no other values than Value. *)
Next ==
  \/ \E items \in Written : MakeArray(items) \/ MakeBytes(items)
  \/ MakeMap
  \/ \E a, b \in Index : {Num(n) : n \in (a .. b) \cup (b .. a)} \subseteq Value /\ MakeRange(a, b)
  \/ \E r \in OfType(Listed) :
       \/ \E q \in OfType({Type(r)}) : Concat(r, q) \/ \E s, e \in Index : SetSlice(r, s, e, q)
       \/ \E v \in Literals : Sums(r, v) \subseteq Value /\ Broadcast(r, v)
       \/ \E s, e \in Index : Slice(r, s, e)
       \/ \E i \in Index, v \in Literals : SetItem(r, i, v)
  \/ \E r \in OfType({TYPE_ARRAY}) :
       \/ \E n \in Index : RemoveItem(r, n) \/ \E v \in Literals : Add(r, n, v)
       \/ \E by \in {"for_list", "filter"} : Apply(by, r)
  \/ \E r \in OfType({TYPE_MAP}) :
       \E k \in Literals : RemoveEntry(r, k) \/ \E v \in Literals : SetEntry(r, k, v)
  \/ \E r \in Range(refs) : ForIn(r)
  \/ NextItem \/ NextRound \/ Leave
  \/ CallBack \/ GiveResult \/ (\E v \in Literals : TakeResult(v))

Spec == Init /\ [][Next]_vars
-----------------------------------------------------------------------------
LoopOf(l) ==
  [by |-> l.by, of |-> Of(l.arr),
   pos |-> IF l.body THEN l.idx + 1 ELSE l.idx, body |-> l.body, len |-> l.len,
   given |-> l.val, out |-> IF l.by = "for" THEN <<>> ELSE Block(l.res + 2, l.kept)]

StoredByte(v) == Num(v.n % BYTE)

Held == INSTANCE Collections WITH
  Byte <- StoredByte,
  loops <- [i \in DOMAIN loops |-> LoopOf(loops[i])]

(* Objects behave as collections: an operation changes the object it is    *)
(* about and no other, through every reference to it, and makes exactly    *)
(* what its definition says; maps grow unnoticed, also under a loop; a     *)
(* loop gives what is there at its position now, and a callback's results  *)
(* are in the list its native gives, whatever it does meanwhile.           *)
IsCollections == Held!Spec
-----------------------------------------------------------------------------
(* The shape of the state. *)
TypeOK ==
  /\ mem \in Seq(Cell) /\ Len(mem) < MAX_HEAP
  /\ Range(refs) \subseteq DOMAIN mem /\ IsInjective(refs)
  /\ Len(refs) <= MaxObjects + MaxLoops
  /\ Len(loops) <= MaxLoops
  /\ \A i \in DOMAIN loops : loops[i].arr \in Range(refs)

(* The cells an object takes up: those its header speaks of, and for the   *)
(* results of a native as many as there may be. *)
Extent(r) ==
  CASE Type(r) = TYPE_ARRAY -> r .. r + 1 + Length(r)
    [] Type(r) = TYPE_BYTES -> r .. r + 1 + Cells(Length(r))
    [] OTHER -> (r .. r + 3) \cup (Data(r) .. Data(r) + Cap(r) * 2 - 1)
Results(l) == l.res .. l.res + 1 + l.len

(* Of the objects by their places in refs; of the lists natives are        *)
(* filling by those of their loops, with a minus. *)
Natives == {i \in DOMAIN loops : loops[i].by # "for"}
Extents == [o \in DOMAIN refs \cup {-i : i \in Natives} |->
              IF o > 0 THEN Extent(refs[o]) ELSE Results(loops[-o])]

(* No two objects share a cell, a map's data block that moved and the list *)
(* a native is filling included, and all lie below the head; no map holds  *)
(* more entries than its data block has room for.                          *)
ObjectsApart ==
  /\ \A i, j \in DOMAIN Extents : i # j => Extents[i] \cap Extents[j] = {}
  /\ \A i \in DOMAIN Extents : Extents[i] \subseteq DOMAIN mem
  /\ \A r \in OfType({TYPE_MAP}) : Count(r) <= Cap(r)
-----------------------------------------------------------------------------
(* Reading.                                                                *)

Absent == Str(0)
Refused == Raw(-1)

(* OP_AGET *)
ItemAt(r, n) ==
  LET idx == FromEnd(n, Length(r))
  IN IF idx \in 0 .. Length(r) - 1 THEN Item(r, idx) ELSE Refused
EntryAt(r, k) ==
  IF Places(r, k) = {} THEN Absent ELSE mem[Data(r) + Min(Places(r, k)) * 2 + 1]

(* where() *)
Where(r, v) ==
  LET at == {i \in 0 .. Length(r) - 1 :
               IF Type(r) = TYPE_BYTES THEN ByteAt(r, i) = v.n ELSE mem[r + 2 + i] = v}
  IN IF at = {} THEN -1 ELSE Min(at)

(* contains(), of a map by the number of the string. *)
Has(r, v) ==
  IF Type(r) = TYPE_MAP
  THEN \E i \in 0 .. Count(r) - 1 : mem[Data(r) + i * 2].n = v.n
  ELSE \E i \in 0 .. Length(r) - 1 : mem[r + 2 + i] = v

StringKeys(r) == \A i \in 0 .. Count(r) - 1 : mem[Data(r) + i * 2].t = "str"

(* What is read is what the collection holds: positions from either end,   *)
(* the first place of an item, the one value of a key, which a key of the  *)
(* other type with the same number does not hide.  contains() is right for *)
(* maps with strings for keys only.                                        *)
ReadsAgree ==
  \A r \in Range(refs) :
    LET items == Contents(r).items
        keys  == {items[i].key : i \in DOMAIN items}
    IN IF Type(r) = TYPE_MAP
       THEN \A k \in Value :
              /\ IF k \in keys THEN [key |-> k, val |-> EntryAt(r, k)] \in Range(items)
                 ELSE EntryAt(r, k) = Absent
              /\ StringKeys(r) /\ k.t = "str" => (Has(r, k) <=> k \in keys)
       ELSE /\ \A n \in 1 .. Len(items) :
                 ItemAt(r, n - 1) = items[n] /\ ItemAt(r, n - 1 - Len(items)) = items[n]
            /\ {ItemAt(r, Len(items)), ItemAt(r, -1 - Len(items))} = {Refused}
            /\ \A v \in Value :
                 /\ Type(r) = TYPE_ARRAY => (Has(r, v) <=> v \in Range(items))
                 /\ LET e == IF Type(r) = TYPE_BYTES THEN Num(v.n) ELSE v
                    IN IF e \in Range(items)
                       THEN Where(r, v) = SelectInSeq(items, LAMBDA x : x = e) - 1
                       ELSE Where(r, v) = -1

(* A for loop over a map from which nothing is removed meanwhile gives     *)
(* each key once, in the order of insertion, although the map may grow and *)
(* its data move under the loop.                                           *)
VisitsEach ==
  \A i \in DOMAIN loops :
    LET l    == loops[i]
        keys == [n \in 1 .. Count(l.arr) |-> EntriesOf(l.arr)[n].key]
    IN l.by = "for" /\ ~l.shrunk /\ Type(l.arr) = TYPE_MAP =>
         IsPrefix(l.seen, keys) /\ IsInjective(keys)
=============================================================================
