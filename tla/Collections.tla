---------------------------- MODULE Collections ----------------------------
(***************************************************************************)
(* What arrays, bytes and maps promise.  A collection is a sequence of     *)
(* items, an item of a map a key and a value; variables share collections, *)
(* an operation changes the one it is about, in place, or makes another.   *)
(* A loop takes one position after the other and looks each time whether   *)
(* there is one left; for_list and filter take as many as there were when  *)
(* they began.  Their bodies do anything, to the same collection also.     *)
(***************************************************************************)
EXTENDS Integers, Sequences, SequencesExt, FiniteSets, FiniteSetsExt

CONSTANTS
  Value,        (* Numbers and strings.                                    *)
  Byte(_),      (* The byte a number is stored as.                         *)
  Plus(_, _),   (* What + makes of two values.                             *)
  Index,        (* Numbers used as positions.                              *)
  MaxItems,     (* Bound: items of a collection that is written down.      *)
  MaxObjects,   (* Bound: collections.                                     *)
  MaxLoops      (* Bound: loops within each other.                         *)

VARIABLES
  colls,        (* the collections, in the order they were made            *)
  loops,        (* the loops that run, the innermost last                  *)
  last          (* the operation that was asked for last                   *)

vars == <<colls, loops, last>>

Asked(op) == last' = op
-----------------------------------------------------------------------------
Coll(kind, items) == [kind |-> kind, items |-> items]
Entry(k, v)       == [key |-> k, val |-> v]
Size(i)           == Len(colls[i].items)
ItemsOf(i)        == colls[i].items
OfKind(kinds)     == {i \in DOMAIN colls : colls[i].kind \in kinds}

KeysOf(items)  == {items[p].key : p \in DOMAIN items}
PlaceOf(items, k) == CHOOSE p \in DOMAIN items : items[p].key = k

(* Positions count from 0; negative ones from the end. *)
Place(n, len) == IF n < 0 THEN n + len ELSE n
Clamp(n, lo, hi) == Max({lo, Min({n, hi})})

(* Slices contain both their ends. *)
First(s, len) == Clamp(Place(s, len), 0, len) + 1
Final(e, len) == Clamp(Place(e, len), -1, len - 1) + 1
Slice(items, s, e) == SubSeq(items, First(s, Len(items)), Final(e, Len(items)))

(* The program is in no loop, or in the body of one. *)
Ready == loops # <<>> => Last(loops).body

Becomes(i, items) ==
  /\ colls' = [colls EXCEPT ![i].items = items]
  /\ UNCHANGED loops

Made(c) == colls' = Append(colls, c) /\ UNCHANGED loops
-----------------------------------------------------------------------------
New(kind, items) ==
  /\ Asked(<<kind, items>>)
  /\ Made(Coll(kind, IF kind = "bytes" THEN [p \in DOMAIN items |-> Byte(items[p])] ELSE items))

SetItem(i, n, v) ==
  /\ Asked(<<"set item", i, n, v>>)
  /\ n \in 0 .. Size(i) - 1
  /\ Becomes(i, [ItemsOf(i) EXCEPT ![n + 1] = IF colls[i].kind = "bytes" THEN Byte(v) ELSE v])

SetEntry(i, k, v) ==
  /\ Asked(<<"set entry", i, k, v>>)
  /\ Becomes(i, IF k \in KeysOf(ItemsOf(i))
                THEN [ItemsOf(i) EXCEPT ![PlaceOf(ItemsOf(i), k)].val = v]
                ELSE Append(ItemsOf(i), Entry(k, v)))

RemoveItem(i, n) ==
  /\ Asked(<<"remove item", i, n>>)
  /\ Becomes(i, IF Place(n, Size(i)) \in 0 .. Size(i) - 1
               THEN RemoveAt(ItemsOf(i), Place(n, Size(i)) + 1) ELSE ItemsOf(i))

RemoveEntry(i, k) ==
  /\ Asked(<<"remove entry", i, k>>)
  /\ Becomes(i, IF k \in KeysOf(ItemsOf(i))
               THEN RemoveAt(ItemsOf(i), PlaceOf(ItemsOf(i), k)) ELSE ItemsOf(i))

(* Into a slice go as many items as there are, and as it has room for. *)
SetSlice(i, s, e, j) ==
  /\ Asked(<<"set slice", i, s, e, j>>)
  /\ LET from == First(s, Size(i))
         room == Max({0, Final(e, Size(i)) - from + 1})
         n    == Min({room, Size(j)})
     IN Becomes(i, [p \in DOMAIN ItemsOf(i) |->
                      IF p \in from .. from + n - 1
                      THEN ItemsOf(j)[p - from + 1] ELSE ItemsOf(i)[p]])

MakeSlice(i, s, e) ==
  /\ Asked(<<"slice", i, s, e>>)
  /\ Made(Coll(colls[i].kind, Slice(ItemsOf(i), s, e)))

Concat(i, j) ==
  /\ Asked(<<"concat", i, j>>)
  /\ Made(Coll(colls[i].kind, ItemsOf(i) \o ItemsOf(j)))

Add(i, n, v) ==
  /\ Asked(<<"add", i, n, v>>)
  /\ Made(Coll("array",
               InsertAt(ItemsOf(i), Clamp(Place(n, Size(i)), 0, Size(i)) + 1, v)))

AddToAll(i, v) ==
  /\ Asked(<<"add to all", i, v>>)
  /\ Made(Coll("array", [p \in 1 .. Size(i) |-> Plus(ItemsOf(i)[p], v)]))

(* From a to b, whichever is the greater. *)
MakeRange(a, b) ==
  /\ Asked(<<"range", a, b>>)
  /\ Made(Coll("array",
               [p \in 1 .. Max({a - b, b - a}) + 1 |->
                  [t |-> "num", n |-> IF a <= b THEN a + p - 1 ELSE a - p + 1]]))
-----------------------------------------------------------------------------
Loop(by, i) == [by |-> by, of |-> i, pos |-> 0, body |-> FALSE,
                len |-> IF by = "for" THEN 0 ELSE Size(i),
                given |-> <<>>, out |-> <<>>]

SetLoop(l) == loops' = Append(Front(loops), l) /\ UNCHANGED colls

Begin(by, i) ==
  /\ Asked(<<by, i>>)
  /\ Ready /\ Len(loops) < MaxLoops
  /\ loops' = Append(loops, Loop(by, i))
  /\ UNCHANGED colls

(* What is left of a collection that shrank below a native is anything. *)
Round ==
  LET l     == Last(loops)
      items == ItemsOf(l.of)
  IN /\ Asked(<<"round">>)
     /\ loops # <<>> /\ ~l.body
     /\ IF l.by = "for" THEN l.pos < Len(items) ELSE l.pos < l.len
     /\ \E v \in IF l.pos < Len(items) THEN {items[l.pos + 1]} ELSE Value :
          SetLoop([l EXCEPT !.pos = @ + 1, !.body = TRUE, !.given = <<v>>])

(* The body is through, or the callback, with a result. *)
Through ==
  LET l == Last(loops)
  IN /\ Asked(<<"through">>)
     /\ loops # <<>> /\ l.body /\ l.by = "for"
     /\ SetLoop([l EXCEPT !.body = FALSE, !.given = <<>>])

Result(v) ==
  LET l    == Last(loops)
      more == IF l.by = "for_list" THEN <<v>>
              ELSE IF v.t = "num" /\ v.n # 0 THEN l.given ELSE <<>>
  IN /\ Asked(<<"result", v>>)
     /\ loops # <<>> /\ l.body /\ l.by # "for"
     /\ SetLoop([l EXCEPT !.body = FALSE, !.given = <<>>, !.out = @ \o more])

(* The loop ends, or is left from its body; a native gives its result. *)
End ==
  LET l == Last(loops)
  IN /\ Asked(<<"end">>)
     /\ loops # <<>>
     /\ loops' = Front(loops)
     /\ IF l.by = "for" THEN (l.body \/ l.pos >= Size(l.of)) /\ UNCHANGED colls
        ELSE l.pos = l.len /\ ~l.body /\ colls' = Append(colls, Coll("array", l.out))
-----------------------------------------------------------------------------
Init == colls = <<>> /\ loops = <<>> /\ last = <<>>

Making ==
  /\ Len(colls) < MaxObjects
  /\ \/ \E n \in 0 .. MaxItems : \E items \in [1 .. n -> Value] :
          \/ New("array", items)
          \/ New("bytes", items)
     \/ New("map", <<>>)
     \/ \E a, b \in Index : MakeRange(a, b)
     \/ \E i \in OfKind({"array", "bytes"}) :
          \/ \E s, e \in Index : MakeSlice(i, s, e)
          \/ \E j \in OfKind({colls[i].kind}) : Concat(i, j)
          \/ \E v \in Value : AddToAll(i, v)
     \/ \E i \in OfKind({"array"}), n \in Index, v \in Value : Add(i, n, v)

Changing ==
  \/ \E i \in OfKind({"array", "bytes"}) :
       \/ \E n \in Index, v \in Value : SetItem(i, n, v)
       \/ \E j \in OfKind({colls[i].kind}), s, e \in Index : SetSlice(i, s, e, j)
  \/ \E i \in OfKind({"array"}), n \in Index : RemoveItem(i, n)
  \/ \E i \in OfKind({"map"}), k \in Value :
       RemoveEntry(i, k) \/ \E v \in Value : SetEntry(i, k, v)

Looping ==
  \/ \E i \in DOMAIN colls : Begin("for", i)
  \/ \E i \in OfKind({"array"}), by \in {"for_list", "filter"} : Begin(by, i)
  \/ Round \/ Through \/ (\E v \in Value : Result(v)) \/ End

Next == Looping \/ (Ready /\ (Making \/ Changing))

Spec == Init /\ [][Next]_vars
=============================================================================
