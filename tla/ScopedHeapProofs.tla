-------------------------- MODULE ScopedHeapProofs --------------------------
(***************************************************************************)
(* ScopedHeap keeps its shape whatever the program does (TypeCorrect); the *)
(* remembered heads nest if objects move out of blocks one at a time       *)
(* (NestedHeads); and nothing a local, an argument or a global refers to   *)
(* is given back if the program obeys all four rules (LocalsAreKept,       *)
(* GlobalsAreKept).                                                        *)
(*                                                                         *)
(* The invariant of the last two, SpareInv, looks ahead to the rewinds     *)
(* that are still to come.  A scope rewinds only while its arena is        *)
(* selected; for each such scope, an object that is read either lies       *)
(* wholly above the remembered head, and its map data with it, or wholly   *)
(* below (Whole); and what is held by a slot older than the scope, or by a *)
(* global, lies below (SlotsSpared, GlobalSpared).  An assignment or the   *)
(* growth of a map makes the second true again by raising heads, and a     *)
(* return by copying out.                                                  *)
(***************************************************************************)
EXTENDS ScopedHeap, SequenceTheorems, FiniteSetTheorems, TLAPS

(* The object at v, and its data, end by h as far as they lie in arena a.  *)
Ends(v, object, a, h) ==
  /\ v.arena = a => v.off + object.size <= h
  /\ object.data # NoData /\ object.data.at.arena = a =>
       object.data.at.off + object.data.size <= h

(* A rewind to the head of scope s spares v, and its data ...              *)
Spared(v, s) == IsObj(v) => Ends(v, heap[v], scopes[s].arena, scopes[s].head)

(* ... or gives v back as a whole.                                         *)
Young(v, s) == IsObj(v) /\ v.arena = scopes[s].arena /\ v.off >= scopes[s].head

(* Scopes that rewind: those of the current arena.                         *)
Rewinds(s) == scopes[s].arena = current

(* The slots that are still read: not those of a frame that is returning.  *)
Slots == IF status = "running" THEN Len(stack) ELSE Last(frames)

(* What the program still reads.                                           *)
Values == {stack[i] : i \in 1 .. Slots} \cup {global, acc}

(* An object in the heap, and a scope.                                     *)
Object == [size : Nat \ {0}, data : {NoData} \cup [at : Ref, size : Nat \ {0}]]
ScopeRec == [arena : Arena, head : 0 .. MAX_HEAP, fp : 1 .. MaxFrames, sp : 0 .. MaxSlots]

(* Frames begin one above the other; the script's frame does not return.   *)
FrameShape ==
  /\ \A f \in DOMAIN frames : frames[f] <= Len(stack)
  /\ \A f, g \in DOMAIN frames : f <= g => frames[f] <= frames[g]
  /\ status # "running" => Len(frames) > 1 /\ acc # Absent

(* A scope begins in its frame, and inner scopes begin above outer ones.   *)
ScopeShape ==
  /\ \A s \in DOMAIN scopes :
       /\ scopes[s].fp <= Len(frames) /\ scopes[s].sp <= Len(stack)
       /\ frames[scopes[s].fp] <= scopes[s].sp
       /\ \A f \in DOMAIN frames : scopes[s].fp < f => scopes[s].sp <= frames[f]
  /\ \A s, t \in DOMAIN scopes :
       s < t => scopes[s].fp <= scopes[t].fp /\ scopes[s].sp <= scopes[t].sp

(* The types, with what TypeOK leaves open of the objects.                 *)
TypeInv ==
  /\ heads \in [Arena -> 0 .. MAX_HEAP] /\ current \in Arena
  /\ scopes \in Seq(ScopeRec) /\ Len(scopes) <= MAX_LOOP_NESTING
  /\ stack \in Seq(Value) /\ Len(stack) <= MaxSlots
  /\ frames \in Seq(0 .. MaxSlots) /\ Len(frames) \in 1 .. MaxFrames
  /\ acc \in Value \cup {Absent} /\ global \in Value
  /\ heap \in [Reached(stack, global, acc) -> Object]
  /\ status \in {"running", "returning", "overrun"}

(* No scope remembers a head that its arena has not reached.               *)
BelowHeads == \A s \in DOMAIN scopes : scopes[s].head <= heads[scopes[s].arena]

(* What the program still reads lies below the heads of the arenas.        *)
ValuesKept ==
  \A v \in Values : IsObj(v) => \A a \in Arena : Ends(v, heap[v], a, heads[a])

(* A rewind does not tear a map from its data.                             *)
Whole ==
  \A v \in Values, s \in DOMAIN scopes : Rewinds(s) => Young(v, s) \/ Spared(v, s)

(* A rewind spares what variables hold that are older than the scope.      *)
SlotsSpared ==
  \A s \in DOMAIN scopes, i \in 1 .. Slots :
    Rewinds(s) /\ i <= scopes[s].sp => Spared(stack[i], s)
GlobalSpared == \A s \in DOMAIN scopes : Rewinds(s) => Spared(global, s)

SpareInv == ValuesKept /\ Whole /\ SlotsSpared /\ GlobalSpared

ShapeInv == TypeInv /\ FrameShape /\ ScopeShape

-----------------------------------------------------------------------------
(* Sequences: the first elements.                                          *)
LEMMA FirstOnes ==
  ASSUME NEW S, NEW seq \in Seq(S), NEW n \in 0 .. Len(seq)
  PROVE  /\ SubSeq(seq, 1, n) \in Seq(S) /\ Len(SubSeq(seq, 1, n)) = n
         /\ \A i \in 1 .. n : SubSeq(seq, 1, n)[i] = seq[i]
<1>1. Len(seq) \in Nat /\ \A i \in 1 .. Len(seq) : seq[i] \in S
  BY LenProperties, ElementOfSeq
<1>2. /\ SubSeq(seq, 1, n) \in Seq(S)
      /\ Len(SubSeq(seq, 1, n)) = IF 1 <= n THEN n - 1 + 1 ELSE 0
      /\ \A i \in 1 .. n - 1 + 1 : SubSeq(seq, 1, n)[i] = seq[1 + i - 1]
  BY <1>1, SubSeqProperties
<1> QED
  BY <1>1, <1>2

(* Sequences: without its last element, and with it.                       *)
LEMMA FrontAndLast ==
  ASSUME NEW S, NEW seq \in Seq(S), seq # <<>>
  PROVE  /\ Len(seq) \in Nat \ {0}
         /\ Front(seq) \in Seq(S) /\ Len(Front(seq)) = Len(seq) - 1
         /\ \A i \in 1 .. Len(seq) - 1 : Front(seq)[i] = seq[i]
         /\ Last(seq) = seq[Len(seq)] /\ Last(seq) \in S
<1>1. Len(seq) \in Nat \ {0} /\ \A i \in 1 .. Len(seq) : seq[i] \in S
  BY EmptySeq, ElementOfSeq
<1>2. Front(seq) = SubSeq(seq, 1, Len(seq) - 1) /\ Last(seq) = seq[Len(seq)]
  BY DEF Front, Last
<1>3. Len(seq) - 1 \in 0 .. Len(seq) /\ Len(seq) \in 1 .. Len(seq)
  BY <1>1
<1>4. /\ SubSeq(seq, 1, Len(seq) - 1) \in Seq(S)
      /\ Len(SubSeq(seq, 1, Len(seq) - 1)) = Len(seq) - 1
      /\ \A i \in 1 .. Len(seq) - 1 : SubSeq(seq, 1, Len(seq) - 1)[i] = seq[i]
  BY <1>3, FirstOnes
<1>5. Last(seq) \in S
  BY <1>1, <1>2, <1>3
<1>6. /\ Front(seq) \in Seq(S) /\ Len(Front(seq)) = Len(seq) - 1
      /\ \A i \in 1 .. Len(seq) - 1 : Front(seq)[i] = seq[i]
  BY <1>2, <1>4
<1> QED
  BY <1>1, <1>2, <1>5, <1>6

-----------------------------------------------------------------------------
(* What typing says of the sequences, element by element.                  *)
LEMMA Basics ==
  ASSUME TypeInv
  PROVE  /\ Len(scopes) \in Nat /\ DOMAIN scopes = 1 .. Len(scopes)
         /\ \A s \in DOMAIN scopes : scopes[s] \in ScopeRec
         /\ Len(stack) \in Nat /\ DOMAIN stack = 1 .. Len(stack)
         /\ \A i \in DOMAIN stack : stack[i] \in Value
         /\ Len(frames) \in Nat \ {0} /\ DOMAIN frames = 1 .. Len(frames)
         /\ \A f \in DOMAIN frames : frames[f] \in 0 .. MaxSlots
         /\ Last(frames) = frames[Len(frames)]
         /\ scopes # <<>> => Last(scopes) = scopes[Len(scopes)] /\ Len(scopes) \in DOMAIN scopes
         /\ \A s \in DOMAIN scopes : scopes # <<>>
<1>1. /\ Len(scopes) \in Nat /\ DOMAIN scopes = 1 .. Len(scopes)
      /\ \A s \in 1 .. Len(scopes) : scopes[s] \in ScopeRec
  BY LenProperties, ElementOfSeq DEF TypeInv
<1>2. /\ Len(stack) \in Nat /\ DOMAIN stack = 1 .. Len(stack)
      /\ \A i \in 1 .. Len(stack) : stack[i] \in Value
  BY LenProperties, ElementOfSeq DEF TypeInv
<1>3. /\ Len(frames) \in Nat \ {0} /\ DOMAIN frames = 1 .. Len(frames)
      /\ \A f \in 1 .. Len(frames) : frames[f] \in 0 .. MaxSlots
  <2>1. frames \in Seq(0 .. MaxSlots) /\ Len(frames) \in 1 .. MaxFrames
    BY DEF TypeInv
  <2> QED
    BY <2>1, LenProperties, ElementOfSeq, HeapConstants
<1>4. scopes # <<>> => Len(scopes) \in 1 .. Len(scopes)
  BY <1>1, EmptySeq DEF TypeInv
<1>5. \A s \in 1 .. Len(scopes) : scopes # <<>>
  BY EmptySeq
<1> QED
  BY <1>1, <1>2, <1>3, <1>4, <1>5 DEF Last

(* What the program reaches are places in arenas.                          *)
LEMMA ReachedRefs ==
  ASSUME TypeInv
  PROVE  /\ Reached(stack, global, acc) \subseteq Ref
         /\ \A v \in Reached(stack, global, acc) : v \in DOMAIN heap /\ heap[v] \in Object
         /\ \A i \in DOMAIN stack : IsObj(stack[i]) => stack[i] \in DOMAIN heap
         /\ IsObj(global) => global \in DOMAIN heap
         /\ IsObj(acc) => acc \in DOMAIN heap
<1>1. \A v \in Value \cup {Absent} : IsObj(v) => v \in Ref
  BY DEF IsObj, Value, Absent, Number
<1>2. \A i \in DOMAIN stack : stack[i] \in Value
  BY Basics
<1>3. heap \in [Reached(stack, global, acc) -> Object] /\ global \in Value /\ acc \in Value \cup {Absent}
  BY DEF TypeInv
<1> QED
  BY <1>1, <1>2, <1>3 DEF Reached

(* Typing is kept if the reachable objects still are objects.              *)
LEMMA TypeStep ==
  ASSUME NEW D, NEW objects \in [D -> Object],
         Reached(stack', global', acc') \subseteq D,
         Remember(objects),
         heads' \in [Arena -> 0 .. MAX_HEAP], current' \in Arena,
         scopes' \in Seq(ScopeRec), Len(scopes') <= MAX_LOOP_NESTING,
         stack' \in Seq(Value), Len(stack') <= MaxSlots,
         frames' \in Seq(0 .. MaxSlots), Len(frames') \in 1 .. MaxFrames,
         acc' \in Value \cup {Absent}, global' \in Value,
         status' \in {"running", "returning", "overrun"}
  PROVE  TypeInv'
<1>1. heap' \in [Reached(stack', global', acc') -> Object]
  BY DEF Remember
<1> QED
  BY <1>1 DEF TypeInv

(* No value is an object at first, and there is one frame.                 *)
LEMMA ShapeInit == Init => ShapeInv
<1> SUFFICES ASSUME Init PROVE ShapeInv
  OBVIOUS
<1> USE DEF Init
<1>0. scopes = <<>> /\ stack = <<>> /\ frames = <<0>> /\ global = Number /\ acc = Absent
  OBVIOUS
<1>1. heads \in [Arena -> 0 .. MAX_HEAP] /\ current \in Arena
  BY HeapConstants
<1>2. /\ scopes \in Seq(ScopeRec) /\ Len(scopes) = 0 /\ DOMAIN scopes = {}
      /\ stack \in Seq(Value) /\ Len(stack) = 0 /\ DOMAIN stack = {}
  BY <1>0, EmptySeq
<1>3. /\ frames \in Seq(0 .. MaxSlots) /\ Len(frames) = 1 /\ DOMAIN frames = {1} /\ frames[1] = 0
  BY <1>0, HeapConstants
<1>4. Reached(stack, global, acc) = {}
  BY <1>0, <1>2 DEF Reached, IsObj, Number, Absent
<1>5. TypeInv
  <2>1. heap \in [Reached(stack, global, acc) -> Object]
    BY <1>4
  <2>2. Len(frames) \in 1 .. MaxFrames /\ Len(stack) <= MaxSlots /\ Len(scopes) <= MAX_LOOP_NESTING
    BY <1>2, <1>3, HeapConstants
  <2> HIDE DEF Init
  <2>3. status \in {"running", "returning", "overrun"} /\ acc \in Value \cup {Absent} /\ global \in Value
    BY DEF Init, Value
  <2> QED
    BY <1>1, <1>2, <1>3, <2>1, <2>2, <2>3 DEF TypeInv
<1>6. FrameShape
  BY <1>2, <1>3 DEF FrameShape
<1>7. ScopeShape
  BY <1>2 DEF ScopeShape
<1> QED
  BY <1>5, <1>6, <1>7 DEF ShapeInv

-----------------------------------------------------------------------------
(* Where frames and scopes begin does not depend on what is assigned.      *)
LEMMA ShapeKept ==
  ASSUME ShapeInv, TypeInv',
         frames' = frames, Len(stack') = Len(stack),
         DOMAIN scopes' = DOMAIN scopes,
         \A s \in DOMAIN scopes : scopes'[s].fp = scopes[s].fp /\ scopes'[s].sp = scopes[s].sp,
         status' = "running" \/ (status' = status /\ acc' = acc)
  PROVE  ShapeInv'
<1>1. FrameShape'
  BY DEF ShapeInv, FrameShape
<1>2. ScopeShape'
  BY DEF ShapeInv, ScopeShape
<1> QED
  BY <1>1, <1>2 DEF ShapeInv

(* An expression and a selection of a region touch heads, acc and heap.    *)
LEMMA ExpressionTypes ==
  ASSUME TypeInv, Running, acc = Absent, Expression
  PROVE  TypeInv'
<1> USE DEF Between, Running
<1>0. /\ heads \in [Arena -> 0 .. MAX_HEAP] /\ current \in Arena /\ 0 \in Arena /\ MAX_HEAP \in Nat
      /\ global \in Value /\ stack \in Seq(Value) /\ scopes \in Seq(ScopeRec)
      /\ Len(scopes) <= MAX_LOOP_NESTING /\ Len(stack) <= MaxSlots
      /\ frames \in Seq(0 .. MaxSlots) /\ Len(frames) \in 1 .. MaxFrames
      /\ status \in {"running", "returning", "overrun"}
      /\ heap \in [Reached(stack, global, acc) -> Object]
  BY HeapConstants DEF TypeInv
<1>2. ASSUME NEW v \in Variables \cup {Number}, Eval(v) PROVE TypeInv'
  <2>1. v \in Value
    BY Basics DEF Variables, Local, Value, TypeInv
  <2>2. Reached(stack, global, v) = Reached(stack, global, acc)
    BY <1>2 DEF Reached, Variables, IsObj, Number, Absent, Eval
  <2> QED
    BY <1>0, <1>2, <2>1, <2>2 DEF Eval, TypeInv
<1>3. ASSUME NEW a \in Arena, NEW n \in Nat, NEW o \in Object, NEW c \in Arena,
             heads[a] + n < MAX_HEAP,
             heads' = [heads EXCEPT ![a] = @ + n], acc' = At(a, heads[a]), current' = c,
             UNCHANGED <<scopes, stack, frames, global, status>>,
             Remember(With(heap, At(a, heads[a]), o))
      PROVE  TypeInv'
  <2>1. heads[a] \in 0 .. MAX_HEAP - 1 /\ heads[a] + n \in 0 .. MAX_HEAP
    BY <1>0, <1>3
  <2>2. At(a, heads[a]) \in Ref
    BY <2>1 DEF At, Ref
  <2>3. acc' \in Value
    BY <1>3, <2>2 DEF Value
  <2>4. heads' \in [Arena -> 0 .. MAX_HEAP]
    BY <1>0, <1>3, <2>1
  <2> DEFINE D == Reached(stack, global, acc) \cup {At(a, heads[a])}
  <2>5. With(heap, At(a, heads[a]), o) \in [D -> Object]
    BY <1>0 DEF With
  <2>6. Reached(stack', global', acc') \subseteq D
    BY <1>3 DEF Reached
  <2> QED
    BY <1>0, <1>3, <2>3, <2>4, <2>5, <2>6, TypeStep
<1>4. \A n \in Nat \ {0} : Array(n) \in Object
  BY DEF Array, Object
<1>5. ASSUME NEW size \in Sizes, EvalArray(size) PROVE TypeInv'
  <2>1. size \in Nat \ {0}
    BY HeapConstants
  <2> QED
    BY <1>0, <1>3, <1>4, <1>5, <2>1 DEF EvalArray, Fits
<1>6. ASSUME NEW r \in Arena \ {0}, NEW size \in Sizes, EvalIn(r, size) PROVE TypeInv'
  <2>1. size \in Nat \ {0}
    BY HeapConstants
  <2> QED
    BY <1>0, <1>3, <1>4, <1>6, <2>1 DEF EvalIn
<1>7. CASE EvalMap
  <2> DEFINE o == Map(At(current, At(current, heads[current]).off + 1), 1)
  <2>1. heads[current] + 2 < MAX_HEAP /\ heads[current] \in 0 .. MAX_HEAP
    BY <1>0, <1>7 DEF EvalMap, Fits
  <2>2. At(current, heads[current]).off = heads[current]
    BY DEF At
  <2>3. At(current, At(current, heads[current]).off + 1) \in Ref
    BY <1>0, <2>1, <2>2 DEF At, Ref
  <2>4. o \in Object
    BY <2>3 DEF Map, Object
  <2>5. /\ heads' = [heads EXCEPT ![current] = @ + 2] /\ acc' = At(current, heads[current])
        /\ current' = current /\ UNCHANGED <<scopes, stack, frames, global, status>>
        /\ Remember(With(heap, At(current, heads[current]), o))
    BY <1>7 DEF EvalMap
  <2> HIDE DEF o
  <2> QED
    BY <1>0, <1>3, <2>1, <2>4, <2>5
<1> QED
  BY <1>2, <1>5, <1>6, <1>7 DEF Expression

-----------------------------------------------------------------------------
(* A block is entered and left: its slots lie above those of older scopes. *)
LEMMA EnterShape == ASSUME ShapeInv, Enter PROVE ShapeInv'
<1> USE DEF ShapeInv
<1>0. TypeInv /\ status = "running"
  BY DEF Enter, Between, Running
<1> DEFINE new == Scope(Len(stack), Len(frames))
<1>1. new \in ScopeRec /\ new.fp = Len(frames) /\ new.sp = Len(stack)
  BY <1>0, Basics DEF Scope, ScopeRec, TypeInv
<1>2. /\ scopes' = Append(scopes, new) /\ Len(scopes) < MAX_LOOP_NESTING
      /\ UNCHANGED <<heads, current, stack, frames, acc, global, heap, status>>
  BY DEF Enter
<1> HIDE DEF new
<1>3. /\ scopes' \in Seq(ScopeRec) /\ Len(scopes') = Len(scopes) + 1
      /\ DOMAIN scopes' = 1 .. Len(scopes) + 1
      /\ \A s \in 1 .. Len(scopes) : scopes'[s] = scopes[s]
      /\ scopes'[Len(scopes) + 1] = new
  <2>1. scopes \in Seq(ScopeRec)
    BY <1>0 DEF TypeInv
  <2>2. /\ scopes' \in Seq(ScopeRec) /\ Len(scopes') = Len(scopes) + 1
        /\ \A s \in 1 .. Len(scopes) : scopes'[s] = scopes[s]
        /\ scopes'[Len(scopes) + 1] = new
    BY <1>1, <1>2, <2>1, AppendProperties
  <2> QED
    BY <2>2, LenProperties
<1>4. TypeInv'
  <2>1. Len(scopes') <= MAX_LOOP_NESTING
    BY <1>0, <1>2, <1>3, Basics, HeapConstants
  <2> QED
    BY <1>0, <1>2, <1>3, <2>1 DEF TypeInv
<1>5. FrameShape'
  BY <1>0, <1>2 DEF FrameShape
<1>6. ScopeShape'
  BY <1>0, <1>1, <1>2, <1>3, Basics DEF ScopeShape, FrameShape
<1> QED
  BY <1>4, <1>5, <1>6

(* A block is left: the slots above its scope go, with no frame's start.   *)
LEMMA ExitShape == ASSUME ShapeInv, Exit PROVE ShapeInv'
<1> USE DEF ShapeInv
<1>0. TypeInv /\ status = "running" /\ scopes # <<>>
  BY DEF Exit, Between, Running
<1>b. /\ Len(scopes) \in Nat /\ Len(scopes) <= MAX_LOOP_NESTING /\ DOMAIN scopes = 1 .. Len(scopes)
      /\ Len(stack) \in Nat /\ Len(stack) <= MaxSlots /\ DOMAIN stack = 1 .. Len(stack)
      /\ Len(frames) \in Nat \ {0} /\ DOMAIN frames = 1 .. Len(frames)
      /\ \A f \in DOMAIN frames : frames[f] \in 0 .. MaxSlots
      /\ \A s \in DOMAIN scopes : scopes[s] \in ScopeRec
  BY <1>0, Basics DEF TypeInv
<1> DEFINE scope == Last(scopes)
           n == Len(scopes) - 1
<1>1. /\ scope = scopes[Len(scopes)] /\ scope \in ScopeRec /\ Len(scopes) \in DOMAIN scopes
      /\ scope.sp \in 0 .. Len(stack) /\ scope.fp = Len(frames) /\ scope.head \in 0 .. MAX_HEAP
  <2>1. Len(scopes) \in DOMAIN scopes /\ scope = scopes[Len(scopes)] /\ scope \in ScopeRec
    BY <1>0, Basics
  <2> QED
    BY <2>1 DEF Exit, Mine, ScopeShape, ScopeRec
<1>2. /\ scopes' = Front(scopes) /\ stack' = SubSeq(stack, 1, scope.sp)
      /\ heads' = IF current = scope.arena THEN [heads EXCEPT ![current] = scope.head] ELSE heads
      /\ UNCHANGED <<current, frames, acc, global, status>> /\ Remember(heap)
  BY DEF Exit
<1> HIDE DEF scope
<1>3. /\ scopes' \in Seq(ScopeRec) /\ Len(scopes') = n /\ DOMAIN scopes' = 1 .. n
      /\ \A s \in 1 .. n : scopes'[s] = scopes[s]
  <2>1. scopes \in Seq(ScopeRec)
    BY <1>0 DEF TypeInv
  <2>2. scopes' \in Seq(ScopeRec) /\ Len(scopes') = n /\ \A s \in 1 .. n : scopes'[s] = scopes[s]
    BY <1>0, <1>2, <2>1, FrontAndLast
  <2> QED
    BY <2>2, LenProperties
<1>4. /\ stack' \in Seq(Value) /\ Len(stack') = scope.sp /\ DOMAIN stack' = 1 .. scope.sp
      /\ \A i \in 1 .. scope.sp : stack'[i] = stack[i]
  <2>1. stack \in Seq(Value)
    BY <1>0 DEF TypeInv
  <2>2. stack' \in Seq(Value) /\ Len(stack') = scope.sp /\ \A i \in 1 .. scope.sp : stack'[i] = stack[i]
    BY <1>1, <1>2, <2>1, FirstOnes
  <2> QED
    BY <2>2, LenProperties
<1>5. TypeInv'
  <2>1. heads' \in [Arena -> 0 .. MAX_HEAP]
    BY <1>0, <1>1, <1>2 DEF TypeInv
  <2>2. Reached(stack', global', acc') \subseteq Reached(stack, global, acc)
    BY <1>0, <1>1, <1>2, <1>4, Basics DEF Reached
  <2>3. Len(scopes') <= MAX_LOOP_NESTING /\ Len(stack') <= MaxSlots
    BY <1>b, <1>1, <1>3, <1>4, HeapConstants
  <2> QED
    BY <1>0, <1>2, <1>3, <1>4, <2>1, <2>2, <2>3, TypeStep DEF TypeInv
<1>6. FrameShape'
  <2>1. \A f \in DOMAIN frames : frames[f] <= frames[Len(frames)] /\ frames[Len(frames)] <= scope.sp
    BY <1>b, <1>1 DEF FrameShape, ScopeShape
  <2>2. \A f \in DOMAIN frames : frames[f] <= scope.sp
    BY <1>b, <1>1, <2>1
  <2> QED
    BY <1>0, <1>2, <1>4, <2>2 DEF FrameShape
<1>7. ScopeShape'
  <2>1. \A s \in DOMAIN scopes' :
          s \in DOMAIN scopes /\ scopes'[s] = scopes[s] /\ scopes[s].sp <= scope.sp
    BY <1>b, <1>1, <1>3 DEF ScopeShape
  <2>2. frames' = frames /\ Len(stack') = scope.sp
    BY <1>2, <1>4
  <2> QED
    BY <2>1, <2>2 DEF ScopeShape
<1> QED
  BY <1>5, <1>6, <1>7

-----------------------------------------------------------------------------
(* A scope is popped.                                                      *)
LEMMA Popped ==
  ASSUME TypeInv, scopes # <<>>, scopes' = Front(scopes)
  PROVE  /\ scopes' \in Seq(ScopeRec) /\ Len(scopes') = Len(scopes) - 1
         /\ Len(scopes') <= MAX_LOOP_NESTING /\ Len(scopes) \in Nat
         /\ DOMAIN scopes' = 1 .. Len(scopes) - 1
         /\ \A s \in DOMAIN scopes' : s \in DOMAIN scopes /\ scopes'[s] = scopes[s]
<1>1. scopes \in Seq(ScopeRec) /\ Len(scopes) \in Nat /\ DOMAIN scopes = 1 .. Len(scopes)
  BY Basics DEF TypeInv
<1>2. /\ scopes' \in Seq(ScopeRec) /\ Len(scopes') = Len(scopes) - 1
      /\ \A s \in 1 .. Len(scopes) - 1 : scopes'[s] = scopes[s]
  BY <1>1, FrontAndLast
<1>3. DOMAIN scopes' = 1 .. Len(scopes) - 1
  BY <1>2, LenProperties
<1>4. Len(scopes) <= MAX_LOOP_NESTING /\ MAX_LOOP_NESTING \in Nat
  BY HeapConstants DEF TypeInv
<1> QED
  BY <1>1, <1>2, <1>3, <1>4

(* Then frames and scopes begin where they began.                          *)
LEMMA PopShape ==
  ASSUME ShapeInv, TypeInv', scopes # <<>>, scopes' = Front(scopes),
         frames' = frames, stack' = stack, status' = status,
         status = "running" \/ acc' # Absent
  PROVE  ShapeInv'
<1>1. \A s \in DOMAIN scopes' : s \in DOMAIN scopes /\ scopes'[s] = scopes[s]
  BY Popped DEF ShapeInv
<1>2. FrameShape' /\ ScopeShape'
  BY <1>1 DEF ShapeInv, FrameShape, ScopeShape
<1> QED
  BY <1>2 DEF ShapeInv

(* Moving heads up changes nothing else of scope_stack.                    *)
LEMMA Raised ==
  ASSUME TypeInv, NEW W, NEW h \in 0 .. MAX_HEAP, Raise(W, h)
  PROVE  /\ scopes' \in Seq(ScopeRec) /\ Len(scopes') = Len(scopes)
         /\ Len(scopes') <= MAX_LOOP_NESTING /\ DOMAIN scopes' = DOMAIN scopes
         /\ \A s \in DOMAIN scopes :
              /\ scopes'[s].arena = scopes[s].arena
              /\ scopes'[s].fp = scopes[s].fp /\ scopes'[s].sp = scopes[s].sp
              /\ scopes'[s].head = IF s \in W THEN h ELSE scopes[s].head
<1>1. Len(scopes) \in Nat /\ DOMAIN scopes = 1 .. Len(scopes) /\ \A s \in 1 .. Len(scopes) : scopes[s] \in ScopeRec
  BY Basics
<1>2. scopes' = [s \in 1 .. Len(scopes) |-> IF s \in W THEN [scopes[s] EXCEPT !.head = h] ELSE scopes[s]]
  BY <1>1 DEF Raise
<1>3. \A s \in 1 .. Len(scopes) :
        /\ scopes'[s] \in ScopeRec
        /\ scopes'[s].arena = scopes[s].arena
        /\ scopes'[s].fp = scopes[s].fp /\ scopes'[s].sp = scopes[s].sp
        /\ scopes'[s].head = IF s \in W THEN h ELSE scopes[s].head
  <2> TAKE s \in 1 .. Len(scopes)
  <2>1. scopes[s] \in ScopeRec /\ scopes'[s] = IF s \in W THEN [scopes[s] EXCEPT !.head = h] ELSE scopes[s]
    BY <1>1, <1>2
  <2> QED
    BY <2>1 DEF ScopeRec
<1>4. scopes' \in Seq(ScopeRec) /\ Len(scopes') = Len(scopes)
  BY <1>1, <1>2, <1>3
<1> QED
  BY <1>1, <1>2, <1>3, <1>4 DEF TypeInv

(* The selection of a region moves nothing.                                *)
LEMMA SetRegionShape ==
  ASSUME ShapeInv, NEW r \in Arena, SetRegion(r) PROVE ShapeInv'
<1>1. TypeInv'
  BY DEF ShapeInv, TypeInv, SetRegion
<1> QED
  BY <1>1, ShapeKept DEF SetRegion

(* acc becomes the newest slot.                                            *)
LEMMA Appended ==
  ASSUME TypeInv, acc # Absent, Len(stack) < MaxSlots, stack' = Append(stack, acc)
  PROVE  /\ stack' \in Seq(Value) /\ Len(stack') = Len(stack) + 1
         /\ Len(stack') <= MaxSlots /\ Len(stack) \in Nat
         /\ DOMAIN stack' = 1 .. Len(stack) + 1
         /\ \A i \in 1 .. Len(stack) : stack'[i] = stack[i]
         /\ stack'[Len(stack) + 1] = acc
<1>1. stack \in Seq(Value) /\ acc \in Value /\ Len(stack) \in Nat
  BY Basics DEF TypeInv
<1>2. /\ stack' \in Seq(Value) /\ Len(stack') = Len(stack) + 1
      /\ \A i \in 1 .. Len(stack) : stack'[i] = stack[i]
      /\ stack'[Len(stack) + 1] = acc
  BY <1>1, AppendProperties
<1>3. DOMAIN stack' = 1 .. Len(stack) + 1
  BY <1>2, LenProperties
<1> QED
  BY <1>1, <1>2, <1>3, HeapConstants

(* A declaration adds a slot above all frames and scopes.                  *)
LEMMA DeclareShape == ASSUME ShapeInv, Declare PROVE ShapeInv'
<1> USE DEF ShapeInv
<1>0. /\ TypeInv /\ acc # Absent /\ status = "running" /\ acc' = Absent
      /\ UNCHANGED <<heads, current, scopes, frames, global, heap, status>>
  BY DEF Declare, Take, Running
<1>1. /\ stack' \in Seq(Value) /\ Len(stack') = Len(stack) + 1
      /\ Len(stack') <= MaxSlots /\ Len(stack) \in Nat
      /\ DOMAIN stack' = 1 .. Len(stack) + 1
      /\ \A i \in 1 .. Len(stack) : stack'[i] = stack[i]
      /\ stack'[Len(stack) + 1] = acc
  BY <1>0, Appended DEF Declare
<1>2. TypeInv'
  <2>1. DOMAIN stack = 1 .. Len(stack)
    BY <1>0, Basics
  <2>2. {stack'[i] : i \in DOMAIN stack'} = {stack[i] : i \in DOMAIN stack} \cup {acc}
    BY <1>1, <2>1
  <2>3. Reached(stack', global', acc') = Reached(stack, global, acc)
    BY <1>0, <2>2 DEF Reached, IsObj, Absent
  <2> QED
    BY <1>0, <1>1, <2>3 DEF TypeInv
<1>3. FrameShape'
  BY <1>0, <1>1, Basics DEF FrameShape
<1>4. ScopeShape'
  BY <1>0, <1>1, Basics DEF ScopeShape, ScopeRec
<1> QED
  BY <1>2, <1>3, <1>4

(* An assignment changes a slot, and heads of scopes.                      *)
LEMMA AssignShape ==
  ASSUME ShapeInv, NEW i \in DOMAIN stack, Assign(i) PROVE ShapeInv'
<1> USE DEF ShapeInv
<1>0. /\ TypeInv /\ acc # Absent /\ status = "running" /\ acc' = Absent
      /\ stack' = [stack EXCEPT ![i] = acc]
      /\ UNCHANGED <<heads, current, frames, global, status>> /\ Remember(heap)
  BY DEF Assign, Take, Running
<1>1. PICK W : Raise(W, heads[current])
  BY DEF Assign
<1>2. /\ scopes' \in Seq(ScopeRec) /\ Len(scopes') = Len(scopes) /\ DOMAIN scopes' = DOMAIN scopes
      /\ \A s \in DOMAIN scopes : scopes'[s].fp = scopes[s].fp /\ scopes'[s].sp = scopes[s].sp
  <2>1. heads[current] \in 0 .. MAX_HEAP
    BY <1>0 DEF TypeInv
  <2> QED
    BY <1>0, <1>1, <2>1, Raised
<1>3. /\ stack' \in Seq(Value) /\ Len(stack') = Len(stack) /\ DOMAIN stack' = DOMAIN stack
      /\ \A j \in DOMAIN stack : stack'[j] = IF j = i THEN acc ELSE stack[j]
  <2>1. stack \in Seq(Value) /\ acc \in Value /\ i \in 1 .. Len(stack) /\ DOMAIN stack = 1 .. Len(stack)
    BY <1>0, Basics DEF TypeInv
  <2> QED
    BY <1>0, <2>1, ExceptSeq
<1>4. TypeInv'
  <2>1. Reached(stack', global', acc') \subseteq Reached(stack, global, acc)
    BY <1>0, <1>3 DEF Reached, IsObj, Absent
  <2> QED
    BY <1>0, <1>2, <1>3, <2>1, TypeStep DEF TypeInv
<1> QED
  BY <1>0, <1>2, <1>3, <1>4, ShapeKept

(* A global takes the value.                                               *)
LEMMA AssignGlobalShape == ASSUME ShapeInv, AssignGlobal PROVE ShapeInv'
<1> USE DEF ShapeInv
<1>0. /\ TypeInv /\ acc # Absent /\ status = "running" /\ acc' = Absent /\ global' = acc
      /\ UNCHANGED <<heads, current, scopes, stack, frames, status>> /\ Remember(heap)
  BY DEF AssignGlobal, Take, Running
<1>1. TypeInv'
  <2>1. Reached(stack', global', acc') \subseteq Reached(stack, global, acc)
    BY <1>0 DEF Reached, IsObj, Absent
  <2> QED
    BY <1>0, <2>1, TypeStep DEF TypeInv
<1> QED
  BY <1>0, <1>1, ShapeKept

(* A value is given up.                                                    *)
LEMMA DropShape == ASSUME ShapeInv, Drop PROVE ShapeInv'
<1> USE DEF ShapeInv
<1>0. /\ TypeInv /\ acc # Absent /\ status = "running" /\ acc' = Absent
      /\ UNCHANGED <<heads, current, scopes, stack, frames, global, status>> /\ Remember(heap)
  BY DEF Drop, Take, Running
<1>1. TypeInv'
  <2>1. Reached(stack', global', acc') \subseteq Reached(stack, global, acc)
    BY <1>0 DEF Reached, IsObj, Absent
  <2> QED
    BY <1>0, <2>1, TypeStep DEF TypeInv
<1> QED
  BY <1>0, <1>1, ShapeKept

-----------------------------------------------------------------------------
(* A map grows into the current arena.                                     *)
LEMMA GrowShape ==
  ASSUME ShapeInv, NEW m \in DOMAIN heap, Grow(m) PROVE ShapeInv'
<1> USE DEF ShapeInv
<1> DEFINE size == 2 * heap[m].data.size
           new  == Map(At(current, heads[current]), size)
           h    == heads[current] + size
<1>0. /\ TypeInv /\ status = "running" /\ acc = Absent /\ IsMap(m) /\ heads[current] + size < MAX_HEAP
      /\ heads' = [heads EXCEPT ![current] = @ + size]
      /\ UNCHANGED <<current, stack, frames, acc, global, status>>
      /\ Remember(With(heap, m, new))
  BY DEF Grow, Between, Running, Fits
<1>1. size \in Nat \ {0} /\ heads[current] \in Nat /\ current \in Arena /\ heads \in [Arena -> 0 .. MAX_HEAP]
  <2>1. heap[m] \in Object /\ heads[current] \in 0 .. MAX_HEAP
    BY <1>0 DEF TypeInv
  <2>2. heap[m].data \in [at : Ref, size : Nat \ {0}]
    BY <1>0, <2>1 DEF IsMap, Object
  <2> QED
    BY <1>0, <2>1, <2>2 DEF TypeInv
<1>2. h \in 0 .. MAX_HEAP /\ heads'[current] = h /\ heads' \in [Arena -> 0 .. MAX_HEAP]
  BY <1>0, <1>1, HeapConstants
<1>3. new \in Object
  <2>1. At(current, heads[current]) \in Ref
    BY <1>0, <1>1, HeapConstants DEF At, Ref
  <2> HIDE DEF size
  <2> QED
    BY <1>1, <2>1 DEF Map, Object
<1> HIDE DEF size, new
<1>4. PICK W : Raise(W, h)
  BY <1>2 DEF Grow
<1> HIDE DEF h
<1>5. /\ scopes' \in Seq(ScopeRec) /\ Len(scopes') <= MAX_LOOP_NESTING /\ DOMAIN scopes' = DOMAIN scopes
      /\ \A s \in DOMAIN scopes : scopes'[s].fp = scopes[s].fp /\ scopes'[s].sp = scopes[s].sp
  BY <1>0, <1>2, <1>4, Raised
<1>6. TypeInv'
  <2>1. heap \in [Reached(stack, global, acc) -> Object]
    BY <1>0 DEF TypeInv
  <2>2. With(heap, m, new) \in [Reached(stack, global, acc) -> Object]
    BY <1>3, <2>1 DEF With
  <2> QED
    BY <1>0, <1>2, <1>5, <2>2, TypeStep DEF TypeInv
<1> QED
  BY <1>0, <1>5, <1>6, ShapeKept

(* A call: the argument is the first slot of the new frame, and older than *)
(* its scope.                                                              *)
LEMMA CallShape == ASSUME ShapeInv, Call PROVE ShapeInv'
<1> USE DEF ShapeInv
<1> DEFINE new == Scope(Len(stack) + 1, Len(frames) + 1)
<1>0. /\ TypeInv /\ acc # Absent /\ status = "running" /\ acc' = Absent
      /\ frames' = Append(frames, Len(stack)) /\ scopes' = Append(scopes, new)
      /\ Len(frames) < MaxFrames /\ Len(scopes) < MAX_LOOP_NESTING
      /\ Len(stack) < MaxSlots /\ stack' = Append(stack, acc)
      /\ UNCHANGED <<heads, current, global, heap, status>>
  BY DEF Call, Take, Running
<1>1. /\ stack' \in Seq(Value) /\ Len(stack') = Len(stack) + 1
      /\ Len(stack') <= MaxSlots /\ Len(stack) \in Nat
      /\ DOMAIN stack' = 1 .. Len(stack) + 1
      /\ \A i \in 1 .. Len(stack) : stack'[i] = stack[i]
      /\ stack'[Len(stack) + 1] = acc
  BY <1>0, Appended
<1>2. /\ frames' \in Seq(0 .. MaxSlots) /\ Len(frames') = Len(frames) + 1 /\ Len(frames) \in Nat \ {0}
      /\ Len(frames') \in 1 .. MaxFrames
      /\ DOMAIN frames' = 1 .. Len(frames) + 1
      /\ \A f \in 1 .. Len(frames) : frames'[f] = frames[f]
      /\ frames'[Len(frames) + 1] = Len(stack)
  <2>1. /\ frames \in Seq(0 .. MaxSlots) /\ Len(stack) \in 0 .. MaxSlots /\ Len(frames) \in Nat \ {0}
        /\ MaxFrames \in Nat
    BY <1>0, <1>1, Basics, HeapConstants DEF TypeInv
  <2>2. /\ frames' \in Seq(0 .. MaxSlots) /\ Len(frames') = Len(frames) + 1
        /\ \A f \in 1 .. Len(frames) : frames'[f] = frames[f]
        /\ frames'[Len(frames) + 1] = Len(stack)
    BY <1>0, <2>1, AppendProperties
  <2>3. DOMAIN frames' = 1 .. Len(frames) + 1
    BY <2>2, LenProperties
  <2> QED
    BY <1>0, <2>1, <2>2, <2>3
<1>3. new \in ScopeRec /\ new.fp = Len(frames) + 1 /\ new.sp = Len(stack) + 1
  BY <1>0, <1>1, <1>2 DEF Scope, ScopeRec, TypeInv
<1> HIDE DEF new
<1>4. /\ scopes' \in Seq(ScopeRec) /\ Len(scopes') = Len(scopes) + 1
      /\ Len(scopes') <= MAX_LOOP_NESTING /\ Len(scopes) \in Nat
      /\ DOMAIN scopes' = 1 .. Len(scopes) + 1 /\ DOMAIN scopes = 1 .. Len(scopes)
      /\ \A s \in 1 .. Len(scopes) : scopes'[s] = scopes[s] /\ scopes[s] \in ScopeRec
      /\ scopes'[Len(scopes) + 1] = new
  <2>1. scopes \in Seq(ScopeRec) /\ Len(scopes) \in Nat /\ DOMAIN scopes = 1 .. Len(scopes)
    BY <1>0, Basics DEF TypeInv
  <2>2. /\ scopes' \in Seq(ScopeRec) /\ Len(scopes') = Len(scopes) + 1
        /\ \A s \in 1 .. Len(scopes) : scopes'[s] = scopes[s]
        /\ scopes'[Len(scopes) + 1] = new
    BY <1>0, <1>3, <2>1, AppendProperties
  <2>3. DOMAIN scopes' = 1 .. Len(scopes) + 1
    BY <2>1, <2>2, LenProperties
  <2>4. Len(scopes) + 1 <= MAX_LOOP_NESTING
    BY <1>0, <2>1, HeapConstants
  <2>5. \A s \in 1 .. Len(scopes) : scopes[s] \in ScopeRec
    BY <1>0, Basics
  <2> QED
    BY <2>1, <2>2, <2>3, <2>4, <2>5
<1>5. TypeInv'
  <2>1. DOMAIN stack = 1 .. Len(stack)
    BY <1>0, Basics
  <2>2. {stack'[i] : i \in DOMAIN stack'} = {stack[i] : i \in DOMAIN stack} \cup {acc}
    BY <1>1, <2>1
  <2>3. acc' = Absent /\ global' = global
    BY <1>0
  <2>4. Reached(stack', global', acc') = Reached(stack, global, acc)
    BY <2>2, <2>3 DEF Reached, IsObj, Absent
  <2> QED
    BY <1>0, <1>1, <1>2, <1>4, <2>4 DEF TypeInv
<1>6. DOMAIN frames = 1 .. Len(frames) /\ \A f \in DOMAIN frames : frames[f] \in Nat /\ frames[f] <= Len(stack)
  BY <1>0, Basics DEF FrameShape
<1>7. FrameShape'
  BY <1>0, <1>1, <1>2, <1>6 DEF FrameShape
<1>8. ScopeShape'
  <2>1. \A s \in DOMAIN scopes' : IF s \in DOMAIN scopes
          THEN scopes'[s] = scopes[s] /\ scopes[s].fp \in 1 .. Len(frames) /\ scopes[s].sp \in 0 .. Len(stack)
          ELSE s = Len(scopes) + 1 /\ scopes'[s].fp = Len(frames) + 1 /\ scopes'[s].sp = Len(stack) + 1
    BY <1>3, <1>4 DEF ScopeShape, ScopeRec
  <2>2. ASSUME NEW s \in DOMAIN scopes'
        PROVE  /\ scopes'[s].fp <= Len(frames') /\ scopes'[s].sp <= Len(stack')
               /\ frames'[scopes'[s].fp] <= scopes'[s].sp
               /\ \A f \in DOMAIN frames' : scopes'[s].fp < f => scopes'[s].sp <= frames'[f]
    <3>1. CASE s \in DOMAIN scopes
      <4>1. /\ scopes'[s] = scopes[s] /\ scopes[s].fp \in 1 .. Len(frames) /\ scopes[s].sp \in 0 .. Len(stack)
            /\ frames[scopes[s].fp] <= scopes[s].sp
            /\ \A f \in DOMAIN frames : scopes[s].fp < f => scopes[s].sp <= frames[f]
        BY <2>1, <3>1 DEF ScopeShape
      <4>2. ASSUME NEW f \in 1 .. Len(frames) + 1, scopes[s].fp < f
            PROVE  scopes[s].sp <= frames'[f]
        <5>1. CASE f = Len(frames) + 1
          BY <1>1, <1>2, <4>1, <5>1
        <5>2. CASE f # Len(frames) + 1
          BY <1>2, <1>6, <4>1, <4>2, <5>2
        <5> QED
          BY <5>1, <5>2
      <4> QED
        BY <1>1, <1>2, <4>1, <4>2
    <3>2. CASE s \notin DOMAIN scopes
      BY <1>1, <1>2, <2>1, <3>2
    <3> QED
      BY <3>1, <3>2
  <2>3. ASSUME NEW s \in DOMAIN scopes', NEW t \in DOMAIN scopes', s < t
        PROVE  scopes'[s].fp <= scopes'[t].fp /\ scopes'[s].sp <= scopes'[t].sp
    <3>1. s \in DOMAIN scopes
      BY <1>4, <2>3
    <3>2. CASE t \in DOMAIN scopes
      BY <2>1, <2>3, <3>1, <3>2 DEF ScopeShape
    <3>3. CASE t \notin DOMAIN scopes
      BY <1>1, <1>2, <2>1, <3>1, <3>3
    <3> QED
      BY <3>2, <3>3
  <2> QED
    BY <2>2, <2>3 DEF ScopeShape
<1> QED
  BY <1>5, <1>7, <1>8

(* A return, step by step.                                                 *)
LEMMA ReturnShape == ASSUME ShapeInv, Return PROVE ShapeInv'
<1> USE DEF ShapeInv
<1>1. TypeInv' /\ FrameShape' /\ ScopeShape'
  BY DEF TypeInv, FrameShape, ScopeShape, Return
<1> QED
  BY <1>1

(* A scope of another arena than the current one is popped.                *)
LEMMA ReturnElsewhereShape == ASSUME ShapeInv, ReturnElsewhere PROVE ShapeInv'
<1> USE DEF ShapeInv
<1>0. /\ TypeInv /\ scopes # <<>> /\ scopes' = Front(scopes) /\ acc # Absent
      /\ UNCHANGED <<heads, current, stack, frames, acc, global, heap, status>>
  BY DEF ReturnElsewhere, Returning, FrameShape
<1>1. TypeInv'
  BY <1>0, Popped DEF TypeInv
<1> QED
  BY <1>0, <1>1, PopShape

(* A scope is popped, and its arena rewound.                               *)
LEMMA ReturnOldShape == ASSUME ShapeInv, ReturnOld PROVE ShapeInv'
<1> USE DEF ShapeInv
<1> DEFINE scope == Last(scopes)
<1>0. /\ TypeInv /\ scopes # <<>> /\ scopes' = Front(scopes) /\ acc # Absent
      /\ acc' = acc /\ heads' \in {heads, [heads EXCEPT ![scope.arena] = scope.head]}
      /\ UNCHANGED <<current, stack, frames, global, heap, status>>
  BY DEF ReturnOld, Returning, LeaveScope, FrameShape
<1>1. scope \in ScopeRec
  BY <1>0, Basics
<1> HIDE DEF scope
<1>2. heads' \in [Arena -> 0 .. MAX_HEAP]
  BY <1>0, <1>1 DEF TypeInv, ScopeRec
<1>3. TypeInv'
  BY <1>0, <1>2, Popped DEF TypeInv
<1> QED
  BY <1>0, <1>3, PopShape

(* The frame goes: the scopes that are left begin below it.                *)
LEMMA ReturnFrameShape == ASSUME ShapeInv, ReturnFrame PROVE ShapeInv'
<1> USE DEF ShapeInv
<1> DEFINE n == Len(frames) - 1
<1>0. /\ TypeInv /\ acc # Absent /\ status = "returning" /\ status' = "running"
      /\ stack' = SubSeq(stack, 1, Last(frames)) /\ frames' = Front(frames)
      /\ scopes # <<>> => scopes[Len(scopes)].fp # Len(frames)
      /\ UNCHANGED <<heads, current, scopes, acc, global>> /\ Remember(heap)
  BY DEF ReturnFrame, FrameShape, Mine
<1>1. /\ Len(frames) \in Nat /\ Len(frames) > 1 /\ Len(frames) <= MaxFrames /\ DOMAIN frames = 1 .. Len(frames)
      /\ Last(frames) = frames[Len(frames)] /\ Last(frames) \in 0 .. Len(stack)
      /\ \A f \in DOMAIN frames : frames[f] <= Last(frames) /\ frames[f] \in Nat
  <2>1. /\ Len(frames) \in Nat /\ Len(frames) > 1 /\ DOMAIN frames = 1 .. Len(frames)
        /\ Last(frames) = frames[Len(frames)] /\ \A f \in DOMAIN frames : frames[f] \in 0 .. MaxSlots
    BY <1>0, Basics DEF FrameShape
  <2>2. Len(frames) \in DOMAIN frames /\ Len(frames) <= MaxFrames
    BY <1>0, <2>1, HeapConstants DEF TypeInv
  <2> QED
    BY <1>0, <2>1, <2>2, Basics DEF FrameShape
<1>2. /\ frames' \in Seq(0 .. MaxSlots) /\ Len(frames') = n /\ DOMAIN frames' = 1 .. n
      /\ \A f \in 1 .. n : frames'[f] = frames[f]
  <2>1. frames \in Seq(0 .. MaxSlots) /\ frames # <<>>
    BY <1>0, <1>1, EmptySeq DEF TypeInv
  <2>2. frames' \in Seq(0 .. MaxSlots) /\ Len(frames') = n /\ \A f \in 1 .. n : frames'[f] = frames[f]
    BY <1>0, <2>1, FrontAndLast
  <2> QED
    BY <2>2, LenProperties
<1>3. /\ stack' \in Seq(Value) /\ Len(stack') = Last(frames) /\ Len(stack') <= MaxSlots
      /\ DOMAIN stack' = 1 .. Last(frames) /\ \A i \in DOMAIN stack' : i \in DOMAIN stack /\ stack'[i] = stack[i]
  <2>1. stack \in Seq(Value) /\ Len(stack) \in Nat /\ Len(stack) <= MaxSlots /\ DOMAIN stack = 1 .. Len(stack)
    BY <1>0, Basics DEF TypeInv
  <2>2. stack' \in Seq(Value) /\ Len(stack') = Last(frames) /\ \A i \in 1 .. Last(frames) : stack'[i] = stack[i]
    BY <1>0, <1>1, <2>1, FirstOnes
  <2>3. DOMAIN stack' = 1 .. Last(frames)
    BY <2>2, LenProperties
  <2> QED
    BY <1>1, <2>1, <2>2, <2>3, HeapConstants
<1>4. TypeInv'
  <2>1. Reached(stack', global', acc') \subseteq Reached(stack, global, acc)
    BY <1>0, <1>3 DEF Reached
  <2>2. Len(frames') \in 1 .. MaxFrames
    BY <1>1, <1>2, HeapConstants
  <2> QED
    BY <1>0, <1>2, <1>3, <2>1, <2>2, TypeStep DEF TypeInv
<1>5. FrameShape'
  <2>1. /\ \A f \in DOMAIN frames' : f \in DOMAIN frames /\ frames'[f] = frames[f]
        /\ Len(stack') = Last(frames) /\ status' = "running"
    BY <1>0, <1>1, <1>2, <1>3
  <2> QED
    BY <1>1, <2>1 DEF FrameShape
<1>6. ScopeShape'
  <2>1. /\ DOMAIN scopes = 1 .. Len(scopes) /\ Len(scopes) \in Nat
        /\ \A s \in DOMAIN scopes : scopes[s] \in ScopeRec /\ scopes # <<>> /\ Len(scopes) \in DOMAIN scopes
    BY <1>0, Basics
  <2>2. ASSUME NEW s \in DOMAIN scopes PROVE scopes[s].fp <= n
    <3> DEFINE l == Len(scopes)
    <3>1. s \in 1 .. l /\ l \in DOMAIN scopes /\ l \in Nat /\ scopes[l].fp # Len(frames)
      BY <1>0, <2>1
    <3>2. scopes[s].fp \in Nat /\ scopes[l].fp \in Nat
      BY <2>1, <3>1 DEF ScopeRec
    <3> HIDE DEF l
    <3>3. scopes[s].fp <= scopes[l].fp
      BY <3>1, <3>2 DEF ScopeShape
    <3>4. scopes[l].fp <= Len(frames)
      BY <3>1 DEF ScopeShape
    <3> QED
      BY <1>1, <3>1, <3>2, <3>3, <3>4
  <2>3. ASSUME NEW s \in DOMAIN scopes
        PROVE scopes[s].sp <= Last(frames) /\ scopes[s].fp \in 1 .. n
    <3>1. scopes[s].fp \in 1 .. n
      BY <1>1, <2>1, <2>2 DEF ScopeRec
    <3>2. scopes[s].fp < Len(frames) /\ Len(frames) \in DOMAIN frames
      BY <1>1, <3>1
    <3> QED
      BY <1>1, <3>1, <3>2 DEF ScopeShape
  <2>4. /\ scopes' = scopes /\ Len(stack') = Last(frames) /\ Len(frames') = n
        /\ \A f \in DOMAIN frames' : f \in DOMAIN frames /\ frames'[f] = frames[f]
        /\ \A f \in 1 .. n : frames'[f] = frames[f]
    BY <1>0, <1>1, <1>2, <1>3
  <2>5. ASSUME NEW s \in DOMAIN scopes
        PROVE  /\ scopes[s].fp <= n /\ scopes[s].sp <= Len(stack')
               /\ frames'[scopes[s].fp] <= scopes[s].sp
               /\ \A f \in DOMAIN frames' : scopes[s].fp < f => scopes[s].sp <= frames'[f]
    BY <2>2, <2>3, <2>4 DEF ScopeShape
  <2> QED
    BY <2>4, <2>5 DEF ScopeShape
<1> QED
  BY <1>4, <1>5, <1>6

(* vm_evacuate_object: acc becomes a copy at the head of its arena, which  *)
(* lies below the head afterwards, its data too if they were copied.       *)
LEMMA EvacuateEffect ==
  ASSUME ShapeInv, Evacuate, status' # "overrun",
         NEW a, a = acc.arena, NEW copy, copy = At(a, heads[a])
  PROVE  \E object \in Object, end \in 0 .. MAX_HEAP, kept \in [Arena -> 0 .. MAX_HEAP] :
           /\ a \in Arena /\ copy \in Ref /\ acc \in DOMAIN heap /\ IsObj(acc)
           /\ copy.off + object.size <= end
           /\ \/ object = heap[acc]
              \/ object.data.at.arena = a /\ object.data.at.off + object.data.size <= end
           /\ kept = [heads EXCEPT ![a] = end] /\ heads[a] <= end
           /\ heads' = IF copy.off >= Last(scopes).head THEN kept
                       ELSE [kept EXCEPT ![Last(scopes).arena] = Last(scopes).head]
           /\ acc' = copy /\ Remember(With(heap, copy, object))
           /\ scopes # <<>> /\ scopes' = Front(scopes) /\ Last(scopes) \in ScopeRec
           /\ UNCHANGED <<current, stack, frames, global, status>>
<1> USE DEF ShapeInv
<1> DEFINE target == Last(scopes).head
           n      == heads[a] + heap[acc].size
           data   == heap[acc].data
           moves  == data # NoData /\ data.at.off >= target
           end    == IF moves THEN n + data.size ELSE n
           object == IF moves THEN Map(At(a, n), data.size) ELSE heap[acc]
           kept   == [heads EXCEPT ![a] = end]
<1>0. /\ TypeInv /\ scopes # <<>> /\ IsObj(acc) /\ ~(end > MAX_HEAP)
      /\ LeaveScope(copy, kept) /\ UNCHANGED <<current, stack, frames, global, status>>
      /\ Remember(With(heap, copy, object))
  BY DEF Evacuate, Returning
<1>1. acc \in Ref /\ acc \in DOMAIN heap /\ heap[acc] \in Object /\ Last(scopes) \in ScopeRec
  <2>1. acc \in DOMAIN heap
    BY <1>0, ReachedRefs
  <2>2. DOMAIN heap = Reached(stack, global, acc)
    BY <1>0 DEF TypeInv
  <2> QED
    BY <1>0, <2>1, <2>2, ReachedRefs, Basics
<1>2. /\ a \in Arena /\ heads \in [Arena -> 0 .. MAX_HEAP] /\ heads[a] \in Nat /\ heap[acc].size \in Nat \ {0}
      /\ MAX_HEAP \in Nat
  BY <1>0, <1>1, HeapConstants DEF TypeInv, Ref, Object
<1>3. moves => data.size \in Nat \ {0} /\ data = [at |-> data.at, size |-> data.size]
  BY <1>1 DEF Object
<1>4. n \in Nat /\ n > heads[a]
  BY <1>2
<1>5. end \in Nat /\ end >= n /\ (moves => end = n + data.size /\ end > n)
  <2> HIDE DEF n, moves, data
  <2> QED
    BY <1>3, <1>4
<1>6. copy \in Ref /\ copy.off = heads[a]
  <2>1. heads[a] < MAX_HEAP
    BY <1>0, <1>2, <1>4, <1>5
  <2> QED
    BY <1>2, <2>1 DEF At, Ref
<1>7. /\ object \in Object
      /\ \/ object = heap[acc]
         \/ object.data.at.arena = a /\ object.data.at.off + object.data.size <= end
  <2>1. CASE moves
    <3>1. At(a, n) \in Ref
      BY <1>0, <1>2, <1>4, <1>5, <2>1 DEF At, Ref
    <3>2. object = [size |-> 1, data |-> [at |-> [arena |-> a, off |-> n], size |-> data.size]]
      BY <2>1 DEF Map, At
    <3>3. data.size \in Nat \ {0} /\ end = n + data.size
      BY <1>3, <1>5, <2>1
    <3> HIDE DEF n, data, object, end
    <3>4. object \in Object
      BY <3>1, <3>2, <3>3 DEF Object, At
    <3>5. object.data.at.arena = a /\ object.data.at.off = n /\ object.data.size = data.size
      BY <3>2
    <3> QED
      BY <1>4, <3>3, <3>4, <3>5
  <2>2. CASE ~moves
    <3>1. object = heap[acc]
      BY <2>2
    <3>2. heap[acc] \in Object
      BY <1>1
    <3> HIDE DEF object, end, moves, data, n
    <3> QED
      BY <3>1, <3>2
  <2> QED
    BY <2>1, <2>2
<1>8. copy.off + object.size <= end
  <2>1. CASE moves
    <3>1. object.size = 1
      BY <2>1 DEF Map
    <3> HIDE DEF object, moves
    <3> QED
      BY <1>2, <1>4, <1>5, <1>6, <3>1
  <2>2. CASE ~moves
    BY <1>2, <1>4, <1>6, <2>2
  <2> QED
    BY <2>1, <2>2
<1>9. end \in 0 .. MAX_HEAP /\ heads[a] <= end /\ kept \in [Arena -> 0 .. MAX_HEAP]
  <2>1. end \in 0 .. MAX_HEAP /\ heads[a] <= end
    BY <1>0, <1>2, <1>4, <1>5
  <2> HIDE DEF end
  <2> QED
    BY <1>2, <2>1
<1>10. /\ acc' = copy /\ scopes' = Front(scopes)
       /\ heads' = IF copy.off >= Last(scopes).head THEN kept
                   ELSE [kept EXCEPT ![Last(scopes).arena] = Last(scopes).head]
  <2>1. IsObj(copy)
    BY <1>6, HeapConstants DEF IsObj, Ref
  <2> HIDE DEF kept
  <2> QED
    BY <1>0, <2>1 DEF LeaveScope
<1>11. kept = [heads EXCEPT ![a] = end]
  OBVIOUS
<1> HIDE DEF kept, object, end, moves, data, n, target
<1> QED
  BY <1>0, <1>1, <1>2, <1>6, <1>7, <1>8, <1>9, <1>10, <1>11

(* The copy is made below the end of the arena, or the program overran.    *)
LEMMA EvacuateShape == ASSUME ShapeInv, Evacuate PROVE ShapeInv'
<1> USE DEF ShapeInv
<1>1. CASE status' = "overrun"
  <2>1. UNCHANGED <<heads, current, scopes, stack, frames, acc, global, heap>> /\ status = "returning"
    <3>1. status # status'
      BY <1>1 DEF Evacuate, Returning
    <3> QED
      BY <3>1 DEF Evacuate, Returning
  <2>2. TypeInv' /\ FrameShape' /\ ScopeShape'
    BY <1>1, <2>1 DEF TypeInv, FrameShape, ScopeShape
  <2> QED
    BY <2>2
<1>2. CASE status' # "overrun"
  <2> DEFINE a == acc.arena
             copy == At(a, heads[a])
  <2>1. PICK object \in Object, end \in 0 .. MAX_HEAP, kept \in [Arena -> 0 .. MAX_HEAP] :
           /\ copy \in Ref
           /\ heads' \in {kept, [kept EXCEPT ![Last(scopes).arena] = Last(scopes).head]}
           /\ acc' = copy /\ Remember(With(heap, copy, object))
           /\ scopes # <<>> /\ scopes' = Front(scopes) /\ Last(scopes) \in ScopeRec
           /\ UNCHANGED <<current, stack, frames, global, status>>
    <3> HIDE DEF a
    <3>1. a = acc.arena /\ copy = At(a, heads[a])
      BY DEF a
    <3> HIDE DEF copy
    <3> QED
      BY <1>2, <3>1, EvacuateEffect
  <2> HIDE DEF copy, a
  <2>2. heads' \in [Arena -> 0 .. MAX_HEAP]
    BY <2>1 DEF ScopeRec
  <2>3. TypeInv'
    <3> DEFINE D == Reached(stack, global, acc) \cup {copy}
    <3>1. With(heap, copy, object) \in [D -> Object]
      BY DEF With, TypeInv
    <3>2. Reached(stack', global', acc') \subseteq D
      BY <2>1 DEF Reached
    <3>3. acc' \in Value
      BY <2>1 DEF Value
    <3> HIDE DEF D
    <3> QED
      BY <2>1, <2>2, <3>1, <3>2, <3>3, Popped, TypeStep DEF TypeInv
  <2>4. acc' # Absent
    BY <2>1, HeapConstants DEF Ref, Absent
  <2> QED
    BY <2>1, <2>3, <2>4, PopShape
<1> QED
  BY <1>1, <1>2

(* Typing, with the shape of frames and scopes, is an invariant whatever   *)
(* the program does.                                                       *)
LEMMA ShapeNext == ShapeInv /\ [Next]_vars => ShapeInv'
<1> SUFFICES ASSUME ShapeInv, [Next]_vars PROVE ShapeInv'
  OBVIOUS
<1>1. CASE Expression
  <2>1. /\ Running /\ acc = Absent
        /\ UNCHANGED <<scopes, stack, frames, global, status>>
    BY <1>1 DEF Expression, Eval, EvalArray, EvalIn, EvalMap, Between
  <2>2. TypeInv'
    BY <1>1, <2>1, ExpressionTypes DEF ShapeInv
  <2> QED
    BY <2>1, <2>2, ShapeKept DEF Running
<1>2. CASE UNCHANGED vars
  BY <1>2 DEF vars, ShapeInv, TypeInv, FrameShape, ScopeShape
<1> QED
  BY <1>1, <1>2, EnterShape, ExitShape, SetRegionShape, DeclareShape, AssignShape,
     AssignGlobalShape, DropShape, GrowShape, CallShape, ReturnShape,
     ReturnElsewhereShape, ReturnOldShape, EvacuateShape, ReturnFrameShape DEF Next

(* TypeOK of every reachable state: in particular a slot that a scope or a *)
(* frame begins at exists, so that unwinding never runs below the stack.   *)
THEOREM TypeCorrect == Spec => []TypeOK
<1>1. ShapeInv => TypeOK
  <2> SUFFICES ASSUME TypeInv PROVE TypeOK
    BY DEF ShapeInv
  <2>1. \A v \in DOMAIN heap : heap[v].size \in Nat \ {0} /\ heap[v].data.at \in Value
    BY DEF TypeInv, Object, NoData, Value
  <2> QED
    BY <2>1 DEF TypeInv, TypeOK, ScopeRec
<1> QED
  BY <1>1, ShapeInit, ShapeNext, PTL DEF Spec

-----------------------------------------------------------------------------
(* Heads.  Those of the open scopes of an arena rise from the outermost to *)
(* the innermost, up to the head of the arena.                             *)
NestInv == ShapeInv /\ BelowHeads /\ HeadsNested

(* The heads that the induction is about are numbers.                      *)
LEMMA HeadNumbers ==
  ASSUME TypeInv
  PROVE  /\ \A s \in DOMAIN scopes :
              scopes[s].arena \in Arena /\ scopes[s].head \in Nat /\ s \in 1 .. Len(scopes)
         /\ \A a \in Arena : heads[a] \in Nat
         /\ current \in Arena /\ Len(scopes) \in Nat
<1>1. /\ Len(scopes) \in Nat /\ DOMAIN scopes = 1 .. Len(scopes)
      /\ \A s \in DOMAIN scopes : scopes[s] \in ScopeRec
  BY Basics
<1>2. heads \in [Arena -> 0 .. MAX_HEAP] /\ current \in Arena
  BY DEF TypeInv
<1> QED
  BY <1>1, <1>2, HeapConstants DEF ScopeRec

(* What is allocated only moves heads of arenas up.                        *)
LEMMA NestAllocated ==
  ASSUME NestInv, ShapeInv', scopes' = scopes, \A a \in Arena : heads'[a] >= heads[a]
  PROVE  NestInv'
<1>1. \A a \in Arena : heads'[a] \in Nat /\ heads[a] \in Nat /\ heads'[a] >= heads[a]
  BY HeadNumbers DEF NestInv, ShapeInv, TypeInv
<1>2. \A s \in DOMAIN scopes : /\ scopes[s].arena \in Arena /\ scopes[s].head \in Nat
                               /\ scopes[s].head <= heads'[scopes[s].arena]
  BY <1>1, HeadNumbers DEF NestInv, ShapeInv, BelowHeads
<1> QED
  BY <1>2 DEF NestInv, BelowHeads, HeadsNested

(* A scope that opens has the greatest head of its arena.                  *)
LEMMA NestOpened ==
  ASSUME NestInv, ShapeInv', UNCHANGED <<heads, current>>,
         NEW n \in Nat, NEW f \in Nat, scopes' = Append(scopes, Scope(n, f))
  PROVE  NestInv'
<1> DEFINE new == Scope(n, f)
           l == Len(scopes) + 1
<1>1. new.arena = current /\ new.head = heads[current]
  BY DEF Scope
<1> HIDE DEF new
<1>2. /\ DOMAIN scopes' = 1 .. l /\ DOMAIN scopes = 1 .. Len(scopes) /\ Len(scopes) \in Nat
      /\ \A s \in 1 .. Len(scopes) : scopes'[s] = scopes[s]
      /\ scopes'[l] = new
  <2>1. Len(scopes) \in Nat /\ DOMAIN scopes = 1 .. Len(scopes)
    BY Basics DEF NestInv, ShapeInv
  <2>2. scopes \in Seq(ScopeRec)
    BY DEF NestInv, ShapeInv, TypeInv
  <2>3. scopes' = Append(scopes, new)
    BY DEF new
  <2> QED
    BY <2>1, <2>2, <2>3
<1>3. \A s \in DOMAIN scopes' :
        IF s \in DOMAIN scopes THEN scopes'[s] = scopes[s]
        ELSE s = l /\ scopes'[s].arena = current /\ scopes'[s].head = heads[current]
  BY <1>1, <1>2
<1>4. BelowHeads'
  BY <1>3, HeadNumbers DEF NestInv, ShapeInv, BelowHeads
<1>5. HeadsNested'
  <2> SUFFICES ASSUME NEW s \in DOMAIN scopes', NEW t \in DOMAIN scopes', s < t,
                      scopes'[s].arena = scopes'[t].arena
               PROVE  scopes'[s].head <= scopes'[t].head /\ scopes'[t].head <= heads[scopes'[t].arena]
    BY DEF HeadsNested
  <2>1. s \in DOMAIN scopes
    BY <1>2
  <2>2. CASE t \in DOMAIN scopes
    BY <1>3, <2>1, <2>2 DEF NestInv, HeadsNested
  <2>3. CASE t \notin DOMAIN scopes
    BY <1>3, <2>1, <2>3, HeadNumbers DEF NestInv, ShapeInv, BelowHeads
  <2> QED
    BY <2>2, <2>3
<1> QED
  BY <1>4, <1>5 DEF NestInv

(* A scope that closes gives back what lies above its own head, which is   *)
(* not below that of a scope outside it.                                   *)
LEMMA NestClosed ==
  ASSUME NestInv, ShapeInv', scopes # <<>>, scopes' = Front(scopes),
         \A a \in Arena : \/ heads'[a] >= heads[a]
                          \/ a = Last(scopes).arena /\ heads'[a] >= Last(scopes).head
  PROVE  NestInv'
<1>1. /\ \A s \in DOMAIN scopes' : s \in DOMAIN scopes /\ scopes'[s] = scopes[s] /\ s < Len(scopes)
      /\ Len(scopes) \in DOMAIN scopes /\ Last(scopes) = scopes[Len(scopes)]
  BY Popped, Basics DEF NestInv, ShapeInv
<1>2. \A s \in DOMAIN scopes' : scopes'[s].head <= heads'[scopes'[s].arena]
  <2> SUFFICES ASSUME NEW s \in DOMAIN scopes'
               PROVE  scopes[s].head <= heads'[scopes[s].arena]
    BY <1>1
  <2>1. /\ scopes[s].arena \in Arena /\ scopes[s].head \in Nat
        /\ heads[scopes[s].arena] \in Nat /\ heads'[scopes[s].arena] \in Nat
        /\ Last(scopes).head \in Nat
    BY <1>1, HeadNumbers DEF NestInv, ShapeInv, TypeInv
  <2>2. CASE heads'[scopes[s].arena] >= heads[scopes[s].arena]
    BY <1>1, <2>1, <2>2 DEF NestInv, BelowHeads
  <2>3. CASE /\ scopes[s].arena = Last(scopes).arena
             /\ heads'[scopes[s].arena] >= Last(scopes).head
    <3>1. scopes[s].head <= Last(scopes).head
      BY <1>1, <2>3 DEF NestInv, HeadsNested
    <3> QED
      BY <2>1, <2>3, <3>1
  <2> QED
    BY <2>1, <2>2, <2>3
<1> QED
  BY <1>1, <1>2 DEF NestInv, BelowHeads, HeadsNested

(* Scopes of the current arena that are moved up to its head, with all     *)
(* those inside them.                                                      *)
LEMMA NestRaised ==
  ASSUME NestInv, ShapeInv', current' = current, \A a \in Arena : heads'[a] >= heads[a],
         NEW W, Raise(W, heads'[current]),
         \A s \in W : scopes[s].arena = current,
         \A s, t \in DOMAIN scopes : s \in W /\ s < t /\ scopes[t].arena = current => t \in W
  PROVE  NestInv'
<1>1. /\ DOMAIN scopes' = DOMAIN scopes
      /\ \A s \in DOMAIN scopes :
           /\ scopes'[s].arena = scopes[s].arena
           /\ scopes'[s].head = IF s \in W THEN heads'[current] ELSE scopes[s].head
  <2>1. heads'[current] \in 0 .. MAX_HEAP
    BY DEF NestInv, ShapeInv, TypeInv
  <2> QED
    BY <2>1, Raised DEF NestInv, ShapeInv
<1>2. \A a \in Arena : heads'[a] \in Nat /\ heads[a] \in Nat /\ heads'[a] >= heads[a]
  BY HeadNumbers DEF NestInv, ShapeInv, TypeInv
<1>3. \A s \in DOMAIN scopes : /\ scopes[s].arena \in Arena /\ scopes[s].head \in Nat
                               /\ scopes[s].head <= heads'[scopes[s].arena]
  BY <1>2, HeadNumbers DEF NestInv, ShapeInv, BelowHeads
<1>4. BelowHeads'
  BY <1>1, <1>2, <1>3 DEF BelowHeads
<1>5. ASSUME NEW s \in DOMAIN scopes, NEW t \in DOMAIN scopes, s < t,
             scopes[s].arena = scopes[t].arena
      PROVE  scopes'[s].head <= scopes'[t].head
  <2>1. CASE t \in W
    BY <1>1, <1>2, <1>3, <1>5, <2>1
  <2>2. CASE t \notin W
    <3>1. s \notin W
      BY <1>5, <2>2
    <3> QED
      BY <1>1, <1>5, <2>2, <3>1 DEF NestInv, HeadsNested
  <2> QED
    BY <2>1, <2>2
<1>6. HeadsNested'
  BY <1>1, <1>4, <1>5 DEF HeadsNested, BelowHeads
<1> QED
  BY <1>4, <1>6 DEF NestInv

(* Heads stay nested in every step of a program that obeys rule lift.      *)
LEMMA NestNext == "lift" \in Rules /\ NestInv /\ [Next]_vars => NestInv'
<1> SUFFICES ASSUME "lift" \in Rules, NestInv, [Next]_vars PROVE NestInv'
  OBVIOUS
<1>0. ShapeInv /\ ShapeInv' /\ TypeInv /\ TypeInv'
  BY ShapeNext DEF NestInv, ShapeInv
<1>1. /\ heads \in [Arena -> 0 .. MAX_HEAP] /\ heads' \in [Arena -> 0 .. MAX_HEAP]
      /\ current \in Arena /\ current' \in Arena /\ Arena \subseteq Nat /\ MAX_HEAP \in Nat
  BY <1>0, HeapConstants DEF TypeInv
<1>2. ASSUME NEW a \in Arena, NEW n \in Nat, heads' = [heads EXCEPT ![a] = @ + n]
      PROVE  \A b \in Arena : heads'[b] >= heads[b]
  BY <1>1, <1>2
<1>3. \A b \in Arena : heads[b] >= heads[b]
  BY <1>1
<1>4. CASE Expression
  <2>1. scopes' = scopes
    BY <1>4 DEF Expression, Eval, EvalArray, EvalIn, EvalMap
  <2>2. \A b \in Arena : heads'[b] >= heads[b]
    <3>1. ASSUME NEW v \in Variables \cup {Number}, Eval(v) PROVE heads' = heads
      BY <3>1 DEF Eval
    <3>2. ASSUME NEW size \in Sizes, EvalArray(size) PROVE \A b \in Arena : heads'[b] >= heads[b]
      BY <1>1, <1>2, <3>2, HeapConstants DEF EvalArray
    <3>3. ASSUME NEW r \in Arena \ {0}, NEW size \in Sizes, EvalIn(r, size)
          PROVE  \A b \in Arena : heads'[b] >= heads[b]
      BY <1>1, <1>2, <3>3, HeapConstants DEF EvalIn
    <3>4. CASE EvalMap
      BY <1>1, <1>2, <3>4 DEF EvalMap
    <3> QED
      BY <1>3, <1>4, <3>1, <3>2, <3>3, <3>4 DEF Expression
  <2> QED
    BY <1>0, <2>1, <2>2, NestAllocated
<1>5. CASE Enter
  <2>1. Len(stack) \in Nat /\ Len(frames) \in Nat
    BY <1>0, Basics
  <2> QED
    BY <1>0, <1>5, <2>1, NestOpened DEF Enter
<1>6. CASE Call
  <2>1. Len(stack) + 1 \in Nat /\ Len(frames) + 1 \in Nat
    BY <1>0, Basics
  <2>2. scopes' = Append(scopes, Scope(Len(stack) + 1, Len(frames) + 1)) /\ UNCHANGED <<heads, current>>
    BY <1>6 DEF Call
  <2> QED
    BY <1>0, <2>1, <2>2, NestOpened
<1>7. ASSUME scopes # <<>>, scopes' = Front(scopes), NEW k, k \in [Arena -> 0 .. MAX_HEAP],
             \A b \in Arena : k[b] >= heads[b],
             heads' \in {k, [k EXCEPT ![Last(scopes).arena] = Last(scopes).head]}
      PROVE  NestInv'
  <2> DEFINE l == Last(scopes)
  <2>1. l.arena \in Arena /\ l.head \in Nat
    BY <1>0, <1>7, Basics, HeapConstants DEF ScopeRec
  <2> HIDE DEF l
  <2>2. \A b \in Arena : heads'[b] >= heads[b] \/ (b = l.arena /\ heads'[b] >= l.head)
    BY <1>7, <2>1 DEF l
  <2> QED
    BY <1>0, <1>7, <2>2, NestClosed DEF l
<1>8. CASE Exit
  <2>1. /\ scopes # <<>> /\ scopes' = Front(scopes)
        /\ heads' \in {heads, [heads EXCEPT ![Last(scopes).arena] = Last(scopes).head]}
    BY <1>8 DEF Exit
  <2> QED
    BY <1>1, <1>3, <1>7, <2>1
<1>9. CASE ReturnOld \/ ReturnElsewhere
  <2>1. /\ scopes # <<>> /\ scopes' = Front(scopes)
        /\ heads' \in {heads, [heads EXCEPT ![Last(scopes).arena] = Last(scopes).head]}
    BY <1>9 DEF ReturnOld, ReturnElsewhere, Returning, LeaveScope
  <2> QED
    BY <1>1, <1>3, <1>7, <2>1
<1>10. CASE Evacuate
  <2>1. CASE status' = "overrun"
    <3>1. UNCHANGED <<heads, scopes>>
      <4>1. status # status'
        BY <1>10, <2>1 DEF Evacuate, Returning
      <4> QED
        BY <1>10, <4>1 DEF Evacuate
    <3> QED
      BY <1>0, <1>3, <3>1, NestAllocated
  <2>2. CASE status' # "overrun"
    <3> DEFINE a == acc.arena
               copy == At(a, heads[a])
    <3>1. PICK end \in 0 .. MAX_HEAP, kept \in [Arena -> 0 .. MAX_HEAP] :
            /\ a \in Arena /\ kept = [heads EXCEPT ![a] = end] /\ heads[a] <= end
            /\ heads' \in {kept, [kept EXCEPT ![Last(scopes).arena] = Last(scopes).head]}
            /\ scopes # <<>> /\ scopes' = Front(scopes)
      <4>1. a = acc.arena /\ copy = At(a, heads[a])
        OBVIOUS
      <4> HIDE DEF a, copy
      <4> QED
        BY <1>0, <1>10, <2>2, <4>1, EvacuateEffect
    <3>2. \A b \in Arena : kept[b] >= heads[b]
      BY <1>1, <3>1
    <3> QED
      BY <1>7, <3>1, <3>2
  <2> QED
    BY <2>1, <2>2
<1>11. ASSUME NEW i \in DOMAIN stack, Assign(i) PROVE NestInv'
  <2> DEFINE W == {s \in After(i) : scopes[s].arena = current /\ IsObj(acc) /\ acc.off >= scopes[s].head}
  <2>1. Raise(W, heads'[current]) /\ UNCHANGED <<heads, current>>
    BY <1>11 DEF Assign
  <2>2. \A s \in W : scopes[s].arena = current
    OBVIOUS
  <2>3. ASSUME NEW s \in DOMAIN scopes, NEW t \in DOMAIN scopes, s \in W, s < t,
               scopes[t].arena = current
        PROVE  t \in W
    <3>1. s \in After(i) /\ IsObj(acc) /\ s # t
      BY <1>0, <2>3, HeadNumbers
    <3>2. t \in After(i)
      <4>1. /\ scopes[s].fp = Len(frames) /\ i <= scopes[s].sp
            /\ scopes[s].fp <= scopes[t].fp /\ scopes[t].fp <= Len(frames) /\ scopes[s].sp <= scopes[t].sp
        BY <1>0, <2>3, <3>1 DEF After, Mine, ShapeInv, ScopeShape
      <4>2. /\ scopes[t].fp \in Nat /\ scopes[s].sp \in Nat /\ scopes[t].sp \in Nat
            /\ Len(frames) \in Nat /\ i \in Nat
        BY <1>0, Basics, HeapConstants DEF ScopeRec
      <4> QED
        BY <4>1, <4>2 DEF After, Mine
    <3>3. Cardinality(After(i)) > 1
      <4>1. IsFiniteSet(After(i))
        <5>1. IsFiniteSet(1 .. Len(scopes)) /\ After(i) \subseteq 1 .. Len(scopes)
          BY <1>0, Basics, FS_Interval DEF After
        <5> QED
          BY <5>1, FS_Subset
      <4>2. /\ IsFiniteSet({s}) /\ Cardinality({s}) = 1
            /\ {s} \subseteq After(i)
        BY <3>1, FS_Singleton
      <4>3. Cardinality({s}) <= Cardinality(After(i)) /\ (Cardinality({s}) = Cardinality(After(i)) => {s} = After(i))
        BY <4>1, <4>2, FS_Subset
      <4>4. Cardinality(After(i)) \in Nat
        BY <4>1, FS_CardinalityType
      <4> QED
        BY <3>1, <3>2, <4>2, <4>3, <4>4
    <3> QED
      BY <1>11, <2>3, <3>1, <3>2, <3>3 DEF Assign
  <2> HIDE DEF W
  <2> QED
    BY <1>0, <1>3, <2>1, <2>2, <2>3, NestRaised
<1>12. ASSUME NEW m \in DOMAIN heap, Grow(m) PROVE NestInv'
  <2> DEFINE W == {s \in DOMAIN scopes : scopes[s].arena = current /\ scopes[s].head > m.off}
  <2>1. Raise(W, heads'[current]) /\ current' = current
    BY <1>12 DEF Grow
  <2>2. \A b \in Arena : heads'[b] >= heads[b]
    <3> DEFINE size == 2 * heap[m].data.size
    <3>1. heads' = [heads EXCEPT ![current] = @ + size] /\ IsMap(m)
      BY <1>12 DEF Grow
    <3>2. heap[m] \in Object
      BY <1>0 DEF TypeInv
    <3>3. size \in Nat
      BY <3>1, <3>2 DEF IsMap, Object
    <3> HIDE DEF size
    <3> QED
      BY <1>1, <1>2, <3>1, <3>3
  <2>3. ASSUME NEW s \in DOMAIN scopes, NEW t \in DOMAIN scopes, s \in W, s < t,
               scopes[t].arena = current
        PROVE  t \in W
    <3>1. m.off \in Nat
      <4>1. m \in Ref
        BY <1>0, ReachedRefs DEF TypeInv
      <4> QED
        BY <4>1, HeapConstants DEF Ref
    <3>2. scopes[s].head <= scopes[t].head /\ scopes[s].head > m.off
      BY <2>3 DEF NestInv, HeadsNested
    <3>3. scopes[s].head \in Nat /\ scopes[t].head \in Nat
      BY <1>0, HeadNumbers
    <3> QED
      BY <2>3, <3>1, <3>2, <3>3
  <2>4. \A s \in W : scopes[s].arena = current
    OBVIOUS
  <2> HIDE DEF W
  <2> QED
    BY <1>0, <2>1, <2>2, <2>3, <2>4, NestRaised
<1>13. CASE UNCHANGED <<heads, scopes>>
  BY <1>0, <1>3, <1>13, NestAllocated
<1> QED
  BY <1>4, <1>5, <1>6, <1>8, <1>9, <1>10, <1>11, <1>12, <1>13
     DEF Next, SetRegion, Declare, AssignGlobal, Drop, Return, ReturnFrame, vars

(* Leaving the open blocks of an arena from the innermost out gives back   *)
(* ever less, for programs that move an object out of blocks step by step. *)
THEOREM NestedHeads == "lift" \in Rules /\ Spec => []HeadsNested
<1>1. Init => NestInv
  <2>1. Init => scopes = <<>>
    BY DEF Init
  <2> QED
    BY <2>1, ShapeInit DEF NestInv, BelowHeads, HeadsNested
<1>2. NestInv => HeadsNested
  BY DEF NestInv
<1>3. CASE "lift" \in Rules
  <2>1. NestInv /\ [Next]_vars => NestInv'
    BY <1>3, NestNext
  <2> QED
    BY <1>1, <1>2, <2>1, PTL DEF Spec
<1> QED
  BY <1>3

-----------------------------------------------------------------------------
(* What is kept.                                                           *)
Disciplined == {"lift", "escape", "one_region", "home"} \subseteq Rules

KeepInv == NestInv /\ SpareInv

(* The values are typed, and those that are objects are in the heap.       *)
LEMMA ValueTypes ==
  ASSUME ShapeInv
  PROVE  /\ Slots \in 0 .. Len(stack) /\ Len(stack) \in Nat
         /\ \A i \in 1 .. Slots : i \in DOMAIN stack /\ stack[i] \in Values
         /\ global \in Values /\ acc \in Values
         /\ \A v \in Values : IsObj(v) => v \in Ref /\ v \in DOMAIN heap /\ heap[v] \in Object
                                         /\ v \in Reached(stack, global, acc)
<1>0. TypeInv /\ FrameShape
  BY DEF ShapeInv
<1>1. Slots \in 0 .. Len(stack) /\ Len(stack) \in Nat
  BY <1>0, Basics DEF Slots, FrameShape
<1>2. \A i \in 1 .. Slots : i \in DOMAIN stack /\ stack[i] \in Values
  BY <1>0, <1>1, Basics DEF Values
<1>3. \A v \in Values : IsObj(v) => v \in Reached(stack, global, acc)
  BY <1>2 DEF Values, Reached
<1> QED
  BY <1>0, <1>1, <1>2, <1>3, ReachedRefs DEF Values

(* The same after a step.                                                  *)
LEMMA ValueTypesNext ==
  ASSUME ShapeInv'
  PROVE  /\ Slots' \in 0 .. Len(stack') /\ Len(stack') \in Nat
         /\ \A v \in Values' : IsObj(v) => /\ v \in Ref /\ v \in Reached(stack', global', acc')
                                          /\ heap'[v] \in Object
<1>1. /\ stack' \in Seq(Value) /\ frames' \in Seq(0 .. MaxSlots)
      /\ Len(frames') \in 1 .. MaxFrames /\ FrameShape'
      /\ global' \in Value /\ acc' \in Value \cup {Absent}
      /\ heap' \in [Reached(stack', global', acc') -> Object]
  BY DEF ShapeInv, TypeInv
<1>2. /\ Len(stack') \in Nat /\ DOMAIN frames' = 1 .. Len(frames')
      /\ Last(frames') = frames'[Len(frames')] /\ frames'[Len(frames')] \in 0 .. MaxSlots
      /\ DOMAIN stack' = 1 .. Len(stack') /\ \A i \in 1 .. Len(stack') : stack'[i] \in Value
  BY <1>1, LenProperties, ElementOfSeq, HeapConstants DEF Last
<1>3. Last(frames') \in 0 .. Len(stack')
  BY <1>1, <1>2, HeapConstants DEF FrameShape
<1>4. Slots' \in 0 .. Len(stack')
  BY <1>2, <1>3 DEF Slots
<1>5. \A i \in 1 .. Slots' : i \in DOMAIN stack'
  BY <1>2, <1>4
<1>6. \A v \in Values' : v \in Value \cup {Absent} /\ (IsObj(v) => v \in Reached(stack', global', acc'))
  BY <1>1, <1>2, <1>5 DEF Values, Reached
<1>7. \A v \in Value \cup {Absent} : IsObj(v) => v \in Ref
  BY DEF IsObj, Value, Absent, Number
<1> QED
  BY <1>1, <1>2, <1>4, <1>6, <1>7

(* A higher limit is no harder to keep.                                    *)
LEMMA EndsBefore ==
  ASSUME NEW v \in Ref, NEW o \in Object, NEW a, NEW h \in Int, NEW k \in Int, h <= k,
         Ends(v, o, a, h)
  PROVE  Ends(v, o, a, k)
<1>1. v.off \in Int /\ o.size \in Int
  BY HeapConstants DEF Ref, Object
<1>2. o.data # NoData => o.data.at.off \in Int /\ o.data.size \in Int
  BY HeapConstants DEF Ref, Object
<1>3. v.arena = a => v.off + o.size <= k
  BY <1>1 DEF Ends
<1>4. o.data # NoData /\ o.data.at.arena = a => o.data.at.off + o.data.size <= k
  BY <1>2 DEF Ends
<1> QED
  BY <1>3, <1>4 DEF Ends

-----------------------------------------------------------------------------
(* A step leaves a scope as it is, or opens or raises it to the head of    *)
(* the arena; then the scope spares all that is kept.                      *)
Untouched(s) ==
  /\ s \in DOMAIN scopes
  /\ scopes'[s].arena = scopes[s].arena
  /\ scopes'[s].head = scopes[s].head /\ scopes'[s].sp = scopes[s].sp

(* The scopes an object has to be shown to agree with after the step.      *)
Endures(s) == s \in DOMAIN scopes' /\ Untouched(s) /\ Rewinds(s)

(* What a step has to show of the values it leaves: those it did not touch *)
(* need no argument, and of the others only what touches enduring scopes.  *)
LEMMA SpareStep ==
  ASSUME ShapeInv, ShapeInv', SpareInv, current' = current, ValuesKept',
         \A s \in DOMAIN scopes' :
           Untouched(s) \/ (scopes'[s].arena = current /\ scopes'[s].head = heads'[current]),
         \A v \in Values' :
           IsObj(v) => \/ v \in Values /\ heap'[v] = heap[v]
                       \/ \A s : Endures(s) => Young(v, s)
                                   \/ Ends(v, heap'[v], scopes[s].arena, scopes[s].head),
         \A i \in 1 .. Slots' :
           IsObj(stack'[i]) =>
             \/ i <= Slots /\ stack'[i] = stack[i] /\ heap'[stack[i]] = heap[stack[i]]
             \/ \A s : Endures(s) /\ i <= scopes[s].sp =>
                  Ends(stack'[i], heap'[stack'[i]], scopes[s].arena, scopes[s].head),
         IsObj(global') =>
           \/ global' = global /\ heap'[global] = heap[global]
           \/ \A s : Endures(s) =>
                Ends(global', heap'[global'], scopes[s].arena, scopes[s].head)
  PROVE  SpareInv'
<1>0. Slots' \in 0 .. Len(stack') /\ Slots \in Nat
  BY ValueTypes, ValueTypesNext
<1>1. \A s \in DOMAIN scopes' :
        ~Untouched(s) => \A v \in Values' : IsObj(v) => Ends(v, heap'[v], scopes'[s].arena, scopes'[s].head)
  <2>1. current \in Arena
    BY DEF ShapeInv, TypeInv
  <2> QED
    BY <2>1 DEF ValuesKept
<1>2. \A s \in DOMAIN scopes' : Rewinds(s)' /\ Untouched(s) => Endures(s)
  BY DEF Rewinds, Endures, Untouched
<1>3. Whole'
  <2> SUFFICES ASSUME NEW v \in Values', NEW s \in DOMAIN scopes', Rewinds(s)', IsObj(v), Untouched(s)
               PROVE  Young(v, s)' \/ Ends(v, heap'[v], scopes'[s].arena, scopes'[s].head)
    BY <1>1 DEF Whole, Spared
  <2>1. Endures(s) /\ s \in DOMAIN scopes
    BY <1>2 DEF Untouched
  <2>2. Young(v, s) \/ Ends(v, heap'[v], scopes[s].arena, scopes[s].head)
    <3>1. CASE v \in Values /\ heap'[v] = heap[v]
      BY <2>1, <3>1 DEF SpareInv, Whole, Spared, Endures
    <3> QED
      BY <2>1, <3>1
  <2> QED
    BY <2>2 DEF Untouched, Young
<1>4. SlotsSpared'
  <2> SUFFICES ASSUME NEW s \in DOMAIN scopes', NEW i \in 1 .. Slots', Rewinds(s)',
                      i <= scopes'[s].sp, IsObj(stack'[i])
               PROVE  Ends(stack'[i], heap'[stack'[i]], scopes'[s].arena, scopes'[s].head)
    BY DEF SlotsSpared, Spared
  <2>1. CASE Untouched(s)
    <3>1. Endures(s) /\ s \in DOMAIN scopes /\ i <= scopes[s].sp
      BY <1>2, <2>1 DEF Untouched
    <3>2. CASE i <= Slots /\ stack'[i] = stack[i] /\ heap'[stack[i]] = heap[stack[i]]
      <4>1. Spared(stack[i], s)
        BY <1>0, <3>1, <3>2 DEF SpareInv, SlotsSpared, Endures
      <4> QED
        BY <2>1, <3>2, <4>1 DEF Spared, Untouched
    <3>3. CASE Ends(stack'[i], heap'[stack'[i]], scopes[s].arena, scopes[s].head)
      BY <2>1, <3>3 DEF Untouched
    <3> QED
      BY <3>1, <3>2, <3>3
  <2>2. CASE ~Untouched(s)
    <3>1. stack'[i] \in Values'
      BY DEF Values
    <3> QED
      BY <1>1, <2>2, <3>1
  <2> QED
    BY <2>1, <2>2
<1>5. GlobalSpared'
  <2> SUFFICES ASSUME NEW s \in DOMAIN scopes', Rewinds(s)', IsObj(global')
               PROVE  Ends(global', heap'[global'], scopes'[s].arena, scopes'[s].head)
    BY DEF GlobalSpared, Spared
  <2>1. CASE Untouched(s)
    <3>1. Endures(s) /\ s \in DOMAIN scopes
      BY <1>2, <2>1 DEF Untouched
    <3>2. CASE global' = global /\ heap'[global] = heap[global]
      BY <2>1, <3>1, <3>2 DEF SpareInv, GlobalSpared, Endures, Spared, Untouched
    <3>3. CASE Ends(global', heap'[global'], scopes[s].arena, scopes[s].head)
      BY <2>1, <3>3 DEF Untouched
    <3> QED
      BY <3>1, <3>2, <3>3
  <2>2. CASE ~Untouched(s)
    <3>1. global' \in Values'
      BY DEF Values
    <3> QED
      BY <1>1, <2>2, <3>1
  <2> QED
    BY <2>1, <2>2
<1> QED
  BY <1>3, <1>4, <1>5 DEF SpareInv

(* What is kept stays kept while heads of arenas only move up.             *)
LEMMA KeptHigher ==
  ASSUME ShapeInv, ShapeInv', ValuesKept, \A a \in Arena : heads'[a] >= heads[a],
         NEW v \in Values, IsObj(v), NEW a \in Arena
  PROVE  Ends(v, heap[v], a, heads'[a])
<1>1. heads[a] \in Int /\ heads'[a] \in Int /\ heads[a] <= heads'[a]
  <2>1. heads \in [Arena -> 0 .. MAX_HEAP] /\ heads' \in [Arena -> 0 .. MAX_HEAP]
    BY DEF ShapeInv, TypeInv
  <2> QED
    BY <2>1, HeapConstants
<1>2. v \in Ref /\ heap[v] \in Object
  BY ValueTypes
<1>3. Ends(v, heap[v], a, heads[a])
  BY DEF ValuesKept
<1> QED
  BY <1>1, <1>2, <1>3, EndsBefore

(* Steps that make no object and change none.                              *)
LEMMA SpareFewer ==
  ASSUME ShapeInv, ShapeInv', SpareInv, current' = current, global' = global,
         \A v \in Values' : IsObj(v) => v \in Values /\ heap'[v] = heap[v],
         \A v \in Values' : IsObj(v) => \A a \in Arena : Ends(v, heap[v], a, heads'[a]),
         \A i \in 1 .. Slots' : \/ i <= Slots /\ stack'[i] = stack[i]
                                \/ \A s \in DOMAIN scopes : i > scopes[s].sp,
         \A s \in DOMAIN scopes' :
           Untouched(s) \/ (scopes'[s].arena = current /\ scopes'[s].head = heads'[current])
  PROVE  SpareInv'
<1>1. ValuesKept'
  BY DEF ValuesKept
<1>2. ASSUME NEW i \in 1 .. Slots', IsObj(stack'[i])
      PROVE  \/ i <= Slots /\ stack'[i] = stack[i] /\ heap'[stack[i]] = heap[stack[i]]
             \/ \A s : ~(Endures(s) /\ i <= scopes[s].sp)
  <2>1. stack'[i] \in Values'
    BY DEF Values
  <2>2. heap'[stack'[i]] = heap[stack'[i]]
    BY <1>2, <2>1
  <2>3. i \in Nat /\ \A s \in DOMAIN scopes : scopes[s].sp \in Nat
    <3>1. \A s \in DOMAIN scopes : scopes[s] \in ScopeRec
      BY Basics DEF ShapeInv
    <3> QED
      BY <3>1, HeapConstants DEF ScopeRec
  <2> QED
    BY <2>2, <2>3 DEF Endures, Untouched
<1>3. global' \in Values'
  BY DEF Values
<1>4. IsObj(global') => global' = global /\ heap'[global] = heap[global]
  BY <1>3
<1> QED
  BY <1>1, <1>2, <1>4, SpareStep

(* In particular if heads of arenas stay as they are.                      *)
LEMMA SpareSame ==
  ASSUME ShapeInv, ShapeInv', SpareInv, UNCHANGED <<heads, current, global>>,
         Remember(heap) \/ UNCHANGED heap,
         acc' = acc \/ acc' = Absent,
         \A i \in 1 .. Slots' :
           \/ i <= Slots /\ stack'[i] = stack[i]
           \/ stack'[i] = acc /\ \A s \in DOMAIN scopes : i > scopes[s].sp,
         \A s \in DOMAIN scopes' :
           Untouched(s) \/ (scopes'[s].arena = current /\ scopes'[s].head = heads[current])
  PROVE  SpareInv'
<1>1. \A v \in Values' : IsObj(v) => v \in Values
  <2>1. \A i \in 1 .. Slots' : stack'[i] \in Values
    <3>1. Slots' \in Nat /\ Slots \in Nat
      BY ValueTypes, ValueTypesNext
    <3> QED
      BY <3>1 DEF Values
  <2> QED
    BY <2>1 DEF Values, IsObj, Absent
<1>2. \A v \in Values' : IsObj(v) => heap'[v] = heap[v]
  BY ValueTypesNext DEF Remember
<1>3. \A v \in Values' : IsObj(v) => \A a \in Arena : Ends(v, heap[v], a, heads'[a])
  BY <1>1 DEF SpareInv, ValuesKept
<1> QED
  BY <1>1, <1>2, <1>3, SpareFewer

(* A rewind of the current arena to the scope that closes.                 *)
LEMMA SpareRewound ==
  ASSUME ShapeInv, ShapeInv', SpareInv, UNCHANGED <<current, global, acc>>,
         Remember(heap) \/ UNCHANGED heap,
         scopes # <<>>, scopes' = Front(scopes), Rewinds(Len(scopes)),
         heads' = [heads EXCEPT ![current] = Last(scopes).head],
         Slots' <= Slots, Slots' <= Last(scopes).sp, ~Young(acc, Len(scopes)),
         \A i \in 1 .. Slots' : stack'[i] = stack[i]
  PROVE  SpareInv'
<1> DEFINE l == Len(scopes)
<1>0. /\ l \in DOMAIN scopes /\ Last(scopes) = scopes[l] /\ scopes[l] \in ScopeRec
      /\ \A s \in DOMAIN scopes' : Untouched(s)
  BY Popped, Basics DEF ShapeInv, Untouched
<1>1. Slots \in Nat /\ Slots' \in Nat /\ scopes[l].sp \in Nat /\ scopes[l].arena = current
  BY <1>0, ValueTypes, ValueTypesNext, HeapConstants DEF ScopeRec, Rewinds
<1>2. heads \in [Arena -> 0 .. MAX_HEAP] /\ current \in Arena
  BY DEF ShapeInv, TypeInv
<1> HIDE DEF l
<1>3. ASSUME NEW v \in Values', IsObj(v)
      PROVE  v \in Values /\ Spared(v, l)
  <2>1. CASE v = global
    BY <1>0, <2>1 DEF SpareInv, GlobalSpared, Values, l
  <2>2. CASE v = acc
    BY <1>0, <2>2 DEF SpareInv, Whole, Values, l
  <2>3. CASE \E i \in 1 .. Slots' : v = stack'[i]
    <3>1. PICK i \in 1 .. Slots' : v = stack[i]
      BY <2>3
    <3>2. i \in 1 .. Slots /\ i <= scopes[l].sp
      BY <1>0, <1>1
    <3> QED
      BY <1>0, <3>1, <3>2 DEF SpareInv, SlotsSpared, Values, l
  <2> QED
    BY <2>1, <2>2, <2>3 DEF Values
<1>4. \A v \in Values' : IsObj(v) => \A a \in Arena : Ends(v, heap[v], a, heads'[a])
  BY <1>0, <1>1, <1>2, <1>3 DEF Spared, SpareInv, ValuesKept
<1>5. \A v \in Values' : IsObj(v) => heap'[v] = heap[v]
  BY ValueTypesNext DEF Remember
<1> QED
  BY <1>0, <1>1, <1>3, <1>4, <1>5, SpareFewer

-----------------------------------------------------------------------------
(* Where slots, frames and scopes are, for the steps below.                *)
LEMMA Lengths ==
  ASSUME ShapeInv
  PROVE  /\ Len(stack) \in Nat /\ Len(scopes) \in Nat /\ Slots \in 0 .. Len(stack)
         /\ DOMAIN scopes = 1 .. Len(scopes) /\ scopes \in Seq(ScopeRec)
         /\ status = "running" => Slots = Len(stack)
         /\ Last(frames) \in 0 .. Len(stack)
         /\ \A s \in DOMAIN scopes :
              /\ scopes[s].sp \in 0 .. Len(stack) /\ scopes[s].head \in Nat /\ scopes[s].arena \in Arena
              /\ Mine(s) \/ scopes[s].sp <= Last(frames)
              /\ Mine(s) => Last(frames) <= scopes[s].sp
<1>1. TypeInv /\ FrameShape /\ ScopeShape
  BY DEF ShapeInv
<1>2. \A s \in DOMAIN scopes : /\ scopes[s].sp \in Nat /\ scopes[s].head \in Nat /\ scopes[s].arena \in Arena
                               /\ scopes[s].fp \in Nat
  BY <1>1, Basics, HeapConstants DEF ScopeRec
<1>3. /\ Len(stack) \in Nat /\ Len(scopes) \in Nat /\ Slots \in 0 .. Len(stack)
      /\ DOMAIN scopes = 1 .. Len(scopes) /\ scopes \in Seq(ScopeRec)
      /\ status = "running" => Slots = Len(stack)
  BY <1>1, Basics, ValueTypes DEF Slots, TypeInv
<1>4. /\ Len(frames) \in Nat \ {0} /\ DOMAIN frames = 1 .. Len(frames) /\ Last(frames) = frames[Len(frames)]
      /\ Last(frames) \in 0 .. Len(stack)
  <2>1. /\ Len(frames) \in Nat \ {0} /\ DOMAIN frames = 1 .. Len(frames) /\ Last(frames) = frames[Len(frames)]
        /\ \A f \in DOMAIN frames : frames[f] \in 0 .. MaxSlots
    BY <1>1, Basics
  <2>2. Len(frames) \in DOMAIN frames
    BY <2>1
  <2>3. frames[Len(frames)] \in Nat /\ frames[Len(frames)] <= Len(stack)
    BY <1>1, <2>1, <2>2, HeapConstants DEF FrameShape
  <2> QED
    BY <1>3, <2>1, <2>3
<1>5. ASSUME NEW s \in DOMAIN scopes
      PROVE  (Mine(s) \/ scopes[s].sp <= Last(frames)) /\ (Mine(s) => Last(frames) <= scopes[s].sp)
  <2>1. scopes[s].fp \in Nat /\ scopes[s].fp <= Len(frames) /\ Len(frames) \in DOMAIN frames
    BY <1>1, <1>2, <1>4 DEF ScopeShape
  <2>2. CASE Mine(s)
    BY <1>1, <1>4, <2>1, <2>2 DEF Mine, ScopeShape
  <2>3. CASE ~Mine(s)
    <3>1. scopes[s].fp < Len(frames)
      BY <1>4, <2>1, <2>3 DEF Mine
    <3> QED
      BY <1>1, <1>4, <2>1, <2>3, <3>1 DEF ScopeShape
  <2> QED
    BY <2>2, <2>3
<1> QED
  BY <1>1, <1>2, <1>3, <1>4, <1>5 DEF ScopeShape

(* A scope that opens at the head spares all there is.                     *)
LEMMA EnterSpare == ASSUME ShapeInv, ShapeInv', SpareInv, Enter PROVE SpareInv'
<1>1. /\ status = "running" /\ scopes' = Append(scopes, Scope(Len(stack), Len(frames)))
      /\ UNCHANGED <<heads, current, stack, frames, acc, global, heap, status>>
  BY DEF Enter, Between, Running
<1>2. Slots' = Slots
  BY <1>1 DEF Slots
<1>3. \A s \in DOMAIN scopes' :
        Untouched(s) \/ (scopes'[s].arena = current /\ scopes'[s].head = heads[current])
  <2>1. DOMAIN scopes' = 1 .. Len(scopes) + 1 /\ \A s \in 1 .. Len(scopes) : scopes'[s] = scopes[s]
    BY <1>1, Lengths
  <2>2. scopes'[Len(scopes) + 1] = Scope(Len(stack), Len(frames))
    BY <1>1, Lengths
  <2> QED
    BY <2>1, <2>2, Lengths DEF Untouched, Scope
<1>4. \A i \in 1 .. Slots' : i <= Slots /\ stack'[i] = stack[i]
  BY <1>1, <1>2, Lengths
<1> QED
  BY <1>1, <1>3, <1>4, SpareSame

(* The argument is a new slot, in a scope that spares all there is.        *)
LEMMA CallSpare == ASSUME ShapeInv, ShapeInv', SpareInv, Call PROVE SpareInv'
<1>1. /\ status = "running" /\ scopes' = Append(scopes, Scope(Len(stack) + 1, Len(frames) + 1))
      /\ acc # Absent /\ acc' = Absent /\ Len(stack) < MaxSlots /\ stack' = Append(stack, acc)
      /\ UNCHANGED <<heads, current, global, heap, status>>
  BY DEF Call, Take, Running
<1>2. /\ Len(stack') = Len(stack) + 1 /\ stack'[Len(stack) + 1] = acc
      /\ \A i \in 1 .. Len(stack) : stack'[i] = stack[i]
  BY <1>1, Appended DEF ShapeInv
<1>3. Slots' = Len(stack) + 1 /\ Slots = Len(stack) /\ Len(stack) \in Nat
  BY <1>1, <1>2, Lengths DEF Slots
<1>4. \A s \in DOMAIN scopes' :
        Untouched(s) \/ (scopes'[s].arena = current /\ scopes'[s].head = heads[current])
  <2>1. DOMAIN scopes' = 1 .. Len(scopes) + 1 /\ \A s \in 1 .. Len(scopes) : scopes'[s] = scopes[s]
    BY <1>1, Lengths
  <2>2. scopes'[Len(scopes) + 1] = Scope(Len(stack) + 1, Len(frames) + 1)
    BY <1>1, Lengths
  <2> QED
    BY <2>1, <2>2, Lengths DEF Untouched, Scope
<1>5. ASSUME NEW i \in 1 .. Slots'
      PROVE  \/ i <= Slots /\ stack'[i] = stack[i]
             \/ stack'[i] = acc /\ \A s \in DOMAIN scopes : i > scopes[s].sp
  BY <1>2, <1>3, Lengths
<1> QED
  BY <1>1, <1>4, <1>5, SpareSame

(* A slot that is newer than all scopes.                                   *)
LEMMA DeclareSpare == ASSUME ShapeInv, ShapeInv', SpareInv, Declare PROVE SpareInv'
<1>1. /\ status = "running" /\ acc # Absent /\ acc' = Absent
      /\ Len(stack) < MaxSlots /\ stack' = Append(stack, acc)
      /\ UNCHANGED <<heads, current, scopes, global, heap, status>>
  BY DEF Declare, Take, Running
<1>2. /\ Len(stack') = Len(stack) + 1 /\ stack'[Len(stack) + 1] = acc
      /\ \A i \in 1 .. Len(stack) : stack'[i] = stack[i]
  BY <1>1, Appended DEF ShapeInv
<1>3. Slots' = Len(stack) + 1 /\ Slots = Len(stack) /\ Len(stack) \in Nat
  BY <1>1, <1>2, Lengths DEF Slots
<1>4. \A s \in DOMAIN scopes' : Untouched(s)
  BY <1>1 DEF Untouched
<1>5. ASSUME NEW i \in 1 .. Slots'
      PROVE  \/ i <= Slots /\ stack'[i] = stack[i]
             \/ stack'[i] = acc /\ \A s \in DOMAIN scopes : i > scopes[s].sp
  BY <1>2, <1>3, Lengths
<1> QED
  BY <1>1, <1>4, <1>5, SpareSame

(* Steps that at most give up a value, or a frame.                         *)
LEMMA LessSpare ==
  ASSUME ShapeInv, ShapeInv', SpareInv, Drop \/ Return \/ ReturnFrame PROVE SpareInv'
<1>1. /\ UNCHANGED <<heads, current, scopes, global>>
      /\ Remember(heap) \/ UNCHANGED heap
      /\ acc' = acc \/ acc' = Absent
  BY DEF Drop, Return, ReturnFrame, Take
<1>2. \A s \in DOMAIN scopes' : Untouched(s)
  BY <1>1 DEF Untouched
<1>3. ASSUME NEW i \in 1 .. Slots' PROVE i <= Slots /\ stack'[i] = stack[i]
  <2>1. CASE Drop
    BY <2>1, Lengths DEF Drop, Slots
  <2>2. CASE Return
    BY <2>2, Lengths, ValueTypesNext DEF Return, Slots, Running
  <2>3. CASE ReturnFrame
    <3>1. /\ status = "returning" /\ status' = "running" /\ stack' = SubSeq(stack, 1, Last(frames))
          /\ Last(frames) \in 0 .. Len(stack) /\ stack \in Seq(Value)
      BY <2>3, Lengths DEF ReturnFrame, ShapeInv, TypeInv
    <3>2. Len(stack') = Last(frames) /\ \A j \in 1 .. Last(frames) : stack'[j] = stack[j]
      BY <3>1, FirstOnes
    <3>3. Slots' = Last(frames) /\ Slots = Last(frames)
      BY <3>1, <3>2 DEF Slots
    <3> QED
      BY <3>1, <3>2, <3>3
  <2> QED
    BY <2>1, <2>2, <2>3
<1> QED
  BY <1>1, <1>2, <1>3, SpareSame

(* A scope of another arena than the current is popped, and no more.       *)
LEMMA ElsewhereSpare ==
  ASSUME ShapeInv, ShapeInv', SpareInv, ReturnElsewhere PROVE SpareInv'
<1>1. /\ scopes # <<>> /\ scopes' = Front(scopes)
      /\ UNCHANGED <<heads, current, stack, frames, acc, global, heap, status>>
  BY DEF ReturnElsewhere, Returning
<1>2. \A s \in DOMAIN scopes' : Untouched(s)
  BY <1>1, Popped DEF ShapeInv, Untouched
<1>3. \A i \in 1 .. Slots' : i <= Slots /\ stack'[i] = stack[i]
  BY <1>1, Lengths DEF Slots
<1> QED
  BY <1>1, <1>2, <1>3, SpareSame

(* The slots that are left are older than the scope.                       *)
LEMMA ExitSpare == ASSUME ShapeInv, ShapeInv', SpareInv, Exit PROVE SpareInv'
<1> DEFINE l == Len(scopes)
<1>1. /\ status = "running" /\ acc = Absent /\ scopes # <<>> /\ scopes' = Front(scopes)
      /\ stack' = SubSeq(stack, 1, Last(scopes).sp)
      /\ heads' = IF current = Last(scopes).arena
                  THEN [heads EXCEPT ![current] = Last(scopes).head] ELSE heads
      /\ UNCHANGED <<current, frames, acc, global, status>> /\ Remember(heap)
  BY DEF Exit, Between, Running
<1>2. l \in DOMAIN scopes /\ Last(scopes) = scopes[l] /\ Last(scopes).sp \in 0 .. Len(stack)
  <2>1. l \in DOMAIN scopes /\ Last(scopes) = scopes[l]
    BY <1>1, Basics DEF ShapeInv
  <2> QED
    BY <2>1, Lengths
<1>3. /\ Len(stack') = Last(scopes).sp
      /\ \A i \in 1 .. Last(scopes).sp : stack'[i] = stack[i]
  <2>1. stack \in Seq(Value)
    BY DEF ShapeInv, TypeInv
  <2> QED
    BY <1>1, <1>2, <2>1, FirstOnes
<1>4. Slots' = Last(scopes).sp /\ Slots = Len(stack) /\ Slots' <= Slots
  BY <1>1, <1>2, <1>3, Lengths DEF Slots
<1>5. \A s \in DOMAIN scopes' : Untouched(s)
  BY <1>1, Popped DEF ShapeInv, Untouched
<1>6. CASE current = Last(scopes).arena
  <2>1. Rewinds(l) /\ ~Young(acc, l)
    BY <1>1, <1>2, <1>6 DEF Rewinds, Young, IsObj, Absent
  <2>2. Slots' <= Last(scopes).sp
    BY <1>2, <1>4
  <2>3. heads' = [heads EXCEPT ![current] = Last(scopes).head]
    BY <1>1, <1>6
  <2> QED
    BY <1>1, <1>3, <1>4, <2>1, <2>2, <2>3, SpareRewound
<1>7. CASE current # Last(scopes).arena
  <2>1. \A i \in 1 .. Slots' : i <= Slots /\ stack'[i] = stack[i]
    BY <1>2, <1>3, <1>4, Lengths
  <2> QED
    BY <1>1, <1>5, <1>7, <2>1, SpareSame
<1> QED
  BY <1>6, <1>7

(* A number, or an object older than the scope, is not given back.         *)
LEMMA ReturnOldSpare == ASSUME ShapeInv, ShapeInv', SpareInv, ReturnOld PROVE SpareInv'
<1> DEFINE l == Len(scopes)
<1>1. /\ status = "returning" /\ scopes # <<>> /\ Mine(l) /\ scopes' = Front(scopes)
      /\ current = Last(scopes).arena
      /\ ~IsObj(acc) \/ acc.off < Last(scopes).head
      /\ UNCHANGED <<current, stack, frames, acc, global, heap, status>>
  BY DEF ReturnOld, Returning, LeaveScope
<1>2. l \in DOMAIN scopes /\ Last(scopes) = scopes[l] /\ Last(scopes).head \in Nat
      /\ Last(frames) <= scopes[l].sp
  <2>1. l \in DOMAIN scopes /\ Last(scopes) = scopes[l]
    BY <1>1, Basics DEF ShapeInv
  <2> QED
    BY <1>1, <2>1, Lengths
<1>3. IsObj(acc) => acc.off \in Nat
  <2>1. IsObj(acc) => acc \in Ref
    BY ValueTypes
  <2> QED
    BY <2>1, HeapConstants DEF Ref
<1>4. ~Young(acc, l)
  BY <1>1, <1>2, <1>3 DEF Young
<1>5. heads' = [heads EXCEPT ![current] = Last(scopes).head]
  <2>1. ~(IsObj(acc) /\ acc.off >= Last(scopes).head)
    BY <1>1, <1>2, <1>3
  <2> QED
    BY <1>1, <2>1 DEF ReturnOld, LeaveScope
<1>6. Slots' = Last(frames) /\ Slots = Last(frames) /\ Slots' <= Slots
  BY <1>1, Lengths DEF Slots
<1>7. Rewinds(l)
  BY <1>1, <1>2 DEF Rewinds
<1>8. Slots' <= Last(scopes).sp
  BY <1>2, <1>6
<1> HIDE DEF l
<1> QED
  BY <1>1, <1>4, <1>5, <1>6, <1>7, <1>8, SpareRewound DEF l

-----------------------------------------------------------------------------
(* A new object at the head of an arena is none of those that are kept.    *)
LEMMA NewPlace ==
  ASSUME ShapeInv, ValuesKept, NEW a \in Arena, NEW v \in Values, IsObj(v)
  PROVE  v # At(a, heads[a])
<1>1. v \in Ref /\ heap[v] \in Object /\ heads \in [Arena -> 0 .. MAX_HEAP]
  BY ValueTypes DEF ShapeInv, TypeInv
<1>m. MAX_HEAP \in Nat
  BY HeapConstants
<1>r. v.off \in 0 .. MAX_HEAP - 1 /\ v.arena \in Arena
  BY <1>1 DEF Ref
<1>o. heap[v].size \in Nat \ {0}
  BY <1>1 DEF Object
<1>h. heads[v.arena] \in 0 .. MAX_HEAP
  BY <1>1, <1>r
<1>2. v.off \in Nat /\ heap[v].size \in Nat \ {0} /\ heads[v.arena] \in Nat
  BY <1>m, <1>r, <1>o, <1>h
<1>3. v.off + heap[v].size <= heads[v.arena]
  BY <1>r DEF ValuesKept, Ends
<1>4. v.off < heads[v.arena]
  BY <1>2, <1>3
<1> QED
  BY <1>4, <1>2 DEF At

(* acc is made: a new object, and the others stay as they are.             *)
LEMMA MadeSpare ==
  ASSUME ShapeInv, ShapeInv', SpareInv, current' = current, NEW a \in Arena, NEW o \in Object,
         \A b \in Arena : heads'[b] >= heads[b],
         UNCHANGED <<stack, global, frames, status>>, acc' = At(a, heads[a]),
         Remember(With(heap, At(a, heads[a]), o)),
         \A s \in DOMAIN scopes' : Untouched(s),
         \A b \in Arena : Ends(acc', o, b, heads'[b]),
         \A s \in DOMAIN scopes' : Rewinds(s) =>
           Young(acc', s) \/ Ends(acc', o, scopes[s].arena, scopes[s].head)
  PROVE  SpareInv'
<1> DEFINE new == At(a, heads[a])
<1>1. Slots' = Slots /\ Slots \in Nat
  BY ValueTypes DEF Slots
<1>2. \A v \in Values' : IsObj(v) => heap'[v] = IF v = new THEN o ELSE heap[v]
  <2>1. \A v \in Values' : IsObj(v) => heap'[v] = With(heap, new, o)[v] /\ v \in DOMAIN heap'
    BY ValueTypesNext DEF Remember
  <2>2. \A v \in Reached(stack', global', acc') : v = new \/ v \in DOMAIN heap
    <3>1. DOMAIN heap = Reached(stack, global, acc)
      BY DEF ShapeInv, TypeInv
    <3> QED
      BY <3>1 DEF Reached
  <2> QED
    BY <2>1, <2>2, ValueTypesNext DEF With
<1>3. \A v \in Values' : v = new \/ v \in Values
  BY <1>1 DEF Values
<1>4. \A v \in Values : IsObj(v) => v # new
  BY NewPlace DEF SpareInv
<1>5. ValuesKept'
  <2> SUFFICES ASSUME NEW v \in Values', IsObj(v), NEW b \in Arena
               PROVE  Ends(v, heap'[v], b, heads'[b])
    BY DEF ValuesKept
  <2>1. CASE v = new
    BY <1>2, <2>1
  <2>2. CASE v # new
    BY <1>2, <1>3, <2>2, KeptHigher DEF SpareInv
  <2> QED
    BY <2>1, <2>2
<1>6. ASSUME NEW v \in Values', IsObj(v)
      PROVE  \/ v \in Values /\ heap'[v] = heap[v]
             \/ \A s : Endures(s) => Young(v, s)
                         \/ Ends(v, heap'[v], scopes[s].arena, scopes[s].head)
  <2>1. CASE v = new
    BY <1>2, <1>6, <2>1 DEF Endures
  <2>2. CASE v # new
    BY <1>2, <1>3, <1>6, <2>2
  <2> QED
    BY <2>1, <2>2
<1>7. ASSUME NEW i \in 1 .. Slots', IsObj(stack'[i])
      PROVE  i <= Slots /\ stack'[i] = stack[i] /\ heap'[stack[i]] = heap[stack[i]]
  <2>1. i <= Slots /\ stack'[i] = stack[i] /\ stack[i] \in Values /\ stack'[i] \in Values'
    BY <1>1 DEF Values
  <2> QED
    BY <1>2, <1>4, <1>7, <2>1
<1>8. IsObj(global') => global' = global /\ heap'[global] = heap[global]
  <2>1. global \in Values /\ global' \in Values' /\ global' = global
    BY DEF Values
  <2> QED
    BY <1>2, <1>4, <2>1
<1> QED
  BY <1>5, <1>6, <1>7, <1>8, SpareStep

(* An expression makes its object at the head, or in an arena no scope     *)
(* rewinds while the main heap is selected.                                *)
LEMMA ExpressionSpare ==
  ASSUME "one_region" \in Rules, NestInv, ShapeInv', SpareInv, Expression PROVE SpareInv'
<1>0. /\ ShapeInv /\ BelowHeads /\ heads \in [Arena -> 0 .. MAX_HEAP] /\ heads' \in [Arena -> 0 .. MAX_HEAP]
      /\ current \in Arena /\ MAX_HEAP \in Nat /\ 0 \in Arena
  BY HeapConstants DEF NestInv, ShapeInv, TypeInv
<1>1. ASSUME NEW v \in Variables \cup {Number}, Eval(v) PROVE SpareInv'
  <2>1. /\ status = "running" /\ acc' = v
        /\ UNCHANGED <<heads, current, scopes, stack, frames, global, heap, status>>
    BY <1>1 DEF Eval, Between, Running
  <2>2. Slots' = Slots /\ Slots = Len(stack) /\ Slots \in Nat /\ DOMAIN stack = 1 .. Len(stack)
    BY <1>0, <2>1, Lengths, Basics DEF Slots, ShapeInv
  <2>3. IsObj(v) => v \in Values
    BY <2>2 DEF Variables, Values, IsObj, Number
  <2>4. \A w \in Values' : IsObj(w) => w \in Values /\ heap'[w] = heap[w]
    BY <2>1, <2>2, <2>3 DEF Values
  <2>5. \A w \in Values' : IsObj(w) => \A a \in Arena : Ends(w, heap[w], a, heads'[a])
    BY <2>1, <2>4 DEF SpareInv, ValuesKept
  <2>6. \A s \in DOMAIN scopes' : Untouched(s)
    BY <2>1 DEF Untouched
  <2>7. \A i \in 1 .. Slots' : i <= Slots /\ stack'[i] = stack[i]
    BY <2>1, <2>2
  <2> QED
    BY <1>0, <2>1, <2>4, <2>5, <2>6, <2>7, SpareFewer
<1>2. ASSUME NEW a \in Arena, NEW n \in Nat, NEW o \in Object, Between,
             heads' = [heads EXCEPT ![a] = @ + n], acc' = At(a, heads[a]), current' = current,
             UNCHANGED <<scopes, stack, frames, global, status>>,
             Remember(With(heap, At(a, heads[a]), o)), o.size <= n,
             \/ o.data = NoData
             \/ a = current /\ o.data.at.arena = a /\ o.data.at.off + o.data.size <= heads[a] + n
      PROVE  SpareInv'
  <2>1. \A b \in Arena : heads'[b] >= heads[b]
    BY <1>0, <1>2
  <2>2. \A b \in Arena : Ends(acc', o, b, heads'[b])
    <3>1. heads[a] \in Nat /\ heads'[a] = heads[a] + n /\ o.size \in Nat
      BY <1>0, <1>2 DEF Object
    <3>2. acc'.off = heads[a] /\ acc'.arena = a
      BY <1>2 DEF At
    <3> QED
      BY <1>2, <3>1, <3>2 DEF Ends
  <2>3. \A s \in DOMAIN scopes' : Untouched(s)
    BY <1>2 DEF Untouched
  <2>4. ASSUME NEW s \in DOMAIN scopes', Rewinds(s)
        PROVE  Young(acc', s) \/ Ends(acc', o, scopes[s].arena, scopes[s].head)
    <3>1. acc'.off = heads[a] /\ acc'.arena = a /\ scopes[s].arena = current
      BY <1>2, <2>4 DEF At, Rewinds
    <3>2. CASE a = current
      <4>1. s \in DOMAIN scopes /\ scopes[s].head <= heads[a]
        BY <1>0, <1>2, <3>1, <3>2 DEF BelowHeads
      <4>2. heads[a] \in Nat /\ scopes[s].head \in Nat
        BY <1>0, <4>1, Lengths
      <4> QED
        BY <3>1, <3>2, <4>1, <4>2 DEF Young, IsObj
    <3>3. CASE a # current
      BY <1>2, <3>1, <3>3 DEF Ends
    <3> QED
      BY <3>2, <3>3
  <2> QED
    BY <1>0, <1>2, <2>1, <2>2, <2>3, <2>4, MadeSpare
<1>3. \A n \in Nat \ {0} : Array(n) \in Object /\ Array(n).size = n /\ Array(n).data = NoData
  BY DEF Array, Object
<1>4. ASSUME NEW size \in Sizes, EvalArray(size) PROVE SpareInv'
  <2>1. size \in Nat \ {0}
    BY HeapConstants
  <2>2. Array(size) \in Object /\ Array(size).size <= size /\ Array(size).data = NoData
    BY <1>3, <2>1
  <2> QED
    BY <1>0, <1>2, <1>4, <2>1, <2>2 DEF EvalArray
<1>5. ASSUME NEW r \in Arena \ {0}, NEW size \in Sizes, EvalIn(r, size) PROVE SpareInv'
  <2>1. size \in Nat \ {0}
    BY HeapConstants
  <2>2. Array(size) \in Object /\ Array(size).size <= size /\ Array(size).data = NoData
    BY <1>3, <2>1
  <2> QED
    BY <1>0, <1>2, <1>5, <2>1, <2>2 DEF EvalIn
<1>6. CASE EvalMap
  <2> DEFINE o == Map(At(current, At(current, heads[current]).off + 1), 1)
  <2>1. heads[current] + 2 < MAX_HEAP /\ heads[current] \in Nat
    BY <1>0, <1>6 DEF EvalMap, Fits
  <2>2. o = [size |-> 1, data |-> [at |-> [arena |-> current, off |-> heads[current] + 1], size |-> 1]]
    BY DEF Map, At
  <2>3. [arena |-> current, off |-> heads[current] + 1] \in Ref
    BY <1>0, <2>1 DEF Ref
  <2>4. /\ heads' = [heads EXCEPT ![current] = @ + 2] /\ acc' = At(current, heads[current])
        /\ current' = current /\ UNCHANGED <<scopes, stack, frames, global, status>>
        /\ Remember(With(heap, At(current, heads[current]), o)) /\ Between
    BY <1>6 DEF EvalMap
  <2> HIDE DEF o
  <2>5. o \in Object
    BY <2>2, <2>3 DEF Object
  <2>6. /\ o.size <= 2 /\ o.data.at.arena = current
        /\ o.data.at.off + o.data.size <= heads[current] + 2
    BY <2>1, <2>2
  <2> QED
    BY <1>0, <1>2, <2>4, <2>5, <2>6
<1> QED
  BY <1>1, <1>4, <1>5, <1>6 DEF Expression

(* The copy that a return makes lies above the scopes of its arena, if it  *)
(* is the current one, and in an arena none of them rewinds, if not.       *)
LEMMA EvacuateSpare == ASSUME NestInv, ShapeInv', SpareInv, Evacuate PROVE SpareInv'
<1>0. /\ ShapeInv /\ BelowHeads /\ heads \in [Arena -> 0 .. MAX_HEAP] /\ heads' \in [Arena -> 0 .. MAX_HEAP]
      /\ current \in Arena /\ MAX_HEAP \in Nat
  BY HeapConstants DEF NestInv, ShapeInv, TypeInv
<1>1. CASE status' = "overrun"
  <2>1. /\ UNCHANGED <<heads, current, scopes, stack, frames, acc, global, heap>> /\ status = "returning"
    <3>1. status # status'
      BY <1>1 DEF Evacuate, Returning
    <3> QED
      BY <3>1 DEF Evacuate, Returning
  <2>2. \A i \in 1 .. Slots' : i <= Slots /\ stack'[i] = stack[i]
    BY <1>0, <1>1, <2>1, Lengths DEF Slots
  <2>3. \A s \in DOMAIN scopes' : Untouched(s)
    BY <2>1 DEF Untouched
  <2> QED
    BY <1>0, <2>1, <2>2, <2>3, SpareSame
<1>2. CASE status' # "overrun"
  <2> DEFINE a == acc.arena
             copy == At(a, heads[a])
             l == Len(scopes)
  <2>1. PICK object \in Object, end \in 0 .. MAX_HEAP, kept \in [Arena -> 0 .. MAX_HEAP] :
           /\ a \in Arena /\ copy \in Ref /\ acc \in DOMAIN heap /\ IsObj(acc)
           /\ copy.off + object.size <= end
           /\ \/ object = heap[acc]
              \/ object.data.at.arena = a /\ object.data.at.off + object.data.size <= end
           /\ kept = [heads EXCEPT ![a] = end] /\ heads[a] <= end
           /\ heads' = IF copy.off >= Last(scopes).head THEN kept
                       ELSE [kept EXCEPT ![Last(scopes).arena] = Last(scopes).head]
           /\ acc' = copy /\ Remember(With(heap, copy, object))
           /\ scopes # <<>> /\ scopes' = Front(scopes) /\ Last(scopes) \in ScopeRec
           /\ UNCHANGED <<current, stack, frames, global, status>>
    <3>1. a = acc.arena /\ copy = At(a, heads[a])
      OBVIOUS
    <3> HIDE DEF a, copy
    <3> QED
      BY <1>0, <1>2, <3>1, EvacuateEffect
  <2> HIDE DEF l
  <2>2. /\ l \in DOMAIN scopes /\ Last(scopes) = scopes[l] /\ scopes[l].head \in Nat /\ Rewinds(l)
        /\ Mine(l) /\ status = "returning" /\ scopes[l].arena = current
        /\ Last(frames) <= scopes[l].sp
    <3>1. l \in DOMAIN scopes /\ Last(scopes) = scopes[l]
      BY <1>0, <2>1, Basics DEF ShapeInv, l
    <3>2. Mine(l) /\ status = "returning" /\ scopes[l].arena = current
      BY <3>1 DEF Evacuate, Returning, l
    <3> QED
      BY <1>0, <3>1, <3>2, Lengths DEF Rewinds
  <2>3. \A s \in DOMAIN scopes' : Untouched(s)
    BY <1>0, <2>1, Popped DEF ShapeInv, Untouched
  <2>4. copy.off = heads[a] /\ copy.arena = a /\ IsObj(copy) /\ heads[a] \in Nat /\ object.size \in Nat \ {0}
    <3>1. copy.off = heads[a] /\ copy.arena = a
      BY DEF At
    <3>2. heads[a] \in Nat /\ object.size \in Nat \ {0}
      BY <1>0, <2>1 DEF Object
    <3> HIDE DEF copy, a
    <3> QED
      BY <3>1, <3>2 DEF IsObj
  <2>5. acc \in Values /\ acc \in Ref /\ heap[acc] \in Object
    BY <1>0, <2>1, ValueTypes
  <2>6. \A b \in Arena : Ends(acc, heap[acc], b, heads[b])
    BY <2>1, <2>5 DEF SpareInv, ValuesKept
  <2>7. CASE a = current
    <3>1. heads' = kept
      <4>1. scopes[l].head <= heads[a]
        BY <1>0, <2>2, <2>7 DEF BelowHeads
      <4> QED
        BY <2>1, <2>2, <2>4, <4>1
    <3>2. \A b \in Arena : heads'[b] >= heads[b]
      BY <1>0, <2>1, <3>1
    <3>3. ASSUME NEW b \in Arena PROVE Ends(acc', object, b, heads'[b])
      <4>1. acc'.arena = b => acc'.off + object.size <= heads'[b]
        BY <1>0, <2>1, <2>4, <3>1
      <4>2. ASSUME object.data # NoData, object.data.at.arena = b
            PROVE  object.data.at.off + object.data.size <= heads'[b]
        <5>1. CASE object = heap[acc]
          <6>1. Ends(acc, heap[acc], b, heads'[b])
            BY <1>0, <2>1, <2>5, <3>2, KeptHigher DEF SpareInv
          <6> QED
            BY <4>2, <5>1, <6>1 DEF Ends
        <5>2. CASE object.data.at.arena = a /\ object.data.at.off + object.data.size <= end
          BY <1>0, <2>1, <3>1, <4>2, <5>2
        <5> QED
          BY <2>1, <5>1, <5>2
      <4> QED
        BY <4>1, <4>2 DEF Ends
    <3>4. ASSUME NEW s \in DOMAIN scopes', Rewinds(s) PROVE Young(acc', s)
      <4>1. s \in DOMAIN scopes /\ scopes[s].arena = a
        BY <2>3, <2>7, <3>4 DEF Rewinds, Untouched
      <4>2. scopes[s].head <= heads[a] /\ scopes[s].head \in Nat
        BY <1>0, <4>1, Lengths DEF BelowHeads
      <4> QED
        BY <2>1, <2>4, <4>1, <4>2 DEF Young
    <3> QED
      BY <1>0, <2>1, <2>3, <3>2, <3>3, <3>4, MadeSpare
  <2>8. CASE a # current
    <3>1. heads'[a] = end /\ heads'[current] \in {heads[current], scopes[l].head}
          /\ \A b \in Arena \ {a, current} : heads'[b] = heads[b]
      BY <1>0, <2>1, <2>2, <2>8
    <3>2. \A s \in DOMAIN scopes : Rewinds(s) => Spared(acc, s)
      BY <2>5, <2>8 DEF SpareInv, Whole, Young, Rewinds
    <3>3. \A v \in Values' : v = copy \/ v \in Values
      <4>1. Slots' = Slots
        BY <2>1 DEF Slots
      <4> QED
        BY <2>1, <4>1 DEF Values
    <3>4. \A v \in Values : IsObj(v) => v # copy
      BY <1>0, <2>1, NewPlace DEF SpareInv
    <3>5. \A v \in Values' : IsObj(v) => heap'[v] = IF v = copy THEN object ELSE heap[v]
      <4>1. \A v \in Values' : IsObj(v) => heap'[v] = With(heap, copy, object)[v]
        BY <2>1, ValueTypesNext DEF Remember
      <4>2. \A v \in Values : IsObj(v) => v \in DOMAIN heap
        BY <1>0, ValueTypes
      <4> QED
        BY <3>3, <4>1, <4>2 DEF With
    <3>6. ASSUME NEW v \in Values, IsObj(v), NEW b \in Arena, Spared(v, l) \/ heads'[b] = heads[b] \/ b = a
          PROVE  Ends(v, heap[v], b, heads'[b])
      <4>1. Ends(v, heap[v], b, heads[b])
        BY <3>6 DEF SpareInv, ValuesKept
      <4>2. CASE b = a
        <5>1. v \in Ref /\ heap[v] \in Object /\ heads[b] <= heads'[b] /\ heads[b] \in Int /\ heads'[b] \in Int
          BY <1>0, <2>1, <3>1, <3>6, <4>2, ValueTypes
        <5> QED
          BY <4>1, <5>1, EndsBefore
      <4>3. CASE b = current
        BY <2>2, <2>8, <3>1, <3>6, <4>1, <4>3 DEF Spared
      <4> QED
        BY <3>1, <4>1, <4>2, <4>3
    <3>7. Last(frames) \in Nat /\ Slots = Last(frames) /\ Slots' = Slots
      BY <1>0, <2>1, <2>2, Lengths DEF Slots
    <3>8. \A v \in Values : Spared(v, l)
      <4>1. \A i \in 1 .. Slots : Spared(stack[i], l)
        <5>1. Last(frames) <= scopes[l].sp /\ scopes[l].sp \in Nat
          BY <1>0, <2>2, Lengths
        <5> QED
          BY <2>2, <3>7, <5>1 DEF SpareInv, SlotsSpared
      <4>2. Spared(global, l) /\ Spared(acc, l)
        BY <2>2, <3>2 DEF SpareInv, GlobalSpared
      <4> QED
        BY <4>1, <4>2 DEF Values
    <3>9. ValuesKept'
      <4> SUFFICES ASSUME NEW v \in Values', IsObj(v), NEW b \in Arena
                   PROVE  Ends(v, heap'[v], b, heads'[b])
        BY DEF ValuesKept
      <4>1. CASE v # copy
        BY <3>3, <3>5, <3>6, <3>8, <4>1
      <4>2. CASE v = copy
        <5>1. heap'[v] = object
          BY <3>5, <4>2
        <5>2. v.arena = b => v.off + object.size <= heads'[b]
          BY <2>1, <2>4, <3>1, <4>2
        <5>3. ASSUME object.data # NoData, object.data.at.arena = b
              PROVE  object.data.at.off + object.data.size <= heads'[b]
          <6>1. CASE object = heap[acc]
            <7>1. Ends(acc, heap[acc], b, heads'[b])
              BY <2>1, <2>5, <3>6, <3>8
            <7> QED
              BY <5>3, <6>1, <7>1 DEF Ends
          <6>2. CASE object.data.at.arena = a /\ object.data.at.off + object.data.size <= end
            BY <3>1, <5>3, <6>2
          <6> QED
            BY <2>1, <6>1, <6>2
        <5> QED
          BY <5>1, <5>2, <5>3 DEF Ends
      <4> QED
        BY <4>1, <4>2
    <3>10. ASSUME NEW s, Endures(s)
           PROVE  Ends(copy, object, scopes[s].arena, scopes[s].head)
      <4>1. s \in DOMAIN scopes /\ scopes[s].arena = current /\ Spared(acc, s)
        BY <3>2, <3>10 DEF Endures, Untouched, Rewinds
      <4>2. object = heap[acc] \/ object.data.at.arena = a
        BY <2>1
      <4> QED
        BY <2>1, <2>4, <2>8, <4>1, <4>2 DEF Spared, Ends
    <3>11. ASSUME NEW v \in Values', IsObj(v)
           PROVE  \/ v \in Values /\ heap'[v] = heap[v]
                  \/ \A s : Endures(s) => Young(v, s)
                              \/ Ends(v, heap'[v], scopes[s].arena, scopes[s].head)
      <4>1. CASE v = copy
        BY <3>5, <3>10, <3>11, <4>1
      <4>2. CASE v # copy
        BY <3>3, <3>5, <3>11, <4>2
      <4> QED
        BY <4>1, <4>2
    <3>12. ASSUME NEW i \in 1 .. Slots', IsObj(stack'[i])
           PROVE  i <= Slots /\ stack'[i] = stack[i] /\ heap'[stack[i]] = heap[stack[i]]
      <4>1. i <= Slots /\ stack'[i] = stack[i] /\ stack[i] \in Values /\ stack'[i] \in Values'
        BY <2>1, <3>7 DEF Values
      <4> QED
        BY <3>4, <3>5, <3>12, <4>1
    <3>13. IsObj(global') => global' = global /\ heap'[global] = heap[global]
      <4>1. global \in Values /\ global' \in Values' /\ global' = global
        BY <2>1 DEF Values
      <4> QED
        BY <3>4, <3>5, <4>1
    <3> HIDE DEF a, copy
    <3> QED
      BY <1>0, <2>1, <2>3, <3>9, <3>11, <3>12, <3>13, SpareStep
  <2> QED
    BY <2>7, <2>8
<1> QED
  BY <1>1, <1>2

(* No scope rewinds right after another region is selected.                *)
LEMMA SetRegionSpare ==
  ASSUME "one_region" \in Rules, ShapeInv, ShapeInv', SpareInv, NEW r \in Arena, SetRegion(r)
  PROVE  SpareInv'
<1>1. /\ \A s \in DOMAIN scopes : scopes[s].arena # r
      /\ current' = r /\ UNCHANGED <<heads, scopes, stack, frames, acc, global, heap, status>>
  BY DEF SetRegion
<1>2. Values' = Values
  BY <1>1 DEF Values, Slots
<1>3. ValuesKept'
  BY <1>1, <1>2 DEF SpareInv, ValuesKept
<1>4. \A s \in DOMAIN scopes' : ~Rewinds(s)'
  BY <1>1 DEF Rewinds
<1>5. Whole' /\ SlotsSpared' /\ GlobalSpared'
  BY <1>4 DEF Whole, SlotsSpared, GlobalSpared
<1> QED
  BY <1>3, <1>5 DEF SpareInv

(* A global gets what no open scope gives back.                            *)
LEMMA AssignGlobalSpare ==
  ASSUME "escape" \in Rules, ShapeInv, ShapeInv', SpareInv, AssignGlobal
  PROVE  SpareInv'
<1>1. /\ acc' = Absent /\ global' = acc /\ Remember(heap)
      /\ UNCHANGED <<heads, current, scopes, stack, frames, status>>
      /\ IsObj(acc) => \A s \in DOMAIN scopes : scopes[s].arena = acc.arena => acc.off < scopes[s].head
  BY DEF AssignGlobal, Take
<1>2. Slots' = Slots /\ Slots \in Nat
  BY <1>1, ValueTypes DEF Slots
<1>3. \A v \in Values' : IsObj(v) => v \in Values /\ heap'[v] = heap[v]
  <2>1. \A v \in Values' : IsObj(v) => v \in Values
    BY <1>1, <1>2 DEF Values, IsObj, Absent
  <2> QED
    BY <1>1, <2>1, ValueTypesNext DEF Remember
<1>4. ValuesKept'
  BY <1>1, <1>3 DEF SpareInv, ValuesKept
<1>5. \A s \in DOMAIN scopes' : Untouched(s)
  BY <1>1 DEF Untouched
<1>6. ASSUME NEW i \in 1 .. Slots', IsObj(stack'[i])
      PROVE  i <= Slots /\ stack'[i] = stack[i] /\ heap'[stack[i]] = heap[stack[i]]
  <2>1. i <= Slots /\ stack'[i] = stack[i] /\ stack'[i] \in Values'
    BY <1>1, <1>2 DEF Values
  <2> QED
    BY <1>3, <1>6, <2>1
<1>7. ASSUME IsObj(global'), NEW s, Endures(s)
      PROVE  Ends(global', heap'[global'], scopes[s].arena, scopes[s].head)
  <2>1. s \in DOMAIN scopes /\ Rewinds(s) /\ acc \in Values /\ IsObj(acc) /\ acc \in Ref
    BY <1>1, <1>7, ValueTypes DEF Endures, Untouched
  <2>2. scopes[s].head \in Nat /\ acc.off \in Nat
    BY <2>1, Lengths, HeapConstants DEF Ref
  <2>3. ~Young(acc, s)
    BY <1>1, <2>1, <2>2 DEF Young
  <2>4. Spared(acc, s)
    BY <2>1, <2>3 DEF SpareInv, Whole
  <2>5. heap'[global'] = heap[acc]
    <3>1. global' \in Values'
      BY DEF Values
    <3> QED
      BY <1>1, <1>3, <1>7, <3>1
  <2> QED
    BY <1>1, <2>1, <2>4, <2>5 DEF Spared
<1> QED
  BY <1>1, <1>3, <1>4, <1>5, <1>6, <1>7, SpareStep

(* A variable older than some blocks gets an object: those that would have *)
(* given it back are moved up, and the others spared it already.           *)
LEMMA AssignSpare ==
  ASSUME ShapeInv, ShapeInv', SpareInv, NEW i \in DOMAIN stack, Assign(i)
  PROVE  SpareInv'
<1> DEFINE W == {s \in After(i) : /\ scopes[s].arena = current
                                  /\ IsObj(acc) /\ acc.off >= scopes[s].head}
<1>1. /\ status = "running" /\ acc' = Absent /\ Local(i) /\ acc # Absent
      /\ stack' = [stack EXCEPT ![i] = acc] /\ Raise(W, heads[current])
      /\ UNCHANGED <<heads, current, frames, global, status>> /\ Remember(heap)
  BY DEF Assign, Take, Running
<1>2. /\ heads[current] \in 0 .. MAX_HEAP /\ TypeInv /\ current \in Arena
      /\ stack \in Seq(Value) /\ acc \in Value /\ DOMAIN stack = 1 .. Len(stack)
  BY <1>1, Basics DEF ShapeInv, TypeInv
<1>3. /\ DOMAIN scopes' = DOMAIN scopes
      /\ \A s \in DOMAIN scopes :
           /\ scopes'[s].arena = scopes[s].arena /\ scopes'[s].sp = scopes[s].sp
           /\ scopes'[s].head = IF s \in W THEN heads[current] ELSE scopes[s].head
  <2> HIDE DEF W
  <2> QED
    BY <1>1, <1>2, Raised
<1>4. /\ Len(stack') = Len(stack)
      /\ \A j \in DOMAIN stack : stack'[j] = IF j = i THEN acc ELSE stack[j]
  BY <1>1, <1>2, ExceptSeq
<1>5. Slots' = Slots /\ Slots = Len(stack) /\ Len(stack) \in Nat
  BY <1>1, <1>4, Lengths DEF Slots
<1>6. \A v \in Values' : IsObj(v) => v \in Values /\ heap'[v] = heap[v]
  <2>1. \A j \in 1 .. Slots' : stack'[j] \in Values
    BY <1>2, <1>4, <1>5 DEF Values
  <2>2. \A v \in Values' : IsObj(v) => v \in Values
    BY <1>1, <2>1 DEF Values, IsObj, Absent
  <2> QED
    BY <1>1, <2>2, ValueTypesNext DEF Remember
<1>7. ValuesKept'
  BY <1>1, <1>6 DEF SpareInv, ValuesKept
<1>8. \A s \in DOMAIN scopes' :
        Untouched(s) \/ (scopes'[s].arena = current /\ scopes'[s].head = heads'[current])
  BY <1>1, <1>3 DEF Untouched
<1>9. ASSUME NEW j \in 1 .. Slots', IsObj(stack'[j])
      PROVE  \/ j <= Slots /\ stack'[j] = stack[j] /\ heap'[stack[j]] = heap[stack[j]]
             \/ \A s : Endures(s) /\ j <= scopes[s].sp =>
                  Ends(stack'[j], heap'[stack'[j]], scopes[s].arena, scopes[s].head)
  <2>0. j \in DOMAIN stack /\ j <= Slots /\ stack'[j] \in Values'
    BY <1>2, <1>5 DEF Values
  <2>1. CASE j # i
    BY <1>4, <1>6, <1>9, <2>0, <2>1
  <2>2. CASE j = i
    <3>1. stack'[i] = acc /\ heap'[acc] = heap[acc] /\ acc \in Values /\ IsObj(acc)
      BY <1>4, <1>6, <1>9, <2>0, <2>2 DEF Values
    <3>2. ASSUME NEW s, Endures(s), i <= scopes[s].sp
          PROVE  Ends(acc, heap[acc], scopes[s].arena, scopes[s].head)
      <4>1. s \in DOMAIN scopes /\ Rewinds(s) /\ scopes[s].arena = current
        BY <3>2 DEF Endures, Untouched, Rewinds
      <4>2. CASE s \in W
        <5>1. scopes[s].head = heads[current]
          BY <1>3, <3>2, <4>1, <4>2 DEF Endures, Untouched
        <5> QED
          BY <1>2, <3>1, <4>1, <5>1 DEF SpareInv, ValuesKept
      <4>3. CASE s \notin W
        <5>1. s \in After(i)
          <6>1. Last(frames) < i /\ i \in Nat /\ scopes[s].sp \in Nat /\ Last(frames) \in Nat
            BY <1>1, <1>2, <4>1, Lengths DEF Local
          <6> QED
            BY <3>2, <4>1, <6>1, Lengths DEF After
        <5>2. ~Young(acc, s)
          BY <3>1, <4>1, <4>3, <5>1 DEF Young
        <5> QED
          BY <3>1, <4>1, <5>2 DEF SpareInv, Whole, Spared
      <4> QED
        BY <4>2, <4>3
    <3> QED
      BY <2>2, <3>1, <3>2
  <2> QED
    BY <2>1, <2>2
<1>10. IsObj(global') => global' = global /\ heap'[global] = heap[global]
  <2>1. global' \in Values' /\ global' = global
    BY <1>1 DEF Values
  <2> QED
    BY <1>6, <2>1
<1> HIDE DEF W
<1> QED
  BY <1>1, <1>6, <1>7, <1>8, <1>9, <1>10, SpareStep

(* A map's data moves above all scopes that are younger than the map; the  *)
(* others give the map and its data back together.                         *)
LEMMA GrowSpare ==
  ASSUME "home" \in Rules, NestInv, ShapeInv', SpareInv, NEW m \in DOMAIN heap, Grow(m)
  PROVE  SpareInv'
<1> DEFINE size == 2 * heap[m].data.size
           new  == Map(At(current, heads[current]), size)
           W    == {s \in DOMAIN scopes : scopes[s].arena = current /\ scopes[s].head > m.off}
<1>1. /\ ShapeInv /\ TypeInv /\ BelowHeads /\ status = "running" /\ m \in Variables /\ IsMap(m)
      /\ scopes = <<>> \/ m.arena = current
      /\ heads' = [heads EXCEPT ![current] = @ + size] /\ Raise(W, heads'[current])
      /\ UNCHANGED <<current, stack, frames, acc, global, status>>
      /\ Remember(With(heap, m, new))
  BY DEF Grow, Between, Running, NestInv, ShapeInv
<1>2. /\ IsObj(m) /\ m \in Ref /\ m \in Values /\ m.off \in Nat /\ m.arena \in Arena
      /\ heap[m] \in Object /\ heap[m].size \in Nat \ {0} /\ size \in Nat \ {0}
  <2>1. m \in Values /\ IsObj(m)
    <3>1. Slots = Len(stack) /\ DOMAIN stack = 1 .. Len(stack)
      BY <1>1, Basics DEF Slots
    <3> QED
      BY <1>1, <3>1 DEF Variables, Values, IsMap
  <2>2. m \in Ref /\ heap[m] \in Object
    BY <1>1, <2>1, ValueTypes
  <2>3. heap[m].data \in [at : Ref, size : Nat \ {0}]
    BY <1>1, <2>2 DEF IsMap, Object
  <2>4. heap[m].data.size \in Nat \ {0}
    BY <2>3
  <2>5. size \in Nat \ {0}
    BY <2>4
  <2> QED
    BY <2>1, <2>2, <2>5, HeapConstants DEF Ref, Object
<1>3. /\ heads \in [Arena -> 0 .. MAX_HEAP] /\ heads' \in [Arena -> 0 .. MAX_HEAP] /\ current \in Arena
      /\ heads[current] \in Nat /\ MAX_HEAP \in Nat
  BY <1>1, HeapConstants DEF TypeInv, ShapeInv
<1>4. new = [size |-> 1, data |-> [at |-> [arena |-> current, off |-> heads[current]], size |-> size]]
  BY DEF Map, At
<1> HIDE DEF size, new, W
<1>5. heads'[current] = heads[current] + size /\ \A a \in Arena : heads'[a] >= heads[a]
  BY <1>1, <1>2, <1>3
<1>6. /\ DOMAIN scopes' = DOMAIN scopes
      /\ \A s \in DOMAIN scopes :
           /\ scopes'[s].arena = scopes[s].arena /\ scopes'[s].sp = scopes[s].sp
           /\ scopes'[s].head = IF s \in W THEN heads'[current] ELSE scopes[s].head
  BY <1>1, <1>3, Raised
<1>7. Slots' = Slots /\ Values' = Values /\ Slots \in Nat
  BY <1>1, ValueTypes DEF Slots, Values
<1>8. \A v \in Values : IsObj(v) => heap'[v] = IF v = m THEN new ELSE heap[v]
  <2>1. \A v \in Values' : IsObj(v) => heap'[v] = With(heap, m, new)[v]
    BY <1>1, ValueTypesNext DEF Remember
  <2>2. \A v \in Values : IsObj(v) => v \in DOMAIN heap
    BY <1>1, ValueTypes
  <2> QED
    BY <1>7, <2>1, <2>2 DEF With
<1>9. ASSUME NEW a \in Arena PROVE Ends(m, new, a, heads'[a])
  <2>1. Ends(m, heap[m], a, heads'[a])
    BY <1>1, <1>2, <1>5, KeptHigher DEF SpareInv
  <2>2. m.arena = a => m.off + new.size <= heads'[a]
    <3>1. heads'[a] \in Nat /\ new.size = 1
      BY <1>3, <1>4
    <3> QED
      BY <1>2, <2>1, <3>1 DEF Ends
  <2>3. new.data.at.arena = a => new.data.at.off + new.data.size <= heads'[a]
    BY <1>2, <1>3, <1>4, <1>5
  <2> QED
    BY <2>2, <2>3 DEF Ends
<1>10. ValuesKept'
  <2> SUFFICES ASSUME NEW v \in Values, IsObj(v), NEW a \in Arena
               PROVE  Ends(v, heap'[v], a, heads'[a])
    BY <1>7 DEF ValuesKept
  <2>1. CASE v = m
    BY <1>8, <1>9, <2>1
  <2>2. CASE v # m
    BY <1>1, <1>5, <1>8, <2>2, KeptHigher DEF SpareInv
  <2> QED
    BY <2>1, <2>2
<1>11. \A s \in DOMAIN scopes' :
         Untouched(s) \/ (scopes'[s].arena = current /\ scopes'[s].head = heads'[current])
  BY <1>6 DEF Untouched, W
<1>12. ASSUME NEW s, Endures(s) PROVE Young(m, s) /\ ~Spared(m, s) /\ s \in DOMAIN scopes
  <2>1. s \in DOMAIN scopes /\ scopes[s].arena = current /\ scopes'[s].head = scopes[s].head
    BY <1>12 DEF Endures, Untouched, Rewinds
  <2>2. scopes[s].head \in Nat /\ scopes[s].head <= heads[current]
    BY <1>1, <2>1, Lengths DEF BelowHeads
  <2>3. s \notin W
    BY <1>2, <1>3, <1>5, <1>6, <2>1, <2>2
  <2>4. scopes[s].head <= m.off
    BY <1>2, <2>1, <2>2, <2>3 DEF W
  <2>5. m.arena = current
    BY <1>1, <2>1, Basics
  <2>6. ~(m.off + heap[m].size <= scopes[s].head)
    BY <1>2, <2>2, <2>4
  <2> QED
    BY <1>2, <2>1, <2>4, <2>5, <2>6 DEF Young, Spared, Ends
<1>13. ASSUME NEW v \in Values', IsObj(v)
       PROVE  \/ v \in Values /\ heap'[v] = heap[v]
              \/ \A s : Endures(s) => Young(v, s)
                          \/ Ends(v, heap'[v], scopes[s].arena, scopes[s].head)
  <2>1. CASE v = m
    BY <1>12, <2>1
  <2>2. CASE v # m
    BY <1>7, <1>8, <1>13, <2>2
  <2> QED
    BY <2>1, <2>2
<1>14. ASSUME NEW i \in 1 .. Slots', IsObj(stack'[i])
       PROVE  \/ i <= Slots /\ stack'[i] = stack[i] /\ heap'[stack[i]] = heap[stack[i]]
              \/ \A s : ~(Endures(s) /\ i <= scopes[s].sp)
  <2>0. i <= Slots /\ stack'[i] = stack[i] /\ stack[i] \in Values /\ i \in 1 .. Slots
    BY <1>1, <1>7 DEF Values
  <2>1. CASE stack[i] = m
    <3>1. ASSUME NEW s, Endures(s), i <= scopes[s].sp PROVE FALSE
      <4>1. Rewinds(s) /\ s \in DOMAIN scopes
        BY <1>12, <3>1 DEF Endures
      <4>2. Spared(m, s)
        BY <2>0, <2>1, <3>1, <4>1 DEF SpareInv, SlotsSpared
      <4> QED
        BY <1>12, <3>1, <4>2
    <3> QED
      BY <3>1
  <2>2. CASE stack[i] # m
    BY <1>8, <1>14, <2>0, <2>2
  <2> QED
    BY <2>1, <2>2
<1>15. \/ IsObj(global') => global' = global /\ heap'[global] = heap[global]
       \/ \A s : ~Endures(s)
  <2>0. global' = global /\ global \in Values
    BY <1>1 DEF Values
  <2>1. CASE global = m
    BY <1>12, <2>1 DEF SpareInv, GlobalSpared, Endures
  <2>2. CASE global # m
    BY <1>8, <2>0, <2>2
  <2> QED
    BY <2>1, <2>2
<1> QED
  BY <1>1, <1>10, <1>11, <1>13, <1>14, <1>15, SpareStep

-----------------------------------------------------------------------------
(* At first there is no object.                                            *)
LEMMA KeepInit == Init => KeepInv
<1> SUFFICES ASSUME Init PROVE KeepInv
  OBVIOUS
<1>1. scopes = <<>> /\ stack = <<>> /\ global = Number /\ acc = Absent /\ status = "running"
  BY DEF Init
<1>2. NestInv
  BY <1>1, ShapeInit DEF NestInv, BelowHeads, HeadsNested
<1>3. Slots = 0
  BY <1>1, EmptySeq DEF Slots
<1>4. \A v \in Values : ~IsObj(v)
  BY <1>1, <1>3 DEF Values, IsObj, Number, Absent
<1>5. SpareInv
  BY <1>1, <1>4 DEF SpareInv, ValuesKept, Whole, SlotsSpared, GlobalSpared
<1> QED
  BY <1>2, <1>5 DEF KeepInv

(* The invariant holds through every step of a disciplined program.        *)
LEMMA KeepNext == Disciplined /\ KeepInv /\ [Next]_vars => KeepInv'
<1> SUFFICES ASSUME Disciplined, KeepInv, [Next]_vars PROVE KeepInv'
  OBVIOUS
<1>1. NestInv /\ NestInv' /\ ShapeInv /\ ShapeInv' /\ SpareInv
  BY NestNext DEF Disciplined, KeepInv, NestInv
<1>2. "escape" \in Rules /\ "one_region" \in Rules /\ "home" \in Rules
  BY DEF Disciplined
<1>3. CASE UNCHANGED vars
  <2>1. \A i \in 1 .. Slots' : i <= Slots /\ stack'[i] = stack[i]
    BY <1>1, <1>3, Lengths DEF vars, Slots
  <2>2. \A s \in DOMAIN scopes' : Untouched(s)
    BY <1>3 DEF vars, Untouched
  <2>3. SpareInv'
    BY <1>1, <1>3, <2>1, <2>2, SpareSame DEF vars
  <2> QED
    BY <1>1, <2>3 DEF KeepInv
<1>4. SpareInv'
  BY <1>1, <1>2, <1>3, EnterSpare, ExitSpare, SetRegionSpare, ExpressionSpare, DeclareSpare,
     AssignSpare, AssignGlobalSpare, LessSpare, GrowSpare, CallSpare,
     ElsewhereSpare, ReturnOldSpare, EvacuateSpare DEF Next, KeepInv
<1> QED
  BY <1>1, <1>4 DEF KeepInv

(* What is below the head of every arena is kept.                          *)
LEMMA BelowIsKept ==
  ASSUME KeepInv, NEW v \in Values PROVE Kept(v)
<1> SUFFICES ASSUME IsObj(v)
             PROVE  /\ v.off + heap[v].size <= heads[v.arena]
                    /\ IsMap(v) => heap[v].data.at.off + heap[v].data.size
                                     <= heads[heap[v].data.at.arena]
  BY DEF Kept
<1>1. v \in Ref /\ heap[v] \in Object /\ \A a \in Arena : Ends(v, heap[v], a, heads[a])
  BY ValueTypes DEF KeepInv, NestInv, SpareInv, ValuesKept
<1>2. v.arena \in Arena /\ (heap[v].data # NoData => heap[v].data.at.arena \in Arena)
  BY <1>1 DEF Ref, Object
<1> QED
  BY <1>1, <1>2 DEF Ends, IsMap

(* Programs that obey the four rules keep every object that a local or an  *)
(* argument of any frame refers to, through blocks, calls, returns and the *)
(* growth of maps, with the data of the maps.                              *)
THEOREM LocalsAreKept == Disciplined /\ Spec => []LocalsKept
<1>1. KeepInv => LocalsKept
  <2> SUFFICES ASSUME KeepInv, status \in {"running", "returning"}
               PROVE  /\ \A i \in DOMAIN stack : status = "running" \/ ~Local(i) => Kept(stack[i])
                      /\ Kept(acc)
    BY DEF LocalsKept
  <2>1. ShapeInv
    BY DEF KeepInv, NestInv
  <2>2. acc \in Values
    BY DEF Values
  <2>3. ASSUME NEW i \in DOMAIN stack, status = "running" \/ ~Local(i) PROVE stack[i] \in Values
    <3>1. i \in 1 .. Len(stack) /\ Len(stack) \in Nat /\ Last(frames) \in Nat
      BY <2>1, Basics, Lengths DEF ShapeInv
    <3> QED
      BY <2>3, <3>1 DEF Values, Slots, Local
  <2> QED
    BY <2>2, <2>3, BelowIsKept
<1>2. CASE Disciplined
  BY <1>1, <1>2, KeepInit, KeepNext, PTL DEF Spec
<1> QED
  BY <1>2

(* And the object that a global refers to.                                 *)
THEOREM GlobalsAreKept == Disciplined /\ Spec => []GlobalsKept
<1>1. KeepInv => GlobalsKept
  <2>1. global \in Values
    BY DEF Values
  <2> QED
    BY <2>1, BelowIsKept DEF GlobalsKept
<1>2. CASE Disciplined
  BY <1>1, <1>2, KeepInit, KeepNext, PTL DEF Spec
<1> QED
  BY <1>2
=============================================================================
