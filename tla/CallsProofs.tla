---------------------------- MODULE CallsProofs ----------------------------
(***************************************************************************)
(* The one value stack of Calls holds what its activations need, however   *)
(* functions, natives and callbacks follow each other and wherever an      *)
(* error cuts a line off: all state keeps its shape (TypeCorrect),         *)
(* scope_stack holds each activation's scopes and no others                *)
(* (ScopesAreMatched), what a line defined is there for those after it     *)
(* (VariablesAreKept), and what the activations hold and do is what those  *)
(* of CallStack do (CallsAreNested).                                       *)
(*                                                                         *)
(* The invariant, CallInv, says that the state consists of activations     *)
(* us[1] .. us[n], from the script to the running one, that lie above each *)
(* other (Frames): a function's on the return address and the fp of its    *)
(* caller, a native's on nothing but the C stack.  nest belongs to those   *)
(* of them that are code (Nested), the scopes to the nest (Matched), and   *)
(* globals refer to what is below every head that will be rewound to       *)
(* (VarsKept).  Each step keeps the activations, retops the last one,      *)
(* opens one above it, or takes it away; Reading says that Unwound, which  *)
(* walks down from fp, finds just these.                                   *)
(*                                                                         *)
(* The refinement reads each activation as a record of CallStack (ActOf).  *)
(* Those a step leaves in place read as before (SameActs), so a step is    *)
(* the change of the last one, one opened on it, or one closed (Becoming,  *)
(* Opening, Closing); what remains is to compare these with the action of  *)
(* CallStack of the same name.                                             *)
(*                                                                         *)
(* A lower case s, st, ns, ne or sc is a stack, the natives, the nest or   *)
(* the scopes before a step, s2 one of them after it.                      *)
(***************************************************************************)
EXTENDS Calls, SequenceTheorems, FiniteSetTheorems, WellFoundedInduction, TLAPS

-----------------------------------------------------------------------------
(* Sequences.                                                              *)

LEMMA Fronts ==
  ASSUME NEW S, NEW s \in Seq(S), s # <<>>
  PROVE  /\ Len(s) \in Nat /\ Len(s) >= 1
         /\ Front(s) \in Seq(S) /\ Len(Front(s)) = Len(s) - 1
         /\ \A i \in 1 .. Len(s) - 1 : Front(s)[i] = s[i]
         /\ Last(s) = s[Len(s)] /\ Last(s) \in S
<1>1. Len(s) \in Nat /\ Len(s) >= 1
  BY EmptySeq, LenProperties
<1>2. \A i \in 1 .. Len(s) : s[i] \in S
  BY ElementOfSeq
<1>3. 1 \in Int /\ Len(s) - 1 \in Int /\ \A i \in 1 .. Len(s) - 1 : s[i] \in S
  BY <1>1, <1>2
<1>4. /\ SubSeq(s, 1, Len(s) - 1) \in Seq(S)
      /\ Len(SubSeq(s, 1, Len(s) - 1)) = IF 1 <= Len(s) - 1 THEN Len(s) - 1 - 1 + 1 ELSE 0
      /\ \A i \in 1 .. Len(s) - 1 - 1 + 1 : SubSeq(s, 1, Len(s) - 1)[i] = s[1 + i - 1]
  BY <1>3, SubSeqProperties
<1>5. Front(s) = SubSeq(s, 1, Len(s) - 1) /\ Last(s) = s[Len(s)]
  BY DEF Front, Last
<1>6. Len(s) - 1 - 1 + 1 = Len(s) - 1
  BY <1>1
<1>7. \A i \in 1 .. Len(s) - 1 : s[1 + i - 1] = s[i]
  BY <1>1
<1>8. Len(s) \in 1 .. Len(s)
  BY <1>1
<1> QED BY <1>1, <1>2, <1>4, <1>5, <1>6, <1>7, <1>8

LEMMA Prefix ==
  ASSUME NEW S, NEW s \in Seq(S), NEW m \in 0 .. Len(s)
  PROVE  /\ SubSeq(s, 1, m) \in Seq(S) /\ Len(SubSeq(s, 1, m)) = m
         /\ \A i \in 1 .. m : SubSeq(s, 1, m)[i] = s[i]
<1>1. Len(s) \in Nat /\ m \in Int /\ 1 \in Int /\ \A i \in 1 .. Len(s) : s[i] \in S
  BY ElementOfSeq, LenProperties
<1>2. \A i \in 1 .. m : s[i] \in S
  BY <1>1
<1>3. /\ SubSeq(s, 1, m) \in Seq(S)
      /\ Len(SubSeq(s, 1, m)) = IF 1 <= m THEN m - 1 + 1 ELSE 0
      /\ \A i \in 1 .. m - 1 + 1 : SubSeq(s, 1, m)[i] = s[1 + i - 1]
  BY <1>1, <1>2, SubSeqProperties
<1>4. m - 1 + 1 = m /\ (~ 1 <= m => m = 0) /\ \A i \in 1 .. m : 1 + i - 1 = i
  BY <1>1
<1> QED BY <1>3, <1>4

LEMMA Joined ==
  ASSUME NEW S, NEW s \in Seq(S), NEW t \in Seq(S)
  PROVE  /\ s \o t \in Seq(S) /\ Len(s \o t) = Len(s) + Len(t)
         /\ \A j \in 1 .. Len(s) + Len(t) : (s \o t)[j] = IF j <= Len(s) THEN s[j] ELSE t[j - Len(s)]
BY ConcatProperties, Zenon


(* The last element of s is changed to v.                                  *)
Changes(s, v, t) == t = [s EXCEPT ![Len(s)] = v]

LEMMA Replaced ==
  ASSUME NEW s \in Seq(Nat), s # <<>>, NEW v \in Nat, NEW t, Changes(s, v, t)
  PROVE  /\ t \in Seq(Nat) /\ Len(t) = Len(s) /\ t[Len(s)] = v
         /\ \A j \in 1 .. Len(s) - 1 : t[j] = s[j]
<1>a. Len(s) \in Nat /\ Len(s) >= 1
  BY Fronts
<1> DEFINE m == Len(s)
<1>1. m \in Nat /\ m >= 1 /\ DOMAIN s = 1 .. m
  BY <1>a, LenProperties
<1>2. t = [s EXCEPT ![m] = v]
  BY DEF Changes
<1>3. Len(s) = m
  OBVIOUS
<1> HIDE DEF m
<1>4. m \in 1 .. m /\ \A j \in 1 .. m - 1 : j \in 1 .. m /\ j # m
  BY <1>1
<1>5. t \in Seq(Nat) /\ Len(t) = m
  BY <1>2, <1>3, <1>4, ExceptSeq
<1>6. t[m] = v /\ \A j \in 1 .. m : j # m => t[j] = s[j]
  BY <1>1, <1>2, <1>4
<1>7. \A j \in 1 .. m - 1 : t[j] = s[j]
  BY <1>4, <1>6
<1> QED BY <1>3, <1>5, <1>6, <1>7
-----------------------------------------------------------------------------
(* The shape of the state.                                                 *)

CodePos == [fn : Fn \cup {"script"}, at : 0 .. MaxSites]
Caller  == CodePos \cup {CodeEnd}
Place   == Caller \cup {Prompt}

ValCell == {Val(v) : v \in Value}

NatRec == [fn : Native, target : Fn \cup {"std"}, list : Seq(Num), param : Num,
           next : Nat \ {0}, running : BOOLEAN, saved_ip : CodePos, out : Seq(Value)]

(* A native in its loop; while its function runs there is an element.      *)
Looping(r) ==
  /\ r.next <= Len(r.list) + 1
  /\ r.target \in Targets(r.fn)
  /\ r.running => r.next <= Len(r.list) /\ r.target \in Fn

(* All natives but the innermost wait for a function.                      *)
NativesOK ==
  /\ natives \in Seq(NatRec) /\ Len(natives) <= MaxNatives
  /\ \A i \in 1 .. Len(natives) : Looping(natives[i])
  /\ \A i \in 1 .. Len(natives) - 1 : natives[i].running

CellsOK == stack \in Seq(Cell) /\ sp <= STACK_SIZE

PlaceOK ==
  /\ fp \in 1 .. STACK_SIZE /\ ip \in Place
  /\ ip = Prompt => natives = <<>> /\ stack = <<>>
  /\ ip = CodeEnd => natives # <<>>
  /\ Waiting => sp >= 1 /\ Last(stack) \in ValCell

ScopeRec == [fp : 1 .. STACK_SIZE, head : 0 .. MAX_HEAP]

MemoryOK ==
  /\ scopes \in Seq(ScopeRec) /\ Len(scopes) <= MAX_LOOP_NESTING
  /\ head \in 0 .. MAX_HEAP
  /\ vars \in [Var -> 0 .. MAX_HEAP] /\ inside \in BOOLEAN
  /\ defined \subseteq Var /\ errors \in 0 .. MaxErrors /\ stale \in BOOLEAN
  /\ inside => stale

Shape == NativesOK /\ CellsOK /\ PlaceOK /\ MemoryOK

-----------------------------------------------------------------------------
(* Activations lie above each other.  st and ns stand for the stack and    *)
(* the natives, us[1] .. us[n] for the activations.                        *)

Code(u) == u.p.fn \in Fn
First(u) == IF Code(u) THEN u.f ELSE 1

(* u is a native called from code v.                                       *)
NativeOn(ns, v, u) ==
  /\ u.p = CodeEnd /\ u.n \in 1 .. Len(ns) /\ u.top < STACK_SIZE
  /\ v.p = ns[u.n].saved_ip /\ v.f = u.f /\ v.top = u.top /\ v.n = u.n - 1

(* u is a function called from code or by a native v.                      *)
FrameOn(st, v, u) ==
  /\ Code(u) /\ u.p \in CodePos /\ u.f \in 3 .. u.top /\ Arity[u.p.fn] <= u.top - u.f + 1
  /\ v.p \in Caller /\ v.top = u.f - 3 /\ v.n = u.n
  /\ st[u.f - 2] = SavedIp(v.p) /\ st[u.f - 1] = SavedFp(v.f)

(* What code has pushed are values.                                        *)
Clean(st, u) == \A j \in First(u) .. u.top : st[j] \in ValCell

Views(st, ns) ==
  [p : Place, f : 1 .. STACK_SIZE, top : 0 .. Len(st), n : 0 .. Len(ns)]

On(st, ns, v, u) == NativeOn(ns, v, u) \/ FrameOn(st, v, u)

Lies(st, ns, us, i) ==
  /\ us[i] \in Views(st, ns)
  /\ us[i].p # CodeEnd => Clean(st, us[i])
  /\ i > 1 => On(st, ns, us[i - 1], us[i])

(* The nearer the running one, the higher.                                 *)
Rises(us, i, j) ==
  /\ us[i].top <= us[j].top /\ us[i].n <= us[j].n /\ us[j].n - us[i].n <= j - i
  /\ i < j /\ Code(us[j]) => us[i].top + 3 <= us[j].f

Frames(st, ns, us, n) ==
  /\ n \in Nat \ {0}
  /\ us \in [1 .. n -> Views(st, ns)]
  /\ Outermost(us[1]) /\ us[1].n = 0
  /\ \A i \in 1 .. n : Lies(st, ns, us, i)
  /\ \A j \in 1 .. n : \A i \in 1 .. j : Rises(us, i, j)

-----------------------------------------------------------------------------
(* The blocks of each activation.                                          *)

Rank(us, i) == i - us[i].n

Nested(ne, us, n) ==
  /\ ne \in Seq(Nat) /\ Len(ne) = Rank(us, n)
  /\ \A i \in 1 .. n : Code(us[i]) => ne[Rank(us, i)] > 0

Own(sc, u) == {s \in 1 .. Len(sc) : sc[s].fp = u.f}

Matched(sc, ne, us, n) ==
  /\ us[1].f = 1
  /\ \A i \in 1 .. n : us[i].p # CodeEnd => Cardinality(Own(sc, us[i])) = ne[Rank(us, i)]
  /\ \A s \in 1 .. Len(sc) : \E i \in 1 .. n : us[i].p # CodeEnd /\ sc[s].fp = us[i].f
  /\ \A s, t \in 1 .. Len(sc) : s < t => sc[s].fp <= sc[t].fp

(* Variables are below all heads.                                          *)
VarsKept == \A x \in defined : /\ vars[x] \in 1 .. head
                               /\ \A s \in 1 .. Len(scopes) : vars[x] <= scopes[s].head

Stands(us, n) ==
  /\ Frames(stack, natives, us, n) /\ us[n] = Running
  /\ Nested(nest, us, n)
  /\ ~stale => Matched(scopes, nest, us, n) /\ VarsKept

CallInv == Shape /\ \E n \in Nat : \E us \in [1 .. n -> Views(stack, natives)] : Stands(us, n)

-----------------------------------------------------------------------------
(* Reading the stack ends, and what is read is what lies there.            *)

(* A set of numbers has a least one.                                       *)
LEMMA Least ==
  ASSUME NEW T \in SUBSET Nat, T # {}
  PROVE  \E m \in T : \A n \in T : m <= n
<1>0. PICK b \in T : TRUE
  OBVIOUS
<1> DEFINE F == {T \cap (0 .. n) : n \in T \cap (0 .. b)}
           R == StrictSubsetOrdering(0 .. b)
<1>1. IsFiniteSet(0 .. b)
  BY <1>0, FS_Interval
<1>2. IsWellFoundedOn(R, FiniteSubsetsOf(0 .. b))
  BY <1>1, FS_StrictSubsetOrderingWellFounded
<1>3. F \subseteq FiniteSubsetsOf(0 .. b) /\ F # {}
  <2>1. \A n \in T \cap (0 .. b) : T \cap (0 .. n) \subseteq 0 .. b
    BY <1>0
  <2>2. b \in T \cap (0 .. b)
    BY <1>0
  <2>3. \A n \in T \cap (0 .. b) : IsFiniteSet(T \cap (0 .. n))
    BY <1>1, <2>1, FS_Subset
  <2> QED BY <2>1, <2>2, <2>3 DEF FiniteSubsetsOf
<1>4. PICK m \in T \cap (0 .. b) : \A y \in F : <<y, T \cap (0 .. m)>> \notin R
  <2> HIDE DEF R, F
  <2>1. \E x \in F : \A y \in F : ~ (<<y, x>> \in R)
    BY <1>2, <1>3, WFMin
  <2> QED BY <2>1 DEF F
<1>5. ASSUME NEW n \in T, n < m PROVE FALSE
  <2>1. n \in T \cap (0 .. b) /\ T \cap (0 .. n) \subseteq T \cap (0 .. m) /\ m \notin T \cap (0 .. n)
    BY <1>0, <1>4, <1>5
  <2>2. T \cap (0 .. n) # T \cap (0 .. m)
    BY <2>1
  <2>3. T \cap (0 .. n) \in SUBSET (0 .. b) /\ T \cap (0 .. m) \in SUBSET (0 .. b)
    BY <2>1
  <2>4. <<T \cap (0 .. n), T \cap (0 .. m)>> \in R
    BY <2>1, <2>2, <1>3, <1>4 DEF StrictSubsetOrdering
  <2> QED BY <1>4, <2>1, <2>4
<1> QED BY <1>4, <1>5

(* Each step down takes a frame or a native away.                          *)
Height(u) == IF Outermost(u) THEN 0 ELSE 1 + u.top + u.n

LEMMA CellFields ==
  ASSUME CellsOK, NEW i \in 1 .. sp
  PROVE  stack[i].ip \in [fn : Fn \cup {"script", "end"}, at : Nat] /\ stack[i].num \in Int
<1>1. stack[i] \in Cell
  BY DEF CellsOK, sp
<1>2. Value \subseteq Int /\ STACK_SIZE \in Nat /\ 0 .. MaxSites \subseteq Nat /\ 1 .. STACK_SIZE \subseteq Int
  BY StackConstants, CallConstants DEF Value, Obj
<1>3. CodeEnd \in [fn : Fn \cup {"script", "end"}, at : Nat]
  BY DEF CodeEnd, At
<1>4. CASE stack[i] \in [kind : {"val"}, num : Value, ip : {CodeEnd}]
  BY <1>2, <1>3, <1>4
<1>5. CASE stack[i] \in [kind : {"ip"}, num : {0}, ip : [fn : Fn \cup {"script", "end"}, at : 0 .. MaxSites]]
  <2>1. stack[i].num = 0 /\ stack[i].ip \in [fn : Fn \cup {"script", "end"}, at : 0 .. MaxSites]
    BY <1>5
  <2>2. stack[i].ip \in [fn : Fn \cup {"script", "end"}, at : Nat]
    BY <2>1, <1>2
  <2> QED BY <2>1, <2>2
<1>6. CASE stack[i] \in [kind : {"fp"}, num : 1 .. STACK_SIZE, ip : {CodeEnd}]
  BY <1>2, <1>3, <1>6
<1> QED BY <1>1, <1>4, <1>5, <1>6 DEF Cell

LEMMA BelowIsLower ==
  ASSUME CellsOK, NativesOK, NEW u \in View, ~ Outermost(u)
  PROVE  Below(u) \in View /\ Height(Below(u)) < Height(u) /\ Height(u) \in Nat
<1>0. sp \in Nat /\ Len(natives) \in Nat /\ MaxSites \in Nat
  BY StackConstants DEF CellsOK, NativesOK, sp
<1>1. u.p \in [fn : Fn \cup {"script", "prompt", "end"}, at : Nat] /\ u.f \in Int
      /\ u.top \in 0 .. sp /\ u.n \in 0 .. Len(natives)
  BY DEF View
<1>2. Height(u) = 1 + u.top + u.n /\ Height(u) \in Nat
  BY <1>0, <1>1 DEF Height
<1>3. CASE u.p = CodeEnd /\ u.n > 0
  <2>1. Below(u) = [u EXCEPT !.p = natives[u.n].saved_ip, !.n = @ - 1]
    <3>1. u.p.fn \notin Fn
      BY <1>3, StackConstants DEF CodeEnd, At
    <3> QED BY <1>3, <3>1 DEF Below
  <2>2. natives[u.n] \in NatRec
    BY <1>1, <1>3, <1>0 DEF NativesOK
  <2>3. natives[u.n].saved_ip \in [fn : Fn \cup {"script", "prompt", "end"}, at : Nat]
    BY <2>2, <1>0 DEF NatRec, CodePos
  <2>4. u.n - 1 \in 0 .. Len(natives)
    BY <1>0, <1>1, <1>3
  <2>5. /\ Below(u) \in View /\ Below(u).top = u.top /\ Below(u).n = u.n - 1
    BY <2>1, <2>3, <2>4 DEF View
  <2>6. Height(Below(u)) = 0 \/ Height(Below(u)) = 1 + u.top + (u.n - 1)
    BY <2>5 DEF Height
  <2> QED BY <1>0, <1>1, <1>2, <2>5, <2>6
<1>4. CASE ~ (u.p = CodeEnd /\ u.n > 0) /\ u.p.fn \in Fn /\ u.f \in 3 .. u.top
  <2>1. Below(u) = [p |-> stack[u.f - 2].ip, f |-> stack[u.f - 1].num, top |-> u.f - 3, n |-> u.n]
    BY <1>4 DEF Below
  <2>2. u.f - 2 \in 1 .. sp /\ u.f - 1 \in 1 .. sp /\ u.f - 3 \in 0 .. sp /\ u.f - 3 < u.top
    <3>1. u.f \in 3 .. u.top /\ u.f \in Int /\ u.top \in 0 .. sp /\ sp \in Nat
      BY <1>0, <1>1, <1>4
    <3>2. \A a \in Int, c \in Nat : \A b \in 0 .. c :
            a \in 3 .. b => a - 2 \in 1 .. c /\ a - 1 \in 1 .. c /\ a - 3 \in 0 .. c /\ a - 3 < b
      OBVIOUS
    <3> QED BY <3>1, <3>2
  <2>3. /\ stack[u.f - 2].ip \in [fn : Fn \cup {"script", "prompt", "end"}, at : Nat]
        /\ stack[u.f - 1].num \in Int
    BY <2>2, CellFields
  <2>4. Below(u) \in View /\ Below(u).top = u.f - 3 /\ Below(u).n = u.n
    BY <2>1, <2>2, <2>3, <1>1 DEF View
  <2>5. Height(Below(u)) = 0 \/ Height(Below(u)) = 1 + (u.f - 3) + u.n
    BY <2>4 DEF Height
  <2>6. 1 + (u.f - 3) + u.n < 1 + u.top + u.n /\ 0 < 1 + u.top + u.n
    <3>1. u.f \in Int /\ u.top \in Nat /\ u.n \in Nat /\ u.f - 3 < u.top
      BY <1>0, <1>1, <2>2
    <3>2. \A a \in Int, b, c \in Nat : a - 3 < b => 1 + (a - 3) + c < 1 + b + c /\ 0 < 1 + b + c
      OBVIOUS
    <3> QED BY <3>1, <3>2
  <2>7. Height(Below(u)) < 1 + u.top + u.n
    BY <2>5, <2>6
  <2> QED BY <1>2, <2>4, <2>7
<1>5. CASE ~ (u.p = CodeEnd /\ u.n > 0) /\ ~ (u.p.fn \in Fn /\ u.f \in 3 .. u.top)
  <2>1. Below(u) = [u EXCEPT !.p = Prompt]
    BY <1>5 DEF Below
  <2>2. Prompt \in [fn : Fn \cup {"script", "prompt", "end"}, at : Nat] /\ Prompt.fn = "prompt"
    BY DEF Prompt, At
  <2>3. Below(u) \in View /\ Below(u).p = Prompt
    BY <2>1, <2>2, <1>1 DEF View
  <2>4. Height(Below(u)) = 0
    BY <2>2, <2>3 DEF Height, Outermost
  <2> QED BY <1>0, <1>1, <1>2, <2>3, <2>4
<1> QED BY <1>3, <1>4, <1>5

(* So what fails of a view only if it fails of the one below, never fails. *)
LEMMA NoneBad ==
  ASSUME CellsOK, NativesOK, NEW B \in SUBSET View,
         \A u \in B : ~ Outermost(u) /\ Below(u) \in B
  PROVE  B = {}
<1> SUFFICES ASSUME B # {} PROVE FALSE
  OBVIOUS
<1>1. \A u \in B : Height(Below(u)) < Height(u) /\ Height(u) \in Nat
  BY BelowIsLower
<1> DEFINE T == {Height(u) : u \in B}
<1>2. T \subseteq Nat /\ T # {}
  BY <1>1
<1>3. PICK m \in T : \A n \in T : m <= n
  <2> HIDE DEF T
  <2> QED BY <1>2, Least
<1>4. PICK u \in B : m = Height(u)
  BY <1>3
<1>5. Below(u) \in B /\ Height(Below(u)) \in Nat
  BY <1>1
<1>6. Height(Below(u)) \in T
  BY <1>5
<1> HIDE DEF T
<1>7. m <= Height(Below(u)) /\ Height(Below(u)) < Height(u) /\ Height(u) \in Nat
  BY <1>1, <1>3, <1>6
<1> QED BY <1>4, <1>5, <1>7

(* c leads from the outermost view to u.                                   *)
Chain(c, u) ==
  \E n \in Nat \ {0} :
    /\ c \in [1 .. n -> View] /\ c[n] = u
    /\ Outermost(c[1])
    /\ \A i \in 1 .. n - 1 : ~ Outermost(c[i + 1]) /\ c[i] = Below(c[i + 1])

LEMMA ChainEnds ==
  ASSUME NEW u \in View, Outermost(u)
  PROVE  Chain(<<u>>, u) /\ \A c : Chain(c, u) => c = <<u>>
<1>1. Chain(<<u>>, u)
  <2>1. <<u>> \in [1 .. 1 -> View] /\ <<u>>[1] = u /\ 1 \in Nat \ {0} /\ 1 .. 1 - 1 = {}
    OBVIOUS
  <2> QED BY <2>1 DEF Chain
<1>2. ASSUME NEW c, Chain(c, u) PROVE c = <<u>>
  <2>1. PICK n \in Nat \ {0} :
          /\ c \in [1 .. n -> View] /\ c[n] = u
          /\ \A i \in 1 .. n - 1 : ~ Outermost(c[i + 1]) /\ c[i] = Below(c[i + 1])
    BY <1>2 DEF Chain
  <2>2. n = 1
    <3>1. SUFFICES ASSUME n > 1 PROVE FALSE
      BY <2>1
    <3>2. n - 1 \in 1 .. n - 1 /\ (n - 1) + 1 = n
      BY <2>1, <3>1
    <3>3. ~ Outermost(c[(n - 1) + 1])
      BY <2>1, <3>2
    <3> QED BY <2>1, <3>2, <3>3
  <2> QED BY <2>1, <2>2
<1> QED BY <1>1, <1>2

LEMMA ChainGoesOn ==
  ASSUME CellsOK, NativesOK, NEW u \in View, ~ Outermost(u)
  PROVE  /\ \A d : Chain(d, Below(u)) => Chain(Append(d, u), u)
         /\ \A c : Chain(c, u) => \E d : Chain(d, Below(u)) /\ c = Append(d, u)
<1>1. ASSUME NEW d, Chain(d, Below(u)) PROVE Chain(Append(d, u), u)
  <2>1. PICK n \in Nat \ {0} :
          /\ d \in [1 .. n -> View] /\ d[n] = Below(u)
          /\ Outermost(d[1])
          /\ \A i \in 1 .. n - 1 : ~ Outermost(d[i + 1]) /\ d[i] = Below(d[i + 1])
    BY <1>1 DEF Chain
  <2> DEFINE c == Append(d, u)
  <2>2. d \in Seq(View) /\ Len(d) = n
    BY <2>1
  <2>a. /\ c \in Seq(View) /\ Len(c) = n + 1 /\ c[n + 1] = u
        /\ \A i \in 1 .. n : c[i] = d[i]
    BY <2>2, AppendProperties
  <2> HIDE DEF c
  <2>3. /\ c \in [1 .. n + 1 -> View] /\ c[n + 1] = u
        /\ \A i \in 1 .. n : c[i] = d[i]
    BY <2>a, LenProperties
  <2>4. Outermost(c[1])
    BY <2>1, <2>3
  <2>5. ASSUME NEW i \in 1 .. n PROVE ~ Outermost(c[i + 1]) /\ c[i] = Below(c[i + 1])
    <3>1. CASE i = n
      BY <3>1, <2>1, <2>3
    <3>2. CASE i # n
      <4>1. i \in 1 .. n - 1 /\ i + 1 \in 1 .. n
        BY <3>2
      <4> QED BY <4>1, <2>1, <2>3
    <3> QED BY <3>1, <3>2
  <2>6. n + 1 \in Nat \ {0} /\ (n + 1) - 1 = n
    OBVIOUS
  <2>7. Chain(c, u)
    BY <2>3, <2>4, <2>5, <2>6 DEF Chain
  <2> QED BY <2>7 DEF c
<1>2. ASSUME NEW c, Chain(c, u) PROVE \E d : Chain(d, Below(u)) /\ c = Append(d, u)
  <2>1. PICK n \in Nat \ {0} :
          /\ c \in [1 .. n -> View] /\ c[n] = u
          /\ Outermost(c[1])
          /\ \A i \in 1 .. n - 1 : ~ Outermost(c[i + 1]) /\ c[i] = Below(c[i + 1])
    BY <1>2 DEF Chain
  <2>2. n > 1
    BY <2>1
  <2> DEFINE d == [i \in 1 .. n - 1 |-> c[i]]
  <2>3. d \in [1 .. n - 1 -> View] /\ n - 1 \in Nat \ {0} /\ \A i \in 1 .. n - 1 : d[i] = c[i]
    BY <2>1, <2>2
  <2>4. d \in Seq(View) /\ Len(d) = n - 1
    BY <2>3
  <2>5. c = Append(d, u)
    <3> HIDE DEF d
    <3>1. /\ Append(d, u) \in Seq(View) /\ Len(Append(d, u)) = (n - 1) + 1
          /\ Append(d, u)[(n - 1) + 1] = u
          /\ \A i \in 1 .. n - 1 : Append(d, u)[i] = d[i]
      BY <2>4, AppendProperties
    <3>2. (n - 1) + 1 = n
      OBVIOUS
    <3>3. Append(d, u) \in [1 .. n -> View]
      BY <3>1, <3>2, LenProperties
    <3>4. \A i \in 1 .. n : Append(d, u)[i] = c[i]
      <4> TAKE i \in 1 .. n
      <4>1. CASE i = n
        BY <4>1, <3>1, <3>2, <2>1
      <4>2. CASE i # n
        BY <4>2, <3>1, <2>3
      <4> QED BY <4>1, <4>2
    <3> QED BY <3>3, <3>4, <2>1
  <2>6. Chain(d, Below(u))
    <3> HIDE DEF d
    <3>1. d[n - 1] = Below(u)
      <4>1. n - 1 \in 1 .. n - 1 /\ (n - 1) + 1 = n
        BY <2>2
      <4>2. c[n - 1] = Below(c[(n - 1) + 1])
        BY <4>1, <2>1
      <4> QED BY <4>1, <4>2, <2>1, <2>3
    <3>2. Outermost(d[1])
      BY <2>1, <2>2, <2>3
    <3>3. ASSUME NEW i \in 1 .. (n - 1) - 1 PROVE ~ Outermost(d[i + 1]) /\ d[i] = Below(d[i + 1])
      <4>1. i \in 1 .. n - 1 /\ i + 1 \in 1 .. n - 1
        BY <2>2
      <4> QED BY <4>1, <2>1, <2>3
    <3> QED BY <2>3, <3>1, <3>2, <3>3 DEF Chain
  <2> QED BY <2>5, <2>6
<1> QED BY <1>1, <1>2

LEMMA OneChain ==
  ASSUME CellsOK, NativesOK, NEW u \in View
  PROVE  /\ \E c : Chain(c, u)
         /\ \A c, d : Chain(c, u) /\ Chain(d, u) => c = d
<1> DEFINE B == {v \in View : ~ \E c : Chain(c, v)}
           D == {v \in View : ~ \A c, d : Chain(c, v) /\ Chain(d, v) => c = d}
<1>1. B = {}
  <2>1. ASSUME NEW v \in B PROVE ~ Outermost(v) /\ Below(v) \in B
    <3>1. v \in View /\ ~ \E c : Chain(c, v)
      OBVIOUS
    <3>2. ~ Outermost(v)
      BY <3>1, ChainEnds
    <3>3. ~ \E d : Chain(d, Below(v))
      BY <3>1, <3>2, ChainGoesOn
    <3> QED BY <3>1, <3>2, <3>3, BelowIsLower
  <2>2. B \in SUBSET View
    OBVIOUS
  <2> HIDE DEF B
  <2> QED BY <2>1, <2>2, NoneBad
<1>2. D = {}
  <2>1. ASSUME NEW v \in D PROVE ~ Outermost(v) /\ Below(v) \in D
    <3>1. PICK c, d : v \in View /\ Chain(c, v) /\ Chain(d, v) /\ c # d
      OBVIOUS
    <3>2. ~ Outermost(v)
      BY <3>1, ChainEnds
    <3>3. PICK a : Chain(a, Below(v)) /\ c = Append(a, v)
      BY <3>1, <3>2, ChainGoesOn
    <3>4. PICK b : Chain(b, Below(v)) /\ d = Append(b, v)
      BY <3>1, <3>2, ChainGoesOn
    <3>5. a # b
      BY <3>1, <3>3, <3>4
    <3>6. Below(v) \in View
      BY <3>1, <3>2, BelowIsLower
    <3> QED BY <3>2, <3>3, <3>4, <3>5, <3>6
  <2>2. D \in SUBSET View
    OBVIOUS
  <2> HIDE DEF D
  <2> QED BY <2>1, <2>2, NoneBad
<1> QED BY <1>1, <1>2

(* The recursive definition of Down is one.                                *)
LEMMA DownStep ==
  ASSUME CellsOK, NativesOK
  PROVE  \A u \in View : Down[u] = IF Outermost(u) THEN <<u>> ELSE Append(Down[Below(u)], u)
<1> DEFINE G == [u \in View |-> CHOOSE c : Chain(c, u)]
<1>1. \A u \in View : Chain(G[u], u)
  BY OneChain
<1>2. ASSUME NEW u \in View
      PROVE  G[u] = IF Outermost(u) THEN <<u>> ELSE Append(G[Below(u)], u)
  <2> HIDE DEF G
  <2>1. CASE Outermost(u)
    BY <1>1, <2>1, ChainEnds
  <2>2. CASE ~ Outermost(u)
    <3>1. Below(u) \in View
      BY <2>2, BelowIsLower
    <3>2. Chain(Append(G[Below(u)], u), u)
      BY <2>2, <3>1, <1>1, ChainGoesOn
    <3>3. Chain(G[u], u)
      BY <1>1
    <3>4. G[u] = Append(G[Below(u)], u)
      BY <3>2, <3>3, OneChain
    <3> QED BY <2>2, <3>4
  <2> QED BY <2>1, <2>2
<1>3. G = [u \in View |-> IF Outermost(u) THEN <<u>> ELSE Append(G[Below(u)], u)]
  BY <1>2
<1>4. Down = [u \in View |-> IF Outermost(u) THEN <<u>> ELSE Append(Down[Below(u)], u)]
  <2> HIDE DEF G
  <2> QED BY <1>3 DEF Down
<1> QED BY <1>4

LEMMA DownIsChain ==
  ASSUME CellsOK, NativesOK, NEW u \in View
  PROVE  Chain(Down[u], u)
<1> DEFINE B == {v \in View : ~ Chain(Down[v], v)}
<1>1. ASSUME NEW v \in B PROVE ~ Outermost(v) /\ Below(v) \in B
  <2>1. v \in View /\ ~ Chain(Down[v], v)
    OBVIOUS
  <2>2. ~ Outermost(v)
    BY <2>1, DownStep, ChainEnds
  <2>3. Below(v) \in View /\ Down[v] = Append(Down[Below(v)], v)
    BY <2>1, <2>2, DownStep, BelowIsLower
  <2>4. ~ Chain(Down[Below(v)], Below(v))
    BY <2>1, <2>2, <2>3, ChainGoesOn
  <2> QED BY <2>2, <2>3, <2>4
<1>2. B = {}
  <2> HIDE DEF B
  <2>1. B \in SUBSET View
    BY DEF B
  <2> QED BY <1>1, <2>1, NoneBad
<1> QED BY <1>2

LEMMA ViewsAreViews == CellsOK /\ NativesOK => Views(stack, natives) \subseteq View
<1> SUFFICES ASSUME CellsOK, NativesOK, NEW u \in Views(stack, natives) PROVE u \in View
  OBVIOUS
<1>1. MaxSites \in Nat /\ STACK_SIZE \in Nat /\ 1 .. STACK_SIZE \subseteq Int
  BY StackConstants, CallConstants
<1>2. Place \subseteq [fn : Fn \cup {"script", "prompt", "end"}, at : Nat]
  BY <1>1 DEF Place, Caller, CodePos, CodeEnd, Prompt, At
<1> QED BY <1>1, <1>2 DEF Views, View, sp

LEMMA OnIsBelow ==
  ASSUME CellsOK, NativesOK, NEW v \in Views(stack, natives), NEW u \in Views(stack, natives),
         On(stack, natives, v, u)
  PROVE  v = Below(u) /\ ~ Outermost(u)
<1>0. \A w \in Views(stack, natives) : w = [p |-> w.p, f |-> w.f, top |-> w.top, n |-> w.n]
  BY DEF Views
<1>1. CASE NativeOn(natives, v, u)
  <2>1. u.p = CodeEnd /\ u.p.fn = "end" /\ u.n > 0 /\ u.p.fn \notin Fn
    <3>1. u.n \in 1 .. Len(natives) /\ Len(natives) \in Nat
      BY <1>1 DEF NativeOn, NativesOK
    <3> QED BY <1>1, <3>1, StackConstants DEF NativeOn, CodeEnd, At
  <2>2. Below(u) = [u EXCEPT !.p = natives[u.n].saved_ip, !.n = @ - 1]
    BY <2>1 DEF Below
  <2>3. v.p = natives[u.n].saved_ip /\ v.f = u.f /\ v.top = u.top /\ v.n = u.n - 1
    BY <1>1 DEF NativeOn
  <2>4. Below(u) = [p |-> natives[u.n].saved_ip, f |-> u.f, top |-> u.top, n |-> u.n - 1]
    BY <2>2, <1>0
  <2> QED BY <2>1, <2>3, <2>4, <1>0 DEF Outermost
<1>2. CASE FrameOn(stack, v, u)
  <2>1. u.p.fn \in Fn /\ u.f \in 3 .. u.top /\ u.p # CodeEnd /\ ~ Outermost(u)
    BY <1>2, StackConstants DEF FrameOn, Code, CodeEnd, At, Outermost
  <2>2. Below(u) = [p |-> stack[u.f - 2].ip, f |-> stack[u.f - 1].num, top |-> u.f - 3, n |-> u.n]
    BY <2>1 DEF Below
  <2>3. stack[u.f - 2].ip = v.p /\ stack[u.f - 1].num = v.f /\ v.top = u.f - 3 /\ v.n = u.n
    BY <1>2 DEF FrameOn, SavedIp, SavedFp
  <2> QED BY <2>1, <2>2, <2>3, <1>0
<1> QED BY <1>1, <1>2 DEF On

LEMMA Reading ==
  CellsOK /\ NativesOK =>
    \A n : \A us : Frames(stack, natives, us, n) /\ us[n] = Running => Unwound = us
<1> SUFFICES ASSUME CellsOK, NativesOK, NEW n, NEW us,
                    Frames(stack, natives, us, n), us[n] = Running
             PROVE  Unwound = us
  OBVIOUS
<1>1. /\ n \in Nat \ {0} /\ us \in [1 .. n -> Views(stack, natives)] /\ Outermost(us[1])
      /\ \A i \in 1 .. n : i > 1 => On(stack, natives, us[i - 1], us[i])
  BY DEF Frames, Lies
<1>2. ASSUME NEW i \in 1 .. n - 1 PROVE ~ Outermost(us[i + 1]) /\ us[i] = Below(us[i + 1])
  <2>1. i \in 1 .. n /\ i + 1 \in 1 .. n /\ i + 1 > 1 /\ (i + 1) - 1 = i
    BY <1>1
  <2>2. On(stack, natives, us[i], us[i + 1]) /\ us[i] \in Views(stack, natives)
        /\ us[i + 1] \in Views(stack, natives)
    BY <1>1, <2>1
  <2> QED BY <2>2, OnIsBelow
<1>3. us \in [1 .. n -> View] /\ Running \in View
  <2>1. n \in 1 .. n
    BY <1>1
  <2>2. Views(stack, natives) \subseteq View
    BY ViewsAreViews
  <2>3. \A i \in 1 .. n : us[i] \in View
    BY <1>1, <2>2
  <2> QED BY <1>1, <2>1, <2>3
<1>4. Chain(us, Running)
  BY <1>1, <1>2, <1>3 DEF Chain
<1>5. Chain(Down[Running], Running)
  BY <1>3, DownIsChain
<1> QED BY <1>3, <1>4, <1>5, OneChain DEF Unwound

-----------------------------------------------------------------------------
(* What a step makes of the activations.  The ones up to the k-th stay, if *)
(* their cells and natives do.                                             *)
Keeps(st, ns, us, n, k, s2, n2) ==
  /\ Frames(st, ns, us, n) /\ k \in 1 .. n
  /\ Len(st) \in Nat /\ Len(ns) \in Nat /\ Len(s2) \in Nat /\ Len(n2) \in Nat
  /\ us[k].top <= Len(s2) /\ \A j \in 1 .. us[k].top : s2[j] = st[j]
  /\ us[k].n <= Len(n2) /\ \A j \in 1 .. us[k].n : n2[j].saved_ip = ns[j].saved_ip

Kept(us, k) == [i \in 1 .. k |-> us[i]]

(* Arithmetic of places, as the steps below use it.                        *)
LEMMA Inner ==
  /\ \A a, b, c \in Int : b <= c => a .. b \subseteq a .. c
  /\ \A a, b, c \in Int : 1 <= a /\ b <= c => a .. b \subseteq 1 .. c
  /\ \A a, b, c \in Int : a \in 3 .. b /\ b <= c => a - 1 \in 1 .. c /\ a - 2 \in 1 .. c
  /\ \A a \in Int : 3 <= a => a - 1 \in 1 .. a - 1 /\ a - 2 \in 1 .. a - 1
  /\ \A a, b, c \in Int : a \in 0 .. b /\ b <= c => a \in 0 .. c
  /\ \A a, b, c \in Int : a \in 1 .. b /\ b <= c => a \in 1 .. c
  /\ \A a, b \in Int : 1 <= a /\ a <= b => a \in 1 .. b
OBVIOUS

LEMMA ViewTypes ==
  ASSUME NEW st, NEW ns, Len(st) \in Nat, Len(ns) \in Nat, NEW u \in Views(st, ns)
  PROVE  /\ u.p \in Place /\ u.f \in 1 .. STACK_SIZE /\ u.f \in Nat \ {0}
         /\ u.top \in Nat /\ u.top <= Len(st) /\ u.n \in Nat /\ u.n <= Len(ns)
<1>1. u.p \in Place /\ u.f \in 1 .. STACK_SIZE /\ u.top \in 0 .. Len(st) /\ u.n \in 0 .. Len(ns)
  BY DEF Views
<1>2. \A m \in Nat : \A x \in 0 .. m : x \in Nat /\ x <= m
  OBVIOUS
<1>3. \A m \in Nat : \A x \in 1 .. m : x \in Nat \ {0}
  OBVIOUS
<1>4. u.top \in Nat /\ u.top <= Len(st) /\ u.n \in Nat /\ u.n <= Len(ns)
  BY <1>1, <1>2
<1>5. u.f \in Nat \ {0}
  BY <1>1, <1>3, CallConstants
<1> QED BY <1>1, <1>4, <1>5

LEMMA Keep ==
  ASSUME NEW st, NEW ns, NEW us, NEW n, NEW k, NEW s2, NEW n2, Keeps(st, ns, us, n, k, s2, n2)
  PROVE  Frames(s2, n2, Kept(us, k), k)
<1> DEFINE ws == Kept(us, k)
<1>1. /\ n \in Nat \ {0} /\ us \in [1 .. n -> Views(st, ns)]
      /\ Outermost(us[1]) /\ us[1].n = 0
      /\ \A i \in 1 .. n : Lies(st, ns, us, i)
      /\ \A j \in 1 .. n : \A i \in 1 .. j : Rises(us, i, j)
      /\ k \in 1 .. n
  BY DEF Keeps, Frames
<1>2. k \in Nat \ {0} /\ \A i \in 1 .. k : i \in 1 .. n /\ ws[i] = us[i]
  BY <1>1 DEF Kept
<1>3. ASSUME NEW i \in 1 .. k
      PROVE  /\ us[i].top \in 0 .. Len(st) /\ us[i].top <= us[k].top /\ us[k].top <= Len(s2)
             /\ us[i].n \in 0 .. Len(ns) /\ us[i].n <= us[k].n /\ us[k].n <= Len(n2)
             /\ us[i].f \in Int /\ us[i].f >= 1 /\ us[i].top \in Int /\ us[i].n \in Int
             /\ us[k].top \in Int /\ us[k].n \in Int
             /\ us[i].top >= 0 /\ us[i].n >= 0
             /\ Len(st) \in Nat /\ Len(s2) \in Nat /\ Len(ns) \in Nat /\ Len(n2) \in Nat
  <2>1. us[i] \in Views(st, ns) /\ us[k] \in Views(st, ns) /\ Rises(us, i, k)
    BY <1>1, <1>2
  <2>2. Len(st) \in Nat /\ Len(s2) \in Nat /\ Len(ns) \in Nat /\ Len(n2) \in Nat
        /\ us[k].top <= Len(s2) /\ us[k].n <= Len(n2) /\ STACK_SIZE \in Nat
    BY CallConstants DEF Keeps
  <2> QED BY <2>1, <2>2 DEF Views, Rises
<1>4. ASSUME NEW i \in 1 .. k PROVE us[i] \in Views(s2, n2)
  <2>1. us[i].top <= Len(s2) /\ us[i].n <= Len(n2)
    <3>1. \A a, b, c \in Int : a <= b /\ b <= c => a <= c
      OBVIOUS
    <3> QED BY <1>3, <3>1
  <2>2. us[i].top \in 0 .. Len(s2) /\ us[i].n \in 0 .. Len(n2)
    BY <1>3, <2>1
  <2>3. us[i] \in Views(st, ns)
    BY <1>1, <1>2
  <2> QED BY <2>2, <2>3 DEF Views
<1>5. ASSUME NEW i \in 1 .. k PROVE us[i].p # CodeEnd => Clean(s2, us[i])
  <2> SUFFICES ASSUME us[i].p # CodeEnd, NEW j \in First(us[i]) .. us[i].top
               PROVE  s2[j] \in ValCell
    BY DEF Clean
  <2>1. Clean(st, us[i])
    BY <1>1, <1>2 DEF Lies
  <2>2. First(us[i]) \in Int /\ 1 <= First(us[i])
    BY <1>3 DEF First
  <2>3. j \in 1 .. us[k].top
    BY <1>3, <2>2, Inner
  <2> QED BY <2>1, <2>3 DEF Clean, Keeps
<1>6. ASSUME NEW i \in 1 .. k, i > 1 PROVE On(s2, n2, us[i - 1], us[i])
  <2>1. On(st, ns, us[i - 1], us[i])
    BY <1>1, <1>2, <1>6 DEF Lies
  <2>2. CASE NativeOn(ns, us[i - 1], us[i])
    <3>0. us[i].n \in 1 .. Len(ns)
      BY <2>2 DEF NativeOn
    <3>a. us[i].n \in Int /\ 1 <= us[i].n
      BY <3>0, <1>3
    <3>1. us[i].n \in 1 .. us[k].n /\ us[i].n \in 1 .. Len(n2)
      <4>1. us[i].n \in 1 .. us[k].n
        BY <3>a, <1>3, Inner
      <4> QED BY <4>1, <1>3, Inner
    <3>2. n2[us[i].n].saved_ip = ns[us[i].n].saved_ip
      BY <3>1 DEF Keeps
    <3> QED BY <2>2, <3>1, <3>2 DEF On, NativeOn
  <2>3. CASE FrameOn(st, us[i - 1], us[i])
    <3>0. us[i].f \in 3 .. us[i].top
      BY <2>3 DEF FrameOn
    <3>1. us[i].f - 1 \in 1 .. us[k].top /\ us[i].f - 2 \in 1 .. us[k].top
      BY <1>3, <3>0, Inner
    <3>2. s2[us[i].f - 1] = st[us[i].f - 1] /\ s2[us[i].f - 2] = st[us[i].f - 2]
      BY <3>1 DEF Keeps
    <3> QED BY <2>3, <3>2 DEF On, FrameOn
  <2> QED BY <2>1, <2>2, <2>3 DEF On
<1>7. ASSUME NEW i \in 1 .. k PROVE Lies(s2, n2, ws, i)
  <2>1. ws[i] = us[i] /\ (i > 1 => ws[i - 1] = us[i - 1])
    BY <1>2
  <2> QED BY <2>1, <1>4, <1>5, <1>6 DEF Lies
<1>8. ASSUME NEW j \in 1 .. k, NEW i \in 1 .. j PROVE Rises(ws, i, j)
  <2>1. ws[j] = us[j] /\ ws[i] = us[i] /\ Rises(us, i, j)
    BY <1>1, <1>2
  <2> QED BY <2>1 DEF Rises
<1>9. ws \in [1 .. k -> Views(s2, n2)] /\ ws[1] = us[1]
  <2>1. \A i \in 1 .. k : us[i] \in Views(s2, n2)
    BY <1>4
  <2>2. 1 \in 1 .. k
    BY <1>2
  <2> QED BY <2>1, <2>2, <1>2 DEF Kept
<1> HIDE DEF ws
<1>10. Frames(s2, n2, ws, k)
  BY <1>1, <1>2, <1>7, <1>8, <1>9 DEF Frames
<1> QED BY <1>10 DEF ws

(* The running one, of code, pushes, pops or moves on: it becomes w.       *)
Retops(st, ns, us, n, s2, w) ==
  /\ Frames(st, ns, us, n)
  /\ Len(st) \in Nat /\ Len(ns) \in Nat /\ Len(s2) \in Nat
  /\ us[n].p # CodeEnd /\ w.p # CodeEnd /\ w.p.fn = us[n].p.fn
  /\ w \in Views(s2, ns) /\ w.f = us[n].f /\ w.n = us[n].n
  /\ Code(w) => Arity[w.p.fn] <= w.top - w.f + 1 /\ w.p \in CodePos
  /\ Clean(s2, w)
  /\ \A j \in 1 .. First(w) - 1 : s2[j] = st[j]

Retopped(us, n, w) == [i \in 1 .. n |-> IF i = n THEN w ELSE us[i]]

LEMMA Retop ==
  ASSUME NEW st, NEW ns, NEW us, NEW n, NEW s2, NEW w, Retops(st, ns, us, n, s2, w)
  PROVE  Frames(s2, ns, Retopped(us, n, w), n)
<1> DEFINE ws == Retopped(us, n, w)
<1>1. /\ n \in Nat \ {0} /\ us \in [1 .. n -> Views(st, ns)]
      /\ Outermost(us[1]) /\ us[1].n = 0
      /\ \A i \in 1 .. n : Lies(st, ns, us, i)
      /\ \A j \in 1 .. n : \A i \in 1 .. j : Rises(us, i, j)
  BY DEF Retops, Frames
<1>2. n \in 1 .. n /\ 1 \in 1 .. n /\ ws[n] = w /\ \A i \in 1 .. n - 1 : i \in 1 .. n /\ ws[i] = us[i]
  BY <1>1 DEF Retopped
<1>3. Len(st) \in Nat /\ Len(ns) \in Nat /\ Len(s2) \in Nat /\ STACK_SIZE \in Nat
  BY CallConstants DEF Retops
<1>4. CASE n = 1
  <2>1. ws = [i \in 1 .. 1 |-> w] /\ ws[1] = w
    BY <1>4, <1>2 DEF Retopped
  <2>2. Outermost(w) /\ w.n = 0 /\ w \in Views(s2, ns) /\ Clean(s2, w)
    BY <1>1, <1>4 DEF Retops, Outermost
  <2>3. Lies(s2, ns, ws, 1)
    BY <2>1, <2>2 DEF Lies
  <2>4. Rises(ws, 1, 1)
    BY <2>1, <2>2, <1>3 DEF Rises, Views
  <2>5. \A i \in 1 .. 1 : i = 1
    OBVIOUS
  <2> HIDE DEF ws
  <2>6. ws \in [1 .. 1 -> Views(s2, ns)]
    BY <2>1, <2>2
  <2>7. \A j \in 1 .. 1 : \A i \in 1 .. j : j = 1 /\ i = 1
    OBVIOUS
  <2>8. Frames(s2, ns, ws, 1)
    BY <2>1, <2>2, <2>3, <2>4, <2>5, <2>6, <2>7 DEF Frames
  <2> QED BY <2>8, <1>4 DEF ws
<1>5. CASE n > 1
  <2>1. On(st, ns, us[n - 1], us[n]) /\ us[n].p # CodeEnd
    BY <1>1, <1>2, <1>5 DEF Lies, Retops
  <2>2. FrameOn(st, us[n - 1], us[n])
    BY <2>1 DEF On, NativeOn
  <2>3. /\ Code(w) /\ First(w) = w.f /\ w.f = us[n].f /\ w.p \in CodePos
        /\ Arity[w.p.fn] <= w.top - w.f + 1 /\ Arity[w.p.fn] \in Nat \ {0}
        /\ w.f \in 1 .. STACK_SIZE /\ w.top \in 0 .. Len(s2) /\ w.n = us[n].n
    BY <2>2, StackConstants DEF FrameOn, Code, First, Retops, Views
  <2>a. w.f \in Int /\ w.top \in Int /\ 3 <= w.f /\ us[n - 1].top = w.f - 3
    <3>1. us[n] \in Views(st, ns)
      BY <1>1, <1>2
    <3>2. us[n].f \in Int /\ us[n].top \in Int
      BY <3>1, <1>3 DEF Views
    <3>3. us[n].f \in 3 .. us[n].top
      BY <2>2 DEF FrameOn
    <3> QED BY <2>2, <2>3, <3>2, <3>3, <1>3 DEF FrameOn
  <2>4. w.f \in 3 .. w.top /\ w.f - 3 < w.top /\ us[n - 1].top = w.f - 3
    <3>1. \A f, t \in Int, a \in Nat \ {0} : 3 <= f /\ a <= t - f + 1 => f \in 3 .. t /\ f - 3 < t
      OBVIOUS
    <3> QED BY <2>3, <2>a, <3>1
  <2>5. n - 1 \in 1 .. n /\ n - 1 \in Nat \ {0}
    BY <1>1, <1>5
  <2>6. us[n - 1].n = us[n].n /\ us[n].n \in 0 .. Len(ns)
    <3>1. us[n] \in Views(st, ns)
      BY <1>1, <1>2
    <3> QED BY <2>2, <3>1 DEF FrameOn, Views
  <2>7. Keeps(st, ns, us, n, n - 1, s2, ns)
    <3>1. us[n - 1].top <= Len(s2) /\ us[n - 1].n <= Len(ns)
      BY <2>3, <2>4, <2>6, <1>3
    <3>2. \A j \in 1 .. us[n - 1].top : j \in 1 .. First(w) - 1
      BY <2>3, <2>4, <1>3
    <3> QED BY <3>1, <3>2, <2>5, <1>3 DEF Keeps, Retops
  <2> DEFINE vs == Kept(us, n - 1)
  <2>8. Frames(s2, ns, vs, n - 1)
    BY <2>7, Keep
  <2>9. \A i \in 1 .. n - 1 : vs[i] = us[i] /\ ws[i] = vs[i]
    BY <1>2 DEF Kept
  <2> HIDE DEF vs, ws
  <2>10. /\ vs \in [1 .. n - 1 -> Views(s2, ns)] /\ Outermost(vs[1]) /\ vs[1].n = 0
         /\ \A i \in 1 .. n - 1 : Lies(s2, ns, vs, i)
         /\ \A j \in 1 .. n - 1 : \A i \in 1 .. j : Rises(vs, i, j)
    BY <2>8 DEF Frames
  <2>11. On(s2, ns, us[n - 1], w)
    <3>1. w.f - 2 \in 1 .. First(w) - 1 /\ w.f - 1 \in 1 .. First(w) - 1
      BY <2>3, <2>a, Inner
    <3>2. s2[w.f - 2] = st[w.f - 2] /\ s2[w.f - 1] = st[w.f - 1]
      BY <3>1 DEF Retops
    <3>3. FrameOn(s2, us[n - 1], w)
      BY <3>2, <2>2, <2>3, <2>4 DEF FrameOn
    <3> QED BY <3>3 DEF On
  <2>12. ASSUME NEW i \in 1 .. n PROVE Lies(s2, ns, ws, i)
    <3>1. CASE i = n
      <4>1. ws[i - 1] = us[i - 1] /\ ws[i] = w
        BY <3>1, <2>5, <2>9, <1>2, <1>5
      <4> QED BY <3>1, <4>1, <2>11 DEF Lies, Retops
    <3>2. CASE i # n
      <4>1. i \in 1 .. n - 1 /\ ws[i] = vs[i] /\ (i > 1 => ws[i - 1] = vs[i - 1])
        BY <3>2, <2>9, <1>1
      <4> QED BY <4>1, <2>10 DEF Lies
    <3> QED BY <3>1, <3>2
  <2>13. ASSUME NEW j \in 1 .. n, NEW i \in 1 .. j PROVE Rises(ws, i, j)
    <3>1. CASE j # n
      <4>1. j \in 1 .. n - 1 /\ i \in 1 .. n - 1 /\ ws[j] = vs[j] /\ ws[i] = vs[i]
        BY <3>1, <2>9, <1>1
      <4> QED BY <4>1, <2>10 DEF Rises
    <3>2. CASE j = n /\ i = n
      BY <3>2, <1>2, <1>3, <2>3, <2>6 DEF Rises
    <3>3. CASE j = n /\ i # n
      <4>1. i \in 1 .. n - 1 /\ n - 1 \in 1 .. n - 1 /\ i \in 1 .. n - 1 /\ ws[i] = vs[i]
            /\ vs[i] = us[i] /\ vs[n - 1] = us[n - 1] /\ ws[j] = w
        BY <3>3, <2>9, <1>1, <1>2, <1>5
      <4>2. Rises(vs, i, n - 1)
        BY <4>1, <2>10
      <4>3. us[i].top <= us[n - 1].top /\ us[i].n <= us[n - 1].n /\ us[n - 1].n - us[i].n <= (n - 1) - i
        BY <4>1, <4>2 DEF Rises
      <4>4. us[i].top \in Nat /\ us[i].n \in Nat
        <5>1. us[i] \in Views(st, ns)
          BY <1>1, <4>1
        <5> QED BY <5>1 DEF Views
      <4>5. us[i].top <= w.top /\ us[i].top + 3 <= w.f /\ us[i].n <= w.n /\ w.n - us[i].n <= n - i
        <5>1. \A a, f, t \in Int : a <= f - 3 /\ f - 3 < t => a <= t /\ a + 3 <= f
          OBVIOUS
        <5>2. us[n - 1].n = w.n /\ w.n \in Int /\ i \in Int /\ n \in Int
          BY <2>3, <2>6, <1>3, <1>1, <4>1
        <5>3. \A a, b, x, y \in Int : b - a <= (y - 1) - x => b - a <= y - x
          OBVIOUS
        <5> QED BY <5>1, <5>2, <5>3, <4>3, <4>4, <2>a, <2>4
      <4> QED BY <3>3, <4>1, <4>5 DEF Rises
    <3> QED BY <3>1, <3>2, <3>3
  <2>14. ws \in [1 .. n -> Views(s2, ns)] /\ Outermost(ws[1]) /\ ws[1].n = 0
    <3>1. 1 \in 1 .. n - 1
      BY <2>5
    <3>2. \A i \in 1 .. n : ws[i] \in Views(s2, ns)
      BY <2>12 DEF Lies
    <3> QED BY <3>1, <3>2, <2>9, <2>10 DEF ws, Retopped
  <2>15. Frames(s2, ns, ws, n)
    BY <1>1, <2>12, <2>13, <2>14 DEF Frames
  <2> QED BY <2>15 DEF ws
<1> QED BY <1>1, <1>4, <1>5

(* One more is called.                                                     *)
Opens(st, ns, us, n, w) ==
  /\ Frames(st, ns, us, n)
  /\ Len(st) \in Nat /\ Len(ns) \in Nat
  /\ w \in Views(st, ns) /\ On(st, ns, us[n], w)
  /\ w.p # CodeEnd => Clean(st, w)

Opened(us, n, w) == [i \in 1 .. n + 1 |-> IF i = n + 1 THEN w ELSE us[i]]

LEMMA Open ==
  ASSUME NEW st, NEW ns, NEW us, NEW n, NEW w, Opens(st, ns, us, n, w)
  PROVE  Frames(st, ns, Opened(us, n, w), n + 1)
<1> DEFINE ws == Opened(us, n, w)
<1>1. /\ n \in Nat \ {0} /\ us \in [1 .. n -> Views(st, ns)]
      /\ Outermost(us[1]) /\ us[1].n = 0
      /\ \A i \in 1 .. n : Lies(st, ns, us, i)
      /\ \A j \in 1 .. n : \A i \in 1 .. j : Rises(us, i, j)
  BY DEF Opens, Frames
<1>2. n + 1 \in 1 .. n + 1 /\ ws[n + 1] = w
      /\ \A i \in 1 .. n : i \in 1 .. n + 1 /\ ws[i] = us[i]
  BY <1>1 DEF Opened
<1>3. /\ us[n] \in Views(st, ns) /\ w \in Views(st, ns) /\ n \in 1 .. n
      /\ Len(st) \in Nat /\ Len(ns) \in Nat /\ STACK_SIZE \in Nat
  BY <1>1, CallConstants DEF Opens
<1>4. /\ us[n].f \in Int /\ us[n].top \in Int /\ us[n].n \in Int
      /\ w.f \in Int /\ w.top \in Int /\ w.n \in Int
  BY <1>3 DEF Views
<1>5. us[n].top <= w.top /\ us[n].n <= w.n /\ w.n - us[n].n <= 1 /\ (Code(w) => us[n].top + 3 <= w.f)
  <2>1. CASE NativeOn(ns, us[n], w)
    <3>1. ~ Code(w)
      BY <2>1, StackConstants DEF NativeOn, Code, CodeEnd, At
    <3>2. us[n].top = w.top /\ us[n].n = w.n - 1
      BY <2>1 DEF NativeOn
    <3> QED BY <3>1, <3>2, <1>4
  <2>2. CASE FrameOn(st, us[n], w)
    <3>1. us[n].top = w.f - 3 /\ us[n].n = w.n /\ w.f \in 3 .. w.top
      BY <2>2 DEF FrameOn
    <3>2. \A f, t \in Int : f \in 3 .. t => f - 3 <= t /\ (f - 3) + 3 <= f
      OBVIOUS
    <3> QED BY <3>1, <3>2, <1>4
  <2> QED BY <2>1, <2>2 DEF Opens, On
<1> HIDE DEF ws
<1>6. ASSUME NEW i \in 1 .. n + 1 PROVE Lies(st, ns, ws, i)
  <2>1. CASE i = n + 1
    <3>1. i - 1 = n /\ ws[i] = w /\ ws[i - 1] = us[n]
      BY <2>1, <1>1, <1>2, <1>3
    <3> QED BY <3>1 DEF Opens, Lies
  <2>2. CASE i # n + 1
    <3>1. i \in 1 .. n /\ ws[i] = us[i] /\ (i > 1 => ws[i - 1] = us[i - 1])
      BY <2>2, <1>1, <1>2
    <3> QED BY <3>1, <1>1 DEF Lies
  <2> QED BY <2>1, <2>2
<1>7. ASSUME NEW j \in 1 .. n + 1, NEW i \in 1 .. j PROVE Rises(ws, i, j)
  <2>1. CASE j # n + 1
    <3>1. j \in 1 .. n /\ ws[j] = us[j] /\ ws[i] = us[i]
      BY <2>1, <1>1, <1>2
    <3> QED BY <3>1, <1>1 DEF Rises
  <2>2. CASE j = n + 1 /\ i = n + 1
    BY <2>2, <1>2, <1>4 DEF Rises
  <2>3. CASE j = n + 1 /\ i # n + 1
    <3>1. i \in 1 .. n /\ ws[i] = us[i] /\ ws[j] = w
      BY <2>3, <1>1, <1>2
    <3>2. Rises(us, i, n)
      BY <3>1, <1>1, <1>3
    <3>3. us[i].top \in Int /\ us[i].n \in Int
      <4>1. us[i] \in Views(st, ns)
        BY <3>1, <1>1
      <4> QED BY <4>1, <1>3, ViewTypes
    <3>4. us[i].top <= us[n].top /\ us[i].n <= us[n].n /\ us[n].n - us[i].n <= n - i
      BY <3>2 DEF Rises
    <3>5. \A a, b, c, f \in Int : a <= b /\ b <= c => a <= c /\ (b + 3 <= f => a + 3 <= f)
      OBVIOUS
    <3>6. \A a, b, c, x, y \in Int : a <= b /\ b <= c /\ b - a <= x - y /\ c - b <= 1 =>
                                      a <= c /\ c - a <= (x + 1) - y
      OBVIOUS
    <3>7. us[i].top <= w.top /\ (Code(w) => us[i].top + 3 <= w.f)
      BY <3>3, <3>4, <3>5, <1>4, <1>5
    <3>8. us[i].n <= w.n /\ w.n - us[i].n <= (n + 1) - i
      <4>1. n \in Int /\ i \in Int
        BY <1>1, <3>1
      <4> QED BY <4>1, <3>3, <3>4, <3>6, <1>4, <1>5
    <3> QED BY <3>1, <3>7, <3>8, <2>3 DEF Rises
  <2> QED BY <2>1, <2>2, <2>3
<1>8. ws \in [1 .. n + 1 -> Views(st, ns)] /\ ws[1] = us[1] /\ n + 1 \in Nat \ {0}
  <2>1. \A i \in 1 .. n + 1 : ws[i] \in Views(st, ns)
    BY <1>6 DEF Lies
  <2>2. 1 \in 1 .. n /\ n + 1 \in Nat \ {0}
    BY <1>1
  <2> QED BY <2>1, <2>2, <1>2 DEF ws, Opened
<1>9. Frames(st, ns, ws, n + 1)
  BY <1>1, <1>6, <1>7, <1>8 DEF Frames
<1> QED BY <1>9 DEF ws

(* A line begins, or none is there.                                        *)
LEMMA Fresh ==
  ASSUME NEW st \in Seq(Cell), NEW ns \in Seq(NatRec), NEW us, NEW u \in Views(st, ns),
         Outermost(u), u.n = 0, Clean(st, u), us = <<u>>
  PROVE  Frames(st, ns, us, 1)
<1>0. Len(st) \in Nat /\ Len(ns) \in Nat
  OBVIOUS
<1>1. us \in [1 .. 1 -> Views(st, ns)] /\ us[1] = u
  OBVIOUS
<1>2. Lies(st, ns, us, 1)
  BY <1>1 DEF Lies
<1>3. Rises(us, 1, 1)
  <2>1. u.top \in Int /\ u.n \in Int
    BY <1>0 DEF Views
  <2> QED BY <1>1, <2>1 DEF Rises
<1>4. \A j \in 1 .. 1 : \A i \in 1 .. j : j = 1 /\ i = 1
  OBVIOUS
<1> QED BY <1>1, <1>2, <1>3, <1>4 DEF Frames

-----------------------------------------------------------------------------
(* Where control is.                                                       *)

LEMMA Cells ==
  /\ Value \subseteq Int /\ ValCell \subseteq Cell
  /\ \A v \in Value : Val(v) \in ValCell /\ Val(v).num = v /\ Val(v).kind = "val"
  /\ \A c \in ValCell : c.num \in Value /\ c.kind = "val" /\ c = Val(c.num)
  /\ \A p \in Caller : SavedIp(p) \in Cell
  /\ \A f \in 1 .. STACK_SIZE : SavedFp(f) \in Cell
<1>1. Value \subseteq Int
  BY StackConstants DEF Value, Obj
<1>2. \A v \in Value : Val(v) \in ValCell /\ Val(v).num = v /\ Val(v).kind = "val"
  BY DEF ValCell, Val
<1>3. \A c \in ValCell : c.num \in Value /\ c.kind = "val" /\ c = Val(c.num)
  BY DEF ValCell, Val
<1>4. ValCell \subseteq Cell
  <2> SUFFICES ASSUME NEW v \in Value PROVE Val(v) \in Cell
    BY DEF ValCell
  <2> QED BY DEF Val, Cell
<1>5. ASSUME NEW p \in Caller PROVE SavedIp(p) \in Cell
  <2>1. p \in [fn : Fn \cup {"script", "end"}, at : 0 .. MaxSites]
    BY StackConstants DEF Caller, CodePos, CodeEnd, At
  <2> QED BY <2>1 DEF SavedIp, Cell
<1>6. ASSUME NEW f \in 1 .. STACK_SIZE PROVE SavedFp(f) \in Cell
  BY DEF SavedFp, Cell
<1> QED BY <1>1, <1>2, <1>3, <1>4, <1>5, <1>6

LEMMA Positions ==
  /\ CodeEnd.fn = "end" /\ Prompt.fn = "prompt"
  /\ \A p \in CodePos : p \in Caller /\ p \in Place /\ p # CodeEnd /\ p # Prompt
                         /\ p.fn \in Fn \cup {"script"} /\ p.at \in 0 .. MaxSites
  /\ \A p \in Place : p.fn \in Fn \cup {"script"} => p \in CodePos
  /\ CodeEnd \in Caller /\ CodeEnd \in Place /\ Prompt \in Place
  /\ "end" \notin Fn \cup {"script"} /\ "prompt" \notin Fn \cup {"script"} /\ "script" \notin Fn
  /\ \A f \in Fn : At(f, 0) \in CodePos /\ At(f, 0).fn = f
  /\ At("script", 0) \in CodePos
  /\ \A p \in CodePos : p.at < MaxSites => /\ Beyond(p) \in CodePos /\ Beyond(p).fn = p.fn
                                           /\ Beyond(p).at = p.at + 1
<1>1. MaxSites \in Nat /\ 0 \in 0 .. MaxSites
  BY StackConstants
<1>2. CodeEnd = [fn |-> "end", at |-> 0] /\ Prompt = [fn |-> "prompt", at |-> 0]
  BY DEF CodeEnd, Prompt, At
<1>3. "end" \notin Fn \cup {"script"} /\ "prompt" \notin Fn \cup {"script"} /\ "script" \notin Fn
  BY StackConstants
<1>4. ASSUME NEW p \in CodePos, p.at < MaxSites
      PROVE  Beyond(p) \in CodePos /\ Beyond(p).fn = p.fn /\ Beyond(p).at = p.at + 1
  <2>1. p.at + 1 \in 0 .. MaxSites
    BY <1>1, <1>4 DEF CodePos
  <2> QED BY <2>1 DEF Beyond, CodePos
<1>5. \A f \in Fn : At(f, 0) \in CodePos /\ At(f, 0).fn = f
  BY <1>1 DEF At, CodePos
<1>6. At("script", 0) \in CodePos
  BY <1>1 DEF At, CodePos
<1>7. \A p \in CodePos : p \in Caller /\ p \in Place /\ p # CodeEnd /\ p # Prompt
                         /\ p.fn \in Fn \cup {"script"} /\ p.at \in 0 .. MaxSites
  BY <1>2, <1>3 DEF CodePos, Caller, Place
<1>8. \A p \in Place : p.fn \in Fn \cup {"script"} => p \in CodePos
  BY <1>2, <1>3 DEF Caller, Place
<1>9. CodeEnd \in Caller /\ CodeEnd \in Place /\ Prompt \in Place /\ CodeEnd.fn = "end" /\ Prompt.fn = "prompt"
  BY <1>2 DEF Caller, Place
<1> QED BY <1>3, <1>4, <1>5, <1>6, <1>7, <1>8, <1>9

(* Numbers of the state.                                                   *)
LEMMA Sizes ==
  ASSUME Shape
  PROVE  /\ sp \in Nat /\ sp = Len(stack) /\ sp <= STACK_SIZE /\ STACK_SIZE \in Nat \ {0}
         /\ Len(natives) \in Nat /\ fp \in 1 .. STACK_SIZE /\ fp \in Nat \ {0}
         /\ stack \in Seq(Cell) /\ natives \in Seq(NatRec) /\ Len(stack) \in Nat
<1>1. stack \in Seq(Cell) /\ sp = Len(stack) /\ sp <= STACK_SIZE /\ fp \in 1 .. STACK_SIZE
      /\ natives \in Seq(NatRec) /\ STACK_SIZE \in Nat \ {0}
  BY CallConstants DEF Shape, CellsOK, PlaceOK, NativesOK, sp
<1>2. Len(stack) \in Nat /\ Len(natives) \in Nat
  BY <1>1
<1> QED BY <1>1, <1>2

(* Code runs in the activation that is read first.                         *)
LEMMA CodeRuns ==
  ASSUME Shape, NEW n, NEW us, Frames(stack, natives, us, n), us[n] = Running, InCode
  PROVE  /\ us[n] = [p |-> ip, f |-> fp, top |-> sp, n |-> Len(natives)]
         /\ us[n] \in Views(stack, natives) /\ n \in Nat \ {0}
         /\ ip \in CodePos /\ us[n].p # CodeEnd /\ ~ InNative /\ ~ Waiting
         /\ InScript <=> ~ Code(us[n])
         /\ Base + 1 = First(us[n]) /\ Base \in Nat /\ Base <= sp
         /\ \A j \in Base + 1 .. sp : stack[j] \in ValCell
         /\ ~ InScript => /\ Arity[ip.fn] \in Nat \ {0} /\ Pushed = sp - fp + 1 - Arity[ip.fn]
                          /\ ip.fn \in Fn /\ Base = fp - 1
                          /\ Arity[ip.fn] <= sp - fp + 1 /\ 3 <= fp /\ fp <= sp
                          /\ n > 1 /\ FrameOn(stack, us[n - 1], us[n])
         /\ InScript => Pushed = sp /\ n = 1 /\ Base = 0 /\ ip.fn = "script"
<1>0. /\ sp \in Nat /\ Len(natives) \in Nat /\ fp \in Nat \ {0}
  BY Sizes
<1>1. ip \in CodePos /\ ~ InNative /\ ip \in Place /\ ip # CodeEnd
  BY Positions DEF InCode, Shape, PlaceOK
<1>2. ~ Waiting
  BY <1>1 DEF Waiting
<1>3. us[n] = [p |-> ip, f |-> fp, top |-> sp, n |-> Len(natives)]
  BY <1>1, <1>2 DEF Running
<1>4. n \in Nat \ {0} /\ n \in 1 .. n /\ us[n] \in Views(stack, natives) /\ Lies(stack, natives, us, n)
      /\ Outermost(us[1])
  BY DEF Frames
<1>5. InScript <=> ~ Code(us[n])
  BY <1>1, <1>3, Positions DEF InScript, Code
<1>6. Clean(stack, us[n])
  BY <1>1, <1>3, <1>4 DEF Lies
<1>7. CASE InScript
  <2>1. Base = 0 /\ First(us[n]) = 1 /\ Pushed = sp - 0 - 0 /\ ip.fn = "script"
    BY <1>7, <1>5 DEF Base, First, Pushed, InScript
  <2>2. n = 1
    <3> SUFFICES ASSUME n > 1 PROVE FALSE
      BY <1>4
    <3>1. On(stack, natives, us[n - 1], us[n])
      BY <1>4 DEF Lies
    <3>2. Code(us[n]) \/ us[n].p = CodeEnd
      BY <3>1 DEF On, NativeOn, FrameOn
    <3> QED BY <3>2, <1>1, <1>3, <1>5, <1>7
  <2>3. \A j \in Base + 1 .. sp : stack[j] \in ValCell
    BY <2>1, <1>6, <1>3 DEF Clean
  <2> QED BY <2>1, <2>2, <2>3, <1>0, <1>1, <1>2, <1>3, <1>4, <1>5, <1>7
<1>8. CASE ~ InScript
  <2>1. Base = fp - 1 /\ First(us[n]) = fp /\ Pushed = sp - (fp - 1) - Arity[ip.fn]
    BY <1>8, <1>5, <1>3 DEF Base, First, Pushed
  <2>2. n > 1
    <3> SUFFICES ASSUME n = 1 PROVE FALSE
      BY <1>4
    <3> QED BY <1>4, <1>3, <1>5, <1>8, Positions DEF Outermost, Code
  <2>3. FrameOn(stack, us[n - 1], us[n])
    <3>1. On(stack, natives, us[n - 1], us[n])
      BY <1>4, <2>2 DEF Lies
    <3> QED BY <3>1, <1>1, <1>3 DEF On, NativeOn
  <2>4. ip.fn \in Fn /\ Arity[ip.fn] \in Nat \ {0} /\ fp \in 3 .. sp /\ Arity[ip.fn] <= sp - fp + 1
    BY <2>3, <1>3, StackConstants DEF FrameOn, Code
  <2>5. \A j \in Base + 1 .. sp : stack[j] \in ValCell
    <3>1. Base + 1 = fp
      BY <2>1, <1>0
    <3> QED BY <3>1, <2>1, <1>6, <1>3 DEF Clean
  <2>6. Base + 1 = First(us[n]) /\ Base \in Nat /\ Base <= sp /\ 3 <= fp /\ fp <= sp
        /\ Pushed = sp - fp + 1 - Arity[ip.fn]
    <3>1. \A f, s, a, p, b \in Int :
            f \in 3 .. s /\ b = f - 1 /\ p = s - (f - 1) - a =>
              b + 1 = f /\ b \in Nat /\ b <= s /\ 3 <= f /\ f <= s /\ p = s - f + 1 - a
      OBVIOUS
    <3>2. Base \in Int /\ Pushed \in Int /\ fp \in Int /\ sp \in Int /\ Arity[ip.fn] \in Int
      BY <2>1, <2>4, <1>0
    <3>3. First(us[n]) = fp
      BY <2>1
    <3> QED BY <3>1, <3>2, <3>3, <2>1, <2>4
  <2> QED BY <2>1, <2>2, <2>3, <2>4, <2>5, <2>6, <1>1, <1>2, <1>3, <1>4, <1>5, <1>8
<1> QED BY <1>7, <1>8

-----------------------------------------------------------------------------
(* The frames after each step.                                             *)

Top(p, st) == [p |-> p, f |-> fp, top |-> Len(st), n |-> Len(natives)]

(* Code changes what it has on the stack, or where it is.                  *)
Works(us, n, s2, p) ==
  /\ Shape /\ Frames(stack, natives, us, n) /\ us[n] = Running /\ InCode
  /\ s2 \in Seq(Cell) /\ Len(s2) <= STACK_SIZE
  /\ Base <= Len(s2) /\ (~ InScript => Arity[ip.fn] <= Len(s2) - fp + 1)
  /\ \A j \in 1 .. Base : s2[j] = stack[j]
  /\ \A j \in Base + 1 .. Len(s2) : s2[j] \in ValCell
  /\ p \in CodePos /\ p.fn = ip.fn

LEMMA Work ==
  ASSUME NEW us, NEW n, NEW s2, NEW p, Works(us, n, s2, p)
  PROVE  Frames(s2, natives, Retopped(us, n, Top(p, s2)), n)
<1> DEFINE w == Top(p, s2)
<1>0. /\ Shape /\ Frames(stack, natives, us, n) /\ us[n] = Running /\ InCode
      /\ p \in CodePos /\ p.fn = ip.fn
  BY DEF Works
<1>1. /\ us[n] = [p |-> ip, f |-> fp, top |-> sp, n |-> Len(natives)]
      /\ us[n].p # CodeEnd /\ (InScript <=> ~ Code(us[n]))
      /\ Base + 1 = First(us[n]) /\ Base \in Nat
  BY <1>0, CodeRuns
<1>2. /\ Len(stack) \in Nat /\ Len(natives) \in Nat /\ fp \in 1 .. STACK_SIZE /\ Len(s2) \in Nat
  BY <1>0, Sizes DEF Works
<1>3. w.p = p /\ w.f = fp /\ w.top = Len(s2) /\ w.n = Len(natives) /\ w.p.fn = us[n].p.fn
  BY <1>0, <1>1 DEF Top
<1>4. w \in Views(s2, natives) /\ w.p # CodeEnd
  <2>1. p \in Place /\ p # CodeEnd
    BY <1>0, Positions
  <2>2. Len(s2) \in 0 .. Len(s2) /\ Len(natives) \in 0 .. Len(natives)
    BY <1>2
  <2> QED BY <2>1, <2>2, <1>2, <1>3 DEF Views, Top
<1>5. First(w) = Base + 1 /\ (Code(w) <=> ~ InScript)
  BY <1>1, <1>3 DEF First, Code
<1> HIDE DEF w
<1>6. Clean(s2, w)
  BY <1>3, <1>5 DEF Clean, Works
<1>7. \A j \in 1 .. First(w) - 1 : s2[j] = stack[j]
  <2>1. First(w) - 1 = Base
    BY <1>1, <1>5
  <2> QED BY <2>1 DEF Works
<1>8. Code(w) => Arity[w.p.fn] <= w.top - w.f + 1 /\ w.p \in CodePos
  BY <1>0, <1>3, <1>5 DEF Works
<1>9. Retops(stack, natives, us, n, s2, w)
  BY <1>0, <1>1, <1>2, <1>3, <1>4, <1>6, <1>7, <1>8 DEF Retops
<1> QED BY <1>9, Retop DEF w

(* Control stays in code.                                                  *)
LEMMA StaysInCode ==
  ASSUME Shape, InCode, natives' = natives, fp' = fp, ip' \in CodePos
  PROVE  /\ Running' = [p |-> ip', f |-> fp, top |-> Len(stack'), n |-> Len(natives)]
         /\ PlaceOK' /\ NativesOK'
<1>1. ~ InNative
  BY DEF InCode
<1>2. ~ InNative'
  BY <1>1 DEF InNative, native
<1>3. ip' \in Place /\ ip' # CodeEnd /\ ip' # Prompt
  BY Positions
<1>4. ~ Waiting'
  BY <1>3 DEF Waiting, CodeEnd, At
<1>5. Running' = [p |-> ip', f |-> fp, top |-> Len(stack'), n |-> Len(natives)]
  BY <1>2, <1>4 DEF Running, sp
<1>6. PlaceOK'
  BY <1>3, <1>4 DEF Shape, PlaceOK, CodeEnd, Prompt, At, Place, Caller, CodePos
<1>7. NativesOK'
  BY DEF Shape, NativesOK
<1> QED BY <1>5, <1>6, <1>7

(* The three together.                                                     *)
Moved(us, n) ==
  /\ NativesOK' /\ CellsOK' /\ PlaceOK'
  /\ Frames(stack', natives', us, n) /\ us[n] = Running'

LEMMA Worked ==
  ASSUME NEW us, NEW n, Works(us, n, stack', ip'), natives' = natives, fp' = fp
  PROVE  Moved(Retopped(us, n, Running'), n)
<1>1. Shape /\ InCode /\ ip' \in CodePos /\ n \in Nat \ {0} /\ Len(stack') \in Nat
  BY DEF Works, Frames
<1>2. Running' = Top(ip', stack') /\ PlaceOK' /\ NativesOK'
  BY <1>1, StaysInCode DEF Top
<1>3. CellsOK'
  BY DEF Works, CellsOK, sp
<1>4. Frames(stack', natives', Retopped(us, n, Running'), n)
  BY <1>2, Work
<1>5. Retopped(us, n, Running')[n] = Running'
  BY <1>1 DEF Retopped
<1> QED BY <1>2, <1>3, <1>4, <1>5 DEF Moved

LEMMA EvaluateWorks ==
  ASSUME Shape, NEW us, NEW n, Frames(stack, natives, us, n), us[n] = Running,
         NEW v \in Literals \cup {Obj} \cup Locals, Evaluate(v)
  PROVE  /\ Works(us, n, stack', ip') /\ natives' = natives /\ fp' = fp
         /\ v \in Value
<1>1. InCode /\ sp + 1 <= STACK_SIZE /\ stack' = Append(stack, Val(v)) /\ ip' = ip
      /\ natives' = natives /\ fp' = fp
  BY DEF Evaluate, HasRoom, Room
<1>2. /\ ip \in CodePos /\ Base \in Nat /\ Base <= sp
      /\ \A j \in Base + 1 .. sp : stack[j] \in ValCell
      /\ ~ InScript => Arity[ip.fn] <= sp - fp + 1 /\ Base = fp - 1 /\ Arity[ip.fn] \in Nat
  BY <1>1, CodeRuns
<1>3. sp \in Nat /\ sp = Len(stack) /\ stack \in Seq(Cell) /\ fp \in Nat
  BY Sizes
<1>4. v \in Value
  <2>1. CASE v \in Literals
    BY <2>1, StackConstants, CallConstants DEF Value
  <2>2. CASE v = Obj
    BY <2>2 DEF Value
  <2>3. CASE v \in Locals
    <3>1. PICK i \in fp .. sp : v = stack[i].num /\ ~ InScript
      BY <2>3 DEF Locals
    <3>2. i \in Base + 1 .. sp
      BY <3>1, <1>2, <1>3
    <3> QED BY <3>1, <3>2, <1>2, Cells
  <2> QED BY <2>1, <2>2, <2>3
<1>5. Val(v) \in ValCell /\ Val(v) \in Cell
  BY <1>4, Cells
<1>6. /\ stack' \in Seq(Cell) /\ Len(stack') = sp + 1 /\ stack'[sp + 1] = Val(v)
      /\ \A j \in 1 .. sp : stack'[j] = stack[j]
  BY <1>1, <1>3, <1>5, AppendProperties
<1>7. \A j \in 1 .. Base : stack'[j] = stack[j]
  BY <1>2, <1>3, <1>6
<1>8. ASSUME NEW j \in Base + 1 .. Len(stack') PROVE stack'[j] \in ValCell
  <2>1. CASE j = sp + 1
    BY <2>1, <1>5, <1>6
  <2>2. CASE j # sp + 1
    <3>1. j \in Base + 1 .. sp /\ j \in 1 .. sp
      BY <2>2, <1>2, <1>3, <1>6
    <3> QED BY <3>1, <1>2, <1>6
  <2> QED BY <2>1, <2>2
<1>9. Base <= Len(stack') /\ Len(stack') <= STACK_SIZE
      /\ (~ InScript => Arity[ip.fn] <= Len(stack') - fp + 1)
  BY <1>1, <1>2, <1>3, <1>6
<1> QED BY <1>1, <1>2, <1>4, <1>6, <1>7, <1>8, <1>9 DEF Works

LEMMA DiscardWorks ==
  ASSUME Shape, NEW us, NEW n, Frames(stack, natives, us, n), us[n] = Running, Discard
  PROVE  /\ Works(us, n, stack', ip') /\ natives' = natives /\ fp' = fp
<1>1. InCode /\ Pushed > 0 /\ stack' = Front(stack) /\ ip' = ip /\ natives' = natives /\ fp' = fp
  BY DEF Discard
<1>2. /\ ip \in CodePos /\ Base \in Nat /\ Base <= sp
      /\ \A j \in Base + 1 .. sp : stack[j] \in ValCell
      /\ ~ InScript => Pushed = sp - fp + 1 - Arity[ip.fn] /\ Base = fp - 1 /\ Arity[ip.fn] \in Nat
      /\ InScript => Pushed = sp /\ Base = 0
  BY <1>1, CodeRuns
<1>3. sp \in Nat /\ sp = Len(stack) /\ stack \in Seq(Cell) /\ fp \in Nat /\ sp <= STACK_SIZE
      /\ STACK_SIZE \in Nat
  BY Sizes
<1>4. sp >= 1 /\ Base <= sp - 1 /\ (~ InScript => Arity[ip.fn] <= (sp - 1) - fp + 1)
  <2>1. CASE InScript
    BY <2>1, <1>1, <1>2, <1>3
  <2>2. CASE ~ InScript
    BY <2>2, <1>1, <1>2, <1>3
  <2> QED BY <2>1, <2>2
<1>5. /\ stack' \in Seq(Cell) /\ Len(stack') = sp - 1
      /\ \A j \in 1 .. sp - 1 : stack'[j] = stack[j]
  BY <1>1, <1>3, <1>4, Fronts
<1>6. /\ \A j \in 1 .. Base : stack'[j] = stack[j]
      /\ \A j \in Base + 1 .. Len(stack') : stack'[j] \in ValCell
  <2>1. \A j \in 1 .. Base : j \in 1 .. sp - 1
    BY <1>2, <1>3, <1>4
  <2>2. \A j \in Base + 1 .. sp - 1 : j \in 1 .. sp - 1 /\ j \in Base + 1 .. sp
    BY <1>2, <1>3
  <2> QED BY <2>1, <2>2, <1>2, <1>5
<1>7. Len(stack') <= STACK_SIZE
  BY <1>3, <1>5
<1> QED BY <1>1, <1>2, <1>4, <1>5, <1>6, <1>7 DEF Works

LEMMA AssignWorks ==
  ASSUME Shape, NEW us, NEW n, Frames(stack, natives, us, n), us[n] = Running,
         NEW i \in 1 .. sp, Assign(i)
  PROVE  /\ Works(us, n, stack', ip') /\ natives' = natives /\ fp' = fp
         /\ Len(stack') = sp - 1 /\ fp + i - 1 \in 1 .. sp - 1
         /\ \A j \in 1 .. sp - 1 : stack'[j] = IF j = fp + i - 1 THEN stack[sp] ELSE stack[j]
<1>1. InCode /\ ~ InScript /\ Pushed > 0 /\ Base + i < sp /\ ip' = ip /\ natives' = natives /\ fp' = fp
      /\ stack' = Front([stack EXCEPT ![fp + i - 1] = Last(stack)])
  BY DEF Assign
<1>2. /\ ip \in CodePos /\ Base \in Nat /\ Base <= sp
      /\ \A j \in Base + 1 .. sp : stack[j] \in ValCell
      /\ Pushed = sp - fp + 1 - Arity[ip.fn] /\ Base = fp - 1 /\ Arity[ip.fn] \in Nat \ {0}
  BY <1>1, CodeRuns
<1>3. sp \in Nat /\ sp = Len(stack) /\ stack \in Seq(Cell) /\ fp \in Nat /\ sp <= STACK_SIZE
      /\ STACK_SIZE \in Nat /\ i \in Nat \ {0}
  BY Sizes
<1>4. sp >= 1 /\ Base <= sp - 1 /\ Arity[ip.fn] <= (sp - 1) - fp + 1 /\ fp + i - 1 \in 1 .. sp - 1
      /\ fp + i - 1 > Base
  <2>1. \A f, k, b, t, a \in Nat : b = f - 1 /\ b + k < t /\ k > 0 /\ t - f + 1 - a > 0 =>
          t >= 1 /\ b <= t - 1 /\ a <= (t - 1) - f + 1 /\ (f > 0 => f + k - 1 \in 1 .. t - 1) /\ f + k - 1 > b
    OBVIOUS
  <2>2. fp > 0 /\ i > 0
    BY <1>3, Sizes
  <2> QED BY <2>1, <2>2, <1>1, <1>2, <1>3
<1>5. stack[sp] \in ValCell /\ Last(stack) = stack[sp] /\ stack[sp] \in Cell
  <2>1. sp \in Base + 1 .. sp
    BY <1>2, <1>3, <1>4
  <2> QED BY <2>1, <1>2, <1>3, Cells DEF Last
<1> DEFINE s == [stack EXCEPT ![fp + i - 1] = Last(stack)]
<1>6. /\ s \in Seq(Cell) /\ Len(s) = sp
      /\ \A j \in 1 .. sp : s[j] = IF j = fp + i - 1 THEN stack[sp] ELSE stack[j]
  <2>1. fp + i - 1 \in 1 .. Len(stack)
    BY <1>3, <1>4
  <2>2. s \in Seq(Cell) /\ Len(s) = Len(stack)
    BY <2>1, <1>3, <1>5, ExceptSeq
  <2>3. DOMAIN stack = 1 .. sp
    BY <1>3
  <2> QED BY <2>2, <2>3, <1>3, <1>5
<1>7. /\ stack' \in Seq(Cell) /\ Len(stack') = sp - 1
      /\ \A j \in 1 .. sp - 1 : stack'[j] = s[j]
  <2>1. stack' = Front(s)
    BY <1>1
  <2> HIDE DEF s
  <2>2. s # <<>>
    BY <1>3, <1>4, <1>6
  <2> QED BY <2>1, <2>2, <1>6, Fronts
<1> HIDE DEF s
<1>8. \A j \in 1 .. sp - 1 : stack'[j] = IF j = fp + i - 1 THEN stack[sp] ELSE stack[j]
  <2>1. \A j \in 1 .. sp - 1 : j \in 1 .. sp
    BY <1>3
  <2> QED BY <2>1, <1>6, <1>7
<1>9. /\ \A j \in 1 .. Base : stack'[j] = stack[j]
      /\ \A j \in Base + 1 .. Len(stack') : stack'[j] \in ValCell
  <2>1. \A j \in 1 .. Base : j \in 1 .. sp - 1 /\ j # fp + i - 1
    <3>1. \A b, m, k \in Int : b <= m - 1 /\ k > b => \A j \in 1 .. b : j \in 1 .. m - 1 /\ j # k
      OBVIOUS
    <3>2. Base \in Int /\ sp \in Int /\ fp + i - 1 \in Int
      BY <1>2, <1>3
    <3> QED BY <3>1, <3>2, <1>4
  <2>2. \A j \in Base + 1 .. sp - 1 : j \in 1 .. sp - 1 /\ j \in Base + 1 .. sp
    BY <1>2, <1>3
  <2> QED BY <2>1, <2>2, <1>2, <1>5, <1>7, <1>8
<1>10. Len(stack') <= STACK_SIZE /\ Base <= Len(stack') /\ Arity[ip.fn] <= Len(stack') - fp + 1
  BY <1>3, <1>4, <1>7
<1> QED BY <1>1, <1>2, <1>4, <1>7, <1>8, <1>9, <1>10 DEF Works

LEMMA StillWorks ==
  ASSUME Shape, NEW us, NEW n, Frames(stack, natives, us, n), us[n] = Running, InCode,
         NEW p \in CodePos, p.fn = ip.fn
  PROVE  Works(us, n, stack, p)
<1>1. /\ Base \in Nat /\ Base <= sp
      /\ \A j \in Base + 1 .. sp : stack[j] \in ValCell
      /\ ~ InScript => Arity[ip.fn] <= sp - fp + 1
  BY CodeRuns
<1>2. sp = Len(stack) /\ stack \in Seq(Cell) /\ Len(stack) <= STACK_SIZE
  BY Sizes
<1> QED BY <1>1, <1>2 DEF Works

LEMMA BlockWorks ==
  ASSUME Shape, NEW us, NEW n, Frames(stack, natives, us, n), us[n] = Running, Enter \/ Leave
  PROVE  /\ Works(us, n, stack', ip') /\ natives' = natives /\ fp' = fp
         /\ stack' = stack /\ ip' = ip
<1>1. InCode /\ stack' = stack /\ ip' = ip /\ natives' = natives /\ fp' = fp
  BY DEF Enter, Leave
<1>2. ip \in CodePos
  BY <1>1, CodeRuns
<1>3. Works(us, n, stack, ip)
  BY <1>1, <1>2, StillWorks
<1> QED BY <1>1, <1>3

-----------------------------------------------------------------------------
(* Calls build a frame below the arguments.                                *)
Builds(values, argc, p, d, n) ==
  /\ values \in Seq(Cell) /\ argc \in 0 .. Len(values) /\ p \in Caller /\ fp \in 1 .. STACK_SIZE
  /\ d = Framed(values, argc, p) /\ n = Len(values) - argc

Built(values, argc, p, d, n) ==
  /\ d \in Seq(Cell) /\ Len(d) = Len(values) + 2
  /\ \A j \in 1 .. n : d[j] = values[j]
  /\ d[n + 1] = SavedIp(p) /\ d[n + 2] = SavedFp(fp)
  /\ \A j \in 1 .. argc : d[n + 2 + j] = values[n + j]

LEMMA FramedCells ==
  ASSUME NEW values, NEW argc, NEW p, NEW d, NEW n, Builds(values, argc, p, d, n)
  PROVE  Built(values, argc, p, d, n)
<1> DEFINE a == SubSeq(values, 1, n)
           b == <<SavedIp(p), SavedFp(fp)>>
           c == SubSeq(values, n + 1, n + argc)
<1>0. values \in Seq(Cell) /\ argc \in 0 .. Len(values) /\ p \in Caller /\ fp \in 1 .. STACK_SIZE
      /\ n = Len(values) - argc
  BY DEF Builds
<1>1. n \in Nat /\ n \in 0 .. Len(values) /\ n + argc = Len(values) /\ argc \in Nat /\ n \in Int
  BY <1>0, LenProperties
<1>2. a \in Seq(Cell) /\ Len(a) = n /\ \A j \in 1 .. n : a[j] = values[j]
  <2>1. values \in Seq(Cell) /\ n \in 0 .. Len(values)
    BY <1>0, <1>1
  <2> QED BY <2>1, Prefix
<1>3. b \in Seq(Cell) /\ Len(b) = 2 /\ b[1] = SavedIp(p) /\ b[2] = SavedFp(fp)
  BY <1>0, Cells
<1>4. c \in Seq(Cell) /\ Len(c) = argc /\ \A j \in 1 .. argc : c[j] = values[n + j]
  <2>1. \A j \in n + 1 .. n + argc : j \in 1 .. Len(values)
    BY <1>1
  <2>2. \A j \in n + 1 .. n + argc : values[j] \in Cell
    BY <1>0, <2>1, ElementOfSeq
  <2>3. n + 1 \in Int /\ n + argc \in Int
    BY <1>1
  <2>4. /\ c \in Seq(Cell)
        /\ Len(c) = IF n + 1 <= n + argc THEN (n + argc) - (n + 1) + 1 ELSE 0
        /\ \A j \in 1 .. (n + argc) - (n + 1) + 1 : c[j] = values[(n + 1) + j - 1]
    BY <2>2, <2>3, SubSeqProperties
  <2>5. (n + argc) - (n + 1) + 1 = argc /\ (~ n + 1 <= n + argc => argc = 0)
        /\ \A j \in 1 .. argc : (n + 1) + j - 1 = n + j
    BY <1>1
  <2> QED BY <2>4, <2>5
<1>5. d = (a \o b) \o c
  BY <1>0 DEF Framed, Builds
<1> HIDE DEF a, b, c
<1>6. /\ a \o b \in Seq(Cell) /\ Len(a \o b) = n + 2
      /\ \A j \in 1 .. n + 2 : (a \o b)[j] = IF j <= n THEN a[j] ELSE b[j - n]
  <2>1. a \in Seq(Cell) /\ b \in Seq(Cell)
    BY <1>2, <1>3
  <2>2. /\ a \o b \in Seq(Cell) /\ Len(a \o b) = Len(a) + Len(b)
        /\ \A j \in 1 .. Len(a) + Len(b) : (a \o b)[j] = IF j <= Len(a) THEN a[j] ELSE b[j - Len(a)]
    BY <2>1, Joined
  <2>3. Len(a) = n /\ Len(b) = 2
    BY <1>2, <1>3
  <2> QED BY <2>2, <2>3
<1>7. /\ d \in Seq(Cell) /\ Len(d) = (n + 2) + argc
      /\ \A j \in 1 .. (n + 2) + argc : d[j] = IF j <= n + 2 THEN (a \o b)[j] ELSE c[j - (n + 2)]
  <2> DEFINE e == a \o b
  <2>1. e \in Seq(Cell) /\ c \in Seq(Cell) /\ d = e \o c /\ Len(e) = n + 2 /\ Len(c) = argc
    BY <1>4, <1>5, <1>6
  <2> HIDE DEF e
  <2>2. /\ e \o c \in Seq(Cell) /\ Len(e \o c) = Len(e) + Len(c)
        /\ \A j \in 1 .. Len(e) + Len(c) : (e \o c)[j] = IF j <= Len(e) THEN e[j] ELSE c[j - Len(e)]
    BY <2>1, Joined
  <2>3. /\ d \in Seq(Cell) /\ Len(d) = (n + 2) + argc
        /\ \A j \in 1 .. (n + 2) + argc : d[j] = IF j <= n + 2 THEN e[j] ELSE c[j - (n + 2)]
    BY <2>1, <2>2
  <2> QED BY <2>3 DEF e
<1>8. ASSUME NEW j \in 1 .. n PROVE d[j] = values[j]
  <2>1. j \in 1 .. n + 2 /\ j \in 1 .. (n + 2) + argc /\ j <= n /\ j <= n + 2
    BY <1>1
  <2> QED BY <2>1, <1>2, <1>6, <1>7
<1>9. d[n + 1] = SavedIp(p) /\ d[n + 2] = SavedFp(fp)
  <2>1. /\ n + 1 \in 1 .. n + 2 /\ n + 1 \in 1 .. (n + 2) + argc /\ ~ n + 1 <= n /\ n + 1 <= n + 2
        /\ n + 2 \in 1 .. n + 2 /\ n + 2 \in 1 .. (n + 2) + argc /\ ~ n + 2 <= n /\ n + 2 <= n + 2
        /\ (n + 1) - n = 1 /\ (n + 2) - n = 2
    BY <1>1
  <2> QED BY <2>1, <1>3, <1>6, <1>7
<1>10. ASSUME NEW j \in 1 .. argc PROVE d[n + 2 + j] = values[n + j]
  <2>1. n + 2 + j \in 1 .. (n + 2) + argc /\ ~ n + 2 + j <= n + 2 /\ (n + 2 + j) - (n + 2) = j
    BY <1>1
  <2> QED BY <2>1, <1>4, <1>7
<1>11. Len(d) = Len(values) + 2
  <2>1. Len(values) \in Nat /\ (n + 2) + argc = (n + argc) + 2
    BY <1>0, <1>1, LenProperties
  <2> QED BY <2>1, <1>1, <1>7
<1> QED BY <1>7, <1>8, <1>9, <1>10, <1>11 DEF Built

LEMMA KeepAll ==
  ASSUME NEW st, NEW ns, NEW us, NEW n, NEW s2, NEW n2, Keeps(st, ns, us, n, n, s2, n2)
  PROVE  Frames(s2, n2, us, n)
<1>1. Frames(s2, n2, Kept(us, n), n)
  BY Keep
<1>2. us \in [1 .. n -> Views(st, ns)]
  BY DEF Keeps, Frames
<1>3. Kept(us, n) = us
  BY <1>2 DEF Kept
<1> QED BY <1>1, <1>3

(* f is called with the last of the values.                                *)
CallsOn(us, n, f, values, lower) ==
  /\ Shape /\ Frames(stack, natives, us, n) /\ us[n] = Running /\ InCode /\ HasSite
  /\ f \in Fn /\ values \in Seq(Cell) /\ lower \in Nat /\ lower = Len(values) - Arity[f]
  /\ Len(values) + 2 <= STACK_SIZE
  /\ lower <= sp /\ \A j \in 1 .. lower : values[j] = stack[j]
  /\ Base <= lower /\ (~ InScript => Arity[ip.fn] <= lower - fp + 1)
  /\ \A j \in lower + 1 .. Len(values) : values[j] \in ValCell
  /\ stack' = Framed(values, Arity[f], Beyond(ip))
  /\ fp' = FrameOf(values, Arity[f]) /\ ip' = At(f, 0) /\ natives' = natives

(* The caller while the function runs.                                     *)
Calling(p, lower) == [p |-> p, f |-> fp, top |-> lower, n |-> Len(natives)]

LEMMA Called ==
  ASSUME NEW us, NEW n, NEW f, NEW values, NEW lower, CallsOn(us, n, f, values, lower)
  PROVE  /\ Moved(Opened(Retopped(us, n, Calling(Beyond(ip), lower)), n, Running'), n + 1)
         /\ Running' = [p |-> At(f, 0), f |-> lower + 3, top |-> Len(values) + 2, n |-> Len(natives)]
         /\ \A j \in 1 .. Arity[f] : stack'[lower + 2 + j] = values[lower + j]
         /\ \A j \in 1 .. lower : stack'[j] = stack[j]
<1>0. /\ Shape /\ Frames(stack, natives, us, n) /\ us[n] = Running /\ InCode /\ HasSite
      /\ f \in Fn /\ values \in Seq(Cell) /\ lower \in Nat /\ lower = Len(values) - Arity[f]
      /\ Len(values) + 2 <= STACK_SIZE
      /\ lower <= sp /\ Base <= lower /\ (~ InScript => Arity[ip.fn] <= lower - fp + 1)
      /\ fp' = FrameOf(values, Arity[f]) /\ ip' = At(f, 0) /\ natives' = natives
  BY DEF CallsOn
<1>1. /\ ip \in CodePos /\ Base \in Nat /\ n \in Nat \ {0} /\ ~ InNative
      /\ \A j \in Base + 1 .. sp : stack[j] \in ValCell
      /\ us[n] = [p |-> ip, f |-> fp, top |-> sp, n |-> Len(natives)]
      /\ us[n] \in Views(stack, natives)
  BY <1>0, CodeRuns
<1>2. /\ sp \in Nat /\ sp = Len(stack) /\ stack \in Seq(Cell) /\ fp \in 1 .. STACK_SIZE /\ sp <= STACK_SIZE
      /\ STACK_SIZE \in Nat /\ Len(natives) \in Nat /\ Len(values) \in Nat
  BY <1>0, Sizes, LenProperties
<1>3. Beyond(ip) \in CodePos /\ Beyond(ip).fn = ip.fn /\ Beyond(ip) \in Caller /\ Beyond(ip) # CodeEnd
  BY <1>0, <1>1, Positions DEF HasSite, CodePos
<1>4. Arity[f] \in Nat \ {0} /\ Arity[f] \in 0 .. Len(values) /\ lower + Arity[f] = Len(values)
  <2>1. Arity[f] \in Nat \ {0}
    BY <1>0, StackConstants
  <2>2. \A a, b, c \in Nat : c = b - a => a \in 0 .. b /\ c + a = b
    OBVIOUS
  <2> QED BY <2>1, <2>2, <1>0, <1>2
<1>a. Arity[f] \in Nat \ {0} /\ lower \in Nat /\ Len(values) \in Nat /\ lower + Arity[f] = Len(values)
  BY <1>0, <1>2, <1>4
<1>5. /\ stack' \in Seq(Cell) /\ Len(stack') = Len(values) + 2
      /\ \A j \in 1 .. lower : stack'[j] = values[j]
      /\ stack'[lower + 1] = SavedIp(Beyond(ip)) /\ stack'[lower + 2] = SavedFp(fp)
      /\ \A j \in 1 .. Arity[f] : stack'[lower + 2 + j] = values[lower + j]
  <2>1. stack' = Framed(values, Arity[f], Beyond(ip))
    BY DEF CallsOn
  <2>2. Builds(values, Arity[f], Beyond(ip), stack', lower)
    BY <2>1, <1>0, <1>2, <1>3, <1>4 DEF Builds
  <2>3. Built(values, Arity[f], Beyond(ip), stack', lower)
    BY <2>2, FramedCells
  <2> QED BY <2>3 DEF Built
<1>6. \A j \in 1 .. lower : stack'[j] = stack[j]
  BY <1>5 DEF CallsOn
(* The caller ...                                                          *)
<1> DEFINE s == SubSeq(stack, 1, lower)
           w == Calling(Beyond(ip), lower)
           ws == Retopped(us, n, w)
<1>7. s \in Seq(Cell) /\ Len(s) = lower /\ \A j \in 1 .. lower : s[j] = stack[j]
  BY <1>0, <1>2, Prefix
<1>8. Frames(s, natives, ws, n)
  <2> HIDE DEF s
  <2>1. /\ \A j \in 1 .. Base : s[j] = stack[j]
        /\ \A j \in Base + 1 .. Len(s) : s[j] \in ValCell
    <3>1. \A j \in 1 .. Base : j \in 1 .. lower
      BY <1>0, <1>1
    <3>2. \A j \in Base + 1 .. lower : j \in 1 .. lower /\ j \in Base + 1 .. sp
      BY <1>0, <1>1, <1>2
    <3> QED BY <3>1, <3>2, <1>1, <1>7
  <2>2. Len(s) <= STACK_SIZE
    BY <1>0, <1>2, <1>7
  <2>3. Works(us, n, s, Beyond(ip))
    BY <2>1, <2>2, <1>0, <1>3, <1>7 DEF Works
  <2>4. w = Top(Beyond(ip), s)
    BY <1>7 DEF Top, Calling
  <2> QED BY <2>3, <2>4, Work
<1>9. w.top = lower /\ w.n = Len(natives) /\ w.p = Beyond(ip) /\ w.f = fp /\ ws[n] = w
  BY <1>1 DEF Calling, Retopped
<1> HIDE DEF s, w, ws
<1>10. Frames(stack', natives, ws, n)
  <2>1. n \in 1 .. n /\ Len(stack') \in Nat /\ lower <= Len(stack')
    <3>1. \A a \in Nat \ {0}, b, c \in Nat : c + a = b => c <= b + 2 /\ b + 2 \in Nat
      OBVIOUS
    <3>2. lower <= Len(values) + 2 /\ Len(values) + 2 \in Nat
      BY <3>1, <1>a
    <3> QED BY <3>2, <1>1, <1>5
  <2>2. \A j \in 1 .. lower : stack'[j] = s[j]
    BY <1>6, <1>7
  <2>3. Keeps(s, natives, ws, n, n, stack', natives)
    BY <2>1, <2>2, <1>0, <1>2, <1>7, <1>8, <1>9 DEF Keeps
  <2> QED BY <2>3, KeepAll
(* ... and the called one.                                                 *)
<1>11. fp' = lower + 3 /\ fp' \in 1 .. STACK_SIZE /\ lower + 3 <= Len(values) + 2
  <2>1. fp' = Len(values) - Arity[f] + 3
    BY <1>0 DEF FrameOf
  <2>2. \A a \in Nat \ {0}, b, c, d \in Nat : c + a = b /\ b + 2 <= d => c + 3 \in 1 .. d /\ c + 3 <= b + 2
    OBVIOUS
  <2> QED BY <2>1, <2>2, <1>0, <1>2, <1>4
<1>12. ip' \in CodePos /\ ip'.fn = f /\ ip' # CodeEnd /\ ip' # Prompt /\ ip' \in Place
  BY <1>0, Positions
<1>13. ~ InNative' /\ ~ Waiting'
  <2>1. ~ InNative'
    BY <1>0, <1>1 DEF InNative, native
  <2> QED BY <2>1, <1>12 DEF Waiting, CodeEnd, At
<1>14. Running' = [p |-> At(f, 0), f |-> lower + 3, top |-> Len(values) + 2, n |-> Len(natives)]
  BY <1>0, <1>5, <1>11, <1>13 DEF Running, sp
<1> DEFINE x == Running'
<1>15. x.p = At(f, 0) /\ x.f = lower + 3 /\ x.top = Len(values) + 2 /\ x.n = Len(natives)
       /\ x.p.fn = f /\ Code(x) /\ x.p \in CodePos /\ x.p # CodeEnd
  BY <1>0, <1>12, <1>14 DEF Code
<1> HIDE DEF x
<1>16. x \in Views(stack', natives)
  <2>1. Len(values) + 2 \in 0 .. Len(stack') /\ Len(natives) \in 0 .. Len(natives)
        /\ lower + 3 \in 1 .. STACK_SIZE
    BY <1>2, <1>5, <1>11
  <2> QED BY <2>1, <1>0, <1>12, <1>14 DEF Views, x
<1>17. FrameOn(stack', w, x)
  <2>1. \A a \in Nat \ {0}, b, c \in Nat : c + a = b =>
          /\ c + 3 \in 3 .. b + 2 /\ a <= (b + 2) - (c + 3) + 1 /\ (c + 3) - 3 = c
          /\ (c + 3) - 2 = c + 1 /\ (c + 3) - 1 = c + 2
    OBVIOUS
  <2>a. /\ lower + 3 \in 3 .. Len(values) + 2 /\ Arity[f] <= (Len(values) + 2) - (lower + 3) + 1
        /\ (lower + 3) - 3 = lower /\ (lower + 3) - 2 = lower + 1 /\ (lower + 3) - 1 = lower + 2
    BY <2>1, <1>a
  <2>2. /\ x.f \in 3 .. x.top /\ Arity[x.p.fn] <= x.top - x.f + 1
        /\ w.top = x.f - 3 /\ x.f - 2 = lower + 1 /\ x.f - 1 = lower + 2
    BY <2>a, <1>9, <1>15
  <2> QED BY <2>2, <1>3, <1>5, <1>9, <1>15 DEF FrameOn
<1>18. Clean(stack', x)
  <2> SUFFICES ASSUME NEW j \in lower + 3 .. Len(values) + 2 PROVE stack'[j] \in ValCell
    BY <1>15 DEF Clean, First
  <2>1. j - (lower + 2) \in 1 .. Arity[f] /\ lower + 2 + (j - (lower + 2)) = j
        /\ lower + (j - (lower + 2)) \in lower + 1 .. Len(values)
    <3>1. \A a \in Nat \ {0}, b, c \in Nat : c + a = b =>
            \A i \in c + 3 .. b + 2 : i - (c + 2) \in 1 .. a /\ c + 2 + (i - (c + 2)) = i
                                        /\ c + (i - (c + 2)) \in c + 1 .. b
      OBVIOUS
    <3> QED BY <3>1, <1>a
  <2>2. stack'[j] = values[lower + (j - (lower + 2))]
    BY <2>1, <1>5
  <2> QED BY <2>1, <2>2 DEF CallsOn
<1>19. Frames(stack', natives, Opened(ws, n, x), n + 1)
  <2>1. Opens(stack', natives, ws, n, x)
    BY <1>2, <1>5, <1>9, <1>10, <1>16, <1>17, <1>18 DEF Opens, On
  <2> QED BY <2>1, Open
<1>20. Opened(ws, n, x)[n + 1] = x
  BY <1>1 DEF Opened
<1>21. CellsOK' /\ NativesOK' /\ PlaceOK'
  <2>1. NativesOK'
    BY <1>0 DEF Shape, NativesOK
  <2>2. CellsOK'
    BY <1>0, <1>5 DEF CellsOK, sp
  <2>3. PlaceOK'
    BY <1>11, <1>12, <1>13 DEF PlaceOK, Prompt, CodeEnd, At, Place, Caller, CodePos
  <2> QED BY <2>1, <2>2, <2>3
<1>22. Moved(Opened(ws, n, x), n + 1)
  BY <1>0, <1>19, <1>20, <1>21 DEF Moved, x
<1> QED BY <1>5, <1>6, <1>14, <1>22 DEF ws, w, x


LEMMA CallCalls ==
  ASSUME Shape, NEW us, NEW n, Frames(stack, natives, us, n), us[n] = Running,
         NEW f \in Fn, Call(f)
  PROVE  CallsOn(us, n, f, stack, sp - Arity[f])
<1>1. /\ InCode /\ HasSite /\ sp + 2 <= STACK_SIZE /\ Pushed >= Arity[f]
      /\ stack' = Framed(stack, Arity[f], Beyond(ip)) /\ fp' = FrameOf(stack, Arity[f])
      /\ ip' = At(f, 0) /\ natives' = natives
  BY DEF Call, Starts, Room
<1>2. /\ Base \in Nat /\ Base <= sp
      /\ \A j \in Base + 1 .. sp : stack[j] \in ValCell
      /\ ~ InScript => Pushed = sp - fp + 1 - Arity[ip.fn] /\ Base = fp - 1 /\ Arity[ip.fn] \in Nat \ {0}
      /\ InScript => Pushed = sp /\ Base = 0
  BY <1>1, CodeRuns
<1>3. sp \in Nat /\ sp = Len(stack) /\ stack \in Seq(Cell) /\ fp \in Nat
  BY Sizes
<1>4. Arity[f] \in Nat
  BY StackConstants
<1> DEFINE lower == sp - Arity[f]
<1>5. /\ lower \in Nat /\ lower <= sp /\ Base <= lower
      /\ ~ InScript => Arity[ip.fn] <= lower - fp + 1
  <2>1. CASE InScript
    BY <2>1, <1>1, <1>2, <1>3, <1>4
  <2>2. CASE ~ InScript
    <3>1. \A a, c \in Nat, s, t, b \in Nat : b = t - 1 /\ s - t + 1 - c >= a =>
            s - a \in Int /\ s - a <= s /\ (c # 0 => b <= s - a) /\ c <= (s - a) - t + 1
      OBVIOUS
    <3>2. Arity[ip.fn] \in Nat /\ Arity[ip.fn] # 0
      BY <2>2, <1>2
    <3>3. lower \in Int /\ lower <= sp /\ Base <= lower /\ Arity[ip.fn] <= lower - fp + 1
      BY <3>1, <3>2, <2>2, <1>1, <1>2, <1>3, <1>4
    <3> QED BY <3>3, <1>2
  <2> QED BY <2>1, <2>2
<1>6. ASSUME NEW j \in lower + 1 .. Len(stack) PROVE stack[j] \in ValCell
  <2>1. j \in Base + 1 .. sp
    BY <1>2, <1>3, <1>5
  <2> QED BY <2>1, <1>2
<1> HIDE DEF lower
<1>7. CallsOn(us, n, f, stack, lower)
  <2>1. lower = Len(stack) - Arity[f]
    BY <1>3 DEF lower
  <2> QED BY <2>1, <1>1, <1>3, <1>5, <1>6 DEF CallsOn
<1> QED BY <1>7 DEF lower

LEMMA Arguments ==
  ASSUME NEW m \in Nat, NEW args \in [1 .. m -> Value]
  PROVE  /\ Vals(args) \in Seq(Cell) /\ Len(Vals(args)) = m
         /\ \A j \in 1 .. m : Vals(args)[j] = Val(args[j]) /\ Vals(args)[j] \in ValCell
<1>1. DOMAIN args = 1 .. m /\ \A j \in 1 .. m : args[j] \in Value
  OBVIOUS
<1>2. Vals(args) = [i \in 1 .. m |-> Val(args[i])]
  BY <1>1 DEF Vals
<1>3. \A j \in 1 .. m : Val(args[j]) \in ValCell /\ Val(args[j]) \in Cell
  BY <1>1, Cells
<1>4. Vals(args) \in [1 .. m -> Cell] /\ \A j \in 1 .. m : Vals(args)[j] = Val(args[j])
  BY <1>2, <1>3
<1>5. Vals(args) \in Seq(Cell)
  BY <1>4, SeqDef
<1>6. Len(Vals(args)) = m
  BY <1>4, <1>5, LenProperties
<1> QED BY <1>3, <1>4, <1>5, <1>6

LEMMA CallByNameCalls ==
  ASSUME Shape, NEW us, NEW n, Frames(stack, natives, us, n), us[n] = Running,
         NEW f \in Fn, NEW args \in [1 .. Arity[f] -> Literals], CallByName(f, args)
  PROVE  CallsOn(us, n, f, stack \o Vals(args), sp)
<1> DEFINE values == stack \o Vals(args)
<1>1. /\ InCode /\ HasSite /\ sp + (Arity[f] + 2) <= STACK_SIZE
      /\ stack' = Framed(values, Arity[f], Beyond(ip)) /\ fp' = FrameOf(values, Arity[f])
      /\ ip' = At(f, 0) /\ natives' = natives
  BY DEF CallByName, Starts, Room
<1>2. /\ Base \in Nat /\ Base <= sp
      /\ \A j \in Base + 1 .. sp : stack[j] \in ValCell
      /\ ~ InScript => Arity[ip.fn] <= sp - fp + 1
  BY <1>1, CodeRuns
<1>3. sp \in Nat /\ sp = Len(stack) /\ stack \in Seq(Cell) /\ STACK_SIZE \in Nat
  BY Sizes
<1>4. Arity[f] \in Nat
  BY StackConstants
<1>5. /\ Vals(args) \in Seq(Cell) /\ Len(Vals(args)) = Arity[f]
      /\ \A j \in 1 .. Arity[f] : Vals(args)[j] \in ValCell
  <2>1. args \in [1 .. Arity[f] -> Value]
    BY StackConstants, CallConstants DEF Value
  <2> QED BY <2>1, <1>4, Arguments
<1>6. /\ values \in Seq(Cell) /\ Len(values) = sp + Arity[f]
      /\ \A j \in 1 .. sp + Arity[f] : values[j] = IF j <= sp THEN stack[j] ELSE Vals(args)[j - sp]
  <2>1. /\ values \in Seq(Cell) /\ Len(values) = Len(stack) + Len(Vals(args))
        /\ \A j \in 1 .. Len(stack) + Len(Vals(args)) :
             values[j] = IF j <= Len(stack) THEN stack[j] ELSE Vals(args)[j - Len(stack)]
    BY <1>3, <1>5, Joined
  <2> HIDE DEF values
  <2> QED BY <2>1, <1>3, <1>5
<1> HIDE DEF values
<1>7. /\ \A j \in 1 .. sp : values[j] = stack[j]
      /\ \A j \in sp + 1 .. Len(values) : values[j] \in ValCell
  <2>1. \A j \in 1 .. sp : j \in 1 .. sp + Arity[f] /\ j <= sp
    BY <1>3, <1>4
  <2>2. \A j \in sp + 1 .. sp + Arity[f] : j \in 1 .. sp + Arity[f] /\ ~ j <= sp /\ j - sp \in 1 .. Arity[f]
    BY <1>3, <1>4
  <2> QED BY <2>1, <2>2, <1>5, <1>6
<1>8. sp = Len(values) - Arity[f] /\ Len(values) + 2 <= STACK_SIZE
  BY <1>1, <1>3, <1>4, <1>6
<1>9. CallsOn(us, n, f, values, sp)
  BY <1>1, <1>2, <1>3, <1>6, <1>7, <1>8 DEF CallsOn
<1> QED BY <1>9 DEF values

-----------------------------------------------------------------------------
(* Natives start, call and finish.                                         *)

LEMMA Innermost ==
  ASSUME Shape, natives # <<>>
  PROVE  /\ Len(natives) \in Nat \ {0} /\ Len(natives) \in 1 .. Len(natives)
         /\ native = natives[Len(natives)] /\ native \in NatRec /\ Looping(native)
         /\ Front(natives) \in Seq(NatRec) /\ Len(Front(natives)) = Len(natives) - 1
         /\ \A i \in 1 .. Len(natives) - 1 : Front(natives)[i] = natives[i] /\ natives[i].running
<1>1. /\ natives \in Seq(NatRec)
      /\ \A i \in 1 .. Len(natives) : Looping(natives[i])
      /\ \A i \in 1 .. Len(natives) - 1 : natives[i].running
  BY DEF Shape, NativesOK
<1>2. /\ Len(natives) \in Nat /\ Len(natives) >= 1
      /\ Front(natives) \in Seq(NatRec) /\ Len(Front(natives)) = Len(natives) - 1
      /\ \A i \in 1 .. Len(natives) - 1 : Front(natives)[i] = natives[i]
      /\ Last(natives) = natives[Len(natives)] /\ Last(natives) \in NatRec
  BY <1>1, Fronts
<1>3. Len(natives) \in 1 .. Len(natives) /\ Len(natives) \in Nat \ {0}
  BY <1>2
<1> QED BY <1>1, <1>2, <1>3 DEF native

(* The innermost goes on.                                                  *)
LEMMA GoesOn ==
  ASSUME Shape, natives # <<>>, NEW r \in NatRec, Looping(r), r.saved_ip = native.saved_ip,
         SetNative(r)
  PROVE  /\ NativesOK' /\ natives' # <<>> /\ native' = r
         /\ Len(natives') = Len(natives) /\ natives'[Len(natives)] = r
         /\ \A i \in 1 .. Len(natives) - 1 : natives'[i] = natives[i]
         /\ \A i \in 1 .. Len(natives) : natives'[i].saved_ip = natives[i].saved_ip
<1>1. /\ Len(natives) \in Nat \ {0} /\ native = natives[Len(natives)]
      /\ Front(natives) \in Seq(NatRec) /\ Len(Front(natives)) = Len(natives) - 1
      /\ \A i \in 1 .. Len(natives) - 1 : Front(natives)[i] = natives[i] /\ natives[i].running
  BY Innermost
<1>2. /\ natives' \in Seq(NatRec) /\ Len(natives') = Len(Front(natives)) + 1
      /\ natives'[Len(Front(natives)) + 1] = r
      /\ \A i \in 1 .. Len(Front(natives)) : natives'[i] = Front(natives)[i]
  BY <1>1, AppendProperties DEF SetNative
<1>3. Len(Front(natives)) + 1 = Len(natives)
  BY <1>1
<1>4. /\ natives' \in Seq(NatRec) /\ Len(natives') = Len(natives) /\ natives'[Len(natives)] = r
      /\ \A i \in 1 .. Len(natives) - 1 : natives'[i] = natives[i]
  BY <1>1, <1>2, <1>3
<1>5. \A i \in 1 .. Len(natives) : i = Len(natives) \/ i \in 1 .. Len(natives) - 1
  BY <1>1
<1>6. natives' # <<>> /\ native' = r
  BY <1>1, <1>4 DEF native, Last
<1>7. NativesOK'
  <2>1. Len(natives) <= MaxNatives /\ \A i \in 1 .. Len(natives) : Looping(natives[i])
    BY DEF Shape, NativesOK
  <2>2. \A i \in 1 .. Len(natives') : Looping(natives'[i])
    <3>1. \A i \in 1 .. Len(natives) - 1 : i \in 1 .. Len(natives)
      BY <1>1
    <3> QED BY <3>1, <2>1, <1>4, <1>5
  <2>3. \A i \in 1 .. Len(natives') - 1 : natives'[i].running
    BY <1>1, <1>4
  <2> QED BY <2>1, <2>2, <2>3, <1>4 DEF NativesOK, Looping, Targets
<1> QED BY <1>1, <1>4, <1>5, <1>6, <1>7

(* A native that does not run a function is in its loop.                   *)
LEMMA NativeRuns ==
  ASSUME Shape, NEW n, NEW us, Frames(stack, natives, us, n), us[n] = Running, InNative \/ Waiting
  PROVE  /\ us[n] = [p |-> CodeEnd, f |-> fp, top |-> IF Waiting THEN sp - 1 ELSE sp, n |-> Len(natives)]
         /\ us[n] \in Views(stack, natives) /\ n \in Nat \ {0} /\ n > 1 /\ n - 1 \in 1 .. n
         /\ NativeOn(natives, us[n - 1], us[n]) /\ natives # <<>>
         /\ us[n].top \in Nat /\ us[n].top <= sp
         /\ us[n - 1] \in Views(stack, natives) /\ Clean(stack, us[n - 1])
         /\ us[n - 1].p \in CodePos
         /\ (Code(us[n - 1]) => n - 1 > 1 /\ FrameOn(stack, us[n - 2], us[n - 1]))
<1>1. us[n] = [p |-> CodeEnd, f |-> fp, top |-> IF Waiting THEN sp - 1 ELSE sp, n |-> Len(natives)]
      /\ natives # <<>>
  BY DEF Running, InNative, Waiting
<1>2. n \in Nat \ {0} /\ n \in 1 .. n /\ Outermost(us[1]) /\ \A i \in 1 .. n : Lies(stack, natives, us, i)
  BY DEF Frames
<1>3. us[n] \in Views(stack, natives) /\ (n > 1 => On(stack, natives, us[n - 1], us[n]))
  BY <1>2 DEF Lies
<1>4. n > 1
  <2> SUFFICES ASSUME n = 1 PROVE FALSE
    BY <1>2
  <2> QED BY <1>1, <1>2, Positions DEF Outermost
<1>5. NativeOn(natives, us[n - 1], us[n])
  BY <1>1, <1>3, <1>4, Positions DEF On, FrameOn, Code
<1>6. n - 1 \in 1 .. n /\ (n - 1 > 1 => (n - 1) - 1 = n - 2)
  BY <1>2, <1>4
<1>7. us[n - 1].p \in CodePos
  <2>1. us[n].n = Len(natives) /\ natives[Len(natives)] \in NatRec
    BY <1>1, Innermost
  <2> QED BY <2>1, <1>5 DEF NativeOn, NatRec
<1>8. us[n - 1] \in Views(stack, natives) /\ Clean(stack, us[n - 1])
  BY <1>2, <1>6, <1>7, Positions DEF Lies
<1>9. ASSUME Code(us[n - 1]) PROVE n - 1 > 1 /\ FrameOn(stack, us[n - 2], us[n - 1])
  <2>1. n - 1 # 1
    BY <1>2, <1>9, Positions DEF Outermost, Code
  <2>2. On(stack, natives, us[(n - 1) - 1], us[n - 1]) /\ n - 1 > 1
    BY <2>1, <1>2, <1>4, <1>6 DEF Lies
  <2>3. On(stack, natives, us[n - 2], us[n - 1])
    BY <2>2, <1>6
  <2> QED BY <2>2, <2>3, <1>7, Positions DEF On, NativeOn
<1>10. us[n].top \in Nat /\ us[n].top <= sp
  <2>1. sp = Len(stack) /\ sp \in Nat
    BY Sizes
  <2> QED BY <2>1, <1>3 DEF Views
<1> QED BY <1>1, <1>2, <1>3, <1>4, <1>5, <1>6, <1>7, <1>8, <1>9, <1>10

LEMMA Applied ==
  ASSUME Shape, NEW us, NEW n, Frames(stack, natives, us, n), us[n] = Running,
         NEW fn \in Native, NEW list \in Lists, NEW target \in Targets(fn), NEW param \in ParamsOf(fn),
         Apply(fn, target, list, param)
  PROVE  /\ Moved(Opened(Retopped(us, n, Top(Beyond(ip), stack)), n, Running'), n + 1)
         /\ Running' = [p |-> CodeEnd, f |-> fp, top |-> sp, n |-> Len(natives) + 1]
         /\ natives'[Len(natives) + 1] =
              [fn |-> fn, target |-> target, list |-> list, param |-> param,
               next |-> 1, running |-> FALSE, saved_ip |-> ip', out |-> <<>>]
<1> DEFINE r == [fn |-> fn, target |-> target, list |-> list, param |-> param,
                 next |-> 1, running |-> FALSE, saved_ip |-> ip', out |-> <<>>]
<1>1. /\ InCode /\ HasSite /\ sp + 1 <= STACK_SIZE /\ Len(natives) < MaxNatives
      /\ ip' = Beyond(ip) /\ natives' = Append(natives, r) /\ stack' = stack /\ fp' = fp
  BY DEF Apply, HasRoom, Room
<1>2. /\ ip \in CodePos /\ n \in Nat \ {0} /\ ~ InNative
      /\ us[n] = [p |-> ip, f |-> fp, top |-> sp, n |-> Len(natives)]
  BY <1>1, CodeRuns
<1>3. /\ sp \in Nat /\ sp = Len(stack) /\ stack \in Seq(Cell) /\ fp \in 1 .. STACK_SIZE
      /\ STACK_SIZE \in Nat /\ Len(natives) \in Nat /\ natives \in Seq(NatRec)
  BY Sizes
<1>4. ip' \in CodePos /\ ip'.fn = ip.fn /\ ip' # CodeEnd /\ ip' # Prompt /\ ip' \in Place
  BY <1>1, <1>2, Positions DEF HasSite, CodePos
<1>5. r \in NatRec /\ Looping(r) /\ ~ r.running /\ r.saved_ip = ip'
  <2>1. list \in Seq(Num) /\ param \in Num /\ target \in Fn \cup {"std"} /\ <<>> \in Seq(Value)
    BY StackConstants, CallConstants DEF ParamsOf, Targets
  <2>2. r.next <= Len(r.list) + 1
    BY <2>1, LenProperties
  <2> QED BY <2>1, <2>2, <1>4 DEF NatRec, Looping
<1> HIDE DEF r
<1>6. /\ natives' \in Seq(NatRec) /\ Len(natives') = Len(natives) + 1 /\ natives'[Len(natives) + 1] = r
      /\ \A i \in 1 .. Len(natives) : natives'[i] = natives[i]
  BY <1>1, <1>3, <1>5, AppendProperties
<1>7. natives' # <<>> /\ native' = r /\ InNative' /\ ~ Waiting'
  <2>1. natives' # <<>> /\ native' = r
    BY <1>3, <1>6 DEF native, Last
  <2> QED BY <2>1, <1>5 DEF InNative, Waiting
<1>8. NativesOK'
  <2>1. /\ \A i \in 1 .. Len(natives) : Looping(natives[i])
        /\ \A i \in 1 .. Len(natives) - 1 : natives[i].running
    BY DEF Shape, NativesOK
  <2>2. \A i \in 1 .. Len(natives') : Looping(natives'[i])
    <3>1. \A i \in 1 .. Len(natives) + 1 : i = Len(natives) + 1 \/ i \in 1 .. Len(natives)
      BY <1>3
    <3> QED BY <3>1, <2>1, <1>5, <1>6
  <2>3. \A i \in 1 .. Len(natives') - 1 : natives'[i].running
    <3> SUFFICES ASSUME NEW i \in 1 .. Len(natives) PROVE natives[i].running
      BY <1>3, <1>6
    <3>1. CASE i \in 1 .. Len(natives) - 1
      BY <3>1, <2>1
    <3>2. CASE i = Len(natives)
      <4>1. natives # <<>>
        BY <3>2, <1>3
      <4> QED BY <4>1, <3>2, <1>2, Innermost DEF InNative
    <3> QED BY <3>1, <3>2, <1>3
  <2>4. Len(natives') <= MaxNatives
    BY <1>1, <1>3, <1>6, CallConstants
  <2>5. natives' \in Seq(NatRec)
    BY <1>6
  <2> QED BY <2>2, <2>3, <2>4, <2>5 DEF NativesOK, Looping, Targets
<1>9. CellsOK' /\ PlaceOK'
  BY <1>1, <1>4, <1>7 DEF Shape, CellsOK, PlaceOK, sp, Place, Caller, CodeEnd, At
<1> DEFINE w == Top(Beyond(ip), stack)
           ws == Retopped(us, n, w)
           x == Running'
<1>10. Frames(stack, natives, ws, n)
  <2>1. Works(us, n, stack, Beyond(ip))
    BY <1>1, <1>4, StillWorks
  <2> QED BY <2>1, Work
<1>11. ws[n] = w /\ w.p = ip' /\ w.f = fp /\ w.top = sp /\ w.n = Len(natives)
  BY <1>1, <1>2, <1>3 DEF Top, Retopped
<1>12. x = [p |-> CodeEnd, f |-> fp, top |-> sp, n |-> Len(natives) + 1]
  BY <1>1, <1>6, <1>7 DEF Running, sp
<1>13. x.p = CodeEnd /\ x.f = fp /\ x.top = sp /\ x.n = Len(natives) + 1
  BY <1>12
<1> HIDE DEF w, ws, x
<1>14. Frames(stack, natives', ws, n)
  <2>1. n \in 1 .. n /\ Len(natives') \in Nat /\ Len(natives) <= Len(natives')
    BY <1>2, <1>3, <1>6
  <2>2. Keeps(stack, natives, ws, n, n, stack, natives')
    BY <2>1, <1>3, <1>6, <1>10, <1>11 DEF Keeps
  <2> QED BY <2>2, KeepAll
<1>15. x \in Views(stack, natives')
  <2>1. sp \in 0 .. Len(stack) /\ Len(natives) + 1 \in 0 .. Len(natives') /\ CodeEnd \in Place
    BY <1>3, <1>6, Positions
  <2> QED BY <2>1, <1>3, <1>12 DEF Views
<1>16. NativeOn(natives', w, x)
  <2>1. Len(natives) + 1 \in 1 .. Len(natives') /\ sp < STACK_SIZE /\ (Len(natives) + 1) - 1 = Len(natives)
    BY <1>1, <1>3, <1>6
  <2>2. natives'[x.n].saved_ip = ip'
    BY <1>5, <1>6, <1>13
  <2> QED BY <2>1, <2>2, <1>11, <1>13 DEF NativeOn
<1>17. Frames(stack', natives', Opened(ws, n, x), n + 1)
  <2>1. Opens(stack, natives', ws, n, x)
    <3>1. Len(natives') \in Nat
      BY <1>3, <1>6
    <3> QED BY <3>1, <1>3, <1>11, <1>13, <1>14, <1>15, <1>16 DEF Opens, On
  <2> QED BY <2>1, <1>1, Open
<1>18. Opened(ws, n, x)[n + 1] = x
  BY <1>2 DEF Opened
<1>19. Moved(Opened(ws, n, x), n + 1)
  BY <1>8, <1>9, <1>17, <1>18 DEF Moved, x
<1> QED BY <1>6, <1>12, <1>19 DEF ws, w, x, r

(* The result of an element keeps the native in its loop.                  *)
LEMMA Results ==
  ASSUME Shape, natives # <<>>, native.next <= Len(native.list), NEW v \in Value
  PROVE  /\ Elem \in Num
         /\ After(v) \in NatRec /\ Looping(After(v)) /\ ~ After(v).running
         /\ After(v).saved_ip = native.saved_ip
<1>1. native \in NatRec /\ Looping(native)
  BY Innermost
<1>2. native.next \in Nat \ {0} /\ Len(native.list) \in Nat /\ native.list \in Seq(Num)
      /\ native.out \in Seq(Value)
  BY <1>1, LenProperties DEF NatRec
<1>3. Elem \in Num
  <2>1. native.next \in 1 .. Len(native.list)
    BY <1>2
  <2> QED BY <2>1, <1>2, ElementOfSeq DEF Elem
<1>4. Append(native.out, v) \in Seq(Value) /\ Append(native.out, Elem) \in Seq(Value)
  <2>1. Elem \in Value
    BY <1>3 DEF Value
  <2> QED BY <2>1, <1>2, AppendProperties
<1>5. PICK out \in Seq(Value) :
        After(v) = [native EXCEPT !.next = @ + 1, !.running = FALSE, !.out = out]
  <2>1. CASE native.fn = "for_list"
    BY <2>1, <1>4 DEF After
  <2>2. CASE native.fn # "for_list" /\ v \notin {0, Obj}
    BY <2>2, <1>4 DEF After
  <2>3. CASE native.fn # "for_list" /\ v \in {0, Obj}
    BY <2>3, <1>2 DEF After
  <2> QED BY <2>1, <2>2, <2>3
<1>6. native.next + 1 \in Nat \ {0} /\ native.next + 1 <= Len(native.list) + 1
  BY <1>2
<1> QED BY <1>1, <1>3, <1>5, <1>6 DEF NatRec, Looping

LEMMA StdCalled ==
  ASSUME Shape, NEW us, NEW n, Frames(stack, natives, us, n), us[n] = Running,
         NEW v \in Num, StdCallback(v)
  PROVE  Moved(us, n) /\ Running' = Running
<1>1. /\ InNative /\ native.next <= Len(native.list) /\ natives # <<>> /\ ~ native.running
      /\ SetNative(After(v)) /\ stack' = stack /\ fp' = fp /\ ip' = ip
  BY DEF StdCallback, InNative
<1>2. v \in Value
  BY DEF Value
<1>3. After(v) \in NatRec /\ Looping(After(v)) /\ ~ After(v).running /\ After(v).saved_ip = native.saved_ip
  BY <1>1, <1>2, Results
<1>4. /\ NativesOK' /\ natives' # <<>> /\ native' = After(v) /\ Len(natives') = Len(natives)
      /\ \A i \in 1 .. Len(natives) : natives'[i].saved_ip = natives[i].saved_ip
  BY <1>1, <1>3, GoesOn
<1>5. InNative' /\ ~ Waiting' /\ ~ Waiting
  BY <1>1, <1>3, <1>4 DEF InNative, Waiting
<1>6. Running' = Running
  BY <1>1, <1>4, <1>5 DEF Running, sp
<1>7. CellsOK' /\ PlaceOK'
  BY <1>1, <1>4, <1>5 DEF Shape, CellsOK, PlaceOK, sp
<1>8. Frames(stack', natives', us, n)
  <2>1. us[n] \in Views(stack, natives) /\ n \in Nat \ {0} /\ us[n].n = Len(natives) /\ us[n].top <= sp
    BY <1>1, <1>5, NativeRuns
  <2>2. Len(stack) \in Nat /\ Len(natives) \in Nat /\ Len(natives) <= Len(natives') /\ n \in 1 .. n
    BY <2>1, <1>4, Sizes
  <2>3. Keeps(stack, natives, us, n, n, stack, natives')
    BY <2>1, <2>2, <1>4 DEF Keeps, sp
  <2> QED BY <2>3, <1>1, KeepAll
<1> QED BY <1>4, <1>6, <1>7, <1>8 DEF Moved

LEMMA Collected ==
  ASSUME Shape, NEW us, NEW n, Frames(stack, natives, us, n), us[n] = Running, Collect
  PROVE  /\ Moved(us, n) /\ Running' = Running
         /\ sp \in Nat \ {0} /\ Last(stack) \in ValCell /\ Waiting
         /\ stack' \in Seq(Cell) /\ Len(stack') = sp - 1 /\ \A j \in 1 .. sp - 1 : stack'[j] = stack[j]
         /\ native.next <= Len(native.list) /\ native' = After(Last(stack).num) /\ natives # <<>>
<1>1. /\ natives # <<>> /\ native.running /\ ip = CodeEnd /\ Waiting
      /\ SetNative(After(Last(stack).num)) /\ stack' = Front(stack) /\ fp' = fp /\ ip' = ip
  BY DEF Collect, Waiting
<1>2. sp >= 1 /\ Last(stack) \in ValCell /\ Last(stack).num \in Value
  BY <1>1, Cells DEF Shape, PlaceOK
<1>3. native.next <= Len(native.list)
  BY <1>1, Innermost DEF Looping
<1> DEFINE r == After(Last(stack).num)
<1>4. r \in NatRec /\ Looping(r) /\ ~ r.running /\ r.saved_ip = native.saved_ip
  BY <1>1, <1>2, <1>3, Results
<1>5. /\ NativesOK' /\ natives' # <<>> /\ native' = r /\ Len(natives') = Len(natives)
      /\ \A i \in 1 .. Len(natives) : natives'[i].saved_ip = natives[i].saved_ip
  BY <1>1, <1>4, GoesOn
<1>6. InNative' /\ ~ Waiting'
  BY <1>1, <1>4, <1>5 DEF InNative, Waiting
<1>7. stack \in Seq(Cell) /\ sp \in Nat /\ sp = Len(stack) /\ sp <= STACK_SIZE /\ STACK_SIZE \in Nat
      /\ Len(natives) \in Nat
  BY Sizes
<1>8. /\ stack' \in Seq(Cell) /\ Len(stack') = sp - 1
      /\ \A j \in 1 .. sp - 1 : stack'[j] = stack[j]
  <2>1. stack # <<>>
    BY <1>2, <1>7
  <2> QED BY <2>1, <1>1, <1>7, Fronts
<1>9. us[n] = [p |-> CodeEnd, f |-> fp, top |-> sp - 1, n |-> Len(natives)] /\ n \in Nat \ {0}
  BY <1>1, NativeRuns
<1>10. Running' = Running
  <2>1. Running' = [p |-> CodeEnd, f |-> fp, top |-> sp - 1, n |-> Len(natives)]
    BY <1>1, <1>5, <1>6, <1>8 DEF Running, sp
  <2> QED BY <2>1, <1>9
<1>11. CellsOK' /\ PlaceOK'
  <2>1. CellsOK'
    BY <1>7, <1>8 DEF CellsOK, sp
  <2>2. PlaceOK'
    BY <1>1, <1>5, <1>6, Positions DEF Shape, PlaceOK
  <2> QED BY <2>1, <2>2
<1>12. Frames(stack', natives', us, n)
  <2>1. Len(stack') \in Nat /\ Len(natives) <= Len(natives') /\ n \in 1 .. n /\ us[n].top = sp - 1
        /\ us[n].n = Len(natives) /\ sp - 1 <= Len(stack')
    BY <1>2, <1>5, <1>7, <1>8, <1>9
  <2>2. Keeps(stack, natives, us, n, n, stack', natives')
    BY <2>1, <1>5, <1>7, <1>8 DEF Keeps
  <2> QED BY <2>2, KeepAll
<1>13. Moved(us, n)
  BY <1>5, <1>10, <1>11, <1>12 DEF Moved
<1>14. sp \in Nat \ {0}
  BY <1>2, <1>7
<1> QED BY <1>1, <1>2, <1>3, <1>5, <1>8, <1>10, <1>13, <1>14

(* The arguments of the next callback.                                     *)
Args == IF native.fn = "param_filter" THEN <<Elem, native.param>> ELSE <<Elem>>

LEMMA CalledBack ==
  ASSUME Shape, NEW us, NEW n, Frames(stack, natives, us, n), us[n] = Running, Callback
  PROVE  /\ Moved(Opened(us, n, Running'), n + 1)
         /\ Running' = [p |-> At(native.target, 0), f |-> sp + 3, top |-> sp + 2 + Len(Args), n |-> Len(natives)]
         /\ native.target \in Fn /\ Len(Args) = Arity[native.target] /\ Args \in Seq(Num)
         /\ \A j \in 1 .. Len(Args) : stack'[sp + 2 + j] = Val(Args[j])
         /\ \A j \in 1 .. sp : stack'[j] = stack[j]
         /\ natives # <<>> /\ native' = [native EXCEPT !.running = TRUE]
<1> DEFINE b == <<SavedIp(CodeEnd), SavedFp(fp)>>
           r == [native EXCEPT !.running = TRUE]
           m == Len(Args)
<1>1. /\ InNative /\ native.next <= Len(native.list) /\ native.target # "std" /\ natives # <<>>
      /\ ~ native.running /\ sp + (2 + m) <= STACK_SIZE
      /\ stack' = (stack \o b) \o Vals(Args)
      /\ fp' = sp + 3 /\ ip' = At(native.target, 0) /\ SetNative(r)
  BY DEF Callback, InNative, Room, Starts, CallbackFrame, Args
<1>2. native \in NatRec /\ Looping(native)
  BY <1>1, Innermost
<1>3. native.target \in Fn /\ Arity[native.target] = IF native.fn = "param_filter" THEN 2 ELSE 1
  BY <1>1, <1>2 DEF Looping, Targets
<1>4. Elem \in Num /\ native.param \in Num
  <2>1. 0 \in Value
    BY StackConstants DEF Value
  <2> QED BY <2>1, <1>1, <1>2, Results DEF NatRec
<1>5. /\ Args \in Seq(Num) /\ m = Arity[native.target] /\ m \in Nat \ {0}
      /\ Args \in [1 .. m -> Value]
  <2>1. CASE native.fn = "param_filter"
    <3>1. Args = <<Elem, native.param>> /\ Len(<<Elem, native.param>>) = 2
      BY <2>1 DEF Args
    <3>2. <<Elem, native.param>> \in Seq(Num) /\ <<Elem, native.param>> \in [1 .. 2 -> Value]
      BY <1>4 DEF Value
    <3> QED BY <3>1, <3>2, <2>1, <1>3
  <2>2. CASE native.fn # "param_filter"
    <3>1. Args = <<Elem>> /\ Len(<<Elem>>) = 1
      BY <2>2 DEF Args
    <3>2. <<Elem>> \in Seq(Num) /\ <<Elem>> \in [1 .. 1 -> Value]
      BY <1>4 DEF Value
    <3> QED BY <3>1, <3>2, <2>2, <1>3
  <2> QED BY <2>1, <2>2
<1>6. r \in NatRec /\ Looping(r) /\ r.running /\ r.saved_ip = native.saved_ip
  BY <1>1, <1>2, <1>3 DEF NatRec, Looping
<1>7. /\ NativesOK' /\ natives' # <<>> /\ native' = r /\ Len(natives') = Len(natives)
      /\ \A i \in 1 .. Len(natives) : natives'[i].saved_ip = natives[i].saved_ip
  <2> HIDE DEF r
  <2> QED BY <1>1, <1>6, GoesOn
<1> HIDE DEF m, r, b
<1>8. /\ Vals(Args) \in Seq(Cell) /\ Len(Vals(Args)) = m
      /\ \A j \in 1 .. m : Vals(Args)[j] = Val(Args[j]) /\ Vals(Args)[j] \in ValCell
  BY <1>5, Arguments
<1>9. /\ sp \in Nat /\ sp = Len(stack) /\ stack \in Seq(Cell) /\ fp \in 1 .. STACK_SIZE
      /\ STACK_SIZE \in Nat /\ Len(natives) \in Nat
  BY Sizes
<1>10. b \in Seq(Cell) /\ Len(b) = 2 /\ b[1] = SavedIp(CodeEnd) /\ b[2] = SavedFp(fp)
  <2>1. SavedIp(CodeEnd) \in Cell /\ SavedFp(fp) \in Cell
    BY <1>9, Cells, Positions
  <2> QED BY <2>1 DEF b
<1> DEFINE s == stack \o b
<1>11. /\ s \in Seq(Cell) /\ Len(s) = sp + 2
       /\ \A j \in 1 .. sp + 2 : s[j] = IF j <= sp THEN stack[j] ELSE b[j - sp]
  <2>1. /\ s \in Seq(Cell) /\ Len(s) = Len(stack) + Len(b)
        /\ \A j \in 1 .. Len(stack) + Len(b) :
             s[j] = IF j <= Len(stack) THEN stack[j] ELSE b[j - Len(stack)]
    BY <1>9, <1>10, Joined
  <2> HIDE DEF s
  <2> QED BY <2>1, <1>9, <1>10
<1>12. stack' = s \o Vals(Args)
  BY <1>1
<1> HIDE DEF s
<1>13. /\ stack' \in Seq(Cell) /\ Len(stack') = (sp + 2) + m
       /\ \A j \in 1 .. (sp + 2) + m : stack'[j] = IF j <= sp + 2 THEN s[j] ELSE Vals(Args)[j - (sp + 2)]
  <2> DEFINE t == Vals(Args)
  <2>1. t \in Seq(Cell) /\ Len(t) = m
    BY <1>8
  <2> HIDE DEF t
  <2>2. /\ s \o t \in Seq(Cell) /\ Len(s \o t) = Len(s) + Len(t)
        /\ \A j \in 1 .. Len(s) + Len(t) : (s \o t)[j] = IF j <= Len(s) THEN s[j] ELSE t[j - Len(s)]
    BY <2>1, <1>11, Joined
  <2>3. stack' = s \o t
    BY <1>12 DEF t
  <2>4. /\ stack' \in Seq(Cell) /\ Len(stack') = (sp + 2) + m
        /\ \A j \in 1 .. (sp + 2) + m : stack'[j] = IF j <= sp + 2 THEN s[j] ELSE t[j - (sp + 2)]
    BY <2>1, <2>2, <2>3, <1>11
  <2> QED BY <2>4 DEF t
<1>a. m \in Nat \ {0} /\ sp \in Nat
  BY <1>5, <1>9
<1>14. \A j \in 1 .. sp : stack'[j] = stack[j]
  <2>1. \A j \in 1 .. sp : j \in 1 .. sp + 2 /\ j \in 1 .. (sp + 2) + m /\ j <= sp /\ j <= sp + 2
    BY <1>a
  <2> QED BY <2>1, <1>11, <1>13
<1>15. stack'[sp + 1] = SavedIp(CodeEnd) /\ stack'[sp + 2] = SavedFp(fp)
  <2>1. /\ sp + 1 \in 1 .. sp + 2 /\ sp + 1 \in 1 .. (sp + 2) + m /\ ~ sp + 1 <= sp /\ sp + 1 <= sp + 2
        /\ sp + 2 \in 1 .. sp + 2 /\ sp + 2 \in 1 .. (sp + 2) + m /\ ~ sp + 2 <= sp /\ sp + 2 <= sp + 2
        /\ (sp + 1) - sp = 1 /\ (sp + 2) - sp = 2
    BY <1>a
  <2> QED BY <2>1, <1>10, <1>11, <1>13
<1>16. \A j \in 1 .. m : stack'[sp + 2 + j] = Vals(Args)[j]
  <2>1. \A j \in 1 .. m : sp + 2 + j \in 1 .. (sp + 2) + m /\ ~ sp + 2 + j <= sp + 2
                           /\ (sp + 2 + j) - (sp + 2) = j
    BY <1>a
  <2> QED BY <2>1, <1>13
<1>17. ip' \in CodePos /\ ip'.fn = native.target /\ ip' # CodeEnd /\ ip' # Prompt /\ ip' \in Place
  BY <1>1, <1>3, Positions
<1>18. ~ InNative' /\ ~ Waiting'
  BY <1>6, <1>7, <1>17 DEF InNative, Waiting
<1> DEFINE x == Running'
<1>19. x = [p |-> At(native.target, 0), f |-> sp + 3, top |-> sp + 2 + m, n |-> Len(natives)]
  BY <1>1, <1>7, <1>13, <1>18 DEF Running, sp
<1>20. x.p = At(native.target, 0) /\ x.f = sp + 3 /\ x.top = sp + 2 + m /\ x.n = Len(natives)
       /\ x.p = ip' /\ Code(x) /\ x.p.fn = native.target
  BY <1>1, <1>3, <1>17, <1>19 DEF Code
<1> HIDE DEF x
<1>21. sp + 3 \in 1 .. STACK_SIZE /\ sp + 2 + m <= STACK_SIZE /\ sp + 2 + m = (sp + 2) + m
  BY <1>1, <1>9, <1>a
<1>22. x \in Views(stack', natives')
  <2>1. sp + 2 + m \in 0 .. Len(stack') /\ Len(natives) \in 0 .. Len(natives')
    BY <1>7, <1>9, <1>13, <1>a
  <2> QED BY <2>1, <1>1, <1>17, <1>19, <1>21 DEF Views
<1>23. /\ us[n] = [p |-> CodeEnd, f |-> fp, top |-> sp, n |-> Len(natives)] /\ n \in Nat \ {0}
  BY <1>1, NativeRuns DEF Waiting
<1>24. Frames(stack', natives', us, n)
  <2>1. Len(stack') \in Nat /\ Len(natives) <= Len(natives') /\ n \in 1 .. n /\ us[n].top = sp
        /\ us[n].n = Len(natives) /\ sp <= Len(stack') /\ Len(natives') \in Nat
    BY <1>7, <1>9, <1>13, <1>23, <1>a
  <2>2. Keeps(stack, natives, us, n, n, stack', natives')
    BY <2>1, <1>7, <1>9, <1>14 DEF Keeps
  <2> QED BY <2>2, KeepAll
<1>25. FrameOn(stack', us[n], x)
  <2>1. /\ sp + 3 \in 3 .. sp + 2 + m /\ m <= (sp + 2 + m) - (sp + 3) + 1
        /\ (sp + 3) - 3 = sp /\ (sp + 3) - 2 = sp + 1 /\ (sp + 3) - 1 = sp + 2
    BY <1>a
  <2>2. /\ x.f \in 3 .. x.top /\ Arity[x.p.fn] <= x.top - x.f + 1
        /\ us[n].top = x.f - 3 /\ x.f - 2 = sp + 1 /\ x.f - 1 = sp + 2
    BY <2>1, <1>5, <1>20, <1>23
  <2> QED BY <2>2, <1>15, <1>17, <1>20, <1>23, Positions DEF FrameOn
<1>26. Clean(stack', x)
  <2> SUFFICES ASSUME NEW j \in sp + 3 .. sp + 2 + m PROVE stack'[j] \in ValCell
    BY <1>20 DEF Clean, First
  <2>1. j - (sp + 2) \in 1 .. m /\ sp + 2 + (j - (sp + 2)) = j
    BY <1>a
  <2>2. stack'[j] = Vals(Args)[j - (sp + 2)]
    BY <2>1, <1>16
  <2> QED BY <2>1, <2>2, <1>8
<1>27. Frames(stack', natives', Opened(us, n, x), n + 1)
  <2>1. Len(stack') \in Nat /\ Len(natives') \in Nat
    BY <1>7, <1>9, <1>13, <1>a
  <2>2. Opens(stack', natives', us, n, x)
    BY <2>1, <1>22, <1>24, <1>25, <1>26 DEF Opens, On
  <2> QED BY <2>2, Open
<1>28. CellsOK' /\ PlaceOK'
  <2>1. CellsOK'
    BY <1>13, <1>21 DEF CellsOK, sp
  <2>2. PlaceOK'
    BY <1>1, <1>17, <1>18, <1>21 DEF PlaceOK
  <2> QED BY <2>1, <2>2
<1>29. Moved(Opened(us, n, x), n + 1)
  <2>1. Opened(us, n, x)[n + 1] = x
    BY <1>23 DEF Opened
  <2> QED BY <2>1, <1>7, <1>27, <1>28 DEF Moved, x
<1> QED BY <1>1, <1>3, <1>5, <1>7, <1>8, <1>14, <1>16, <1>19, <1>29 DEF x, m, r

(* The innermost is closed; the one below goes on.                         *)
Resumed(us, n) == Retopped(Kept(us, n - 1), n - 1, Running')

LEMMA Finished ==
  ASSUME Shape, NEW us, NEW n, Frames(stack, natives, us, n), us[n] = Running, Finish
  PROVE  /\ Moved(Resumed(us, n), n - 1) /\ n > 1
         /\ Running' = [us[n - 1] EXCEPT !.top = sp + 1] /\ us[n - 1].top = sp
         /\ us[n - 1].p \in CodePos /\ us[n - 1].f = fp /\ us[n - 1].n = Len(natives) - 1
         /\ Len(stack') = sp + 1 /\ stack'[sp + 1] = Val(Obj)
         /\ \A j \in 1 .. sp : stack'[j] = stack[j]
         /\ Len(natives') = Len(natives) - 1 /\ \A i \in 1 .. Len(natives) - 1 : natives'[i] = natives[i]
<1>1. /\ InNative /\ natives # <<>> /\ ~ native.running
      /\ stack' = Append(stack, Val(Obj)) /\ ip' = native.saved_ip /\ natives' = Front(natives)
      /\ fp' = fp
  BY DEF Finish, InNative
<1>2. /\ us[n] = [p |-> CodeEnd, f |-> fp, top |-> sp, n |-> Len(natives)]
      /\ n \in Nat \ {0} /\ n > 1 /\ n - 1 \in 1 .. n
      /\ NativeOn(natives, us[n - 1], us[n])
      /\ us[n - 1] \in Views(stack, natives) /\ Clean(stack, us[n - 1])
      /\ us[n - 1].p \in CodePos
      /\ (Code(us[n - 1]) => n - 1 > 1 /\ FrameOn(stack, us[n - 2], us[n - 1]))
  BY <1>1, NativeRuns DEF Waiting
<1>3. /\ sp \in Nat /\ sp = Len(stack) /\ stack \in Seq(Cell) /\ fp \in 1 .. STACK_SIZE
      /\ STACK_SIZE \in Nat /\ Len(natives) \in Nat /\ natives \in Seq(NatRec)
  BY Sizes
<1>4. /\ Len(natives) \in Nat \ {0} /\ native = natives[Len(natives)]
      /\ natives' \in Seq(NatRec) /\ Len(natives') = Len(natives) - 1
      /\ \A i \in 1 .. Len(natives) - 1 : natives'[i] = natives[i] /\ natives[i].running
  BY <1>1, Innermost
<1>5. /\ us[n - 1].p = ip' /\ us[n - 1].f = fp /\ us[n - 1].top = sp /\ us[n - 1].n = Len(natives) - 1
      /\ sp < STACK_SIZE
  BY <1>1, <1>2, <1>4 DEF NativeOn
<1>6. Val(Obj) \in ValCell /\ Val(Obj) \in Cell
  BY Cells DEF Value
<1>7. /\ stack' \in Seq(Cell) /\ Len(stack') = sp + 1 /\ stack'[sp + 1] = Val(Obj)
      /\ \A j \in 1 .. sp : stack'[j] = stack[j]
  BY <1>1, <1>3, <1>6, AppendProperties
<1>8. NativesOK'
  <2>1. Len(natives) <= MaxNatives /\ \A i \in 1 .. Len(natives) : Looping(natives[i])
    BY DEF Shape, NativesOK
  <2>2. \A i \in 1 .. Len(natives') : Looping(natives'[i])
    <3>1. \A i \in 1 .. Len(natives) - 1 : i \in 1 .. Len(natives)
      BY <1>3
    <3> QED BY <3>1, <2>1, <1>4
  <2>3. \A i \in 1 .. Len(natives') - 1 : natives'[i].running
    <3>1. \A i \in 1 .. (Len(natives) - 1) - 1 : i \in 1 .. Len(natives) - 1
      BY <1>3
    <3> QED BY <3>1, <1>4
  <2>4. Len(natives') <= MaxNatives
    BY <2>1, <1>4, CallConstants
  <2> QED BY <2>2, <2>3, <2>4, <1>4 DEF NativesOK, Looping, Targets
<1>9. ~ InNative'
  <2> SUFFICES ASSUME natives' # <<>> PROVE natives'[Len(natives')].running
    BY DEF InNative, native, Last
  <2>1. Len(natives') \in Nat /\ Len(natives') >= 1
    BY <1>4, Fronts
  <2>2. Len(natives) - 1 \in 1 .. Len(natives) - 1
    BY <2>1, <1>3, <1>4
  <2> QED BY <2>2, <1>4
<1>10. ip' # CodeEnd /\ ip' # Prompt /\ ip' \in Place /\ ip' \in CodePos /\ ~ Waiting'
  <2>1. ip' # CodeEnd /\ ip' # Prompt /\ ip' \in Place /\ ip' \in CodePos
    BY <1>2, <1>5, Positions
  <2> QED BY <2>1 DEF Waiting, CodeEnd, At
<1> DEFINE x == Running'
           vs == Kept(us, n - 1)
<1>11. x = [p |-> ip', f |-> fp, top |-> sp + 1, n |-> Len(natives) - 1]
  BY <1>1, <1>4, <1>7, <1>9, <1>10 DEF Running, sp
<1>12. Running' = [us[n - 1] EXCEPT !.top = sp + 1]
  BY <1>2, <1>5, <1>11 DEF Views
<1>13. x.p = ip' /\ x.f = fp /\ x.top = sp + 1 /\ x.n = Len(natives) - 1
  BY <1>11
<1> HIDE DEF x, vs
<1>14. Frames(stack', natives', vs, n - 1)
  <2>1. Len(stack') \in Nat /\ Len(natives') \in Nat /\ sp <= Len(stack') /\ Len(natives) - 1 <= Len(natives')
    BY <1>3, <1>4, <1>7
  <2>2. Keeps(stack, natives, us, n, n - 1, stack', natives')
    BY <2>1, <1>2, <1>3, <1>4, <1>5, <1>7 DEF Keeps
  <2> QED BY <2>2, Keep DEF vs
<1>15. vs[n - 1] = us[n - 1]
  BY <1>2 DEF vs, Kept
<1>16. x \in Views(stack', natives')
  <2>1. sp + 1 \in 0 .. Len(stack') /\ Len(natives) - 1 \in 0 .. Len(natives')
    BY <1>3, <1>4, <1>7
  <2> QED BY <2>1, <1>3, <1>10, <1>11 DEF Views
<1>17. First(x) = First(us[n - 1]) /\ First(x) \in Int /\ 1 <= First(x) /\ First(x) - 1 <= sp
  <2>1. Code(us[n - 1]) <=> Code(x)
    BY <1>5, <1>13 DEF Code
  <2>2. Code(us[n - 1]) => fp \in 3 .. sp
    BY <1>2, <1>5 DEF FrameOn
  <2>3. First(x) = IF Code(us[n - 1]) THEN fp ELSE 1
    BY <2>1, <1>13 DEF First
  <2>4. First(us[n - 1]) = IF Code(us[n - 1]) THEN fp ELSE 1
    BY <1>5 DEF First
  <2> QED BY <2>2, <2>3, <2>4, <1>3
<1>18. Clean(stack', x)
  <2> SUFFICES ASSUME NEW j \in First(x) .. sp + 1 PROVE stack'[j] \in ValCell
    BY <1>13 DEF Clean
  <2>1. CASE j = sp + 1
    BY <2>1, <1>6, <1>7
  <2>2. CASE j # sp + 1
    <3>1. j \in First(x) .. sp /\ j \in 1 .. sp
      BY <2>2, <1>3, <1>17
    <3>2. stack[j] \in ValCell
      BY <3>1, <1>2, <1>5, <1>17 DEF Clean
    <3> QED BY <3>1, <3>2, <1>7
  <2> QED BY <2>1, <2>2
<1>19. Code(x) => Arity[x.p.fn] <= x.top - x.f + 1
  <2> SUFFICES ASSUME Code(x) PROVE Arity[ip'.fn] <= (sp + 1) - fp + 1
    BY <1>13
  <2>1. Code(us[n - 1]) /\ ip'.fn \in Fn
    BY <1>5, <1>13 DEF Code
  <2>2. Arity[ip'.fn] <= sp - fp + 1 /\ Arity[ip'.fn] \in Nat
    BY <2>1, <1>2, <1>5, StackConstants DEF FrameOn
  <2>3. \A a, f, t \in Nat : a <= t - f + 1 => a <= (t + 1) - f + 1
    OBVIOUS
  <2> QED BY <2>2, <2>3, <1>3
<1>20. Frames(stack', natives', Retopped(vs, n - 1, x), n - 1)
  <2>1. Len(stack') \in Nat /\ Len(natives') \in Nat
    BY <1>3, <1>4, <1>7
  <2>2. Retops(stack', natives', vs, n - 1, stack', x)
    BY <2>1, <1>5, <1>10, <1>13, <1>14, <1>15, <1>16, <1>18, <1>19 DEF Retops
  <2> QED BY <2>2, Retop
<1>21. CellsOK' /\ PlaceOK'
  <2>1. CellsOK'
    BY <1>3, <1>5, <1>7 DEF CellsOK, sp
  <2>2. PlaceOK'
    BY <1>1, <1>3, <1>10 DEF PlaceOK
  <2> QED BY <2>1, <2>2
<1>22. Moved(Resumed(us, n), n - 1)
  <2>1. n - 1 \in 1 .. n - 1
    BY <1>2
  <2>2. Retopped(vs, n - 1, x)[n - 1] = x
    BY <2>1 DEF Retopped
  <2> QED BY <2>2, <1>8, <1>20, <1>21 DEF Moved, Resumed, x, vs
<1> QED BY <1>2, <1>4, <1>5, <1>7, <1>12, <1>22

LEMMA Returned ==
  ASSUME Shape, NEW us, NEW n, Frames(stack, natives, us, n), us[n] = Running, Return
  PROVE  /\ Moved(Resumed(us, n), n - 1) /\ n > 1 /\ InCode /\ ~ InScript
         /\ us[n - 1].top = fp - 3 /\ us[n - 1].n = Len(natives) /\ us[n - 1].p \in Caller
         /\ fp - 3 \in 0 .. sp /\ sp > 0 /\ Last(stack) = stack[sp] /\ stack[sp] \in ValCell
         /\ Len(stack') = fp - 2 /\ stack'[fp - 2] = Last(stack)
         /\ \A j \in 1 .. fp - 3 : stack'[j] = stack[j]
         /\ natives' = natives
         /\ IF us[n - 1].p = CodeEnd
            THEN Running' = us[n - 1] /\ Waiting' /\ natives # <<>>
            ELSE Running' = [us[n - 1] EXCEPT !.top = fp - 2] /\ ~ Waiting'
<1>1. /\ InCode /\ ~ InScript /\ Pushed > 0
      /\ stack' = Append(SubSeq(stack, 1, fp - 3), Last(stack))
      /\ fp' = stack[fp - 1].num /\ ip' = stack[fp - 2].ip /\ natives' = natives
  BY DEF Return
<1>2. /\ us[n] = [p |-> ip, f |-> fp, top |-> sp, n |-> Len(natives)]
      /\ ip \in CodePos /\ ~ InNative /\ n > 1 /\ n \in Nat \ {0}
      /\ 3 <= fp /\ fp <= sp /\ FrameOn(stack, us[n - 1], us[n])
      /\ Base = fp - 1 /\ \A j \in Base + 1 .. sp : stack[j] \in ValCell
  BY <1>1, CodeRuns
<1>3. /\ sp \in Nat /\ sp = Len(stack) /\ stack \in Seq(Cell) /\ fp \in 1 .. STACK_SIZE /\ fp \in Nat
      /\ STACK_SIZE \in Nat /\ Len(natives) \in Nat /\ natives \in Seq(NatRec) /\ sp <= STACK_SIZE
  BY Sizes
<1>4. /\ us[n - 1].p \in Caller /\ us[n - 1].top = fp - 3 /\ us[n - 1].n = Len(natives)
      /\ ip' = us[n - 1].p /\ fp' = us[n - 1].f
  <2>1. /\ us[n - 1].p \in Caller /\ us[n - 1].top = fp - 3 /\ us[n - 1].n = Len(natives)
        /\ stack[fp - 2] = SavedIp(us[n - 1].p) /\ stack[fp - 1] = SavedFp(us[n - 1].f)
    BY <1>2 DEF FrameOn
  <2> QED BY <2>1, <1>1 DEF SavedIp, SavedFp
<1>5. sp > 0 /\ Last(stack) = stack[sp] /\ stack[sp] \in ValCell /\ stack[sp] \in Cell /\ fp - 3 \in 0 .. sp
  <2>1. sp \in Base + 1 .. sp /\ sp > 0 /\ fp - 3 \in 0 .. sp
    BY <1>2, <1>3
  <2> QED BY <2>1, <1>2, <1>3, Cells DEF Last
<1> DEFINE s == SubSeq(stack, 1, fp - 3)
<1>6. s \in Seq(Cell) /\ Len(s) = fp - 3 /\ \A j \in 1 .. fp - 3 : s[j] = stack[j]
  <2>1. fp - 3 \in 0 .. Len(stack)
    BY <1>3, <1>5
  <2> QED BY <2>1, <1>3, Prefix
<1>7. /\ stack' \in Seq(Cell) /\ Len(stack') = fp - 2 /\ stack'[fp - 2] = Last(stack)
      /\ \A j \in 1 .. fp - 3 : stack'[j] = stack[j]
  <2>1. stack' = Append(s, stack[sp])
    BY <1>1, <1>5
  <2> HIDE DEF s
  <2>2. /\ stack' \in Seq(Cell) /\ Len(stack') = Len(s) + 1 /\ stack'[Len(s) + 1] = stack[sp]
        /\ \A j \in 1 .. Len(s) : stack'[j] = s[j]
    BY <2>1, <1>5, <1>6, AppendProperties
  <2>3. Len(s) + 1 = fp - 2
    BY <1>3, <1>6
  <2> QED BY <2>2, <2>3, <1>5, <1>6
<1> HIDE DEF s
<1>8. n - 1 \in 1 .. n /\ us[n - 1] \in Views(stack, natives)
      /\ (us[n - 1].p # CodeEnd => Clean(stack, us[n - 1]))
      /\ (n - 1 = 1 => Outermost(us[n - 1]))
      /\ (n - 1 # 1 => On(stack, natives, us[n - 2], us[n - 1]))
  <2>1. n - 1 \in 1 .. n /\ (n - 1 # 1 => n - 1 > 1 /\ (n - 1) - 1 = n - 2)
    BY <1>2
  <2>2. Outermost(us[1]) /\ Lies(stack, natives, us, n - 1)
    BY <2>1 DEF Frames
  <2> QED BY <2>1, <2>2 DEF Lies
<1> DEFINE vs == Kept(us, n - 1)
<1>9. Frames(stack', natives', vs, n - 1) /\ vs[n - 1] = us[n - 1]
  <2>1. Len(stack') \in Nat /\ fp - 3 <= Len(stack')
    BY <1>2, <1>3, <1>7
  <2>2. us[n - 1].n <= Len(natives')
    BY <1>1, <1>3, <1>4
  <2>3. Keeps(stack, natives, us, n, n - 1, stack', natives')
    BY <2>1, <2>2, <1>1, <1>3, <1>4, <1>7, <1>8 DEF Keeps
  <2>4. Frames(stack', natives', vs, n - 1)
    BY <2>3, Keep
  <2>5. n - 1 \in 1 .. n - 1
    BY <1>2
  <2> QED BY <2>4, <2>5 DEF Kept
<1> HIDE DEF vs
<1>10. ~ InNative' /\ NativesOK'
  <2>1. ~ InNative'
    BY <1>1, <1>2 DEF InNative, native
  <2>2. NativesOK'
    BY <1>1 DEF Shape, NativesOK
  <2> QED BY <2>1, <2>2
<1>11. ip' \in Place /\ ip' # Prompt /\ fp' \in 1 .. STACK_SIZE
  <2>1. us[n - 1].f \in 1 .. STACK_SIZE
    BY <1>8 DEF Views
  <2> QED BY <2>1, <1>4, Positions DEF Place, Caller
<1>12. CellsOK'
  BY <1>2, <1>3, <1>7 DEF CellsOK, sp
<1>13. stack'[fp - 2] \in ValCell /\ stack'[fp - 2] = stack[sp]
  BY <1>5, <1>7
<1>14. CASE us[n - 1].p = CodeEnd
  <2>1. natives # <<>> /\ native.running
    <3>1. n - 1 # 1 /\ On(stack, natives, us[n - 2], us[n - 1])
      BY <1>8, <1>14, Positions DEF Outermost
    <3>2. NativeOn(natives, us[n - 2], us[n - 1])
      BY <3>1, <1>14, Positions DEF On, FrameOn, Code
    <3>3. Len(natives) \in 1 .. Len(natives)
      BY <3>2, <1>4 DEF NativeOn
    <3>4. natives # <<>>
      BY <3>3, <1>3
    <3> QED BY <3>4, <1>2 DEF InNative
  <2>2. ip' = CodeEnd /\ Waiting'
    BY <2>1, <1>1, <1>4, <1>14 DEF Waiting, native, CodeEnd, At
  <2>3. Running' = [p |-> us[n - 1].p, f |-> us[n - 1].f, top |-> fp - 3, n |-> Len(natives)]
    <3>1. (fp - 2) - 1 = fp - 3
      BY <1>3
    <3> QED BY <3>1, <2>2, <1>1, <1>4, <1>7, <1>10, <1>14 DEF Running, sp
  <2>4. Running' = us[n - 1]
    BY <2>3, <1>4, <1>8 DEF Views
  <2>5. PlaceOK'
    <3>1. Len(stack') >= 1 /\ stack'[Len(stack')] \in ValCell
      BY <1>2, <1>3, <1>7, <1>13
    <3> QED BY <3>1, <2>1, <2>2, <1>1, <1>11, Positions DEF PlaceOK, sp, Last
  <2>6. Retopped(vs, n - 1, Running') = vs
    <3>1. vs \in [1 .. n - 1 -> Views(stack', natives')]
      BY <1>9 DEF Frames
    <3> QED BY <3>1, <2>4, <1>9 DEF Retopped
  <2>7. Moved(Resumed(us, n), n - 1)
    BY <2>4, <2>5, <2>6, <1>9, <1>10, <1>12 DEF Moved, Resumed, vs
  <2> QED BY <2>1, <2>2, <2>4, <2>7, <1>1, <1>2, <1>4, <1>5, <1>7, <1>14
<1>15. CASE us[n - 1].p # CodeEnd
  <2>1. us[n - 1].p \in CodePos /\ ip' # CodeEnd /\ ~ Waiting'
    BY <1>4, <1>15 DEF Caller, Waiting, CodeEnd, At
  <2> DEFINE x == Running'
  <2>2. x = [p |-> us[n - 1].p, f |-> us[n - 1].f, top |-> fp - 2, n |-> Len(natives)]
    BY <2>1, <1>1, <1>4, <1>7, <1>10 DEF Running, sp
  <2>3. x = [us[n - 1] EXCEPT !.top = fp - 2]
    BY <2>2, <1>4, <1>8 DEF Views
  <2>4. x.p = us[n - 1].p /\ x.f = us[n - 1].f /\ x.top = fp - 2 /\ x.n = us[n - 1].n
    BY <2>2, <1>4
  <2> HIDE DEF x
  <2>5. x \in Views(stack', natives')
    <3>1. fp - 2 \in 0 .. Len(stack') /\ Len(natives) \in 0 .. Len(natives')
      BY <1>1, <1>2, <1>3, <1>7
    <3>2. us[n - 1].f \in 1 .. STACK_SIZE /\ us[n - 1].p \in Place
      BY <1>8 DEF Views
    <3> QED BY <3>1, <3>2, <2>2 DEF Views
  <2>6. Code(us[n - 1]) => FrameOn(stack, us[n - 2], us[n - 1]) /\ us[n - 1].f \in 3 .. fp - 3
    <3> SUFFICES ASSUME Code(us[n - 1])
                 PROVE  FrameOn(stack, us[n - 2], us[n - 1]) /\ us[n - 1].f \in 3 .. fp - 3
      OBVIOUS
    <3>1. FrameOn(stack, us[n - 2], us[n - 1])
      BY <1>8, <1>15, Positions DEF On, NativeOn, Outermost, Code
    <3> QED BY <3>1, <1>4 DEF FrameOn
  <2>7. First(x) = First(us[n - 1]) /\ First(x) \in Int /\ 1 <= First(x)
    <3>1. us[n - 1].f \in 1 .. STACK_SIZE
      BY <1>8 DEF Views
    <3> QED BY <3>1, <2>4, <1>3 DEF First, Code
  <2>8. First(x) - 1 <= fp - 3
    <3>1. CASE Code(us[n - 1])
      <4>1. First(x) = us[n - 1].f
        BY <3>1, <2>7 DEF First
      <4> QED BY <4>1, <3>1, <2>6, <1>3
    <3>2. CASE ~ Code(us[n - 1])
      <4>1. First(x) = 1
        BY <3>2, <2>7 DEF First
      <4> QED BY <4>1, <1>2, <1>3
    <3> QED BY <3>1, <3>2
  <2>9. Clean(stack', x)
    <3> SUFFICES ASSUME NEW j \in First(x) .. fp - 2 PROVE stack'[j] \in ValCell
      BY <2>4 DEF Clean
    <3>1. CASE j = fp - 2
      BY <3>1, <1>13
    <3>2. CASE j # fp - 2
      <4>1. j \in First(x) .. fp - 3 /\ j \in 1 .. fp - 3
        BY <3>2, <2>7, <1>3
      <4>2. stack[j] \in ValCell
        BY <4>1, <2>7, <1>4, <1>8, <1>15 DEF Clean
      <4> QED BY <4>1, <4>2, <1>7
    <3> QED BY <3>1, <3>2
  <2>10. Code(x) => Arity[x.p.fn] <= x.top - x.f + 1
    <3> SUFFICES ASSUME Code(x) PROVE Arity[us[n - 1].p.fn] <= (fp - 2) - us[n - 1].f + 1
      BY <2>4
    <3>1. Code(us[n - 1])
      BY <2>4 DEF Code
    <3>2. Arity[us[n - 1].p.fn] <= (fp - 3) - us[n - 1].f + 1 /\ Arity[us[n - 1].p.fn] \in Nat
      BY <3>1, <2>6, <1>4, StackConstants DEF FrameOn, Code
    <3>3. us[n - 1].f \in Nat
      BY <1>3, <1>8 DEF Views
    <3>4. \A a, f, t \in Nat : a <= (t - 3) - f + 1 => a <= (t - 2) - f + 1
      OBVIOUS
    <3> QED BY <3>2, <3>3, <3>4, <1>3
  <2>11. Frames(stack', natives', Retopped(vs, n - 1, x), n - 1)
    <3>1. Len(stack') \in Nat /\ Len(natives') \in Nat
      BY <1>1, <1>2, <1>3, <1>7
    <3>2. Retops(stack', natives', vs, n - 1, stack', x)
      BY <3>1, <2>1, <2>4, <2>5, <2>9, <2>10, <1>9, <1>15 DEF Retops
    <3> QED BY <3>2, Retop
  <2>12. PlaceOK'
    BY <2>1, <1>11 DEF PlaceOK
  <2>13. Moved(Resumed(us, n), n - 1)
    <3>1. n - 1 \in 1 .. n - 1
      BY <1>2
    <3>2. Retopped(vs, n - 1, x)[n - 1] = x
      BY <3>1 DEF Retopped
    <3> QED BY <3>2, <2>11, <2>12, <1>10, <1>12 DEF Moved, Resumed, x, vs
  <2> QED BY <2>1, <2>3, <2>13, <1>1, <1>2, <1>4, <1>5, <1>7, <1>15 DEF x
<1> QED BY <1>14, <1>15

-----------------------------------------------------------------------------
(* Lines begin and end with one activation.                                *)

LEMMA AtThePrompt ==
  ASSUME Shape, NEW us, NEW n, Frames(stack, natives, us, n), us[n] = Running, ip = Prompt
  PROVE  n = 1 /\ us[1] = [p |-> Prompt, f |-> fp, top |-> 0, n |-> 0] /\ stack = <<>> /\ natives = <<>>
         /\ ~ InCode /\ ~ InNative
<1>1. stack = <<>> /\ natives = <<>> /\ sp = 0 /\ Len(natives) = 0
  BY DEF Shape, PlaceOK, sp
<1>2. ~ InNative /\ ~ Waiting /\ ~ InCode
  BY <1>1, Positions DEF InNative, Waiting, InCode
<1>3. us[n] = [p |-> Prompt, f |-> fp, top |-> 0, n |-> 0]
  BY <1>1, <1>2 DEF Running
<1>4. n = 1
  <2> SUFFICES ASSUME n # 1 PROVE FALSE
    OBVIOUS
  <2>1. n \in 1 .. n /\ n > 1
    BY DEF Frames
  <2>2. On(stack, natives, us[n - 1], us[n])
    BY <2>1 DEF Frames, Lies
  <2> QED BY <2>2, <1>3, Positions DEF On, NativeOn, FrameOn, Code
<1> QED BY <1>1, <1>2, <1>3, <1>4

LEMMA Begun ==
  ASSUME NEW p \in {Prompt, At("script", 0)}, ip' = p, stack' = <<>>, natives' = <<>>, fp' = fp,
         fp \in 1 .. STACK_SIZE, NEW n, n = 1
  PROVE  /\ Moved(<<Running'>>, n) /\ Running' = [p |-> p, f |-> fp, top |-> 0, n |-> 0]
<1>0. ip' = p /\ p \in Place /\ p # CodeEnd /\ p.fn \in {"script", "prompt"}
  BY Positions DEF At
<1>1. ~ InNative' /\ ~ Waiting'
  BY DEF InNative, Waiting
<1>2. sp' = 0 /\ Len(natives') = 0
  BY DEF sp
<1>3. Running' = [p |-> p, f |-> fp, top |-> 0, n |-> 0]
  BY <1>0, <1>1, <1>2 DEF Running
<1> DEFINE u == Running'
<1>4. u.p = p /\ u.f = fp /\ u.top = 0 /\ u.n = 0
  BY <1>3
<1>5. NativesOK' /\ CellsOK' /\ PlaceOK'
  <2>1. NativesOK'
    <3>1. <<>> \in Seq(NatRec) /\ Len(<<>>) = 0 /\ 1 .. 0 = {} /\ 1 .. 0 - 1 = {}
      OBVIOUS
    <3>2. 0 <= MaxNatives
      BY CallConstants
    <3> QED BY <3>1, <3>2 DEF NativesOK
  <2>2. CellsOK'
    BY <1>2, CallConstants DEF CellsOK
  <2>3. PlaceOK'
    BY <1>0, <1>1 DEF PlaceOK
  <2> QED BY <2>1, <2>2, <2>3
<1>6. u \in Views(<<>>, <<>>)
  <2>1. 0 \in 0 .. Len(<<>>)
    OBVIOUS
  <2> QED BY <2>1, <1>0, <1>3 DEF Views
<1> HIDE DEF u
<1>7. Clean(<<>>, u)
  <2>1. ~ Code(u) /\ 1 .. 0 = {}
    BY <1>0, <1>4, Positions DEF Code
  <2> QED BY <2>1, <1>4 DEF Clean, First
<1>8. Frames(<<>>, <<>>, <<u>>, 1)
  <2>1. <<>> \in Seq(Cell) /\ <<>> \in Seq(NatRec) /\ Outermost(u) /\ u.n = 0
    BY <1>0, <1>4 DEF Outermost
  <2> QED BY <2>1, <1>6, <1>7, Fresh
<1>9. Frames(stack', natives', <<u>>, n) /\ <<u>>[n] = u
  BY <1>8
<1>10. Moved(<<Running'>>, n)
  BY <1>5, <1>9 DEF Moved, u
<1> QED BY <1>3, <1>10

LEMMA LineStarts ==
  ASSUME Shape, NEW us, NEW n, Frames(stack, natives, us, n), us[n] = Running, StartLine
  PROVE  /\ Moved(<<Running'>>, 1) /\ Running' = [p |-> At("script", 0), f |-> fp, top |-> 0, n |-> 0]
         /\ n = 1 /\ us[1] = [p |-> Prompt, f |-> fp, top |-> 0, n |-> 0]
<1>1. n = 1 /\ stack = <<>> /\ natives = <<>> /\ us[1] = [p |-> Prompt, f |-> fp, top |-> 0, n |-> 0]
  BY AtThePrompt DEF StartLine
<1>2. ip' = At("script", 0) /\ stack' = <<>> /\ natives' = <<>> /\ fp' = fp /\ fp \in 1 .. STACK_SIZE
  BY <1>1 DEF StartLine, Shape, PlaceOK
<1>3. \A m : m = 1 => /\ Moved(<<Running'>>, m)
                      /\ Running' = [p |-> At("script", 0), f |-> fp, top |-> 0, n |-> 0]
  BY <1>2, Begun
<1> QED BY <1>1, <1>3

LEMMA LineEnds ==
  ASSUME Shape, NEW us, NEW n, Frames(stack, natives, us, n), us[n] = Running, EndLine
  PROVE  /\ Moved(<<Running'>>, 1) /\ Running' = [p |-> Prompt, f |-> fp, top |-> 0, n |-> 0]
         /\ n = 1 /\ us[1].f = fp /\ us[1].p # CodeEnd /\ ~ Code(us[1]) /\ us[1].n = 0 /\ natives = <<>>
<1>1. InCode /\ InScript
  BY DEF EndLine, InCode, InScript
<1>2. n = 1 /\ us[n] = [p |-> ip, f |-> fp, top |-> sp, n |-> Len(natives)] /\ us[n].p # CodeEnd
      /\ ~ Code(us[n])
  BY <1>1, CodeRuns
<1>3. natives = <<>> /\ us[1].n = 0
  <2>1. us[1].n = 0
    BY DEF Frames
  <2>2. Len(natives) = 0
    BY <2>1, <1>2
  <2> QED BY <2>1, <2>2, Sizes, EmptySeq
<1>4. ip' = Prompt /\ stack' = <<>> /\ natives' = <<>> /\ fp' = fp /\ fp \in 1 .. STACK_SIZE
  BY <1>3 DEF EndLine, Shape, PlaceOK
<1>5. \A m : m = 1 => /\ Moved(<<Running'>>, m)
                      /\ Running' = [p |-> Prompt, f |-> fp, top |-> 0, n |-> 0]
  BY <1>4, Begun
<1> QED BY <1>2, <1>3, <1>5

LEMMA Aborted ==
  ASSUME Shape, RuntimeError
  PROVE  /\ Moved(<<Running'>>, 1) /\ Running' = [p |-> Prompt, f |-> fp, top |-> 0, n |-> 0]
<1>1. ip' = Prompt /\ stack' = <<>> /\ natives' = <<>> /\ fp' = fp /\ fp \in 1 .. STACK_SIZE
  BY DEF RuntimeError, Shape, PlaceOK
<1>2. \A m : m = 1 => /\ Moved(<<Running'>>, m)
                      /\ Running' = [p |-> Prompt, f |-> fp, top |-> 0, n |-> 0]
  BY <1>1, Begun
<1> QED BY <1>2

LEMMA Defined ==
  ASSUME Shape, NEW us, NEW n, Frames(stack, natives, us, n), us[n] = Running,
         NEW x \in Var, DefineVar(x)
  PROVE  /\ Moved(Retopped(us, n, Running'), n) /\ n = 1
         /\ Running' = [us[1] EXCEPT !.top = Len(stack')]
         /\ us[1].p = ip /\ ip \in CodePos /\ ip.fn = "script" /\ us[1].n = 0
<1>1. InCode /\ InScript /\ stack = <<>> /\ sp = 0
  BY DEF DefineVar, InCode, InScript, sp
<1>2. /\ n = 1 /\ us[n] = [p |-> ip, f |-> fp, top |-> sp, n |-> Len(natives)]
      /\ Base = 0 /\ ip \in CodePos /\ ip.fn = "script"
  BY <1>1, CodeRuns
<1>3. stack' = <<>> \/ stack' = <<Val(Obj)>>
  BY <1>1 DEF DefineVar
<1>4. ip' = ip /\ fp' = fp /\ natives' = natives
  BY DEF DefineVar
<1>5. /\ stack' \in Seq(Cell) /\ Len(stack') <= STACK_SIZE /\ Len(stack') \in Nat
      /\ \A j \in 1 .. Len(stack') : stack'[j] \in ValCell
  <2>1. Val(Obj) \in ValCell /\ Val(Obj) \in Cell
    BY Cells DEF Value
  <2>2. CASE stack' = <<>>
    BY <2>2, CallConstants
  <2>3. CASE stack' = <<Val(Obj)>>
    <3>1. Len(<<Val(Obj)>>) = 1 /\ <<Val(Obj)>>[1] = Val(Obj) /\ <<Val(Obj)>> \in Seq(Cell)
      BY <2>1
    <3>2. 1 <= STACK_SIZE /\ \A j \in 1 .. 1 : j = 1
      BY CallConstants
    <3> QED BY <3>1, <3>2, <2>1, <2>3
  <2> QED BY <2>2, <2>3, <1>3
<1>6. Works(us, n, stack', ip')
  <2>1. 1 .. Base = {} /\ Base + 1 = 1 /\ Base <= Len(stack')
    BY <1>2, <1>5
  <2> QED BY <2>1, <1>1, <1>2, <1>4, <1>5 DEF Works
<1>7. Moved(Retopped(us, n, Running'), n)
  BY <1>4, <1>6, Worked
<1>8. Running' = [us[1] EXCEPT !.top = Len(stack')]
  BY <1>1, <1>2, <1>4, StaysInCode
<1>9. us[1].n = 0
  BY DEF Frames
<1> QED BY <1>2, <1>7, <1>8, <1>9

LEMMA Unchanged ==
  ASSUME Shape, NEW us, NEW n, Frames(stack, natives, us, n), us[n] = Running, UNCHANGED vm
  PROVE  Moved(us, n) /\ Running' = Running
<1>1. stack' = stack /\ natives' = natives /\ ip' = ip /\ fp' = fp
  BY DEF vm
<1>2. Running' = Running
  BY <1>1 DEF Running, InNative, Waiting, native, sp
<1>3. NativesOK' /\ CellsOK'
  BY <1>1 DEF Shape, NativesOK, CellsOK, sp
<1>4. PlaceOK'
  BY <1>1 DEF Shape, PlaceOK, Waiting, native, sp
<1> QED BY <1>1, <1>2, <1>3, <1>4 DEF Moved

-----------------------------------------------------------------------------
(* Scopes, heads and variables have their types.                           *)

LEMMA MaxOf ==
  ASSUME NEW b \in Nat, NEW T \in SUBSET (0 .. b), T # {}
  PROVE  Max(T) \in T /\ \A y \in T : y <= Max(T)
<1> DEFINE D == {b - y : y \in T}
<1>0. \A y \in T : y \in Int /\ 0 <= y /\ y <= b /\ b - y \in Nat
  OBVIOUS
<1>1. D \in SUBSET Nat /\ D # {}
  BY <1>0
<1>2. PICK m \in D : \A d \in D : m <= d
  <2> HIDE DEF D
  <2> QED BY <1>1, Least
<1>3. PICK x \in T : m = b - x
  BY <1>2
<1>4. \A y \in T : x >= y
  <2> TAKE y \in T
  <2>1. b - y \in D
    OBVIOUS
  <2>2. b - x <= b - y
    BY <2>1, <1>2, <1>3
  <2> QED BY <2>2, <1>0
<1>5. \E z \in T : \A y \in T : z >= y
  BY <1>4
<1>6. Max(T) \in T /\ \A y \in T : Max(T) >= y
  BY <1>5 DEF Max
<1>7. Max(T) \in Int /\ \A y \in T : y \in Int
  BY <1>0, <1>6
<1> QED BY <1>6, <1>7

(* The scopes a return leaves are those up to the last one of another fp.  *)
LEMMA Callers ==
  ASSUME MemoryOK
  PROVE  \E m \in 0 .. Len(scopes) :
           /\ CallersScopes \in Seq(ScopeRec) /\ Len(CallersScopes) = m
           /\ \A s \in 1 .. m : CallersScopes[s] = scopes[s]
           /\ m > 0 => scopes[m].fp # fp
           /\ \A s \in m + 1 .. Len(scopes) : scopes[s].fp = fp
<1> DEFINE T == {0} \cup {s \in DOMAIN scopes : scopes[s].fp # fp}
           m == Max(T)
<1>1. scopes \in Seq(ScopeRec) /\ Len(scopes) \in Nat /\ DOMAIN scopes = 1 .. Len(scopes)
  BY DEF MemoryOK
<1>2. T \in SUBSET (0 .. Len(scopes)) /\ T # {}
  BY <1>1
<1>3. m \in T /\ \A y \in T : y <= m
  <2> HIDE DEF T
  <2> QED BY <1>1, <1>2, MaxOf
<1>4. CallersScopes = SubSeq(scopes, 1, m)
  BY DEF CallersScopes
<1>5. m \in 0 .. Len(scopes) /\ (m > 0 => scopes[m].fp # fp)
  <2>1. \A y \in T : y \in 0 .. Len(scopes) /\ (y > 0 => scopes[y].fp # fp)
    BY <1>1
  <2> HIDE DEF T
  <2> QED BY <2>1, <1>3
<1>6. ASSUME NEW s \in m + 1 .. Len(scopes) PROVE scopes[s].fp = fp
  <2>1. m \in Nat
    BY <1>1, <1>5
  <2>2. s \in DOMAIN scopes /\ ~ s <= m
    <3> HIDE DEF T, m
    <3> QED BY <2>1, <1>1
  <2>3. s \notin T
    BY <2>2, <1>3
  <2> QED BY <2>2, <2>3
<1> HIDE DEF T, m
<1>7. /\ SubSeq(scopes, 1, m) \in Seq(ScopeRec) /\ Len(SubSeq(scopes, 1, m)) = m
      /\ \A s \in 1 .. m : SubSeq(scopes, 1, m)[s] = scopes[s]
  BY <1>1, <1>5, Prefix
<1> QED BY <1>4, <1>5, <1>6, <1>7

(* What Starts does.                                                       *)
Started(frame) ==
  /\ Len(scopes) < MAX_LOOP_NESTING
  /\ scopes' = Append(scopes, [fp |-> frame, head |-> head])
  /\ nest' = Append(nest, 1)
  /\ head' = head /\ vars' = vars /\ inside' = inside
  /\ defined' = defined /\ errors' = errors /\ stale' = stale

LEMMA MemoryCases ==
  ASSUME MemoryOK
  PROVE  /\ Len(scopes) \in Nat /\ MAX_LOOP_NESTING \in Nat /\ MAX_HEAP \in Nat /\ MaxErrors \in Nat
         /\ head \in Nat /\ errors \in Nat
         /\ \A s \in 1 .. Len(scopes) : scopes[s] \in ScopeRec /\ scopes[s].head \in 0 .. MAX_HEAP
                                        /\ scopes[s].head \in Nat /\ scopes[s].fp \in Nat
<1>1. scopes \in Seq(ScopeRec) /\ head \in 0 .. MAX_HEAP /\ errors \in 0 .. MaxErrors
      /\ MAX_LOOP_NESTING \in Nat /\ MAX_HEAP \in Nat /\ MaxErrors \in Nat /\ STACK_SIZE \in Nat
  BY CallConstants DEF MemoryOK
<1>2. Len(scopes) \in Nat /\ \A s \in 1 .. Len(scopes) : scopes[s] \in ScopeRec
  BY <1>1, ElementOfSeq, LenProperties
<1> QED BY <1>1, <1>2 DEF ScopeRec

LEMMA PushedScope ==
  ASSUME MemoryOK, Len(scopes) < MAX_LOOP_NESTING, NEW frame \in 1 .. STACK_SIZE
  PROVE  LET sc == Append(scopes, [fp |-> frame, head |-> head])
         IN /\ sc \in Seq(ScopeRec) /\ Len(sc) = Len(scopes) + 1 /\ Len(sc) <= MAX_LOOP_NESTING
            /\ sc[Len(scopes) + 1].fp = frame /\ sc[Len(scopes) + 1].head = head
            /\ \A s \in 1 .. Len(scopes) : sc[s] = scopes[s]
<1> DEFINE r == [fp |-> frame, head |-> head]
<1>1. r \in ScopeRec /\ r.fp = frame /\ r.head = head
  BY DEF ScopeRec, MemoryOK
<1>2. scopes \in Seq(ScopeRec)
  BY DEF MemoryOK
<1> HIDE DEF r
<1>3. /\ Append(scopes, r) \in Seq(ScopeRec) /\ Len(Append(scopes, r)) = Len(scopes) + 1
      /\ Append(scopes, r)[Len(scopes) + 1] = r
      /\ \A s \in 1 .. Len(scopes) : Append(scopes, r)[s] = scopes[s]
  BY <1>1, <1>2, AppendProperties
<1>4. Len(Append(scopes, r)) <= MAX_LOOP_NESTING
  BY <1>3, MemoryCases
<1> QED BY <1>1, <1>3, <1>4 DEF r

LEMMA StartedMemory ==
  ASSUME MemoryOK, NEW frame \in 1 .. STACK_SIZE, Started(frame)
  PROVE  MemoryOK'
<1>1. scopes' \in Seq(ScopeRec) /\ Len(scopes') <= MAX_LOOP_NESTING
  BY PushedScope DEF Started
<1> QED BY <1>1 DEF Started, MemoryOK, ScopeRec

(* What Leave does.                                                        *)
LEMMA LeaveMemory ==
  ASSUME MemoryOK, Leave
  PROVE  MemoryOK'
<1>1. scopes \in Seq(ScopeRec) /\ Len(scopes) <= MAX_LOOP_NESTING
  BY DEF MemoryOK
<1>2. scopes' \in Seq(ScopeRec) /\ Len(scopes') <= MAX_LOOP_NESTING /\ head' \in 0 .. MAX_HEAP
  <2>1. CASE scopes = <<>>
    BY <2>1 DEF Leave, MemoryOK
  <2>2. CASE scopes # <<>>
    <3>1. scopes' = Front(scopes) /\ head' = Last(scopes).head
      BY <2>2 DEF Leave
    <3>2. Front(scopes) \in Seq(ScopeRec) /\ Len(Front(scopes)) = Len(scopes) - 1 /\ Last(scopes) \in ScopeRec
      BY <2>2, <1>1, Fronts
    <3>3. Len(scopes) - 1 <= MAX_LOOP_NESTING
      BY <1>1, MemoryCases
    <3> QED BY <3>1, <3>2, <3>3 DEF ScopeRec
  <2> QED BY <2>1, <2>2
<1> QED BY <1>2 DEF Leave, MemoryOK, ScopeRec, repl

LEMMA ReturnMemory ==
  ASSUME MemoryOK, Return
  PROVE  /\ MemoryOK' /\ scopes' = CallersScopes /\ nest' = Front(nest)
         /\ head' = head \/ \E s \in 1 .. Len(scopes) : head' = scopes[s].head
         /\ vars' = vars /\ inside' = inside /\ defined' = defined /\ stale' = stale
<1>1. PICK m \in 0 .. Len(scopes) : CallersScopes \in Seq(ScopeRec) /\ Len(CallersScopes) = m
  BY Callers
<1>2. m \in Nat /\ Len(scopes) \in Nat /\ m <= MAX_LOOP_NESTING
  <2>1. Len(scopes) <= MAX_LOOP_NESTING
    BY DEF MemoryOK
  <2> QED BY <2>1, MemoryCases
<1>3. head' = head \/ \E s \in 1 .. Len(scopes) : head' = scopes[s].head
  <2> DEFINE rewind == {scopes[s].head : s \in Len(CallersScopes) + 1 .. Len(scopes)}
  <2>1. \A h \in rewind : \E s \in 1 .. Len(scopes) : h = scopes[s].head
    BY <1>1, <1>2
  <2>2. rewind # {} => Len(CallersScopes) + 1 \in 1 .. Len(scopes)
    BY <1>1, <1>2
  <2>3. /\ Last(stack).num = Obj => head' \in {head} \cup rewind
        /\ Last(stack).num # Obj => head' = IF rewind = {} THEN head
                                            ELSE scopes[Len(CallersScopes) + 1].head
    BY DEF Return
  <2> HIDE DEF rewind
  <2> QED BY <2>1, <2>2, <2>3
<1>4. head' \in 0 .. MAX_HEAP
  BY <1>3, MemoryCases DEF MemoryOK
<1>5. scopes' = CallersScopes /\ nest' = Front(nest) /\ UNCHANGED <<vars, inside, defined, errors, stale>>
  BY DEF Return, repl
<1>6. MemoryOK'
  BY <1>1, <1>2, <1>4, <1>5 DEF MemoryOK, ScopeRec
<1> QED BY <1>3, <1>5, <1>6

(* Steps that open no scope and close none.                                *)
LEMMA PlainMemory ==
  ASSUME MemoryOK, scopes' = scopes, UNCHANGED <<vars, inside, defined, errors, stale>>,
         head' = head \/ (head < MAX_HEAP /\ head' = head + 1)
  PROVE  MemoryOK'
<1>1. head' \in 0 .. MAX_HEAP
  BY MemoryCases DEF MemoryOK
<1> QED BY <1>1 DEF MemoryOK, ScopeRec

LEMMA LineMemory ==
  ASSUME MemoryOK,
         (\E x \in Var : DefineVar(x)) \/ CompileError \/ RuntimeError
  PROVE  MemoryOK'
<1>1. CASE \E x \in Var : DefineVar(x)
  <2>1. PICK x \in Var : DefineVar(x)
    BY <1>1
  <2>2. head' = head + 1 /\ head' \in 0 .. MAX_HEAP
    BY <2>1, MemoryCases DEF DefineVar
  <2>3. vars' \in [Var -> 0 .. MAX_HEAP]
    BY <2>1, <2>2 DEF DefineVar, MemoryOK
  <2>4. defined' \subseteq Var
    BY <2>1 DEF DefineVar, MemoryOK
  <2> QED BY <2>1, <2>2, <2>3, <2>4 DEF DefineVar, MemoryOK, ScopeRec
<1>2. CASE CompileError
  <2>1. errors' \in 0 .. MaxErrors
    BY <1>2, MemoryCases DEF CompileError
  <2>2. inside' \in BOOLEAN /\ stale' \in BOOLEAN /\ (inside' => stale')
    BY <1>2 DEF CompileError, MemoryOK
  <2> QED BY <1>2, <2>1, <2>2 DEF CompileError, MemoryOK, ScopeRec, vm
<1>3. CASE RuntimeError
  <2>1. errors' \in 0 .. MaxErrors
    BY <1>3, MemoryCases DEF RuntimeError
  <2>2. stale' \in BOOLEAN /\ (inside' => stale')
    BY <1>3 DEF RuntimeError, MemoryOK, repl
  <2> QED BY <1>3, <2>1, <2>2 DEF RuntimeError, MemoryOK, ScopeRec, repl
<1> QED BY <1>1, <1>2, <1>3

-----------------------------------------------------------------------------
(* Blocks and scopes of the activations.                                   *)

Stacked(us, n) == \E st \in Seq(Cell), ns \in Seq(NatRec) : Frames(st, ns, us, n)

LEMMA Ranks ==
  ASSUME NEW us, NEW n, Stacked(us, n)
  PROVE  /\ n \in Nat \ {0} /\ n \in 1 .. n /\ 1 \in 1 .. n /\ Rank(us, 1) = 1
         /\ \A i \in 1 .. n : us[i].n \in Nat /\ Rank(us, i) \in Int
                              /\ 1 <= Rank(us, i) /\ Rank(us, i) <= Rank(us, n)
         /\ \A j \in 1 .. n : \A i \in 1 .. j - 1 : us[j].p # CodeEnd => Rank(us, i) < Rank(us, j)
         /\ \A j \in 1 .. n : us[j].p # CodeEnd /\ j > 1 => Code(us[j])
         /\ \A j \in 1 .. n : Code(us[j]) => us[j].p # CodeEnd /\ j > 1 /\ us[j].n = us[j - 1].n
<1>0. PICK st \in Seq(Cell), ns \in Seq(NatRec) : Frames(st, ns, us, n)
  BY DEF Stacked
<1>1. /\ n \in Nat \ {0} /\ Outermost(us[1]) /\ us[1].n = 0 /\ n \in 1 .. n /\ 1 \in 1 .. n
      /\ \A i \in 1 .. n : us[i] \in Views(st, ns) /\ (i > 1 => On(st, ns, us[i - 1], us[i]))
      /\ \A j \in 1 .. n : \A i \in 1 .. j : us[j].n - us[i].n <= j - i
  BY <1>0 DEF Frames, Lies, Rises
<1>2. Len(ns) \in Nat
  OBVIOUS
<1>3. \A i \in 1 .. n : us[i].n \in Nat
  BY <1>1, <1>2 DEF Views
<1>4. Rank(us, 1) = 1 /\ \A i \in 1 .. n : Rank(us, i) = i - us[i].n /\ Rank(us, i) \in Int /\ i \in Int
  BY <1>1, <1>3 DEF Rank
<1>5. ASSUME NEW j \in 1 .. n, NEW i \in 1 .. j PROVE Rank(us, i) <= Rank(us, j)
  <2>1. i \in 1 .. n /\ us[j].n - us[i].n <= j - i
    BY <1>1
  <2>2. \A a, b, x, y \in Int : b - a <= y - x => x - a <= y - b
    OBVIOUS
  <2>3. i - us[i].n <= j - us[j].n
    <3>1. us[i].n \in Int /\ us[j].n \in Int /\ i \in Int /\ j \in Int
      BY <2>1, <1>3, <1>4
    <3>2. us[j].n - us[i].n <= j - i
      BY <2>1
    <3> QED BY <3>1, <3>2, <2>2
  <2> QED BY <2>1, <2>3, <1>4
<1>6. ASSUME NEW j \in 1 .. n, us[j].p # CodeEnd, j > 1
      PROVE  Code(us[j]) /\ us[j].n = us[j - 1].n
  <2>1. On(st, ns, us[j - 1], us[j])
    BY <1>1, <1>6
  <2> QED BY <2>1, <1>6 DEF On, NativeOn, FrameOn
<1>7. ASSUME NEW j \in 1 .. n, Code(us[j]) PROVE us[j].p # CodeEnd /\ j > 1
  BY <1>1, <1>7, Positions DEF Code, Outermost
<1>8. ASSUME NEW j \in 1 .. n, NEW i \in 1 .. j - 1, us[j].p # CodeEnd PROVE Rank(us, i) < Rank(us, j)
  <2>1. j > 1 /\ j - 1 \in 1 .. n /\ i \in 1 .. n
    BY <1>1
  <2>2. us[j].n = us[j - 1].n
    BY <2>1, <1>6, <1>8
  <2>3. Rank(us, i) <= Rank(us, j - 1)
    BY <2>1, <1>5
  <2>4. Rank(us, j - 1) = Rank(us, j) - 1
    <3>1. Rank(us, j - 1) = (j - 1) - us[j].n /\ Rank(us, j) = j - us[j].n
      BY <2>1, <2>2, <1>4
    <3> QED BY <3>1, <2>1, <1>3
  <2> QED BY <2>1, <2>3, <2>4, <1>4
<1>9. \A i \in 1 .. n : 1 <= Rank(us, i) /\ Rank(us, i) <= Rank(us, n)
  <2> TAKE i \in 1 .. n
  <2>1. 1 \in 1 .. i /\ i \in 1 .. n
    BY <1>1
  <2>2. Rank(us, 1) <= Rank(us, i) /\ Rank(us, i) <= Rank(us, n)
    BY <2>1, <1>1, <1>5
  <2> QED BY <2>2, <1>4
<1> QED BY <1>1, <1>3, <1>4, <1>6, <1>7, <1>8, <1>9

(* Frames of inner activations are above those of outer ones.              *)
LEMMA FramesRise ==
  ASSUME NEW us, NEW n, Stacked(us, n), us[1].f = 1
  PROVE  \A j \in 1 .. n : \A i \in 1 .. j - 1 :
           us[i].p # CodeEnd /\ us[j].p # CodeEnd => us[i].f < us[j].f
<1> SUFFICES ASSUME NEW j \in 1 .. n, NEW i \in 1 .. j - 1, us[i].p # CodeEnd, us[j].p # CodeEnd
             PROVE  us[i].f < us[j].f
  OBVIOUS
<1>0. PICK st \in Seq(Cell), ns \in Seq(NatRec) : Frames(st, ns, us, n)
  BY DEF Stacked
<1>1. i \in 1 .. n /\ j > 1 /\ i \in 1 .. j /\ i < j /\ n \in Nat
  BY <1>0 DEF Frames
<1>2. Code(us[j]) /\ (i > 1 => Code(us[i]))
  BY <1>1, Ranks
<1>3. us[i].top + 3 <= us[j].f /\ us[i] \in Views(st, ns) /\ us[j] \in Views(st, ns)
      /\ (i > 1 => On(st, ns, us[i - 1], us[i]))
  BY <1>0, <1>1, <1>2 DEF Frames, Lies, Rises
<1>4. us[i].top \in Nat /\ us[j].f \in Nat /\ us[i].f \in Nat
  <2>1. Len(st) \in Nat /\ Len(ns) \in Nat
    OBVIOUS
  <2> QED BY <2>1, <1>3, ViewTypes
<1>5. us[i].f <= us[i].top \/ us[i].f = 1
  <2>1. CASE i = 1
    BY <2>1
  <2>2. CASE i > 1
    <3>1. us[i].f \in 3 .. us[i].top
      BY <2>2, <1>2, <1>3, Positions DEF On, NativeOn, FrameOn, Code
    <3> QED BY <3>1, <1>4
  <2> QED BY <2>1, <2>2, <1>1
<1>6. \A a, b, c \in Nat : a + 3 <= b /\ (c <= a \/ c = 1) => c < b
  OBVIOUS
<1>7. us[i].top + 3 <= us[j].f
  BY <1>3
<1> QED BY <1>4, <1>5, <1>6, <1>7

(* What the two say depends on these only.                                 *)
Alike(us, vs, n) ==
  \A i \in 1 .. n : /\ vs[i].f = us[i].f /\ vs[i].n = us[i].n
                    /\ vs[i].p = CodeEnd <=> us[i].p = CodeEnd
                    /\ Code(vs[i]) <=> Code(us[i])

LEMMA AlikeKeeps ==
  ASSUME NEW us, NEW vs, NEW n \in Nat \ {0}, Alike(us, vs, n)
  PROVE  /\ \A ne : Nested(ne, us, n) => Nested(ne, vs, n)
         /\ \A sc, ne : Matched(sc, ne, us, n) => Matched(sc, ne, vs, n)
<1>1. \A i \in 1 .. n : Rank(vs, i) = Rank(us, i)
  BY DEF Alike, Rank
<1>2. \A sc : \A i \in 1 .. n : Own(sc, vs[i]) = Own(sc, us[i])
  BY DEF Alike, Own
<1>3. n \in 1 .. n /\ 1 \in 1 .. n
  OBVIOUS
<1>4. ASSUME NEW ne, Nested(ne, us, n) PROVE Nested(ne, vs, n)
  BY <1>1, <1>3, <1>4 DEF Nested, Alike
<1>5. ASSUME NEW sc, NEW ne, Matched(sc, ne, us, n) PROVE Matched(sc, ne, vs, n)
  <2>1. vs[1].f = 1
    BY <1>3, <1>5 DEF Matched, Alike
  <2>2. \A i \in 1 .. n : vs[i].p # CodeEnd => Cardinality(Own(sc, vs[i])) = ne[Rank(vs, i)]
    BY <1>1, <1>2, <1>5 DEF Matched, Alike
  <2>3. \A s \in 1 .. Len(sc) : \E i \in 1 .. n : vs[i].p # CodeEnd /\ sc[s].fp = vs[i].f
    BY <1>5 DEF Matched, Alike
  <2> QED BY <2>1, <2>2, <2>3, <1>5 DEF Matched
<1> QED BY <1>4, <1>5

(* A scope more.                                                           *)
Longer(sc, s2, f) ==
  /\ sc \in Seq(ScopeRec) /\ s2 \in Seq(ScopeRec) /\ Len(s2) = Len(sc) + 1
  /\ s2[Len(sc) + 1].fp = f /\ \A s \in 1 .. Len(sc) : s2[s] = sc[s]

LEMMA OwnLonger ==
  ASSUME NEW sc, NEW s2, NEW f, Longer(sc, s2, f)
  PROVE  /\ \A u : u.f = f => Cardinality(Own(s2, u)) = Cardinality(Own(sc, u)) + 1
         /\ \A u : u.f # f => Own(s2, u) = Own(sc, u)
         /\ \A u : Cardinality(Own(sc, u)) \in Nat
         /\ \A u : Own(sc, u) = {} => Cardinality(Own(sc, u)) = 0
<1>1. /\ Len(sc) \in Nat /\ Len(s2) = Len(sc) + 1
      /\ s2[Len(sc) + 1].fp = f /\ \A s \in 1 .. Len(sc) : s2[s] = sc[s]
  BY LenProperties DEF Longer
<1>2. \A u : IsFiniteSet(Own(sc, u)) /\ Cardinality(Own(sc, u)) \in Nat
  <2> TAKE u
  <2>1. Own(sc, u) \subseteq 1 .. Len(sc) /\ IsFiniteSet(1 .. Len(sc))
    BY <1>1, FS_Interval DEF Own
  <2>2. IsFiniteSet(Own(sc, u))
    BY <2>1, FS_Subset
  <2> QED BY <2>2, FS_CardinalityType
<1>3. \A s \in 1 .. Len(s2) : s = Len(sc) + 1 \/ s \in 1 .. Len(sc)
  BY <1>1
<1>4. \A s \in 1 .. Len(sc) : s \in 1 .. Len(s2)
  BY <1>1
<1>5. Len(sc) + 1 \in 1 .. Len(s2) /\ Len(sc) + 1 \notin 1 .. Len(sc)
  BY <1>1
<1>6. ASSUME NEW u, u.f # f PROVE Own(s2, u) = Own(sc, u)
  BY <1>1, <1>3, <1>4, <1>6 DEF Own
<1>7. ASSUME NEW u, u.f = f PROVE Cardinality(Own(s2, u)) = Cardinality(Own(sc, u)) + 1
  <2>1. Own(s2, u) = Own(sc, u) \cup {Len(sc) + 1}
    BY <1>1, <1>3, <1>4, <1>5, <1>7 DEF Own
  <2>2. Len(sc) + 1 \notin Own(sc, u)
    BY <1>5 DEF Own
  <2> QED BY <2>1, <2>2, <1>2, FS_AddElement
<1>8. Cardinality({}) = 0
  BY FS_EmptySet
<1> QED BY <1>2, <1>6, <1>7, <1>8

(* All scopes are of one of the activations, and none above the last.      *)
Owned(sc, us, n) ==
  /\ Stacked(us, n) /\ us[n].p # CodeEnd /\ us[1].f = 1
  /\ sc \in Seq(ScopeRec)
  /\ \A s \in 1 .. Len(sc) : \E i \in 1 .. n : us[i].p # CodeEnd /\ sc[s].fp = us[i].f

LEMMA TopMost ==
  ASSUME NEW sc, NEW us, NEW n, Owned(sc, us, n)
  PROVE  /\ \A i \in 1 .. n - 1 : us[i].p # CodeEnd => us[i].f < us[n].f /\ us[i].f # us[n].f
         /\ \A s \in 1 .. Len(sc) : sc[s].fp <= us[n].f /\ sc[s].fp \in Nat
         /\ us[n].f \in Nat /\ Len(sc) \in Nat
<1>1. PICK st \in Seq(Cell), ns \in Seq(NatRec) : Frames(st, ns, us, n)
  BY DEF Owned, Stacked
<1>2. n \in 1 .. n /\ n \in Nat /\ us[n] \in Views(st, ns) /\ STACK_SIZE \in Nat
  BY <1>1, CallConstants DEF Frames
<1>3. us[n].f \in Nat
  BY <1>2 DEF Views
<1>4. ASSUME NEW i \in 1 .. n - 1, us[i].p # CodeEnd PROVE us[i].f < us[n].f /\ us[i].f # us[n].f
  <2>1. us[i].f < us[n].f
    BY <1>2, <1>4, FramesRise DEF Owned
  <2>2. us[i].f = us[n].f => FALSE
    BY <2>1, <1>3
  <2> QED BY <2>1, <2>2
<1>5. ASSUME NEW s \in 1 .. Len(sc) PROVE sc[s].fp \in Nat
  <2>1. sc[s] \in ScopeRec
    BY ElementOfSeq DEF Owned
  <2> QED BY <2>1, <1>2 DEF ScopeRec
<1>6. ASSUME NEW s \in 1 .. Len(sc) PROVE sc[s].fp <= us[n].f
  <2>1. PICK i \in 1 .. n : us[i].p # CodeEnd /\ sc[s].fp = us[i].f
    BY DEF Owned
  <2>2. CASE i = n
    BY <2>1, <2>2, <1>3
  <2>3. CASE i # n
    <3>1. i \in 1 .. n - 1
      BY <2>3, <1>2
    <3> QED BY <2>1, <3>1, <1>3, <1>4, <1>5
  <2> QED BY <2>2, <2>3
<1>7. Len(sc) \in Nat
  BY LenProperties DEF Owned
<1> QED BY <1>3, <1>4, <1>5, <1>6, <1>7

(* Blocks are entered and left by the running one, of code.                *)
LEMMA EnterMatches ==
  ASSUME NEW us, NEW n, Stacked(us, n), us[n].p # CodeEnd,
         NEW ne, Nested(ne, us, n), NEW sc, NEW s2, Longer(sc, s2, us[n].f),
         NEW ne2, Changes(ne, ne[Len(ne)] + 1, ne2)
  PROVE  /\ Nested(ne2, us, n)
         /\ Matched(sc, ne, us, n) => Matched(s2, ne2, us, n)
<1>1. /\ n \in Nat \ {0} /\ n \in 1 .. n
      /\ \A i \in 1 .. n : Rank(us, i) \in Int /\ 1 <= Rank(us, i) /\ Rank(us, i) <= Rank(us, n)
      /\ \A i \in 1 .. n - 1 : Rank(us, i) < Rank(us, n)
  BY Ranks
<1>2. /\ ne \in Seq(Nat) /\ Len(ne) = Rank(us, n)
      /\ \A i \in 1 .. n : Code(us[i]) => ne[Rank(us, i)] > 0
  BY DEF Nested
<1>3. Len(ne) \in 1 .. Len(ne) /\ DOMAIN ne = 1 .. Len(ne) /\ ne[Len(ne)] \in Nat /\ Len(ne) \in Nat
  BY <1>1, <1>2
<1>4. /\ ne2 \in Seq(Nat) /\ Len(ne2) = Len(ne)
      /\ ne2[Len(ne)] = ne[Len(ne)] + 1
      /\ \A j \in 1 .. Len(ne) - 1 : ne2[j] = ne[j]
  <2>1. ne[Len(ne)] + 1 \in Nat
    BY <1>3
  <2>2. ne \in Seq(Nat) /\ ne # <<>>
    BY <1>2, <1>3
  <2> DEFINE v == ne[Len(ne)] + 1
  <2> HIDE DEF v
  <2>3. Changes(ne, v, ne2) /\ v \in Nat
    BY <2>1 DEF v
  <2>4. /\ ne2 \in Seq(Nat) /\ Len(ne2) = Len(ne) /\ ne2[Len(ne)] = v
        /\ \A j \in 1 .. Len(ne) - 1 : ne2[j] = ne[j]
    BY <2>2, <2>3, Replaced
  <2> QED BY <2>4 DEF v
<1>5. \A i \in 1 .. n - 1 : ne2[Rank(us, i)] = ne[Rank(us, i)]
  <2>1. \A i \in 1 .. n - 1 : i \in 1 .. n /\ Rank(us, i) \in 1 .. Len(ne) - 1
    BY <1>1, <1>2
  <2> QED BY <2>1, <1>4
<1>6. \A i \in 1 .. n : i = n \/ i \in 1 .. n - 1
  BY <1>1
<1>7. Nested(ne2, us, n)
  <2>1. \A i \in 1 .. n : Code(us[i]) => ne2[Rank(us, i)] > 0
    <3> SUFFICES ASSUME NEW i \in 1 .. n, Code(us[i]) PROVE ne2[Rank(us, i)] > 0
      OBVIOUS
    <3>1. CASE i = n
      BY <3>1, <1>2, <1>3, <1>4
    <3>2. CASE i \in 1 .. n - 1
      BY <3>2, <1>2, <1>5
    <3> QED BY <3>1, <3>2, <1>6
  <2> QED BY <2>1, <1>2, <1>4 DEF Nested
<1>8. ASSUME Matched(sc, ne, us, n) PROVE Matched(s2, ne2, us, n)
  <2>0. Owned(sc, us, n)
    BY <1>8 DEF Owned, Matched, Longer
  <2>a. /\ \A i \in 1 .. n - 1 : us[i].p # CodeEnd => us[i].f # us[n].f
        /\ \A s \in 1 .. Len(sc) : sc[s].fp <= us[n].f
        /\ Len(sc) \in Nat
    BY <2>0, TopMost
  <2>1. ASSUME NEW i \in 1 .. n, us[i].p # CodeEnd
        PROVE  Cardinality(Own(s2, us[i])) = ne2[Rank(us, i)]
    <3>1. Cardinality(Own(sc, us[i])) = ne[Rank(us, i)]
      BY <1>8, <2>1 DEF Matched
    <3>2. CASE i = n
      BY <3>1, <3>2, <1>2, <1>4, OwnLonger
    <3>3. CASE i \in 1 .. n - 1
      BY <3>1, <3>3, <2>1, <2>a, <1>5, OwnLonger
    <3> QED BY <3>2, <3>3, <1>6
  <2>2. /\ Len(s2) = Len(sc) + 1 /\ s2[Len(sc) + 1].fp = us[n].f
        /\ \A s \in 1 .. Len(sc) : s2[s] = sc[s]
        /\ \A s \in 1 .. Len(s2) : s = Len(sc) + 1 \/ s \in 1 .. Len(sc)
    BY <2>a DEF Longer
  <2>3. ASSUME NEW s \in 1 .. Len(s2)
        PROVE  \E i \in 1 .. n : us[i].p # CodeEnd /\ s2[s].fp = us[i].f
    <3>1. CASE s = Len(sc) + 1
      BY <3>1, <2>2, <1>1
    <3>2. CASE s \in 1 .. Len(sc)
      BY <3>2, <2>2, <1>8 DEF Matched
    <3> QED BY <3>1, <3>2, <2>2
  <2>5. ASSUME NEW s \in 1 .. Len(s2), NEW t \in 1 .. Len(s2), s < t PROVE s2[s].fp <= s2[t].fp
    <3>1. s \in 1 .. Len(sc) /\ s2[s] = sc[s]
      BY <2>2, <2>5, <2>a
    <3>2. CASE t = Len(sc) + 1
      BY <3>1, <3>2, <2>2, <2>a
    <3>3. CASE t \in 1 .. Len(sc)
      BY <3>1, <3>3, <2>2, <2>5, <1>8 DEF Matched
    <3> QED BY <3>2, <3>3, <2>2
  <2>6. us[1].f = 1
    BY <1>8 DEF Matched
  <2> QED BY <2>1, <2>3, <2>5, <2>6 DEF Matched
<1> QED BY <1>7, <1>8

LEMMA LeaveMatches ==
  ASSUME NEW us, NEW n, Stacked(us, n), us[n].p # CodeEnd,
         NEW ne, Nested(ne, us, n), NEW sc \in Seq(ScopeRec),
         ne[Len(ne)] > IF Code(us[n]) THEN 1 ELSE 0,
         NEW ne2, Changes(ne, ne[Len(ne)] - 1, ne2)
  PROVE  /\ Nested(ne2, us, n)
         /\ Matched(sc, ne, us, n) => sc # <<>> /\ Matched(Front(sc), ne2, us, n)
<1>1. /\ n \in Nat \ {0} /\ n \in 1 .. n
      /\ \A i \in 1 .. n : Rank(us, i) \in Int /\ 1 <= Rank(us, i) /\ Rank(us, i) <= Rank(us, n)
      /\ \A i \in 1 .. n - 1 : Rank(us, i) < Rank(us, n)
  BY Ranks
<1>2. /\ ne \in Seq(Nat) /\ Len(ne) = Rank(us, n)
      /\ \A i \in 1 .. n : Code(us[i]) => ne[Rank(us, i)] > 0
  BY DEF Nested
<1>3. Len(ne) \in 1 .. Len(ne) /\ DOMAIN ne = 1 .. Len(ne) /\ ne[Len(ne)] \in Nat /\ Len(ne) \in Nat
  BY <1>1, <1>2
<1>a. PICK k \in Nat : k = ne[Len(ne)]
  BY <1>3
<1>b. k \in Nat /\ k # 0 /\ k - 1 \in Nat /\ k > 0 /\ (Code(us[n]) => k - 1 > 0)
  <2>1. CASE Code(us[n])
    <3>1. k > 1
      BY <2>1, <1>a
    <3> QED BY <3>1
  <2>2. CASE ~ Code(us[n])
    <3>1. k > 0
      BY <2>2, <1>a
    <3> QED BY <3>1, <2>2
  <2> QED BY <2>1, <2>2
<1>4. /\ ne2 \in Seq(Nat) /\ Len(ne2) = Len(ne)
      /\ ne2[Len(ne)] = k - 1
      /\ \A j \in 1 .. Len(ne) - 1 : ne2[j] = ne[j]
  <2>1. ne \in Seq(Nat) /\ ne # <<>>
    BY <1>2, <1>3
  <2> DEFINE v == k - 1
  <2>2. Changes(ne, v, ne2)
    BY <1>a
  <2>3. v \in Nat
    BY <1>b
  <2> HIDE DEF v
  <2>4. /\ ne2 \in Seq(Nat) /\ Len(ne2) = Len(ne) /\ ne2[Len(ne)] = v
        /\ \A j \in 1 .. Len(ne) - 1 : ne2[j] = ne[j]
    BY <2>1, <2>2, <2>3, Replaced
  <2> QED BY <2>4 DEF v
<1>c. ne2[Len(ne)] = k - 1
  BY <1>4
<1>d. Code(us[n]) => ne2[Len(ne)] > 0
  BY <1>b, <1>c
<1>5. \A i \in 1 .. n - 1 : ne2[Rank(us, i)] = ne[Rank(us, i)]
  <2>1. \A i \in 1 .. n - 1 : i \in 1 .. n /\ Rank(us, i) \in 1 .. Len(ne) - 1
    BY <1>1, <1>2
  <2> QED BY <2>1, <1>4
<1>6. \A i \in 1 .. n : i = n \/ i \in 1 .. n - 1
  BY <1>1
<1>7. Nested(ne2, us, n)
  <2>1. \A i \in 1 .. n : Code(us[i]) => ne2[Rank(us, i)] > 0
    <3> SUFFICES ASSUME NEW i \in 1 .. n, Code(us[i]) PROVE ne2[Rank(us, i)] > 0
      OBVIOUS
    <3>1. CASE i = n
      BY <3>1, <1>2, <1>d
    <3>2. CASE i \in 1 .. n - 1
      BY <3>2, <1>2, <1>5
    <3> QED BY <3>1, <3>2, <1>6
  <2> QED BY <2>1, <1>2, <1>4 DEF Nested
<1>8. ASSUME Matched(sc, ne, us, n) PROVE sc # <<>> /\ Matched(Front(sc), ne2, us, n)
  <2>0. Owned(sc, us, n)
    BY <1>8 DEF Owned, Matched
  <2>a. /\ \A i \in 1 .. n - 1 : us[i].p # CodeEnd => us[i].f # us[n].f
        /\ \A s \in 1 .. Len(sc) : sc[s].fp <= us[n].f /\ sc[s].fp \in Nat
        /\ Len(sc) \in Nat /\ us[n].f \in Nat
    BY <2>0, TopMost
  <2>b. Cardinality(Own(sc, us[n])) = k
    BY <1>1, <1>2, <1>8, <1>a DEF Matched
  <2>1. PICK t \in 1 .. Len(sc) : sc[t].fp = us[n].f
    <3>1. Own(sc, us[n]) # {}
      <4>1. Cardinality({}) = 0
        BY FS_EmptySet
      <4>2. Cardinality(Own(sc, us[n])) # 0
        BY <2>b, <1>b
      <4> QED BY <4>1, <4>2
    <3> QED BY <3>1 DEF Own
  <2>2. sc # <<>>
    BY <2>1, <2>a
  <2> DEFINE s2 == Front(sc)
  <2>3. /\ s2 \in Seq(ScopeRec) /\ Len(s2) = Len(sc) - 1 /\ Len(sc) >= 1
        /\ \A s \in 1 .. Len(sc) - 1 : s2[s] = sc[s]
    BY <2>2, Fronts
  <2> HIDE DEF s2
  <2>4. sc[Len(sc)].fp = us[n].f
    <3>1. CASE t = Len(sc)
      BY <3>1, <2>1
    <3>2. CASE t # Len(sc)
      <4>1. t < Len(sc) /\ Len(sc) \in 1 .. Len(sc)
        BY <3>2, <2>a, <2>3
      <4>2. sc[t].fp <= sc[Len(sc)].fp
        BY <4>1, <1>8 DEF Matched
      <4> QED BY <4>1, <4>2, <2>1, <2>a
    <3> QED BY <3>1, <3>2
  <2>5. Longer(s2, sc, us[n].f)
    <3>1. Len(s2) + 1 = Len(sc)
      BY <2>a, <2>3
    <3>2. \A s \in 1 .. Len(s2) : sc[s] = s2[s]
      BY <2>3
    <3> QED BY <3>1, <3>2, <2>3, <2>4 DEF Longer
  <2>6. \A s \in 1 .. Len(s2) : s \in 1 .. Len(sc) /\ s2[s] = sc[s]
    BY <2>a, <2>3
  <2>7. ASSUME NEW i \in 1 .. n, us[i].p # CodeEnd
        PROVE  Cardinality(Own(s2, us[i])) = ne2[Rank(us, i)]
    <3>1. Cardinality(Own(sc, us[i])) = ne[Rank(us, i)]
      BY <1>8, <2>7 DEF Matched
    <3>2. CASE i = n
      <4>1. Cardinality(Own(sc, us[n])) = Cardinality(Own(s2, us[n])) + 1
            /\ Cardinality(Own(s2, us[n])) \in Nat
        BY <2>5, OwnLonger
      <4>2. k = Cardinality(Own(s2, us[n])) + 1
        BY <4>1, <2>b
      <4>3. ne2[Len(ne)] = Cardinality(Own(s2, us[n]))
        <5>1. \A a, b \in Int : a = b + 1 => a - 1 = b
          OBVIOUS
        <5>2. k - 1 \in Int /\ ne2[Len(ne)] = k - 1
          BY <1>b, <1>c
        <5> QED BY <5>1, <5>2, <4>1, <4>2
      <4> QED BY <4>3, <3>2, <1>2
    <3>3. CASE i \in 1 .. n - 1
      <4>1. us[i].f # us[n].f
        BY <3>3, <2>7, <2>a
      <4>2. Own(sc, us[i]) = Own(s2, us[i])
        BY <4>1, <2>5, OwnLonger
      <4> QED BY <4>2, <3>1, <3>3, <1>5
    <3> QED BY <3>2, <3>3, <1>6
  <2>8. \A s \in 1 .. Len(s2) : \E i \in 1 .. n : us[i].p # CodeEnd /\ s2[s].fp = us[i].f
    BY <2>6, <1>8 DEF Matched
  <2>9. \A s, x \in 1 .. Len(s2) : s < x => s2[s].fp <= s2[x].fp
    <3>1. \A s, x \in 1 .. Len(sc) : s < x => sc[s].fp <= sc[x].fp
      BY <1>8 DEF Matched
    <3> QED BY <3>1, <2>6
  <2>10. us[1].f = 1
    BY <1>8 DEF Matched
  <2>11. Matched(s2, ne2, us, n)
    BY <2>7, <2>8, <2>9, <2>10 DEF Matched
  <2> QED BY <2>2, <2>11 DEF s2
<1> QED BY <1>7, <1>8

(* A function is opened in a block of its own.                             *)
LEMMA OpenMatches ==
  ASSUME NEW us, NEW vs, NEW n, Stacked(us, n), Stacked(vs, n + 1), Alike(us, vs, n),
         Code(vs[n + 1]),
         NEW ne, Nested(ne, us, n), NEW sc, NEW s2, Longer(sc, s2, vs[n + 1].f)
  PROVE  /\ Nested(Append(ne, 1), vs, n + 1)
         /\ Matched(sc, ne, us, n) => Matched(s2, Append(ne, 1), vs, n + 1)
<1> DEFINE ne2 == Append(ne, 1)
<1>1. /\ n \in Nat \ {0} /\ n \in 1 .. n /\ 1 \in 1 .. n /\ n + 1 \in 1 .. n + 1 /\ 1 \in 1 .. n + 1
      /\ \A i \in 1 .. n : Rank(us, i) \in Int /\ 1 <= Rank(us, i) /\ Rank(us, i) <= Rank(us, n)
      /\ us[n].n \in Nat
  BY Ranks
<1>2. /\ ne \in Seq(Nat) /\ Len(ne) = Rank(us, n)
      /\ \A i \in 1 .. n : Code(us[i]) => ne[Rank(us, i)] > 0
  BY DEF Nested
<1>3. /\ vs[n + 1].p # CodeEnd /\ vs[n + 1].n = vs[n].n
  <2>1. /\ vs[n + 1].p # CodeEnd /\ vs[n + 1].n = vs[(n + 1) - 1].n
    BY <1>1, Ranks
  <2>2. (n + 1) - 1 = n
    BY <1>1
  <2> QED BY <2>1, <2>2
<1>4. \A i \in 1 .. n : i \in 1 .. n + 1 /\ Rank(vs, i) = Rank(us, i)
  BY <1>1 DEF Alike, Rank
<1>5. Rank(vs, n + 1) = Rank(us, n) + 1
  <2>1. vs[n + 1].n = us[n].n
    BY <1>1, <1>3 DEF Alike
  <2> QED BY <2>1, <1>1 DEF Rank
<1>6. /\ ne2 \in Seq(Nat) /\ Len(ne2) = Rank(vs, n + 1) /\ ne2[Rank(vs, n + 1)] = 1
      /\ \A j \in 1 .. Len(ne) : ne2[j] = ne[j]
  <2>1. /\ ne2 \in Seq(Nat) /\ Len(ne2) = Len(ne) + 1 /\ ne2[Len(ne) + 1] = 1
        /\ \A j \in 1 .. Len(ne) : ne2[j] = ne[j]
    BY <1>2, AppendProperties
  <2> HIDE DEF ne2
  <2> QED BY <2>1, <1>2, <1>5
<1> HIDE DEF ne2
<1>7. \A i \in 1 .. n : ne2[Rank(vs, i)] = ne[Rank(us, i)]
  <2>1. \A i \in 1 .. n : Rank(us, i) \in 1 .. Len(ne)
    BY <1>1, <1>2
  <2> QED BY <2>1, <1>4, <1>6
<1>8. \A i \in 1 .. n + 1 : i = n + 1 \/ i \in 1 .. n
  BY <1>1
<1>9. Nested(ne2, vs, n + 1)
  <2> SUFFICES ASSUME NEW i \in 1 .. n + 1, Code(vs[i]) PROVE ne2[Rank(vs, i)] > 0
    BY <1>6 DEF Nested
  <2>1. CASE i = n + 1
    BY <2>1, <1>6
  <2>2. CASE i \in 1 .. n
    <3>1. Code(us[i])
      BY <2>2 DEF Alike
    <3> QED BY <3>1, <2>2, <1>2, <1>7
  <2> QED BY <2>1, <2>2, <1>8
<1>10. ASSUME Matched(sc, ne, us, n) PROVE Matched(s2, ne2, vs, n + 1)
  <2>1. Matched(sc, ne, vs, n)
    BY <1>1, <1>10, AlikeKeeps
  <2>0. Owned(sc, vs, n + 1)
    <3>1. \A s \in 1 .. Len(sc) : \E i \in 1 .. n + 1 : vs[i].p # CodeEnd /\ sc[s].fp = vs[i].f
      BY <2>1, <1>4 DEF Matched
    <3> QED BY <3>1, <2>1, <1>3 DEF Owned, Matched, Longer
  <2>a. /\ \A i \in 1 .. n : vs[i].p # CodeEnd => vs[i].f < vs[n + 1].f /\ vs[i].f # vs[n + 1].f
        /\ \A s \in 1 .. Len(sc) : sc[s].fp <= vs[n + 1].f
        /\ Len(sc) \in Nat /\ vs[n + 1].f \in Nat
    <3>1. (n + 1) - 1 = n
      BY <1>1
    <3>2. /\ \A i \in 1 .. (n + 1) - 1 : vs[i].p # CodeEnd => vs[i].f < vs[n + 1].f /\ vs[i].f # vs[n + 1].f
          /\ \A s \in 1 .. Len(sc) : sc[s].fp <= vs[n + 1].f
          /\ Len(sc) \in Nat /\ vs[n + 1].f \in Nat
      BY <2>0, TopMost
    <3> QED BY <3>1, <3>2
  <2>2. ASSUME NEW i \in 1 .. n + 1, vs[i].p # CodeEnd
        PROVE  Cardinality(Own(s2, vs[i])) = ne2[Rank(vs, i)]
    <3>1. CASE i = n + 1
      <4>1. Own(sc, vs[n + 1]) = {}
        <5> SUFFICES ASSUME NEW s \in 1 .. Len(sc), sc[s].fp = vs[n + 1].f PROVE FALSE
          BY DEF Own
        <5>1. PICK k \in 1 .. n : vs[k].p # CodeEnd /\ sc[s].fp = vs[k].f
          BY <2>1 DEF Matched
        <5> QED BY <5>1, <2>a
      <4>2. Cardinality(Own(sc, vs[n + 1])) = 0
            /\ Cardinality(Own(s2, vs[n + 1])) = Cardinality(Own(sc, vs[n + 1])) + 1
        BY <4>1, OwnLonger
      <4>3. Cardinality(Own(s2, vs[n + 1])) = 1
        BY <4>2
      <4> QED BY <4>3, <3>1, <1>6
    <3>2. CASE i \in 1 .. n
      <4>1. Cardinality(Own(sc, vs[i])) = ne[Rank(vs, i)]
        BY <3>2, <2>1, <2>2 DEF Matched
      <4> QED BY <4>1, <3>2, <2>2, <2>a, <1>4, <1>7, OwnLonger
    <3> QED BY <3>1, <3>2, <1>8
  <2>3. /\ Len(s2) = Len(sc) + 1 /\ s2[Len(sc) + 1].fp = vs[n + 1].f
        /\ \A s \in 1 .. Len(sc) : s2[s] = sc[s]
        /\ \A s \in 1 .. Len(s2) : s = Len(sc) + 1 \/ s \in 1 .. Len(sc)
    BY <2>a DEF Longer
  <2>4. ASSUME NEW s \in 1 .. Len(s2)
        PROVE  \E i \in 1 .. n + 1 : vs[i].p # CodeEnd /\ s2[s].fp = vs[i].f
    <3>1. CASE s = Len(sc) + 1
      BY <3>1, <2>3, <1>1, <1>3
    <3>2. CASE s \in 1 .. Len(sc)
      BY <3>2, <2>1, <2>3, <1>4 DEF Matched
    <3> QED BY <3>1, <3>2, <2>3
  <2>5. ASSUME NEW s \in 1 .. Len(s2), NEW t \in 1 .. Len(s2), s < t PROVE s2[s].fp <= s2[t].fp
    <3>1. s \in 1 .. Len(sc) /\ s2[s] = sc[s]
      BY <2>3, <2>5, <2>a
    <3>2. CASE t = Len(sc) + 1
      BY <3>1, <3>2, <2>3, <2>a
    <3>3. CASE t \in 1 .. Len(sc)
      BY <3>1, <3>3, <2>1, <2>3, <2>5 DEF Matched
    <3> QED BY <3>2, <3>3, <2>3
  <2>6. vs[1].f = 1
    BY <2>1 DEF Matched
  <2> QED BY <2>2, <2>4, <2>5, <2>6 DEF Matched
<1> QED BY <1>9, <1>10 DEF ne2


(* A function that returns leaves its scopes, and no others.               *)
Left(sc, s2, f) ==
  /\ sc \in Seq(ScopeRec) /\ s2 \in Seq(ScopeRec) /\ Len(s2) \in 0 .. Len(sc)
  /\ \A s \in 1 .. Len(s2) : s2[s] = sc[s]
  /\ Len(s2) > 0 => sc[Len(s2)].fp # f
  /\ \A s \in Len(s2) + 1 .. Len(sc) : sc[s].fp = f

LEMMA CloseMatches ==
  ASSUME NEW us, NEW vs, NEW n, Stacked(us, n), Code(us[n]), Alike(us, vs, n - 1),
         NEW ne, Nested(ne, us, n), NEW sc, NEW s2, Left(sc, s2, us[n].f)
  PROVE  /\ Nested(Front(ne), vs, n - 1)
         /\ Matched(sc, ne, us, n) => Matched(s2, Front(ne), vs, n - 1)
<1>1. /\ n \in Nat \ {0} /\ n \in 1 .. n
      /\ \A i \in 1 .. n : Rank(us, i) \in Int /\ 1 <= Rank(us, i) /\ Rank(us, i) <= Rank(us, n)
      /\ \A i \in 1 .. n : us[i].n \in Nat
  BY Ranks
<1>2. us[n].p # CodeEnd /\ n > 1 /\ us[n].n = us[n - 1].n
  BY <1>1, Ranks
<1>a. n - 1 \in Nat \ {0} /\ n - 1 \in 1 .. n - 1 /\ 1 \in 1 .. n - 1 /\ \A i \in 1 .. n - 1 : i \in 1 .. n
  BY <1>1, <1>2
<1>b. \A i \in 1 .. n - 1 : Rank(us, i) < Rank(us, n)
  BY <1>1, <1>2, Ranks
<1>3. /\ ne \in Seq(Nat) /\ Len(ne) = Rank(us, n)
      /\ \A i \in 1 .. n : Code(us[i]) => ne[Rank(us, i)] > 0
  BY DEF Nested
<1>4. Len(ne) \in Nat /\ Len(ne) >= 1
  BY <1>1, <1>3
<1> DEFINE ne2 == Front(ne)
<1>5. /\ ne2 \in Seq(Nat) /\ Len(ne2) = Len(ne) - 1
      /\ \A j \in 1 .. Len(ne) - 1 : ne2[j] = ne[j]
  <2>1. ne # <<>>
    BY <1>4
  <2> QED BY <2>1, <1>3, Fronts
<1> HIDE DEF ne2
<1>6. \A i \in 1 .. n - 1 : Rank(us, i) \in 1 .. Len(ne) - 1 /\ ne2[Rank(us, i)] = ne[Rank(us, i)]
  <2>1. \A i \in 1 .. n - 1 : Rank(us, i) \in 1 .. Len(ne) - 1
    <3> TAKE i \in 1 .. n - 1
    <3>1. Rank(us, i) \in Int /\ 1 <= Rank(us, i) /\ Rank(us, i) < Rank(us, n)
      BY <1>1, <1>a, <1>b
    <3>2. Rank(us, i) < Len(ne)
      BY <3>1, <1>3
    <3>3. \A a, b \in Int : 1 <= a /\ a < b => a \in 1 .. b - 1
      OBVIOUS
    <3> QED BY <3>1, <3>2, <3>3, <1>4
  <2> QED BY <2>1, <1>5
<1>7. Len(ne2) = Rank(us, n - 1)
  <2>1. Rank(us, n) = n - us[n - 1].n /\ Rank(us, n - 1) = (n - 1) - us[n - 1].n
    BY <1>2 DEF Rank
  <2>2. us[n - 1].n \in Nat
    BY <1>1, <1>a
  <2>3. Rank(us, n - 1) = Rank(us, n) - 1
    BY <2>1, <2>2, <1>1
  <2> QED BY <2>3, <1>3, <1>5
<1>8. Nested(ne2, us, n - 1)
  <2>1. \A i \in 1 .. n - 1 : Code(us[i]) => ne2[Rank(us, i)] > 0
    BY <1>3, <1>6, <1>a
  <2> QED BY <2>1, <1>5, <1>7 DEF Nested
<1>9. Nested(ne2, vs, n - 1)
  BY <1>8, <1>a, AlikeKeeps
<1>10. ASSUME Matched(sc, ne, us, n) PROVE Matched(s2, ne2, vs, n - 1)
  <2>0. Owned(sc, us, n)
    BY <1>2, <1>10 DEF Owned, Matched, Left
  <2>a. /\ \A i \in 1 .. n - 1 : us[i].p # CodeEnd => us[i].f # us[n].f
        /\ \A s \in 1 .. Len(sc) : sc[s].fp <= us[n].f /\ sc[s].fp \in Nat
        /\ Len(sc) \in Nat /\ us[n].f \in Nat
    BY <2>0, TopMost
  <2>b. PICK m \in 0 .. Len(sc) : m = Len(s2)
    BY DEF Left
  <2>c. /\ m \in Nat /\ \A s \in 1 .. m : s2[s] = sc[s] /\ s \in 1 .. Len(sc)
        /\ m > 0 => sc[m].fp # us[n].f /\ m \in 1 .. Len(sc)
        /\ \A s \in 1 .. Len(sc) : s \in 1 .. m \/ sc[s].fp = us[n].f
    <3>1. \A s \in 1 .. Len(sc) : s \in 1 .. m \/ s \in m + 1 .. Len(sc)
      BY <2>a
    <3>2. m \in Nat /\ (m > 0 => m \in 1 .. Len(sc)) /\ \A s \in 1 .. m : s \in 1 .. Len(sc)
      BY <2>a
    <3> QED BY <3>1, <3>2, <2>b DEF Left
  <2>1. ASSUME NEW s \in 1 .. m PROVE sc[s].fp # us[n].f
    <3>1. m > 0 /\ m \in 1 .. Len(sc) /\ s \in 1 .. Len(sc) /\ s <= m
      BY <2>c
    <3>2. s = m \/ s < m
      BY <3>1, <2>c
    <3>3. CASE s = m
      BY <3>1, <3>3, <2>c
    <3>4. CASE s < m
      <4>1. sc[s].fp <= sc[m].fp
        BY <3>1, <3>4, <1>10 DEF Matched
      <4>2. sc[m].fp <= us[n].f /\ sc[m].fp # us[n].f /\ sc[m].fp \in Nat /\ sc[s].fp \in Nat
        BY <3>1, <2>a, <2>c
      <4>3. \A a, b, c \in Nat : a <= b /\ b <= c /\ b # c => a # c
        OBVIOUS
      <4> QED BY <4>1, <4>2, <4>3, <2>a
    <3> QED BY <3>2, <3>3, <3>4
  <2>2. ASSUME NEW i \in 1 .. n - 1, us[i].p # CodeEnd
        PROVE  Cardinality(Own(s2, us[i])) = ne2[Rank(us, i)]
    <3>1. us[i].f # us[n].f /\ i \in 1 .. n
      BY <2>2, <2>a, <1>a
    <3>2. Own(s2, us[i]) = Own(sc, us[i])
      BY <3>1, <2>b, <2>c DEF Own
    <3>3. Cardinality(Own(sc, us[i])) = ne[Rank(us, i)]
      BY <3>1, <2>2, <1>10 DEF Matched
    <3> QED BY <3>2, <3>3, <1>6
  <2>3. ASSUME NEW s \in 1 .. m PROVE \E i \in 1 .. n - 1 : us[i].p # CodeEnd /\ s2[s].fp = us[i].f
    <3>1. s \in 1 .. Len(sc) /\ s2[s] = sc[s] /\ sc[s].fp # us[n].f
      BY <2>1, <2>c
    <3>2. PICK i \in 1 .. n : us[i].p # CodeEnd /\ sc[s].fp = us[i].f
      BY <3>1, <1>10 DEF Matched
    <3>3. i # n => i \in 1 .. n - 1
      BY <1>1
    <3> QED BY <3>1, <3>2, <3>3
  <2>4. \A s, t \in 1 .. m : s < t => s2[s].fp <= s2[t].fp
    BY <2>c, <1>10 DEF Matched
  <2>5. us[1].f = 1
    BY <1>10 DEF Matched
  <2>6. Matched(s2, ne2, us, n - 1)
    BY <2>2, <2>3, <2>4, <2>5, <2>b DEF Matched
  <2> QED BY <2>6, <1>a, AlikeKeeps
<1> QED BY <1>9, <1>10 DEF ne2

(* A native has no blocks.                                                 *)
LEMMA NativeMatches ==
  ASSUME NEW us, NEW n \in Nat \ {0}, us[n].n \in Nat,
         us[n + 1].p = CodeEnd, us[n + 1].n = us[n].n + 1
  PROVE  /\ \A ne : Nested(ne, us, n) <=> Nested(ne, us, n + 1)
         /\ \A sc, ne : Matched(sc, ne, us, n) <=> Matched(sc, ne, us, n + 1)
<1>1. /\ \A i \in 1 .. n + 1 : i = n + 1 \/ i \in 1 .. n
      /\ \A i \in 1 .. n : i \in 1 .. n + 1
  OBVIOUS
<1>2. ~ Code(us[n + 1])
  BY Positions DEF Code
<1>3. Rank(us, n + 1) = Rank(us, n)
  BY DEF Rank
<1>4. ASSUME NEW ne PROVE Nested(ne, us, n) <=> Nested(ne, us, n + 1)
  <2>1. (\A i \in 1 .. n : Code(us[i]) => ne[Rank(us, i)] > 0)
          <=> (\A i \in 1 .. n + 1 : Code(us[i]) => ne[Rank(us, i)] > 0)
    BY <1>1, <1>2
  <2> QED BY <2>1, <1>3 DEF Nested
<1>5. ASSUME NEW sc, NEW ne PROVE Matched(sc, ne, us, n) <=> Matched(sc, ne, us, n + 1)
  <2>1. (\A i \in 1 .. n : us[i].p # CodeEnd => Cardinality(Own(sc, us[i])) = ne[Rank(us, i)])
          <=> (\A i \in 1 .. n + 1 : us[i].p # CodeEnd => Cardinality(Own(sc, us[i])) = ne[Rank(us, i)])
    BY <1>1
  <2>2. \A s : (\E i \in 1 .. n : us[i].p # CodeEnd /\ sc[s].fp = us[i].f)
                 <=> (\E i \in 1 .. n + 1 : us[i].p # CodeEnd /\ sc[s].fp = us[i].f)
    BY <1>1
  <2> QED BY <2>1, <2>2 DEF Matched
<1> QED BY <1>4, <1>5

(* Without scopes no function is open, and the frame is the script's.      *)
LEMMA NoScopes ==
  ASSUME NEW st \in Seq(Cell), NEW ns \in Seq(NatRec), NEW us, NEW n, Frames(st, ns, us, n),
         NEW ne, Nested(ne, us, n), Matched(<<>>, ne, us, n)
  PROVE  us[n].f = 1
<1>0. Stacked(us, n) /\ us[1].f = 1
  BY DEF Stacked, Matched
<1>1. /\ n \in Nat \ {0} /\ n \in 1 .. n /\ 1 \in 1 .. n
      /\ \A j \in 1 .. n : us[j].p # CodeEnd /\ j > 1 => Code(us[j])
      /\ \A j \in 1 .. n : Code(us[j]) => us[j].p # CodeEnd
  BY <1>0, Ranks
<1>2. ASSUME NEW i \in 1 .. n PROVE ~ Code(us[i])
  <2> SUFFICES ASSUME Code(us[i]) PROVE FALSE
    OBVIOUS
  <2>1. Cardinality(Own(<<>>, us[i])) = ne[Rank(us, i)] /\ ne[Rank(us, i)] > 0
    BY <1>1 DEF Matched, Nested
  <2>2. Own(<<>>, us[i]) = {}
    BY DEF Own
  <2>3. Cardinality(Own(<<>>, us[i])) = 0
    BY <2>2, FS_EmptySet
  <2> QED BY <2>1, <2>3
<1>3. \A i \in 2 .. n : /\ i \in 1 .. n /\ i > 1 /\ i - 1 \in 1 .. n
                        /\ us[i].p = CodeEnd
  <2>1. \A i \in 2 .. n : i \in 1 .. n /\ i > 1 /\ i - 1 \in 1 .. n
    BY <1>1
  <2> QED BY <2>1, <1>1, <1>2
<1>4. \A i \in 2 .. n : NativeOn(ns, us[i - 1], us[i])
  <2> TAKE i \in 2 .. n
  <2>1. On(st, ns, us[i - 1], us[i])
    BY <1>3 DEF Frames, Lies
  <2> QED BY <2>1, <1>2, <1>3 DEF On, FrameOn
<1>5. \A i \in 2 .. n : us[i - 1].p # CodeEnd /\ us[i].f = us[i - 1].f
  <2> TAKE i \in 2 .. n
  <2>1. us[i].n \in 1 .. Len(ns) /\ us[i - 1].p = ns[us[i].n].saved_ip /\ us[i].f = us[i - 1].f
    BY <1>4 DEF NativeOn
  <2>2. ns[us[i].n] \in NatRec
    BY <2>1, ElementOfSeq
  <2>3. us[i - 1].p \in CodePos
    BY <2>1, <2>2 DEF NatRec
  <2> QED BY <2>1, <2>3, Positions DEF CodePos, CodeEnd, At
<1>6. CASE n = 1
  BY <1>0, <1>6
<1>7. CASE n = 2
  <2>1. 2 \in 2 .. n
    BY <1>7
  <2>2. us[2].f = us[2 - 1].f
    BY <2>1, <1>5
  <2> QED BY <2>2, <1>0, <1>7
<1>8. CASE n > 2
  <2>1. 2 \in 2 .. n /\ 3 \in 2 .. n
    BY <1>1, <1>8
  <2>2. us[2].p = CodeEnd /\ us[3 - 1].p # CodeEnd
    BY <2>1, <1>3, <1>5
  <2> QED BY <2>2
<1> QED BY <1>1, <1>6, <1>7, <1>8
-----------------------------------------------------------------------------
(* The invariant after each step.                                          *)

Standing(us, n) == Shape /\ Stands(us, n)

LEMMA StandingHas ==
  ASSUME NEW us, NEW n, Standing(us, n)
  PROVE  /\ Shape /\ MemoryOK /\ Frames(stack, natives, us, n) /\ us[n] = Running
         /\ Nested(nest, us, n) /\ (~ stale => Matched(scopes, nest, us, n) /\ VarsKept)
         /\ Stacked(us, n) /\ n \in Nat \ {0}
<1>1. natives \in Seq(NatRec) /\ stack \in Seq(Cell) /\ MemoryOK
  BY DEF Standing, Shape, NativesOK, CellsOK
<1> QED BY <1>1 DEF Standing, Stands, Stacked, Frames

LEMMA Arrive ==
  ASSUME NEW us, NEW n, Moved(us, n), MemoryOK', Nested(nest', us, n),
         ~ stale' => Matched(scopes', nest', us, n) /\ VarsKept'
  PROVE  CallInv'
<1>1. Shape'
  BY DEF Moved, Shape
<1>2. n \in Nat /\ us \in [1 .. n -> Views(stack', natives')]
  BY DEF Moved, Frames
<1>3. Stands(us, n)'
  BY DEF Moved, Stands, Frames, Lies, Rises, Nested, Matched, On, NativeOn, FrameOn, Clean, Views, Own
<1>4. \E k \in Nat : \E ws \in [1 .. k -> Views(stack', natives')] : Stands(ws, k)'
  BY <1>2, <1>3
<1>5. (\E k \in Nat : \E ws \in [1 .. k -> Views(stack, natives)] : Stands(ws, k))'
  BY <1>4 DEF Views
<1> QED BY <1>1, <1>5 DEF CallInv

(* The activation on top changes what Nested and Matched do not see.       *)
LEMMA RetoppedAlike ==
  ASSUME NEW us, NEW n \in Nat \ {0}, NEW w,
         w.f = us[n].f, w.n = us[n].n, w.p = CodeEnd <=> us[n].p = CodeEnd, Code(w) <=> Code(us[n])
  PROVE  Alike(us, Retopped(us, n, w), n)
<1>1. \A i \in 1 .. n : Retopped(us, n, w)[i] = IF i = n THEN w ELSE us[i]
  BY DEF Retopped
<1> QED BY <1>1 DEF Alike

(* No head is rewound below a variable.                                    *)
Rewinds ==
  /\ MemoryOK /\ MemoryOK' /\ vars' = vars /\ defined' = defined
  /\ head' = head + 1 \/ head' = head \/ \E s \in 1 .. Len(scopes) : head' = scopes[s].head
  /\ \A s \in 1 .. Len(scopes') : scopes'[s].head = head \/ \E t \in 1 .. Len(scopes) : scopes'[s] = scopes[t]

LEMMA VarsStay ==
  ASSUME Rewinds, VarsKept
  PROVE  VarsKept'
<1>1. head \in Nat /\ head' \in Nat /\ \A x \in defined : vars[x] \in 1 .. head
  <2>1. head \in 0 .. MAX_HEAP /\ head' \in 0 .. MAX_HEAP /\ MAX_HEAP \in Nat
    BY CallConstants DEF Rewinds, MemoryOK
  <2> QED BY <2>1 DEF VarsKept
<1>2. ASSUME NEW x \in defined PROVE vars[x] \in 1 .. head'
  <2>1. vars[x] \in Nat /\ 1 <= vars[x] /\ vars[x] <= head /\ \A s \in 1 .. Len(scopes) : vars[x] <= scopes[s].head
    BY <1>1 DEF VarsKept
  <2>2. vars[x] <= head'
    <3>1. CASE head' = head + 1
      BY <3>1, <2>1, <1>1
    <3>2. CASE head' = head
      BY <3>2, <2>1
    <3>3. CASE \E s \in 1 .. Len(scopes) : head' = scopes[s].head
      BY <3>3, <2>1
    <3> QED BY <3>1, <3>2, <3>3 DEF Rewinds
  <2> QED BY <2>1, <2>2, <1>1
<1>3. ASSUME NEW x \in defined, NEW s \in 1 .. Len(scopes') PROVE vars[x] <= scopes'[s].head
  <2>1. vars[x] <= head /\ \A t \in 1 .. Len(scopes) : vars[x] <= scopes[t].head
    BY <1>1 DEF VarsKept
  <2> QED BY <2>1 DEF Rewinds
<1> QED BY <1>2, <1>3 DEF VarsKept, Rewinds

LEMMA SameScopes ==
  ASSUME MemoryOK, MemoryOK', vars' = vars, defined' = defined, scopes' = scopes,
         head' = head + 1 \/ head' = head
  PROVE  Rewinds
BY DEF Rewinds

(* Steps that leave blocks and scopes alone.                               *)
LEMMA Plain ==
  ASSUME NEW us, NEW n, Standing(us, n), NEW vs, NEW m, Moved(vs, m), Nested(nest, vs, m),
         Matched(scopes, nest, us, n) => Matched(scopes, nest, vs, m),
         scopes' = scopes, nest' = nest, UNCHANGED <<vars, inside, defined, errors, stale>>,
         head' = head \/ (head < MAX_HEAP /\ head' = head + 1)
  PROVE  CallInv'
<1>1. MemoryOK /\ (~ stale => Matched(scopes, nest, us, n) /\ VarsKept)
  BY StandingHas
<1>2. MemoryOK'
  BY <1>1, PlainMemory
<1>3. VarsKept => VarsKept'
  BY <1>1, <1>2, SameScopes, VarsStay
<1>4. Nested(nest', vs, m) /\ (Matched(scopes, nest, us, n) => Matched(scopes', nest', vs, m))
  OBVIOUS
<1>5. stale' = stale
  OBVIOUS
<1>6. ~ stale' => Matched(scopes', nest', vs, m) /\ VarsKept'
  BY <1>1, <1>3, <1>4, <1>5
<1> QED BY <1>2, <1>4, <1>6, Arrive

LEMMA PlainWork ==
  ASSUME NEW us, NEW n, Standing(us, n),
         Works(us, n, stack', ip'), natives' = natives, fp' = fp,
         scopes' = scopes, nest' = nest, UNCHANGED <<vars, inside, defined, errors, stale>>,
         head' = head \/ (head < MAX_HEAP /\ head' = head + 1)
  PROVE  CallInv'
<1>1. Moved(Retopped(us, n, Running'), n)
  BY Worked
<1>2. /\ Shape /\ Frames(stack, natives, us, n) /\ us[n] = Running /\ n \in Nat \ {0}
      /\ Nested(nest, us, n)
  BY StandingHas
<1>3. InCode /\ ip' \in CodePos /\ ip'.fn = ip.fn
  BY DEF Works
<1>4. us[n] = [p |-> ip, f |-> fp, top |-> sp, n |-> Len(natives)] /\ us[n].p # CodeEnd
  BY <1>2, <1>3, CodeRuns
<1>5. Running' = [p |-> ip', f |-> fp, top |-> Len(stack'), n |-> Len(natives)]
  BY <1>2, <1>3, StaysInCode
<1>6. ip' # CodeEnd
  BY <1>3, Positions
<1>7. Alike(us, Retopped(us, n, Running'), n)
  <2> DEFINE w == Running'
  <2>1. w.f = us[n].f /\ w.n = us[n].n /\ (w.p = CodeEnd <=> us[n].p = CodeEnd) /\ (Code(w) <=> Code(us[n]))
    BY <1>3, <1>4, <1>5, <1>6 DEF Code
  <2> HIDE DEF w
  <2>2. Alike(us, Retopped(us, n, w), n)
    BY <2>1, <1>2, RetoppedAlike
  <2> QED BY <2>2 DEF w
<1>8. /\ Nested(nest, Retopped(us, n, Running'), n)
      /\ Matched(scopes, nest, us, n) => Matched(scopes, nest, Retopped(us, n, Running'), n)
  BY <1>2, <1>7, AlikeKeeps
<1> QED BY <1>1, <1>8, Plain

LEMMA EvaluateStep ==
  ASSUME NEW us, NEW n, Standing(us, n), NEW v \in Literals \cup {Obj} \cup Locals, Evaluate(v)
  PROVE  CallInv'
<1>1. Works(us, n, stack', ip') /\ natives' = natives /\ fp' = fp
  BY StandingHas, EvaluateWorks
<1>2. /\ scopes' = scopes /\ nest' = nest /\ UNCHANGED <<vars, inside, defined, errors, stale>>
      /\ head' = head \/ (head < MAX_HEAP /\ head' = head + 1)
  BY DEF Evaluate, repl, history
<1> QED BY <1>1, <1>2, PlainWork

LEMMA DiscardStep ==
  ASSUME NEW us, NEW n, Standing(us, n), Discard
  PROVE  CallInv'
<1>1. Works(us, n, stack', ip') /\ natives' = natives /\ fp' = fp
  BY StandingHas, DiscardWorks
<1>2. /\ scopes' = scopes /\ nest' = nest /\ UNCHANGED <<vars, inside, defined, errors, stale>> /\ head' = head
  BY DEF Discard, repl, history
<1> QED BY <1>1, <1>2, PlainWork

LEMMA AssignStep ==
  ASSUME NEW us, NEW n, Standing(us, n), NEW i \in 1 .. sp, Assign(i)
  PROVE  CallInv'
<1>1. Works(us, n, stack', ip') /\ natives' = natives /\ fp' = fp
  BY StandingHas, AssignWorks
<1>2. /\ scopes' = scopes /\ nest' = nest /\ UNCHANGED <<vars, inside, defined, errors, stale>> /\ head' = head
  BY DEF Assign, repl, history
<1> QED BY <1>1, <1>2, PlainWork

LEMMA StdCallbackStep ==
  ASSUME NEW us, NEW n, Standing(us, n), NEW v \in Num, StdCallback(v)
  PROVE  CallInv'
<1>1. Moved(us, n)
  BY StandingHas, StdCalled
<1>2. /\ scopes' = scopes /\ nest' = nest /\ UNCHANGED <<vars, inside, defined, errors, stale>> /\ head' = head
  BY DEF StdCallback, repl, history
<1>3. Nested(nest, us, n)
  BY StandingHas
<1> QED BY <1>1, <1>2, <1>3, Plain

LEMMA CollectStep ==
  ASSUME NEW us, NEW n, Standing(us, n), Collect
  PROVE  CallInv'
<1>1. Moved(us, n)
  BY StandingHas, Collected
<1>2. /\ scopes' = scopes /\ nest' = nest /\ UNCHANGED <<vars, inside, defined, errors, stale>> /\ head' = head
  BY DEF Collect, repl, history
<1>3. Nested(nest, us, n)
  BY StandingHas
<1> QED BY <1>1, <1>2, <1>3, Plain

LEMMA EnterStep ==
  ASSUME NEW us, NEW n, Standing(us, n), Enter
  PROVE  CallInv'
<1>1. /\ Shape /\ MemoryOK /\ Frames(stack, natives, us, n) /\ us[n] = Running /\ Stacked(us, n)
      /\ Nested(nest, us, n) /\ (~ stale => Matched(scopes, nest, us, n) /\ VarsKept)
      /\ n \in Nat \ {0}
  BY StandingHas
<1>2. /\ InCode /\ Len(scopes) < MAX_LOOP_NESTING /\ scopes' = Append(scopes, [fp |-> fp, head |-> head])
      /\ nest' = [nest EXCEPT ![Len(nest)] = @ + 1]
      /\ UNCHANGED <<head, vars, inside, defined, errors, stale>>
  BY DEF Enter, Scope, repl
<1>3. Works(us, n, stack', ip') /\ natives' = natives /\ fp' = fp /\ stack' = stack /\ ip' = ip
  BY <1>1, BlockWorks
<1>4. Moved(Retopped(us, n, Running'), n)
  BY <1>3, Worked
<1>5. us[n] = [p |-> ip, f |-> fp, top |-> sp, n |-> Len(natives)] /\ us[n].p # CodeEnd
  BY <1>1, <1>2, CodeRuns
<1>6. Retopped(us, n, Running') = us
  <2>1. Running' = Running
    BY <1>3 DEF Running, InNative, native, Waiting, sp
  <2>2. us \in [1 .. n -> Views(stack, natives)]
    BY <1>1 DEF Frames
  <2> QED BY <1>1, <2>1, <2>2 DEF Retopped
<1>7. fp \in 1 .. STACK_SIZE
  BY <1>1, Sizes
<1>8. /\ Longer(scopes, scopes', us[n].f) /\ Len(scopes') <= MAX_LOOP_NESTING
      /\ scopes'[Len(scopes) + 1].head = head
  BY <1>1, <1>2, <1>5, <1>7, PushedScope DEF Longer, MemoryOK
<1>9. /\ Nested(nest', us, n)
      /\ Matched(scopes, nest, us, n) => Matched(scopes', nest', us, n)
  <2>1. Changes(nest, nest[Len(nest)] + 1, nest')
    BY <1>2 DEF Changes
  <2> QED BY <2>1, <1>1, <1>5, <1>8, EnterMatches
<1>10. MemoryOK'
  BY <1>1, <1>2, <1>8 DEF MemoryOK, Longer, ScopeRec
<1>11. Rewinds
  <2>1. \A s \in 1 .. Len(scopes') : s = Len(scopes) + 1 \/ s \in 1 .. Len(scopes)
    BY <1>8, LenProperties DEF Longer
  <2> QED BY <2>1, <1>1, <1>2, <1>8, <1>10 DEF Rewinds, Longer
<1>12. ~ stale' => Matched(scopes', nest', us, n) /\ VarsKept'
  BY <1>1, <1>2, <1>9, <1>11, VarsStay
<1> QED BY <1>4, <1>6, <1>9, <1>10, <1>12, Arrive

LEMMA LeaveStep ==
  ASSUME NEW us, NEW n, Standing(us, n), Leave
  PROVE  CallInv'
<1>1. /\ Shape /\ MemoryOK /\ Frames(stack, natives, us, n) /\ us[n] = Running /\ Stacked(us, n)
      /\ Nested(nest, us, n) /\ (~ stale => Matched(scopes, nest, us, n) /\ VarsKept)
      /\ n \in Nat \ {0}
  BY StandingHas
<1>2. /\ InCode /\ Last(nest) > IF InScript THEN 0 ELSE 1
      /\ nest' = [nest EXCEPT ![Len(nest)] = @ - 1]
      /\ scopes = <<>> => scopes' = scopes /\ head' = head
      /\ scopes # <<>> => scopes' = Front(scopes) /\ head' = Last(scopes).head
      /\ UNCHANGED <<vars, inside, defined, errors, stale>>
  BY DEF Leave, repl
<1>3. Works(us, n, stack', ip') /\ natives' = natives /\ fp' = fp /\ stack' = stack /\ ip' = ip
  BY <1>1, BlockWorks
<1>4. Moved(Retopped(us, n, Running'), n)
  BY <1>3, Worked
<1>5. us[n] = [p |-> ip, f |-> fp, top |-> sp, n |-> Len(natives)] /\ us[n].p # CodeEnd
      /\ (InScript <=> ~ Code(us[n]))
  BY <1>1, <1>2, CodeRuns
<1>6. Retopped(us, n, Running') = us
  <2>1. Running' = Running
    BY <1>3 DEF Running, InNative, native, Waiting, sp
  <2>2. us \in [1 .. n -> Views(stack, natives)]
    BY <1>1 DEF Frames
  <2> QED BY <1>1, <2>1, <2>2 DEF Retopped
<1>7. nest[Len(nest)] > IF Code(us[n]) THEN 1 ELSE 0
  BY <1>2, <1>5 DEF Last
<1>8. /\ Nested(nest', us, n)
      /\ Matched(scopes, nest, us, n) => scopes # <<>> /\ Matched(Front(scopes), nest', us, n)
  <2>1. scopes \in Seq(ScopeRec)
    BY <1>1 DEF MemoryOK
  <2>2. Changes(nest, nest[Len(nest)] - 1, nest')
    BY <1>2 DEF Changes
  <2> QED BY <2>1, <2>2, <1>1, <1>5, <1>7, LeaveMatches
<1>9. /\ Nested(nest', us, n)
      /\ Matched(scopes, nest, us, n) => scopes # <<>> /\ Matched(scopes', nest', us, n)
  BY <1>2, <1>8
<1>10. MemoryOK'
  BY <1>1, LeaveMemory
<1>11. scopes # <<>> => Rewinds
  <2> SUFFICES ASSUME scopes # <<>> PROVE Rewinds
    OBVIOUS
  <2>1. scopes' = Front(scopes) /\ head' = Last(scopes).head /\ scopes \in Seq(ScopeRec)
    BY <1>1, <1>2 DEF MemoryOK
  <2>2. /\ Len(scopes) \in Nat /\ Len(scopes) >= 1 /\ Len(scopes') = Len(scopes) - 1
        /\ \A s \in 1 .. Len(scopes) - 1 : scopes'[s] = scopes[s]
        /\ head' = scopes[Len(scopes)].head
    BY <2>1, Fronts
  <2>3. /\ Len(scopes) \in 1 .. Len(scopes)
        /\ \A s \in 1 .. Len(scopes) - 1 : s \in 1 .. Len(scopes)
    BY <2>2
  <2> QED BY <2>2, <2>3, <1>1, <1>2, <1>10 DEF Rewinds
<1>12. ~ stale' => Matched(scopes', nest', us, n) /\ VarsKept'
  BY <1>1, <1>2, <1>9, <1>11, VarsStay
<1> QED BY <1>4, <1>6, <1>9, <1>10, <1>12, Arrive

(* Calls: a function starts, in a block of its own.                        *)
LEMMA Start ==
  ASSUME NEW us, NEW n, Standing(us, n), NEW vs, Alike(us, vs, n), Moved(vs, n + 1),
         Code(vs[n + 1]), NEW frame, frame = fp', frame = vs[n + 1].f, Started(frame)
  PROVE  CallInv'
<1>1. /\ MemoryOK /\ Stacked(us, n)
      /\ Nested(nest, us, n) /\ (~ stale => Matched(scopes, nest, us, n) /\ VarsKept)
      /\ n \in Nat \ {0}
  BY StandingHas
<1>2. frame \in 1 .. STACK_SIZE
  BY DEF Moved, PlaceOK
<1>3. Stacked(vs, n + 1)
  BY DEF Moved, Stacked, CellsOK, NativesOK, NatRec
<1>4. /\ Len(scopes) < MAX_LOOP_NESTING
      /\ scopes' = Append(scopes, [fp |-> frame, head |-> head])
      /\ nest' = Append(nest, 1)
      /\ head' = head /\ vars' = vars /\ inside' = inside
      /\ defined' = defined /\ errors' = errors /\ stale' = stale
  BY DEF Started
<1>5. /\ Longer(scopes, scopes', vs[n + 1].f) /\ scopes'[Len(scopes) + 1].head = head
  BY <1>1, <1>2, <1>4, PushedScope DEF Longer, MemoryOK
<1>6. /\ Nested(nest', vs, n + 1)
      /\ Matched(scopes, nest, us, n) => Matched(scopes', nest', vs, n + 1)
  BY <1>1, <1>3, <1>4, <1>5, OpenMatches
<1>7. MemoryOK'
  BY <1>1, <1>2, StartedMemory
<1>8. Rewinds
  <2>1. \A s \in 1 .. Len(scopes') : s = Len(scopes) + 1 \/ s \in 1 .. Len(scopes)
    BY <1>5, LenProperties DEF Longer
  <2> QED BY <2>1, <1>1, <1>4, <1>5, <1>7 DEF Rewinds, Longer
<1>9. ~ stale' => Matched(scopes', nest', vs, n + 1) /\ VarsKept'
  BY <1>1, <1>4, <1>6, <1>8, VarsStay
<1> QED BY <1>6, <1>7, <1>9, Arrive

LEMMA OpenedAlike ==
  ASSUME NEW us, NEW ws, NEW n \in Nat \ {0}, NEW w, Alike(us, ws, n)
  PROVE  Alike(us, Opened(ws, n, w), n) /\ Opened(ws, n, w)[n + 1] = w
<1>1. \A i \in 1 .. n + 1 : Opened(ws, n, w)[i] = IF i = n + 1 THEN w ELSE ws[i]
  BY DEF Opened
<1>2. n + 1 \in 1 .. n + 1 /\ \A i \in 1 .. n : i \in 1 .. n + 1 /\ i # n + 1
  OBVIOUS
<1> QED BY <1>1, <1>2 DEF Alike

LEMMA CalledStep ==
  ASSUME NEW us, NEW n, Standing(us, n), NEW f, NEW values, NEW lower, CallsOn(us, n, f, values, lower),
         Started(fp')
  PROVE  CallInv'
<1> DEFINE ws == Retopped(us, n, Calling(Beyond(ip), lower))
           vs == Opened(ws, n, Running')
<1>1. /\ Shape /\ Frames(stack, natives, us, n) /\ us[n] = Running /\ n \in Nat \ {0} /\ InCode /\ f \in Fn
      /\ HasSite
  BY StandingHas DEF CallsOn
<1>2. us[n] = [p |-> ip, f |-> fp, top |-> sp, n |-> Len(natives)] /\ us[n].p # CodeEnd /\ ip \in CodePos
  BY <1>1, CodeRuns
<1>3. /\ Moved(vs, n + 1)
      /\ Running' = [p |-> At(f, 0), f |-> lower + 3, top |-> Len(values) + 2, n |-> Len(natives)]
  BY Called
<1>4. Beyond(ip) \in CodePos /\ Beyond(ip).fn = ip.fn /\ Beyond(ip) # CodeEnd
  BY <1>1, <1>2, Positions DEF HasSite
<1>5. Alike(us, ws, n)
  <2> DEFINE w == Calling(Beyond(ip), lower)
  <2>1. w.f = us[n].f /\ w.n = us[n].n /\ (w.p = CodeEnd <=> us[n].p = CodeEnd) /\ (Code(w) <=> Code(us[n]))
    BY <1>2, <1>4 DEF Calling, Code
  <2> HIDE DEF w
  <2>2. Alike(us, Retopped(us, n, w), n)
    BY <2>1, <1>1, RetoppedAlike
  <2> QED BY <2>2 DEF w
<1>6. Alike(us, vs, n) /\ vs[n + 1] = Running'
  <2> HIDE DEF ws
  <2> QED BY <1>1, <1>5, OpenedAlike
<1>7. fp' = Running'.f
  BY DEF Running
<1> HIDE DEF ws, vs
<1>8. Code(vs[n + 1]) /\ fp' = vs[n + 1].f
  <2>1. Running'.p = At(f, 0) /\ At(f, 0).fn = f
    BY <1>1, <1>3, Positions
  <2> QED BY <2>1, <1>1, <1>6, <1>7 DEF Code
<1> QED BY <1>3, <1>6, <1>8, Start

LEMMA CallStep ==
  ASSUME NEW us, NEW n, Standing(us, n), NEW f \in Fn, Call(f)
  PROVE  CallInv'
<1>1. CallsOn(us, n, f, stack, sp - Arity[f])
  BY StandingHas, CallCalls
<1>2. Started(fp')
  BY DEF Call, Starts, Started, Scope, repl
<1> QED BY <1>1, <1>2, CalledStep

LEMMA CallByNameStep ==
  ASSUME NEW us, NEW n, Standing(us, n), NEW f \in Fn, NEW args \in [1 .. Arity[f] -> Literals],
         CallByName(f, args)
  PROVE  CallInv'
<1>1. CallsOn(us, n, f, stack \o Vals(args), sp)
  BY StandingHas, CallByNameCalls
<1>2. Started(fp')
  BY DEF CallByName, Starts, Started, Scope, repl
<1> QED BY <1>1, <1>2, CalledStep

LEMMA CallbackStep ==
  ASSUME NEW us, NEW n, Standing(us, n), Callback
  PROVE  CallInv'
<1>1. Shape /\ Frames(stack, natives, us, n) /\ us[n] = Running /\ n \in Nat \ {0}
  BY StandingHas
<1>2. /\ Moved(Opened(us, n, Running'), n + 1)
      /\ Running'.p = At(native.target, 0) /\ native.target \in Fn
  BY <1>1, CalledBack
<1>3. Alike(us, us, n)
  BY DEF Alike
<1>4. Alike(us, Opened(us, n, Running'), n) /\ Opened(us, n, Running')[n + 1] = Running'
  BY <1>1, <1>3, OpenedAlike
<1>5. Code(Running')
  BY <1>2, Positions DEF Code
<1>6. fp' = Running'.f
  BY DEF Running
<1>7. Started(fp')
  BY DEF Callback, Starts, Started, Scope, repl
<1> QED BY <1>2, <1>4, <1>5, <1>6, <1>7, Start

LEMMA ApplyStep ==
  ASSUME NEW us, NEW n, Standing(us, n),
         NEW fn \in Native, NEW list \in Lists, NEW target \in Targets(fn), NEW param \in ParamsOf(fn),
         Apply(fn, target, list, param)
  PROVE  CallInv'
<1> DEFINE ws == Retopped(us, n, Top(Beyond(ip), stack))
           vs == Opened(ws, n, Running')
<1>1. /\ Shape /\ Frames(stack, natives, us, n) /\ us[n] = Running /\ n \in Nat \ {0}
      /\ Nested(nest, us, n)
  BY StandingHas
<1>2. /\ InCode /\ HasSite /\ head < MAX_HEAP /\ head' = head + 1
      /\ scopes' = scopes /\ nest' = nest /\ UNCHANGED <<vars, inside, defined, errors, stale>>
  BY DEF Apply, repl, history
<1>3. us[n] = [p |-> ip, f |-> fp, top |-> sp, n |-> Len(natives)] /\ us[n].p # CodeEnd /\ ip \in CodePos
  BY <1>1, <1>2, CodeRuns
<1>4. Beyond(ip) \in CodePos /\ Beyond(ip).fn = ip.fn /\ Beyond(ip) # CodeEnd
  BY <1>2, <1>3, Positions DEF HasSite
<1>5. /\ Moved(vs, n + 1)
      /\ Running' = [p |-> CodeEnd, f |-> fp, top |-> sp, n |-> Len(natives) + 1]
  BY <1>1, Applied
<1>6. Alike(us, ws, n)
  <2> DEFINE w == Top(Beyond(ip), stack)
  <2>1. w.f = us[n].f /\ w.n = us[n].n /\ (w.p = CodeEnd <=> us[n].p = CodeEnd) /\ (Code(w) <=> Code(us[n]))
    BY <1>3, <1>4 DEF Top, Code
  <2> HIDE DEF w
  <2>2. Alike(us, Retopped(us, n, w), n)
    BY <2>1, <1>1, RetoppedAlike
  <2> QED BY <2>2 DEF w
<1>7. Alike(us, vs, n) /\ vs[n + 1] = Running'
  <2> HIDE DEF ws
  <2> QED BY <1>1, <1>6, OpenedAlike
<1> HIDE DEF ws, vs
<1>8. vs[n].n = Len(natives) /\ vs[n].n \in Nat /\ vs[n + 1].p = CodeEnd /\ vs[n + 1].n = vs[n].n + 1
  <2>1. n \in 1 .. n /\ Len(natives) \in Nat
    BY <1>1, Sizes
  <2>2. vs[n].n = us[n].n
    BY <2>1, <1>7 DEF Alike
  <2> QED BY <2>1, <2>2, <1>3, <1>5, <1>7
<1>9. Nested(nest, vs, n) /\ (Matched(scopes, nest, us, n) => Matched(scopes, nest, vs, n))
  BY <1>1, <1>7, AlikeKeeps
<1>10. Nested(nest, vs, n + 1) /\ (Matched(scopes, nest, us, n) => Matched(scopes, nest, vs, n + 1))
  BY <1>1, <1>8, <1>9, NativeMatches
<1> QED BY <1>2, <1>5, <1>10, Plain

(* Returns and natives that finish.                                        *)
LEMMA ResumedAlike ==
  ASSUME NEW us, NEW n, n \in Nat \ {0}, n > 1,
         Running'.f = us[n - 1].f, Running'.n = us[n - 1].n,
         Running'.p = CodeEnd <=> us[n - 1].p = CodeEnd, Code(Running') <=> Code(us[n - 1])
  PROVE  Alike(us, Resumed(us, n), n - 1)
<1>1. n - 1 \in Nat \ {0} /\ n - 1 \in 1 .. n - 1
  OBVIOUS
<1>2. \A i \in 1 .. n - 1 : Kept(us, n - 1)[i] = us[i]
  BY DEF Kept
<1>3. \A i \in 1 .. n - 1 : Resumed(us, n)[i] = IF i = n - 1 THEN Running' ELSE us[i]
  BY <1>2 DEF Resumed, Retopped
<1> QED BY <1>1, <1>3 DEF Alike

LEMMA FinishStep ==
  ASSUME NEW us, NEW n, Standing(us, n), Finish
  PROVE  CallInv'
<1>1. /\ Shape /\ Frames(stack, natives, us, n) /\ us[n] = Running /\ n \in Nat \ {0}
      /\ Nested(nest, us, n)
  BY StandingHas
<1>2. /\ Moved(Resumed(us, n), n - 1) /\ n > 1
      /\ Running' = [us[n - 1] EXCEPT !.top = sp + 1]
      /\ us[n - 1].p \in CodePos /\ us[n - 1].n = Len(natives) - 1
  BY <1>1, Finished
<1>3. InNative
  BY DEF Finish
<1>4. us[n].p = CodeEnd /\ us[n].n = Len(natives) /\ us[n - 1] \in Views(stack, natives)
  BY <1>1, <1>3, NativeRuns
<1>5. Len(natives) \in Nat /\ n - 1 \in Nat \ {0} /\ (n - 1) + 1 = n
  BY <1>1, <1>2, Sizes
<1>6. us[n - 1].n \in Nat /\ us[n].n = us[n - 1].n + 1
  BY <1>2, <1>4, <1>5 DEF Views
<1>7. Nested(nest, us, n - 1) /\ (Matched(scopes, nest, us, n) => Matched(scopes, nest, us, n - 1))
  <2> DEFINE m == n - 1
  <2>1. m \in Nat \ {0} /\ us[m].n \in Nat /\ us[m + 1].p = CodeEnd /\ us[m + 1].n = us[m].n + 1
    BY <1>4, <1>5, <1>6
  <2>2. m + 1 = n
    BY <1>5
  <2> HIDE DEF m
  <2>3. Nested(nest, us, m) /\ (Matched(scopes, nest, us, n) => Matched(scopes, nest, us, m))
    BY <2>1, <2>2, <1>1, NativeMatches
  <2> QED BY <2>3 DEF m
<1>8. Alike(us, Resumed(us, n), n - 1)
  <2>1. Running'.f = us[n - 1].f /\ Running'.n = us[n - 1].n /\ Running'.p = us[n - 1].p
    BY <1>2, <1>4 DEF Views
  <2> QED BY <2>1, <1>1, <1>2, ResumedAlike DEF Code
<1>9. Nested(nest, Resumed(us, n), n - 1)
      /\ (Matched(scopes, nest, us, n) => Matched(scopes, nest, Resumed(us, n), n - 1))
  BY <1>5, <1>7, <1>8, AlikeKeeps
<1>10. /\ scopes' = scopes /\ nest' = nest /\ UNCHANGED <<vars, inside, defined, errors, stale>>
       /\ head' = head
  BY DEF Finish, repl, history
<1> QED BY <1>2, <1>9, <1>10, Plain

LEMMA ReturnStep ==
  ASSUME NEW us, NEW n, Standing(us, n), Return
  PROVE  CallInv'
<1>1. /\ Shape /\ MemoryOK /\ Frames(stack, natives, us, n) /\ us[n] = Running /\ Stacked(us, n)
      /\ Nested(nest, us, n) /\ (~ stale => Matched(scopes, nest, us, n) /\ VarsKept)
      /\ n \in Nat \ {0} /\ natives \in Seq(NatRec) /\ stack \in Seq(Cell)
  BY StandingHas, Sizes
<1>2. /\ Moved(Resumed(us, n), n - 1) /\ n > 1 /\ InCode /\ ~ InScript
      /\ IF us[n - 1].p = CodeEnd THEN Running' = us[n - 1]
                                  ELSE Running' = [us[n - 1] EXCEPT !.top = fp - 2]
  BY <1>1, Returned
<1>3. us[n] = [p |-> ip, f |-> fp, top |-> sp, n |-> Len(natives)] /\ Code(us[n])
  BY <1>1, <1>2, CodeRuns
<1>4. Alike(us, Resumed(us, n), n - 1)
  <2>1. us[n - 1] \in Views(stack, natives)
    <3>1. n - 1 \in 1 .. n
      BY <1>1, <1>2
    <3> QED BY <3>1, <1>1 DEF Frames
  <2>2. Running'.f = us[n - 1].f /\ Running'.n = us[n - 1].n /\ Running'.p = us[n - 1].p
    BY <1>2, <2>1 DEF Views
  <2> QED BY <2>2, <1>1, <1>2, ResumedAlike DEF Code
<1>5. /\ MemoryOK' /\ scopes' = CallersScopes /\ nest' = Front(nest)
      /\ head' = head \/ \E s \in 1 .. Len(scopes) : head' = scopes[s].head
      /\ vars' = vars /\ inside' = inside /\ defined' = defined /\ stale' = stale
  BY <1>1, ReturnMemory
<1>6. PICK m \in 0 .. Len(scopes) :
           /\ CallersScopes \in Seq(ScopeRec) /\ Len(CallersScopes) = m
           /\ \A s \in 1 .. m : CallersScopes[s] = scopes[s]
           /\ m > 0 => scopes[m].fp # fp
           /\ \A s \in m + 1 .. Len(scopes) : scopes[s].fp = fp
  BY <1>1, Callers
<1>7. Left(scopes, CallersScopes, us[n].f)
  BY <1>1, <1>3, <1>6 DEF Left, MemoryOK
<1>8. /\ Nested(Front(nest), Resumed(us, n), n - 1)
      /\ Matched(scopes, nest, us, n) => Matched(CallersScopes, Front(nest), Resumed(us, n), n - 1)
  BY <1>1, <1>3, <1>4, <1>7, CloseMatches
<1>9. Rewinds
  <2>1. \A s \in 1 .. m : s \in 1 .. Len(scopes)
    <3>1. Len(scopes) \in Nat
      BY <1>1, MemoryCases
    <3> QED BY <3>1
  <2> QED BY <2>1, <1>1, <1>5, <1>6 DEF Rewinds
<1>10. Nested(nest', Resumed(us, n), n - 1)
       /\ (Matched(scopes, nest, us, n) => Matched(scopes', nest', Resumed(us, n), n - 1))
  BY <1>5, <1>8
<1>11. ~ stale' => Matched(scopes', nest', Resumed(us, n), n - 1) /\ VarsKept'
  BY <1>1, <1>5, <1>9, <1>10, VarsStay
<1> QED BY <1>2, <1>5, <1>10, <1>11, Arrive

(* Lines: there is the script's activation, or the prompt's, and no other. *)
LEMMA StartLineStep ==
  ASSUME NEW us, NEW n, Standing(us, n), StartLine
  PROVE  CallInv'
<1>1. /\ Moved(<<Running'>>, 1) /\ Running' = [p |-> At("script", 0), f |-> fp, top |-> 0, n |-> 0]
      /\ n = 1 /\ us[1] = [p |-> Prompt, f |-> fp, top |-> 0, n |-> 0] /\ Nested(nest, us, n)
  BY StandingHas, LineStarts
<1>2. At("script", 0) # CodeEnd /\ Prompt # CodeEnd /\ ~ Code(Running') /\ ~ Code(us[1])
  BY <1>1, Positions DEF Code, At
<1>3. Alike(us, <<Running'>>, 1)
  BY <1>1, <1>2 DEF Alike
<1>4. Nested(nest, <<Running'>>, 1) /\ (Matched(scopes, nest, us, n) => Matched(scopes, nest, <<Running'>>, 1))
  BY <1>1, <1>3, AlikeKeeps
<1>5. /\ scopes' = scopes /\ nest' = nest /\ UNCHANGED <<vars, inside, defined, errors, stale>> /\ head' = head
  BY DEF StartLine, repl, history
<1> QED BY <1>1, <1>4, <1>5, Plain

LEMMA EndLineStep ==
  ASSUME NEW us, NEW n, Standing(us, n), EndLine
  PROVE  CallInv'
<1>1. /\ Moved(<<Running'>>, 1) /\ Running' = [p |-> Prompt, f |-> fp, top |-> 0, n |-> 0]
      /\ n = 1 /\ us[1].f = fp /\ us[1].p # CodeEnd /\ ~ Code(us[1]) /\ us[1].n = 0
      /\ Nested(nest, us, n)
  BY StandingHas, LineEnds
<1>2. Prompt # CodeEnd /\ ~ Code(Running')
  BY <1>1, Positions DEF Code
<1>3. Alike(us, <<Running'>>, 1)
  BY <1>1, <1>2 DEF Alike
<1>4. Nested(nest, <<Running'>>, 1) /\ (Matched(scopes, nest, us, n) => Matched(scopes, nest, <<Running'>>, 1))
  BY <1>1, <1>3, AlikeKeeps
<1>5. /\ scopes' = scopes /\ nest' = nest /\ UNCHANGED <<vars, inside, defined, errors, stale>> /\ head' = head
  BY DEF EndLine, repl, history
<1> QED BY <1>1, <1>4, <1>5, Plain

LEMMA StutterStep ==
  ASSUME NEW us, NEW n, Standing(us, n), UNCHANGED allvars
  PROVE  CallInv'
<1>1. UNCHANGED vm /\ UNCHANGED <<scopes, nest, vars, inside, defined, errors, stale, head>>
  BY DEF allvars, vm, repl, history
<1>2. Moved(us, n) /\ Nested(nest, us, n)
  BY <1>1, StandingHas, Unchanged
<1> QED BY <1>1, <1>2, Plain

LEMMA CompileErrorStep ==
  ASSUME NEW us, NEW n, Standing(us, n), CompileError
  PROVE  CallInv'
<1>1. /\ Shape /\ MemoryOK /\ Frames(stack, natives, us, n) /\ us[n] = Running
      /\ Nested(nest, us, n) /\ (~ stale => Matched(scopes, nest, us, n) /\ VarsKept)
  BY StandingHas
<1>2. UNCHANGED vm /\ UNCHANGED <<scopes, nest, vars, defined, head>> /\ stale' = (stale \/ inside')
  BY DEF CompileError, vm
<1>3. Moved(us, n)
  BY <1>1, <1>2, Unchanged
<1>4. MemoryOK'
  BY <1>1, LineMemory
<1>5. VarsKept => VarsKept'
  BY <1>2 DEF VarsKept
<1>6. Nested(nest', us, n) /\ (~ stale' => Matched(scopes', nest', us, n) /\ VarsKept')
  BY <1>1, <1>2, <1>5
<1> QED BY <1>3, <1>4, <1>6, Arrive

LEMMA RuntimeErrorStep ==
  ASSUME NEW us, NEW n, Standing(us, n), RuntimeError
  PROVE  CallInv'
<1>1. /\ Shape /\ MemoryOK /\ Frames(stack, natives, us, n) /\ us[n] = Running
      /\ Nested(nest, us, n) /\ (~ stale => Matched(scopes, nest, us, n) /\ VarsKept)
      /\ stack \in Seq(Cell) /\ natives \in Seq(NatRec)
  BY StandingHas, Sizes
<1>2. /\ nest' = <<0>> /\ stale' = (stale \/ scopes # <<>>) /\ UNCHANGED <<scopes, vars, defined, head>>
  BY DEF RuntimeError, repl
<1>3. Moved(<<Running'>>, 1) /\ Running' = [p |-> Prompt, f |-> fp, top |-> 0, n |-> 0]
  BY <1>1, Aborted
<1>4. MemoryOK'
  BY <1>1, LineMemory
<1> DEFINE vs == <<Running'>>
<1>5. vs[1].p = Prompt /\ vs[1].f = fp /\ vs[1].n = 0 /\ ~ Code(vs[1]) /\ Rank(vs, 1) = 1
  BY <1>3, Positions DEF Code, Rank
<1> HIDE DEF vs
<1>6. Nested(nest', vs, 1)
  <2>1. \A i \in 1 .. 1 : i = 1
    OBVIOUS
  <2> QED BY <2>1, <1>2, <1>5 DEF Nested
<1>7. ASSUME ~ stale' PROVE Matched(scopes', nest', vs, 1) /\ VarsKept'
  <2>1. ~ stale /\ scopes = <<>>
    BY <1>2, <1>7
  <2>2. fp = 1
    <3>1. Matched(<<>>, nest, us, n)
      BY <2>1, <1>1
    <3>2. us[n].f = 1
      BY <3>1, <1>1, NoScopes
    <3> QED BY <3>2, <1>1 DEF Running
  <2>3. Cardinality(Own(<<>>, vs[1])) = 0
    <3>1. Own(<<>>, vs[1]) = {}
      BY DEF Own
    <3> QED BY <3>1, FS_EmptySet
  <2>4. Matched(<<>>, <<0>>, vs, 1)
    <3>1. \A i \in 1 .. 1 : i = 1
      OBVIOUS
    <3>2. 1 .. Len(<<>>) = {}
      OBVIOUS
    <3> QED BY <3>1, <3>2, <2>2, <2>3, <1>5 DEF Matched
  <2>5. VarsKept'
    BY <2>1, <1>1, <1>2 DEF VarsKept
  <2> QED BY <2>1, <2>4, <2>5, <1>2
<1> QED BY <1>3, <1>4, <1>6, <1>7, Arrive DEF vs

LEMMA DefineVarStep ==
  ASSUME NEW us, NEW n, Standing(us, n), NEW x \in Var, DefineVar(x)
  PROVE  CallInv'
<1>1. /\ Shape /\ MemoryOK /\ Frames(stack, natives, us, n) /\ us[n] = Running
      /\ Nested(nest, us, n) /\ (~ stale => Matched(scopes, nest, us, n) /\ VarsKept)
  BY StandingHas
<1>2. /\ Last(nest) = 0 /\ head' = head + 1 /\ (~ inside => vars' = [vars EXCEPT ![x] = head + 1])
      /\ defined' = defined \cup {x} /\ scopes' = scopes /\ nest' = nest /\ stale' = stale
  BY DEF DefineVar
<1> DEFINE vs == Retopped(us, n, Running')
<1>3. /\ Moved(vs, n) /\ n = 1
      /\ Running' = [us[1] EXCEPT !.top = Len(stack')]
      /\ us[1].p = ip /\ ip \in CodePos /\ us[1].n = 0 /\ us[1] \in Views(stack, natives)
  BY <1>1, Defined DEF Frames
<1>4. MemoryOK'
  BY <1>1, LineMemory
<1>5. Alike(us, vs, n)
  <2> DEFINE w == Running'
  <2>1. w.f = us[n].f /\ w.n = us[n].n /\ w.p = us[n].p /\ n \in Nat \ {0}
    BY <1>3 DEF Views
  <2>2. (w.p = CodeEnd <=> us[n].p = CodeEnd) /\ (Code(w) <=> Code(us[n]))
    BY <2>1 DEF Code
  <2> HIDE DEF w
  <2>3. Alike(us, Retopped(us, n, w), n)
    BY <2>1, <2>2, RetoppedAlike
  <2> QED BY <2>3 DEF w
<1> HIDE DEF vs
<1>6. Nested(nest, vs, n) /\ (Matched(scopes, nest, us, n) => Matched(scopes, nest, vs, n))
  BY <1>1, <1>3, <1>5, AlikeKeeps
<1>7. ASSUME ~ stale PROVE VarsKept'
  <2>1. ~ inside /\ Matched(scopes, nest, us, n) /\ VarsKept
    BY <1>1, <1>7 DEF MemoryOK
  <2>2. Len(nest) = 1 /\ nest[1] = 0 /\ Rank(us, 1) = 1 /\ us[1].p # CodeEnd
    <3>1. Rank(us, 1) = 1
      BY <1>3 DEF Rank
    <3>2. Len(nest) = 1
      BY <3>1, <1>1, <1>3 DEF Nested
    <3> QED BY <3>1, <3>2, <1>2, <1>3, Positions DEF Last
  <2>3. Len(scopes) \in Nat
    BY <1>1, MemoryCases
  <2>4. ASSUME NEW s \in 1 .. Len(scopes) PROVE FALSE
    <3>1. \A i \in 1 .. n : i = 1
      BY <1>3
    <3>2. 1 \in 1 .. n
      BY <1>3
    <3>3. scopes[s].fp = us[1].f
      BY <2>1, <3>1 DEF Matched
    <3>4. Cardinality(Own(scopes, us[1])) = 0
      BY <2>1, <2>2, <3>2 DEF Matched
    <3>5. IsFiniteSet(Own(scopes, us[1]))
      <4>1. IsFiniteSet(1 .. Len(scopes))
        <5>1. 1 \in Int /\ Len(scopes) \in Int
          BY <2>3
        <5> QED BY <5>1, FS_Interval
      <4>2. Own(scopes, us[1]) \subseteq 1 .. Len(scopes)
        BY DEF Own
      <4> QED BY <4>1, <4>2, FS_Subset
    <3>6. Own(scopes, us[1]) = {}
      BY <3>4, <3>5, FS_EmptySet
    <3> QED BY <3>3, <3>6 DEF Own
  <2>5. head \in Nat /\ head' = head + 1 /\ vars \in [Var -> 0 .. MAX_HEAP] /\ defined \subseteq Var
    BY <1>1, <1>2, MemoryCases DEF MemoryOK
  <2>6. ASSUME NEW y \in defined' PROVE vars'[y] \in 1 .. head'
    <3>1. vars' = [vars EXCEPT ![x] = head + 1]
      BY <1>2, <2>1
    <3>2. CASE y = x
      <4>1. vars'[y] = head + 1
        BY <3>1, <3>2, <2>5
      <4> QED BY <4>1, <2>5
    <3>3. CASE y # x
      <4>1. y \in defined /\ vars'[y] = vars[y]
        BY <3>1, <3>3, <1>2, <2>5
      <4>2. vars[y] \in 1 .. head
        BY <4>1, <2>1 DEF VarsKept
      <4> QED BY <4>1, <4>2, <2>5
    <3> QED BY <3>2, <3>3
  <2> QED BY <2>4, <2>6, <1>2 DEF VarsKept
<1>8. Nested(nest', vs, n) /\ (~ stale' => Matched(scopes', nest', vs, n) /\ VarsKept')
  BY <1>1, <1>2, <1>6, <1>7
<1> QED BY <1>3, <1>4, <1>8, Arrive

-----------------------------------------------------------------------------
(* The invariant.                                                          *)

LEMMA InvInit ==
  Init => CallInv
<1> SUFFICES ASSUME Init PROVE CallInv
  OBVIOUS
<1>1. /\ stack = <<>> /\ fp = 1 /\ ip = Prompt /\ scopes = <<>> /\ head = 0 /\ natives = <<>>
      /\ vars = [y \in Var |-> 0] /\ inside = FALSE
      /\ nest = <<0>> /\ defined = {} /\ errors = 0 /\ stale = FALSE
  BY DEF Init
<1>2. ~ InNative /\ ~ Waiting /\ sp = 0
  BY <1>1 DEF InNative, Waiting, sp
<1>3. Running = [p |-> Prompt, f |-> 1, top |-> 0, n |-> 0]
  BY <1>1, <1>2 DEF Running
<1>4. 1 \in 1 .. STACK_SIZE /\ STACK_SIZE \in Nat /\ MaxNatives \in Nat /\ MaxErrors \in Nat
      /\ MAX_HEAP \in Nat /\ MAX_LOOP_NESTING \in Nat
  BY CallConstants
<1>5. NativesOK
  <2>1. <<>> \in Seq(NatRec) /\ Len(<<>>) = 0 /\ 1 .. 0 = {} /\ 1 .. 0 - 1 = {}
    OBVIOUS
  <2> QED BY <2>1, <1>1, <1>4 DEF NativesOK
<1>6. CellsOK /\ PlaceOK
  BY <1>1, <1>2, <1>4, Positions DEF CellsOK, PlaceOK
<1>7. MemoryOK
  <2>1. vars \in [Var -> 0 .. MAX_HEAP]
    BY <1>1, <1>4
  <2>2. head \in 0 .. MAX_HEAP /\ errors \in 0 .. MaxErrors
    BY <1>1, <1>4
  <2>3. scopes \in Seq(ScopeRec) /\ Len(scopes) <= MAX_LOOP_NESTING
    BY <1>1, <1>4
  <2>4. inside \in BOOLEAN /\ defined \subseteq Var /\ stale \in BOOLEAN /\ (inside => stale)
    BY <1>1
  <2> QED BY <2>1, <2>2, <2>3, <2>4 DEF MemoryOK
<1> DEFINE u == Running
           us == <<u>>
<1>8. u.p = Prompt /\ u.f = 1 /\ u.top = 0 /\ u.n = 0 /\ ~ Code(u) /\ Outermost(u) /\ u \in Views(stack, natives)
  <2>1. 0 \in 0 .. Len(stack) /\ 0 \in 0 .. Len(natives)
    BY <1>1
  <2> QED BY <2>1, <1>3, <1>4, Positions DEF Code, Outermost, Views
<1> HIDE DEF u
<1>9. Frames(stack, natives, us, 1)
  <2>1. Clean(stack, u)
    <3>1. 1 .. 0 = {}
      OBVIOUS
    <3> QED BY <3>1, <1>8 DEF Clean, First
  <2>2. stack \in Seq(Cell) /\ natives \in Seq(NatRec)
    BY <1>1
  <2> QED BY <2>1, <2>2, <1>8, Fresh
<1>10. us[1] = u /\ Rank(us, 1) = 1 /\ \A i \in 1 .. 1 : i = 1
  BY <1>8 DEF Rank
<1> HIDE DEF us
<1>11. Nested(nest, us, 1)
  BY <1>1, <1>8, <1>10 DEF Nested
<1>12. Matched(scopes, nest, us, 1)
  <2>1. Own(<<>>, u) = {}
    BY DEF Own
  <2>2. Cardinality(Own(<<>>, u)) = 0
    BY <2>1, FS_EmptySet
  <2>3. 1 .. Len(<<>>) = {}
    OBVIOUS
  <2> QED BY <2>2, <2>3, <1>1, <1>8, <1>10 DEF Matched
<1>13. VarsKept
  BY <1>1 DEF VarsKept
<1>14. Stands(us, 1)
  BY <1>9, <1>10, <1>11, <1>12, <1>13 DEF Stands, u
<1>15. us \in [1 .. 1 -> Views(stack, natives)]
  BY <1>9 DEF Frames
<1> QED BY <1>5, <1>6, <1>7, <1>14, <1>15 DEF CallInv, Shape

LEMMA InvNext ==
  CallInv /\ [Next]_allvars => CallInv'
<1> SUFFICES ASSUME CallInv, [Next]_allvars PROVE CallInv'
  OBVIOUS
<1>a. PICK n \in Nat : \E us \in [1 .. n -> Views(stack, natives)] : Stands(us, n)
  BY DEF CallInv
<1>0. PICK us \in [1 .. n -> Views(stack, natives)] : Standing(us, n)
  BY <1>a DEF CallInv, Standing
<1>1. ASSUME NEW v \in Literals \cup {Obj} \cup Locals, Evaluate(v) PROVE CallInv'
  BY <1>0, <1>1, EvaluateStep
<1>2. CASE Discard
  BY <1>0, <1>2, DiscardStep
<1>3. ASSUME NEW i \in 1 .. sp, Assign(i) PROVE CallInv'
  BY <1>0, <1>3, AssignStep
<1>4. CASE Enter
  BY <1>0, <1>4, EnterStep
<1>5. CASE Leave
  BY <1>0, <1>5, LeaveStep
<1>6. ASSUME NEW f \in Fn, Call(f) PROVE CallInv'
  BY <1>0, <1>6, CallStep
<1>7. ASSUME NEW f \in Fn, NEW args \in [1 .. Arity[f] -> Literals], CallByName(f, args) PROVE CallInv'
  BY <1>0, <1>7, CallByNameStep
<1>8. CASE Return
  BY <1>0, <1>8, ReturnStep
<1>9. ASSUME NEW fn \in Native, NEW l \in Lists, NEW t \in Targets(fn), NEW p \in ParamsOf(fn),
             Apply(fn, t, l, p)
      PROVE  CallInv'
  BY <1>0, <1>9, ApplyStep
<1>10. CASE Callback
  BY <1>0, <1>10, CallbackStep
<1>11. CASE Collect
  BY <1>0, <1>11, CollectStep
<1>12. CASE Finish
  BY <1>0, <1>12, FinishStep
<1>13. ASSUME NEW v \in Num, StdCallback(v) PROVE CallInv'
  BY <1>0, <1>13, StdCallbackStep
<1>14. CASE StartLine
  BY <1>0, <1>14, StartLineStep
<1>15. CASE EndLine
  BY <1>0, <1>15, EndLineStep
<1>16. ASSUME NEW x \in Var, DefineVar(x) PROVE CallInv'
  BY <1>0, <1>16, DefineVarStep
<1>17. CASE CompileError
  BY <1>0, <1>17, CompileErrorStep
<1>18. CASE RuntimeError
  BY <1>0, <1>18, RuntimeErrorStep
<1>19. CASE UNCHANGED allvars
  BY <1>0, <1>19, StutterStep
<1> QED BY <1>1, <1>2, <1>3, <1>4, <1>5, <1>6, <1>7, <1>8, <1>9, <1>10, <1>11, <1>12, <1>13,
           <1>14, <1>15, <1>16, <1>17, <1>18, <1>19 DEF Next

LEMMA Invariance ==
  Spec => []CallInv
<1>1. Init => CallInv
  BY InvInit
<1>2. CallInv /\ [Next]_allvars => CallInv'
  BY InvNext
<1> QED BY <1>1, <1>2, PTL DEF Spec

-----------------------------------------------------------------------------
(* All variables keep their types: stack and scope_stack their bounds,     *)
(* positions are of the program or one past its end.                       *)
THEOREM TypeCorrect ==
  Spec => []TypeOK
<1>1. CallInv => TypeOK
  <2> SUFFICES ASSUME CallInv PROVE TypeOK
    OBVIOUS
  <2>1. Shape
    BY DEF CallInv
  <2>a. PICK n \in Nat : \E us \in [1 .. n -> Views(stack, natives)] : Stands(us, n)
    BY DEF CallInv
  <2>2. PICK us \in [1 .. n -> Views(stack, natives)] : Standing(us, n)
    BY <2>a, <2>1 DEF Standing
  <2>3. nest \in Seq(Nat) /\ nest # <<>>
    <3>1. Nested(nest, us, n) /\ Stacked(us, n)
      BY <2>2, StandingHas
    <3>2. n \in 1 .. n /\ 1 <= Rank(us, n) /\ Rank(us, n) \in Int
      BY <3>1, Ranks
    <3>3. Len(nest) >= 1 /\ nest \in Seq(Nat)
      BY <3>1, <3>2 DEF Nested
    <3> QED BY <3>3
  <2>4. ip \in [fn : Fn \cup {"script", "end", "prompt"}, at : 0 .. MaxSites]
    <3>1. 0 \in 0 .. MaxSites
      BY StackConstants
    <3>2. ip \in CodePos \/ ip = CodeEnd \/ ip = Prompt
      BY <2>1 DEF Shape, PlaceOK, Place, Caller
    <3> QED BY <3>1, <3>2 DEF CodePos, CodeEnd, Prompt, At
  <2>5. stack \in Seq(Cell) /\ sp <= STACK_SIZE /\ fp \in 1 .. STACK_SIZE /\ Len(natives) <= MaxNatives
    BY <2>1 DEF Shape, CellsOK, PlaceOK, NativesOK
  <2>6. MemoryOK
    BY <2>1 DEF Shape
  <2> QED BY <2>3, <2>4, <2>5, <2>6 DEF MemoryOK, ScopeRec, TypeOK
<1> QED BY <1>1, Invariance, PTL

(* scope_stack holds the scopes of the open activations, each one's under  *)
(* its own fp and as many as it is in blocks, inner ones above outer ones, *)
(* however functions and natives call each other: OP_RET takes the scopes  *)
(* of its own activation, all of them and no others.                       *)
THEOREM ScopesAreMatched ==
  Spec => []ScopesMatch
<1>1. CallInv => ScopesMatch
  <2> SUFFICES ASSUME CallInv, ~ stale PROVE ScopesMatch
    BY DEF ScopesMatch
  <2>1. Shape
    BY DEF CallInv
  <2>a. PICK n \in Nat : \E us \in [1 .. n -> Views(stack, natives)] : Stands(us, n)
    BY DEF CallInv
  <2>2. PICK us \in [1 .. n -> Views(stack, natives)] : Standing(us, n)
    BY <2>a, <2>1 DEF Standing
  <2>3. /\ Frames(stack, natives, us, n) /\ us[n] = Running /\ Matched(scopes, nest, us, n)
        /\ MemoryOK
    BY <2>2, StandingHas
  <2>4. Unwound = us
    BY <2>1, <2>3, Reading DEF Shape
  <2>5. DOMAIN us = 1 .. n
    BY <2>3 DEF Frames
  <2>6. DOMAIN scopes = 1 .. Len(scopes)
    BY <2>3 DEF MemoryOK
  <2> DEFINE code == {i \in DOMAIN us : us[i].p # CodeEnd}
  <2>7. \A i \in code : OwnScopes(us[i]) = Own(scopes, us[i]) /\ i \in 1 .. n /\ us[i].p # CodeEnd
    BY <2>5, <2>6 DEF Own, OwnScopes
  <2>8. \A i \in code : Cardinality(OwnScopes(us[i])) = nest[i - us[i].n]
    BY <2>3, <2>7 DEF Matched, Rank
  <2>9. \A s \in DOMAIN scopes : \E i \in code : s \in OwnScopes(us[i])
    BY <2>3, <2>5, <2>6 DEF Matched, OwnScopes
  <2>10. \A s, t \in DOMAIN scopes : s < t => scopes[s].fp <= scopes[t].fp
    BY <2>3, <2>6 DEF Matched
  <2> HIDE DEF code
  <2> QED BY <2>4, <2>8, <2>9, <2>10 DEF ScopesMatch, code
<1> QED BY <1>1, Invariance, PTL

(* As long as no error left anything behind, no call, return, callback or  *)
(* block moves the head below the object of a global: what a line defined  *)
(* is there for all lines to come.                                         *)
THEOREM VariablesAreKept ==
  Spec => []VariablesKept
<1>1. CallInv => VariablesKept
  <2> SUFFICES ASSUME CallInv, ~ stale PROVE VariablesSurvive
    BY DEF VariablesKept
  <2>a. PICK n \in Nat : \E us \in [1 .. n -> Views(stack, natives)] : Stands(us, n)
    BY DEF CallInv
  <2> QED BY <2>a DEF Stands, VarsKept, VariablesSurvive
<1> QED BY <1>1, Invariance, PTL

-----------------------------------------------------------------------------
(* What is read of the activations: the acts of CallStack.                 *)

(* The values in cells a .. b.                                             *)
Held(st, a, b) == [j \in 1 .. b - a + 1 |-> st[a + j - 1].num]

NativeAct(r) ==
  Stack!NativeActivation(r.fn, r.target, SubSeq(r.list, r.next, Len(r.list)), r.out, r.param)

CodeAct(st, u) ==
  Stack!Activation(IF Code(u) THEN u.p.fn ELSE "script", u.p.at, Held(st, First(u), u.top))

ActOf(st, ns, u) == IF u.p = CodeEnd THEN NativeAct(ns[u.n]) ELSE CodeAct(st, u)

(* The natives, a result that waits delivered.                             *)
Settled ==
  [i \in 1 .. Len(natives) |->
     IF Waiting /\ i = Len(natives) THEN After(Last(stack).num) ELSE natives[i]]

Acts(st, ns, us, n) == [i \in 1 .. n |-> ActOf(st, ns, us[i])]

Holds(st, a, b) ==
  /\ st \in Seq(Cell) /\ a \in Nat \ {0} /\ b \in Nat /\ b <= Len(st) /\ a <= b + 1
  /\ \A j \in a .. b : st[j] \in ValCell

AreHeld(vals, st, a, b) ==
  /\ vals \in Seq(Value) /\ Len(vals) = b - a + 1
  /\ \A j \in 1 .. b - a + 1 : vals[j] = st[a + j - 1].num

LEMMA Holding ==
  ASSUME NEW st, NEW a, NEW b, Holds(st, a, b)
  PROVE  NumsOf(SubSeq(st, a, b)) = Held(st, a, b) /\ AreHeld(Held(st, a, b), st, a, b)
<1>0. /\ st \in Seq(Cell) /\ a \in Nat \ {0} /\ b \in Nat /\ b <= Len(st) /\ a <= b + 1
      /\ \A j \in a .. b : st[j] \in ValCell
  BY DEF Holds
<1>1. Len(st) \in Nat /\ b - a + 1 \in Nat
  BY <1>0, LenProperties
<1>2. \A j \in 1 .. b - a + 1 : a + j - 1 \in a .. b
  <2>1. \A c, d \in Int : \A j \in 1 .. d - c + 1 : c + j - 1 \in c .. d
    OBVIOUS
  <2> QED BY <1>0, <2>1
<1>3. /\ SubSeq(st, a, b) \in Seq(Cell)
      /\ Len(SubSeq(st, a, b)) = IF a <= b THEN b - a + 1 ELSE 0
      /\ \A j \in 1 .. b - a + 1 : SubSeq(st, a, b)[j] = st[a + j - 1]
  <2>1. \A j \in a .. b : st[j] \in Cell
    BY <1>0, Cells
  <2>2. a \in Int /\ b \in Int
    BY <1>0
  <2> QED BY <1>0, <2>1, <2>2, SubSeqProperties
<1>4. Len(SubSeq(st, a, b)) = b - a + 1
  BY <1>0, <1>3
<1>5. DOMAIN SubSeq(st, a, b) = 1 .. b - a + 1
  BY <1>3, <1>4, LenProperties
<1>6. \A j \in 1 .. b - a + 1 : /\ SubSeq(st, a, b)[j].kind = "val" /\ st[a + j - 1].num \in Value
                                /\ SubSeq(st, a, b)[j].num = st[a + j - 1].num
  BY <1>0, <1>2, <1>3, Cells
<1>7. NumsOf(SubSeq(st, a, b)) = Held(st, a, b)
  BY <1>5, <1>6 DEF NumsOf, Held
<1>8. /\ Held(st, a, b) \in [1 .. b - a + 1 -> Value]
      /\ \A j \in 1 .. b - a + 1 : Held(st, a, b)[j] = st[a + j - 1].num
  BY <1>6 DEF Held
<1>9. Held(st, a, b) \in Seq(Value) /\ Len(Held(st, a, b)) = b - a + 1
  BY <1>1, <1>8, IsASeq, LenProperties
<1> QED BY <1>7, <1>8, <1>9 DEF AreHeld

(* Sequences of equal length are equal if their elements are.              *)
LEMMA Alikes ==
  ASSUME NEW S, NEW s \in Seq(S), NEW t \in Seq(S), Len(s) = Len(t),
         \A i \in 1 .. Len(s) : s[i] = t[i]
  PROVE  s = t
BY SeqEqual

(* An activation whose cells and natives stay is read as before.           *)
LEMMA SameAct ==
  ASSUME NEW st, NEW ns, NEW s2, NEW n2, NEW u, First(u) \in Nat, u.top \in Nat,
         u.p # CodeEnd => \A j \in First(u) .. u.top : s2[j] = st[j],
         u.p = CodeEnd => n2[u.n] = ns[u.n]
  PROVE  ActOf(s2, n2, u) = ActOf(st, ns, u)
<1>1. CASE u.p = CodeEnd
  BY <1>1 DEF ActOf
<1>2. CASE u.p # CodeEnd
  <2>1. \A c, d \in Int : \A j \in 1 .. d - c + 1 : c + j - 1 \in c .. d
    OBVIOUS
  <2> DEFINE a == First(u)
             b == u.top
  <2>2. a \in Int /\ b \in Int /\ \A j \in a .. b : s2[j] = st[j]
    BY <1>2
  <2> HIDE DEF a, b
  <2>3. \A j \in 1 .. b - a + 1 : s2[a + j - 1] = st[a + j - 1]
    BY <2>1, <2>2
  <2>4. Held(s2, a, b) = Held(st, a, b)
    BY <2>3 DEF Held
  <2> QED BY <1>2, <2>4 DEF ActOf, CodeAct, a, b
<1> QED BY <1>1, <1>2

Stay(st, ns, us, n, k) ==
  Frames(st, ns, us, n) /\ Len(st) \in Nat /\ Len(ns) \in Nat /\ k \in 1 .. n

SameBelow(u, s1, s2, n1, n2) ==
  /\ \A j \in 1 .. u.top : s2[j] = s1[j]
  /\ \A j \in 1 .. u.n : n2[j] = n1[j]

ReadsSame(us, k, s1, s2, n1, n2) == \A i \in 1 .. k : ActOf(s2, n2, us[i]) = ActOf(s1, n1, us[i])

LEMMA SameActs ==
  ASSUME NEW st, NEW ns, NEW us, NEW n, NEW k, Stay(st, ns, us, n, k),
         NEW s1, NEW s2, NEW n1, NEW n2, SameBelow(us[k], s1, s2, n1, n2)
  PROVE  ReadsSame(us, k, s1, s2, n1, n2)
<1> SUFFICES ASSUME NEW i \in 1 .. k PROVE ActOf(s2, n2, us[i]) = ActOf(s1, n1, us[i])
  BY DEF ReadsSame
<1>0. /\ Frames(st, ns, us, n) /\ Len(st) \in Nat /\ Len(ns) \in Nat /\ k \in 1 .. n
      /\ \A j \in 1 .. us[k].top : s2[j] = s1[j]
      /\ \A j \in 1 .. us[k].n : n2[j] = n1[j]
  BY DEF Stay, SameBelow
<1>1. n \in Nat /\ i \in 1 .. n /\ Lies(st, ns, us, i) /\ Rises(us, i, k)
      /\ (i = 1 => us[i].n = 0 /\ Outermost(us[i]))
  BY <1>0 DEF Frames
<1>2. us[i] \in Views(st, ns) /\ us[k] \in Views(st, ns)
  BY <1>0, <1>1 DEF Frames
<1>3. us[i].top \in Nat /\ us[k].top \in Nat /\ us[i].n \in Nat /\ us[k].n \in Nat /\ us[i].f \in Nat \ {0}
  BY <1>0, <1>2, ViewTypes
<1>4. us[i].top <= us[k].top /\ us[i].n <= us[k].n
  BY <1>1 DEF Rises
<1>5. First(us[i]) \in Nat /\ 1 <= First(us[i])
  BY <1>3 DEF First
<1>6. \A j \in First(us[i]) .. us[i].top : j \in 1 .. us[k].top
  <2>1. \A a, b, c \in Int : 1 <= a /\ b <= c => a .. b \subseteq 1 .. c
    BY Inner
  <2> QED BY <2>1, <1>3, <1>4, <1>5
<1>7. us[i].p = CodeEnd => us[i].n \in 1 .. us[k].n
  <2>1. us[i].p = CodeEnd => i > 1
    <3>1. i = 1 => us[i].p # CodeEnd
      BY <1>1, Positions DEF Outermost
    <3> QED BY <3>1
  <2>2. us[i].p = CodeEnd => us[i].n \in 1 .. Len(ns)
    <3> SUFFICES ASSUME us[i].p = CodeEnd PROVE us[i].n \in 1 .. Len(ns)
      OBVIOUS
    <3>1. On(st, ns, us[i - 1], us[i])
      BY <1>1, <2>1 DEF Lies
    <3>2. ~ Code(us[i])
      BY Positions DEF Code
    <3> QED BY <3>1, <3>2 DEF On, NativeOn, FrameOn
  <2> QED BY <2>2, <1>3, <1>4
<1> QED BY <1>0, <1>3, <1>5, <1>6, <1>7, SameAct

(* Activations reads those that lie there.                                 *)
Maps == \A n : \A us : Frames(stack, natives, us, n) /\ us[n] = Running =>
                          Activations = Acts(stack, Settled, us, n)

LEMMA Mapped == CellsOK /\ NativesOK => Maps
<1> SUFFICES ASSUME CellsOK, NativesOK, NEW n, NEW us,
                    Frames(stack, natives, us, n), us[n] = Running
             PROVE  Activations = Acts(stack, Settled, us, n)
  BY DEF Maps
<1>1. Unwound = us
  BY Reading
<1>2. n \in Nat \ {0} /\ us \in [1 .. n -> Views(stack, natives)] /\ Outermost(us[1])
  BY DEF Frames
<1>3. stack \in Seq(Cell) /\ Len(stack) \in Nat /\ Len(natives) \in Nat
  BY LenProperties DEF CellsOK, NativesOK
<1>4. ASSUME NEW i \in 1 .. n PROVE ActivationOf(us[i]) = ActOf(stack, Settled, us[i])
  <2>1. us[i] \in Views(stack, natives) /\ Lies(stack, natives, us, i) /\ i \in Nat
    BY <1>2, <1>4 DEF Frames
  <2>2. /\ us[i].f \in Nat \ {0} /\ us[i].top \in Nat /\ us[i].top <= Len(stack)
        /\ us[i].n \in Nat /\ us[i].n <= Len(natives)
    BY <1>3, <2>1, ViewTypes
  <2>3. i = 1 => us[i].p # CodeEnd /\ ~ Code(us[i])
    BY <1>2, Positions, StackConstants DEF Outermost, Code
  <2>4. i > 1 => On(stack, natives, us[i - 1], us[i])
    BY <2>1 DEF Lies
  <2>5. CASE us[i].p = CodeEnd
    <3>1. us[i].n \in 1 .. Len(natives)
      <4>1. i > 1 /\ ~ Code(us[i])
        BY <1>2, <2>3, <2>5, Positions DEF Code
      <4> QED BY <4>1, <2>4 DEF On, NativeOn, FrameOn
    <3>2. us[i].n > 0
      BY <3>1
    <3>3. ActivationOf(us[i]) = NativeOf(us[i].n)
      BY <2>5, <3>2, Positions DEF ActivationOf
    <3>4. Settled[us[i].n] = IF Waiting /\ us[i].n = Len(natives) THEN After(Last(stack).num)
                             ELSE natives[us[i].n]
      BY <3>1 DEF Settled
    <3>5. NativeOf(us[i].n) = NativeAct(Settled[us[i].n])
      <4> DEFINE r == Settled[us[i].n]
      <4>1. NativeOf(us[i].n) =
              [fn |-> r.fn, target |-> r.target, todo |-> SubSeq(r.list, r.next, Len(r.list)),
               done |-> r.out, param |-> r.param]
        BY <3>4 DEF NativeOf
      <4> QED BY <4>1 DEF NativeAct, Stack!NativeActivation
    <3> QED BY <2>5, <3>3, <3>5 DEF ActOf
  <2>6. CASE us[i].p # CodeEnd
    <3>1. First(us[i]) \in Nat \ {0} /\ First(us[i]) <= us[i].top + 1
      <4>1. CASE Code(us[i])
        <5>1. i > 1 /\ FrameOn(stack, us[i - 1], us[i])
          <6>1. i > 1
            BY <1>2, <2>3, <4>1
          <6> QED BY <6>1, <2>4, <2>6 DEF On, NativeOn
        <5>2. us[i].f \in 3 .. us[i].top
          BY <5>1 DEF FrameOn
        <5> QED BY <2>2, <5>2 DEF First
      <4>2. CASE ~ Code(us[i])
        BY <2>2, <4>2 DEF First
      <4> QED BY <4>1, <4>2
    <3>2. \A j \in First(us[i]) .. us[i].top : stack[j] \in ValCell
      BY <2>1, <2>6 DEF Lies, Clean
    <3>3. NumsOf(SubSeq(stack, First(us[i]), us[i].top)) = Held(stack, First(us[i]), us[i].top)
      <4>1. Holds(stack, First(us[i]), us[i].top)
        BY <1>3, <2>2, <3>1, <3>2 DEF Holds
      <4> QED BY <4>1, Holding
    <3>4. ActivationOf(us[i]) =
            [fn |-> IF Code(us[i]) THEN us[i].p.fn ELSE "script", at |-> us[i].p.at,
             vals |-> NumsOf(SubSeq(stack, First(us[i]), us[i].top))]
      <4>1. CASE Code(us[i])
        BY <2>6, <4>1 DEF ActivationOf, Code, First
      <4>2. CASE ~ Code(us[i])
        BY <2>6, <4>2 DEF ActivationOf, Code, First
      <4> QED BY <4>1, <4>2
    <3> QED BY <2>6, <3>3, <3>4 DEF ActOf, CodeAct, Stack!Activation
  <2> QED BY <2>5, <2>6
<1>5. Activations = [i \in 1 .. n |-> ActivationOf(us[i])]
  <2>1. DOMAIN us = 1 .. n
    BY <1>2
  <2> QED BY <1>1, <2>1 DEF Activations
<1> QED BY <1>4, <1>5 DEF Acts

(* After a step the activations it moved to are read.                      *)
LEMMA NextReads ==
  ASSUME NEW vs, NEW m, Moved(vs, m)
  PROVE  Activations' = Acts(stack', Settled', vs, m)
<1>1. CellsOK' /\ NativesOK' => Maps'
  BY Mapped, PTL
<1>2. CellsOK' /\ NativesOK' =>
        (Frames(stack, natives, vs, m)' /\ vs[m] = Running' => Activations' = Acts(stack, Settled, vs, m)')
  BY <1>1 DEF Maps
<1>3. Frames(stack, natives, vs, m)'
  BY DEF Moved, Frames, Lies, Rises, On, NativeOn, FrameOn, Clean, Views
<1>4. Acts(stack, Settled, vs, m)' = Acts(stack', Settled', vs, m)
  BY DEF Acts, ActOf
<1> QED BY <1>2, <1>3, <1>4 DEF Moved

LEMMA ReadNext ==
  ASSUME NEW vs, NEW m, Moved(vs, m), Watch
  PROVE  /\ acts' = Acts(stack', Settled', vs, m)
         /\ m \in Nat \ {0} /\ Len(stack') \in Nat /\ Len(natives') \in Nat /\ vs[m] = Running'
         /\ Frames(stack', natives', vs, m)
<1>1. /\ m \in Nat \ {0} /\ stack' \in Seq(Cell) /\ natives' \in Seq(NatRec) /\ vs[m] = Running'
  BY DEF Moved, Frames, CellsOK, NativesOK, NatRec, Caller, CodePos
<1> QED BY <1>1, NextReads, LenProperties DEF Moved, Watch

(* Sequences as the actions of CallStack put them together.                *)
IsSeq(s, n) == s = [i \in 1 .. n |-> s[i]]

SeqIn(s, n, S) == IsSeq(s, n) /\ \A i \in 1 .. n : s[i] \in S

LEMMA Parts ==
  ASSUME NEW n \in Nat \ {0}, NEW s, NEW S, SeqIn(s, n, S)
  PROVE  /\ s \in Seq(S) /\ Len(s) = n /\ s # <<>> /\ Last(s) = s[n]
         /\ Front(s) \in Seq(S) /\ Len(Front(s)) = n - 1 /\ IsSeq(Front(s), n - 1)
         /\ \A i \in 1 .. n - 1 : Front(s)[i] = s[i]
<1>1. s \in [1 .. n -> S]
  BY DEF SeqIn, IsSeq
<1>2. s \in Seq(S) /\ Len(s) = n
  BY <1>1, IsASeq, LenProperties
<1>3. s # <<>>
  BY <1>2
<1>4. /\ Front(s) \in Seq(S) /\ Len(Front(s)) = n - 1 /\ Last(s) = s[n]
      /\ \A i \in 1 .. n - 1 : Front(s)[i] = s[i]
  BY <1>2, <1>3, Fronts
<1>5. IsSeq(Front(s), n - 1)
  BY <1>4, LenProperties DEF IsSeq
<1> QED BY <1>2, <1>3, <1>4, <1>5

LEMMA Becoming ==
  ASSUME NEW n \in Nat \ {0}, NEW s, IsSeq(s, n), NEW t, IsSeq(t, n),
         \A i \in 1 .. n - 1 : t[i] = s[i]
  PROVE  /\ t = Append(Front(s), t[n]) /\ Last(s) = s[n]
         /\ t[n] = s[n] => t = s
<1> DEFINE S == {s[i] : i \in 1 .. n} \cup {t[i] : i \in 1 .. n}
<1>1. SeqIn(s, n, S) /\ SeqIn(t, n, S)
  BY DEF SeqIn
<1> HIDE DEF S
<1>2. /\ Len(s) = n /\ Last(s) = s[n] /\ Front(s) \in Seq(S) /\ Len(Front(s)) = n - 1
      /\ \A i \in 1 .. n - 1 : Front(s)[i] = s[i]
  BY <1>1, Parts
<1>3. t \in Seq(S) /\ s \in Seq(S) /\ Len(t) = n /\ t[n] \in S
  <2>1. n \in 1 .. n
    OBVIOUS
  <2>2. t[n] \in S
    BY <1>1, <2>1 DEF SeqIn
  <2> QED BY <1>1, <2>2, Parts
<1>4. /\ Append(Front(s), t[n]) \in Seq(S) /\ Len(Append(Front(s), t[n])) = n
      /\ Append(Front(s), t[n])[n] = t[n]
      /\ \A i \in 1 .. n - 1 : Append(Front(s), t[n])[i] = Front(s)[i]
  BY <1>2, <1>3, AppendProperties
<1>5. \A i \in 1 .. n : Append(Front(s), t[n])[i] = t[i]
  <2>1. \A i \in 1 .. n : i = n \/ i \in 1 .. n - 1
    OBVIOUS
  <2> QED BY <2>1, <1>2, <1>4
<1>6. t = Append(Front(s), t[n])
  BY <1>3, <1>4, <1>5, Alikes
<1>7. t[n] = s[n] => t = s
  <2>1. t[n] = s[n] => \A i \in 1 .. n : t[i] = s[i]
    <3>1. \A i \in 1 .. n : i = n \/ i \in 1 .. n - 1
      OBVIOUS
    <3> QED BY <3>1
  <2> QED BY <2>1, <1>2, <1>3, Alikes
<1> QED BY <1>2, <1>6, <1>7

LEMMA Opening ==
  ASSUME NEW n \in Nat \ {0}, NEW s, IsSeq(s, n), NEW t, IsSeq(t, n + 1),
         \A i \in 1 .. n - 1 : t[i] = s[i]
  PROVE  t = Front(s) \o <<t[n], t[n + 1]>> /\ Last(s) = s[n]
<1> DEFINE S == {s[i] : i \in 1 .. n} \cup {t[i] : i \in 1 .. n + 1}
           two == <<t[n], t[n + 1]>>
<1>1. /\ SeqIn(s, n, S) /\ SeqIn(t, n + 1, S) /\ n + 1 \in Nat \ {0}
      /\ t[n] \in S /\ t[n + 1] \in S
  <2>1. n \in 1 .. n + 1 /\ n + 1 \in 1 .. n + 1
    OBVIOUS
  <2> QED BY <2>1 DEF SeqIn
<1> HIDE DEF S
<1>2. /\ Len(s) = n /\ Last(s) = s[n] /\ Front(s) \in Seq(S) /\ Len(Front(s)) = n - 1
      /\ \A i \in 1 .. n - 1 : Front(s)[i] = s[i]
  BY <1>1, Parts
<1>3. t \in Seq(S) /\ Len(t) = n + 1
  BY <1>1, Parts
<1>4. two \in Seq(S) /\ Len(two) = 2 /\ two[1] = t[n] /\ two[2] = t[n + 1]
  BY <1>1
<1> HIDE DEF two
<1>5. /\ Front(s) \o two \in Seq(S) /\ Len(Front(s) \o two) = n - 1 + 2
      /\ \A j \in 1 .. n - 1 + 2 :
           (Front(s) \o two)[j] = IF j <= n - 1 THEN Front(s)[j] ELSE two[j - (n - 1)]
  BY <1>2, <1>4, Joined
<1>6. \A j \in 1 .. n + 1 : (Front(s) \o two)[j] = t[j]
  <2>1. \A j \in 1 .. n + 1 : /\ j \in 1 .. n - 1 + 2
                              /\ j \in 1 .. n - 1 \/ j = n \/ j = n + 1
                              /\ j \in 1 .. n - 1 => j <= n - 1
    OBVIOUS
  <2>2. ~ (n <= n - 1) /\ ~ (n + 1 <= n - 1) /\ n - (n - 1) = 1 /\ n + 1 - (n - 1) = 2
    OBVIOUS
  <2> QED BY <2>1, <2>2, <1>2, <1>4, <1>5
<1>7. n - 1 + 2 = n + 1
  OBVIOUS
<1>8. Front(s) \o two = t
  BY <1>3, <1>5, <1>6, <1>7, Alikes
<1> QED BY <1>2, <1>8 DEF two

LEMMA Closing ==
  ASSUME NEW n \in Nat \ {0}, n > 1, NEW s, IsSeq(s, n), NEW t, IsSeq(t, n - 1),
         \A i \in 1 .. n - 2 : t[i] = s[i]
  PROVE  /\ t = Append(Front(Front(s)), t[n - 1])
         /\ Last(s) = s[n] /\ Last(Front(s)) = s[n - 1]
<1> DEFINE S == {s[j] : j \in 1 .. n}
<1>1. SeqIn(s, n, S)
  BY DEF SeqIn
<1> HIDE DEF S
<1>2. /\ Last(s) = s[n] /\ IsSeq(Front(s), n - 1)
      /\ \A i \in 1 .. n - 1 : Front(s)[i] = s[i]
  BY <1>1, Parts
<1>3. n - 1 \in Nat \ {0} /\ n - 1 - 1 = n - 2 /\ \A i \in 1 .. n - 2 : i \in 1 .. n - 1
  OBVIOUS
<1>4. n - 1 \in 1 .. n - 1
  BY <1>3
<1> DEFINE m == n - 1
           r == Front(s)
<1>5. m \in Nat \ {0} /\ IsSeq(r, m) /\ IsSeq(t, m) /\ (\A i \in 1 .. m - 1 : t[i] = r[i])
  BY <1>2, <1>3
<1> HIDE DEF m, r
<1>6. t = Append(Front(r), t[m]) /\ Last(r) = r[m]
  BY <1>5, Becoming
<1> QED BY <1>2, <1>4, <1>6 DEF m, r

-----------------------------------------------------------------------------
(* Each step of Calls, as CallStack sees it.                               *)

LEMMA SettledAre ==
  /\ ~ Waiting => Settled = [i \in 1 .. Len(natives) |-> natives[i]]
  /\ ip # CodeEnd \/ InNative => ~ Waiting
BY DEF Settled, Waiting, InNative, native

(* The running activation of code, and what it becomes.                    *)
LEMMA WorkReads ==
  ASSUME NEW us, NEW n, Works(us, n, stack', ip'), natives' = natives, fp' = fp, Watch,
         acts = Acts(stack, Settled, us, n)
  PROVE  /\ Last(acts) = Stack!Activation(ip.fn, ip.at, Held(stack, Base + 1, sp))
         /\ LET b == Stack!Activation(ip.fn, ip'.at, Held(stack', Base + 1, Len(stack')))
            IN acts' = Append(Front(acts), b) /\ (b = Last(acts) => acts' = acts)
<1>1. /\ Shape /\ Frames(stack, natives, us, n) /\ us[n] = Running /\ InCode
      /\ ip' \in CodePos /\ ip'.fn = ip.fn /\ n \in Nat \ {0} /\ Base <= Len(stack')
      /\ \A j \in 1 .. Base : stack'[j] = stack[j]
  BY DEF Works, Frames
<1>2. /\ us[n] = [p |-> ip, f |-> fp, top |-> sp, n |-> Len(natives)]
      /\ us[n].p # CodeEnd /\ ~ Waiting
      /\ (InScript <=> ~ Code(us[n]))
      /\ Base + 1 = First(us[n]) /\ Base \in Nat /\ Base <= sp
      /\ (~ InScript => ip.fn \in Fn /\ Base = fp - 1 /\ n > 1 /\ FrameOn(stack, us[n - 1], us[n]))
      /\ (InScript => n = 1 /\ ip.fn = "script")
  BY <1>1, CodeRuns
<1> DEFINE w == Running'
           vs == Retopped(us, n, w)
<1>3. w = [p |-> ip', f |-> fp, top |-> Len(stack'), n |-> Len(natives)]
  BY <1>1, StaysInCode
<1>4. Moved(vs, n)
  BY Worked
<1>5. ip' # CodeEnd /\ First(w) = First(us[n]) /\ (Code(w) <=> Code(us[n]))
  <2>1. Code(w) <=> Code(us[n])
    BY <1>1, <1>2, <1>3 DEF Code
  <2> QED BY <2>1, <1>1, <1>2, <1>3, Positions DEF First
<1> HIDE DEF w
<1>6. vs = [i \in 1 .. n |-> IF i = n THEN w ELSE us[i]]
  BY DEF Retopped
<1> HIDE DEF vs
<1>7. acts' = Acts(stack', Settled', vs, n)
  BY <1>4, ReadNext
<1>8. n \in 1 .. n
  BY <1>1
<1>9. acts[n] = CodeAct(stack, us[n]) /\ IsSeq(acts, n)
  BY <1>2, <1>8 DEF Acts, ActOf, IsSeq
<1>10. acts'[n] = CodeAct(stack', w) /\ IsSeq(acts', n)
  BY <1>3, <1>5, <1>6, <1>7, <1>8 DEF Acts, ActOf, IsSeq
<1>11. /\ CodeAct(stack, us[n]) = Stack!Activation(ip.fn, ip.at, Held(stack, Base + 1, sp))
       /\ CodeAct(stack', w) = Stack!Activation(ip.fn, ip'.at, Held(stack', Base + 1, Len(stack')))
  BY <1>1, <1>2, <1>3, <1>5 DEF CodeAct, Code
<1>12. \A i \in 1 .. n - 1 : acts'[i] = acts[i]
  <2>1. CASE InScript
    BY <2>1, <1>2
  <2>2. CASE ~ InScript
    <3>1. n > 1 /\ us[n - 1].top = fp - 3 /\ us[n - 1].n = Len(natives) /\ Base = fp - 1
      BY <2>2, <1>2 DEF FrameOn
    <3>2. /\ fp \in Nat \ {0} /\ n - 1 \in 1 .. n /\ Len(stack) \in Nat /\ Len(natives) \in Nat
      BY <1>1, <3>1, Sizes
    <3>3. \A j \in 1 .. us[n - 1].top : stack'[j] = stack[j]
      <4>1. \A j \in 1 .. fp - 3 : j \in 1 .. fp - 1
        BY <3>2
      <4> QED BY <4>1, <3>1, <1>1
    <3>4. ~ Waiting'
      <4>1. ip' # CodeEnd
        BY <1>5
      <4> QED BY <4>1 DEF Waiting
    <3>5. \A j \in 1 .. us[n - 1].n : Settled'[j] = Settled[j]
      BY <1>2, <3>1, <3>4 DEF Settled
    <3>6. \A i \in 1 .. n - 1 : ActOf(stack', Settled', us[i]) = ActOf(stack, Settled, us[i])
      <4>1. Stay(stack, natives, us, n, n - 1)
        BY <1>1, <3>2 DEF Stay
      <4>2. SameBelow(us[n - 1], stack, stack', Settled, Settled')
        BY <3>3, <3>5 DEF SameBelow
      <4> DEFINE k == n - 1
      <4>3. Stay(stack, natives, us, n, k) /\ SameBelow(us[k], stack, stack', Settled, Settled')
        BY <4>1, <4>2
      <4> HIDE DEF k
      <4>4. ReadsSame(us, k, stack, stack', Settled, Settled')
        BY <4>3, SameActs
      <4> QED BY <4>4 DEF k, ReadsSame
    <3>7. \A i \in 1 .. n - 1 : i \in 1 .. n /\ i # n
      BY <1>1
    <3> QED BY <3>6, <3>7, <1>6, <1>7 DEF Acts
  <2> QED BY <2>1, <2>2
<1>13. acts' = Append(Front(acts), acts'[n]) /\ Last(acts) = acts[n] /\ (acts'[n] = acts[n] => acts' = acts)
  BY <1>1, <1>9, <1>10, <1>12, Becoming
<1> QED BY <1>9, <1>10, <1>11, <1>13

(* CallStack has these from the same module.                               *)
LEMMA Ends == \A s : Stack!Last(s) = Last(s) /\ Stack!Front(s) = Front(s)
BY DEF Stack!Last, Last, Stack!Front, Front

(* The running activation of code.                                         *)
CodeVals == Held(stack, Base + 1, sp)

LEMMA TopIsCode ==
  ASSUME Shape, NEW us, NEW n, Frames(stack, natives, us, n), us[n] = Running, InCode,
         acts = Acts(stack, Settled, us, n)
  PROVE  /\ Last(acts) = Stack!Activation(ip.fn, ip.at, CodeVals)
         /\ Stack!top = Last(acts)
         /\ Stack!top.fn = ip.fn /\ Stack!top.at = ip.at /\ Stack!top.vals = CodeVals
         /\ CodeVals \in Seq(Value) /\ Len(CodeVals) = sp - Base
         /\ sp \in Nat /\ Base \in Nat /\ Base <= sp /\ sp = Len(stack)
         /\ \A j \in 1 .. sp - Base : CodeVals[j] = stack[Base + j].num
         /\ Stack!InCode /\ Stack!Params(ip.fn) \in Nat /\ Pushed = Len(CodeVals) - Stack!Params(ip.fn)
         /\ (InScript <=> ip.fn = Stack!Script) /\ (~ InScript => fp = Base + 1)
<1>1. /\ us[n] = [p |-> ip, f |-> fp, top |-> sp, n |-> Len(natives)] /\ n \in Nat \ {0}
      /\ us[n].p # CodeEnd /\ (InScript <=> ~ Code(us[n]))
      /\ Base + 1 = First(us[n]) /\ Base \in Nat /\ Base <= sp
      /\ \A j \in Base + 1 .. sp : stack[j] \in ValCell
      /\ (~ InScript => /\ Arity[ip.fn] \in Nat \ {0} /\ Pushed = sp - fp + 1 - Arity[ip.fn]
                        /\ ip.fn \in Fn /\ Base = fp - 1)
      /\ (InScript => Pushed = sp /\ n = 1 /\ Base = 0 /\ ip.fn = "script")
  BY CodeRuns
<1>2. sp \in Nat /\ sp = Len(stack) /\ stack \in Seq(Cell) /\ fp \in Nat \ {0}
  BY Sizes
<1>3. CodeAct(stack, us[n]) = Stack!Activation(ip.fn, ip.at, CodeVals)
  BY <1>1 DEF CodeAct, Code, CodeVals
<1>4. Last(acts) = CodeAct(stack, us[n])
  <2>1. n \in 1 .. n
    BY <1>1
  <2>2. acts[n] = CodeAct(stack, us[n]) /\ IsSeq(acts, n)
    BY <2>1, <1>1 DEF Acts, ActOf, IsSeq
  <2>3. Last(acts) = acts[n]
    BY <1>1, <2>2, Becoming
  <2> QED BY <2>2, <2>3
<1>5. /\ CodeVals \in Seq(Value) /\ Len(CodeVals) = sp - Base
      /\ \A j \in 1 .. sp - Base : CodeVals[j] = stack[Base + j].num
  <2> DEFINE a == Base + 1
  <2>1. a \in Nat \ {0} /\ a <= sp + 1
    BY <1>1, <1>2
  <2>2. \A j \in a .. sp : stack[j] \in ValCell
    BY <1>1
  <2> HIDE DEF a
  <2>3. /\ Held(stack, a, sp) \in Seq(Value) /\ Len(Held(stack, a, sp)) = sp - a + 1
        /\ \A j \in 1 .. sp - a + 1 : Held(stack, a, sp)[j] = stack[a + j - 1].num
    <3>1. Holds(stack, a, sp)
      BY <1>2, <2>1, <2>2 DEF Holds
    <3> QED BY <3>1, Holding DEF AreHeld
  <2>4. sp - a + 1 = sp - Base /\ \A j \in 1 .. sp - Base : a + j - 1 = Base + j
    BY <1>1, <1>2 DEF a
  <2> QED BY <2>3, <2>4 DEF CodeVals, a
<1>6. Stack!top = Last(acts)
  BY Ends DEF Stack!top
<1>7. Stack!top.fn = ip.fn /\ Stack!top.at = ip.at /\ Stack!top.vals = CodeVals
  BY <1>3, <1>4, <1>6 DEF Stack!Activation
<1>8. Stack!InCode
  <2>1. ip.fn \in Fn \cup {"script"}
    BY <1>1
  <2>2. ip.fn \notin Native
    BY <2>1, StackConstants
  <2> QED BY <2>2, <1>7 DEF Stack!InCode
<1>9. /\ Stack!Params(ip.fn) \in Nat /\ Pushed = Len(CodeVals) - Stack!Params(ip.fn)
      /\ (InScript <=> ip.fn = Stack!Script) /\ (~ InScript => fp = Base + 1)
  <2>1. CASE InScript
    <3>1. Stack!Params(ip.fn) = 0 /\ Pushed = sp /\ Base = 0
      BY <2>1, <1>1, Positions DEF Stack!Params
    <3>2. ip.fn = Stack!Script
      BY <2>1, <1>1 DEF Stack!Script
    <3> QED BY <2>1, <3>1, <3>2, <1>2, <1>5
  <2>2. CASE ~ InScript
    <3>1. Stack!Params(ip.fn) = Arity[ip.fn]
      BY <2>2, <1>1 DEF Stack!Params
    <3>2. ip.fn # Stack!Script
      BY <2>2, <1>1, Positions DEF Stack!Script
    <3> QED BY <2>2, <3>1, <3>2, <1>1, <1>2, <1>5
  <2> QED BY <2>1, <2>2
<1> QED BY <1>1, <1>2, <1>3, <1>4, <1>5, <1>6, <1>7, <1>8, <1>9

(* Values of the running activation after its step.                        *)
LEMMA NewVals ==
  ASSUME NEW us, NEW n, Works(us, n, stack', ip')
  PROVE  LET vals == Held(stack', Base + 1, Len(stack'))
         IN /\ vals \in Seq(Value) /\ Len(vals) = Len(stack') - Base
            /\ \A j \in 1 .. Len(stack') - Base : vals[j] = stack'[Base + j].num
<1>1. /\ stack' \in Seq(Cell) /\ Len(stack') \in Nat /\ Base <= Len(stack')
      /\ \A j \in Base + 1 .. Len(stack') : stack'[j] \in ValCell
  BY LenProperties DEF Works
<1>2. Base \in Nat
  BY CodeRuns DEF Works
<1> DEFINE a == Base + 1
           b == Len(stack')
<1>3. a \in Nat \ {0} /\ b \in Nat /\ a <= b + 1 /\ (\A j \in a .. b : stack'[j] \in ValCell) /\ b <= Len(stack')
  BY <1>1, <1>2
<1>4. b - a + 1 = b - Base /\ \A j \in 1 .. b - Base : a + j - 1 = Base + j
  BY <1>1, <1>2
<1> HIDE DEF a, b
<1>5. /\ Held(stack', a, b) \in Seq(Value) /\ Len(Held(stack', a, b)) = b - a + 1
      /\ \A j \in 1 .. b - a + 1 : Held(stack', a, b)[j] = stack'[a + j - 1].num
  <2>1. Holds(stack', a, b)
    BY <1>1, <1>3 DEF Holds
  <2> QED BY <2>1, Holding DEF AreHeld
<1> QED BY <1>4, <1>5 DEF a, b

(* What the state is read as.                                              *)
Reads(us, n) ==
  Shape /\ Frames(stack, natives, us, n) /\ us[n] = Running /\ acts = Acts(stack, Settled, us, n)

(* The last activation of code becomes this one.                           *)
LEMMA Worker ==
  ASSUME NEW us, NEW n, Reads(us, n), Works(us, n, stack', ip'), natives' = natives, fp' = fp, Watch,
         NEW vals \in Seq(Value), Len(vals) = Len(stack') - Base,
         \A j \in 1 .. Len(stack') - Base : stack'[Base + j].num = vals[j]
  PROVE  /\ acts' = Append(Front(acts), Stack!Activation(ip.fn, ip'.at, vals))
         /\ ip' = ip /\ vals = CodeVals => acts' = acts
<1> DEFINE new == Held(stack', Base + 1, Len(stack'))
<1>1. /\ new \in Seq(Value) /\ Len(new) = Len(stack') - Base
      /\ \A j \in 1 .. Len(stack') - Base : new[j] = stack'[Base + j].num
  BY NewVals
<1>2. /\ Last(acts) = Stack!Activation(ip.fn, ip.at, CodeVals)
      /\ LET b == Stack!Activation(ip.fn, ip'.at, new)
         IN acts' = Append(Front(acts), b) /\ (b = Last(acts) => acts' = acts)
  BY WorkReads DEF Reads, CodeVals
<1> HIDE DEF new
<1>3. new = vals
  BY <1>1, Alikes
<1> QED BY <1>2, <1>3

LEMMA TopWith ==
  ASSUME NEW us, NEW n, Reads(us, n), InCode
  PROVE  \A vals : [Stack!top EXCEPT !.vals = vals] = Stack!Activation(ip.fn, ip.at, vals)
<1>1. Stack!top = Stack!Activation(ip.fn, ip.at, CodeVals)
  BY TopIsCode DEF Reads
<1> QED BY <1>1 DEF Stack!Activation

LEMMA EvaluateActs ==
  ASSUME NEW us, NEW n, Reads(us, n), NEW v \in Literals \cup {Obj} \cup Locals, Evaluate(v)
  PROVE  Stack!Evaluate(v) /\ v \in Stack!Value
<1>1. /\ Works(us, n, stack', ip') /\ natives' = natives /\ fp' = fp /\ v \in Value
  BY EvaluateWorks DEF Reads
<1>2. InCode /\ Watch /\ ip' = ip /\ stack' = Append(stack, Val(v))
  BY DEF Evaluate
<1>3. /\ Stack!top.vals = CodeVals /\ Stack!InCode
      /\ CodeVals \in Seq(Value) /\ Len(CodeVals) = sp - Base
      /\ sp \in Nat /\ Base \in Nat /\ Base <= sp /\ sp = Len(stack)
      /\ \A j \in 1 .. sp - Base : CodeVals[j] = stack[Base + j].num
  BY <1>2, TopIsCode DEF Reads
<1>4. /\ Len(stack') = sp + 1 /\ stack'[sp + 1] = Val(v) /\ Val(v).num = v
      /\ \A j \in 1 .. sp : stack'[j] = stack[j]
  <2>1. stack \in Seq(Cell) /\ Val(v) \in Cell /\ Val(v).num = v
    BY <1>1, Sizes, Cells DEF Reads
  <2> QED BY <1>2, <1>3, <2>1, AppendProperties
<1> DEFINE vals == Append(CodeVals, v)
<1>5. /\ vals \in Seq(Value) /\ Len(vals) = sp - Base + 1 /\ vals[sp - Base + 1] = v
      /\ \A j \in 1 .. sp - Base : vals[j] = CodeVals[j]
  BY <1>1, <1>3, AppendProperties
<1>6. \A j \in 1 .. sp + 1 - Base : stack'[Base + j].num = vals[j]
  <2> HIDE DEF vals
  <2>1. \A j \in 1 .. sp + 1 - Base : /\ j \in 1 .. sp - Base \/ j = sp - Base + 1
                                      /\ j \in 1 .. sp - Base => Base + j \in 1 .. sp
    BY <1>3
  <2>2. Base + (sp - Base + 1) = sp + 1
    BY <1>3
  <2> QED BY <2>1, <2>2, <1>3, <1>4, <1>5
<1>7. Len(vals) = Len(stack') - Base
  BY <1>3, <1>4, <1>5
<1>8. acts' = Append(Front(acts), Stack!Activation(ip.fn, ip'.at, vals))
  <2> HIDE DEF vals
  <2>1. \A j \in 1 .. Len(stack') - Base : stack'[Base + j].num = vals[j]
    <3>1. Len(stack') - Base = sp + 1 - Base
      BY <1>3, <1>4
    <3> QED BY <3>1, <1>6
  <2> QED BY <1>1, <1>2, <1>5, <1>7, <2>1, Worker
<1>9. Stack!Push(v) = Stack!Activation(ip.fn, ip.at, vals)
  BY <1>2, <1>3, TopWith DEF Stack!Push
<1> QED BY <1>1, <1>2, <1>3, <1>8, <1>9, Ends
        DEF Stack!Evaluate, Stack!Becomes, Stack!Value, Stack!Obj, Value, Obj

LEMMA DiscardActs ==
  ASSUME NEW us, NEW n, Reads(us, n), Discard
  PROVE  Stack!Discard
<1>1. /\ Works(us, n, stack', ip') /\ natives' = natives /\ fp' = fp
  BY DiscardWorks DEF Reads
<1>2. InCode /\ Watch /\ ip' = ip /\ stack' = Front(stack) /\ Pushed > 0
  BY DEF Discard
<1>3. /\ Stack!top.vals = CodeVals /\ Stack!InCode /\ Stack!top.fn = ip.fn
      /\ CodeVals \in Seq(Value) /\ Len(CodeVals) = sp - Base
      /\ Stack!Params(ip.fn) \in Nat /\ Pushed = Len(CodeVals) - Stack!Params(ip.fn)
      /\ sp \in Nat /\ Base \in Nat /\ Base <= sp /\ sp = Len(stack)
      /\ \A j \in 1 .. sp - Base : CodeVals[j] = stack[Base + j].num
  BY <1>2, TopIsCode DEF Reads
<1>4. Len(CodeVals) > Stack!Params(ip.fn) /\ sp - Base - 1 \in 0 .. Len(CodeVals) /\ sp > 0
  BY <1>2, <1>3
<1>5. Len(stack') = sp - 1 /\ \A j \in 1 .. sp - 1 : stack'[j] = stack[j]
  <2>1. stack \in Seq(Cell) /\ stack # <<>>
    BY <1>3, <1>4, Sizes DEF Reads
  <2> QED BY <2>1, <1>2, <1>3, Fronts
<1> DEFINE vals == SubSeq(CodeVals, 1, Len(CodeVals) - 1)
           m == sp - Base - 1
<1>6. vals \in Seq(Value) /\ Len(vals) = m /\ \A j \in 1 .. m : vals[j] = CodeVals[j]
  <2>1. Len(CodeVals) - 1 = m /\ m \in 0 .. Len(CodeVals)
    BY <1>3, <1>4
  <2> HIDE DEF m
  <2> QED BY <2>1, <1>3, Prefix
<1> HIDE DEF vals
<1>7. Len(vals) = Len(stack') - Base
  BY <1>3, <1>5, <1>6
<1>8. \A j \in 1 .. Len(stack') - Base : stack'[Base + j].num = vals[j]
  <2>1. \A j \in 1 .. m : j \in 1 .. sp - Base /\ Base + j \in 1 .. sp - 1
    BY <1>3
  <2>2. Len(stack') - Base = m
    BY <1>6, <1>7
  <2> HIDE DEF m
  <2> QED BY <2>1, <2>2, <1>3, <1>5, <1>6
<1>9. acts' = Append(Front(acts), Stack!Activation(ip.fn, ip'.at, vals))
  BY <1>1, <1>2, <1>6, <1>7, <1>8, Worker
<1>10. Stack!Drop(1) = Stack!Activation(ip.fn, ip.at, vals)
  BY <1>2, <1>3, TopWith DEF Stack!Drop, vals
<1> QED BY <1>2, <1>3, <1>4, <1>9, <1>10, Ends DEF Stack!Discard, Stack!Becomes

LEMMA AssignActs ==
  ASSUME NEW us, NEW n, Reads(us, n), NEW i \in 1 .. sp, Assign(i)
  PROVE  Stack!Assign(i) /\ Stack!InCode /\ i \in DOMAIN Stack!top.vals
<1>1. /\ Works(us, n, stack', ip') /\ natives' = natives /\ fp' = fp
      /\ Len(stack') = sp - 1
      /\ \A j \in 1 .. sp - 1 : stack'[j] = IF j = fp + i - 1 THEN stack[sp] ELSE stack[j]
  BY AssignWorks DEF Reads
<1>2. InCode /\ ~ InScript /\ Watch /\ ip' = ip /\ Pushed > 0 /\ Base + i < sp
  BY DEF Assign
<1>3. /\ Stack!top.vals = CodeVals /\ Stack!InCode /\ Stack!top.fn = ip.fn
      /\ CodeVals \in Seq(Value) /\ Len(CodeVals) = sp - Base
      /\ Stack!Params(ip.fn) \in Nat /\ Pushed = Len(CodeVals) - Stack!Params(ip.fn)
      /\ sp \in Nat /\ Base \in Nat /\ Base <= sp /\ sp = Len(stack)
      /\ \A j \in 1 .. sp - Base : CodeVals[j] = stack[Base + j].num
      /\ ip.fn # Stack!Script /\ fp = Base + 1
  BY <1>2, TopIsCode DEF Reads
<1>4. Len(CodeVals) > Stack!Params(ip.fn) /\ sp - Base - 1 \in 0 .. Len(CodeVals) /\ sp - Base \in 1 .. sp - Base
  BY <1>2, <1>3
<1> DEFINE m == sp - Base - 1
           some == SubSeq(CodeVals, 1, Len(CodeVals) - 1)
           vals == [some EXCEPT ![i] = Last(CodeVals)]
<1>5. some \in Seq(Value) /\ Len(some) = m /\ \A j \in 1 .. m : some[j] = CodeVals[j]
  <2>1. Len(CodeVals) - 1 = m /\ m \in 0 .. Len(CodeVals)
    BY <1>3, <1>4
  <2> HIDE DEF m
  <2> QED BY <2>1, <1>3, Prefix
<1>6. Last(CodeVals) = stack[sp].num /\ Last(CodeVals) \in Value
  <2>1. Last(CodeVals) = CodeVals[Len(CodeVals)] /\ Last(CodeVals) \in Value
    <3>1. CodeVals # <<>>
      BY <1>3, <1>4
    <3> QED BY <3>1, <1>3, Fronts
  <2>2. CodeVals[sp - Base] = stack[Base + (sp - Base)].num /\ Base + (sp - Base) = sp
    <3> DEFINE size == sp - Base
    <3> HIDE DEF m, some, vals
    <3>1. \A x, y \in Int : x + (y - x) = y
      OBVIOUS
    <3>2. Base + size = sp
      BY <3>1, <1>3, <1>4
    <3>3. size \in 1 .. size /\ \A j \in 1 .. size : CodeVals[j] = stack[Base + j].num
      BY <1>3, <1>4
    <3> HIDE DEF size
    <3>4. CodeVals[size] = stack[Base + size].num
      BY <3>3
    <3> QED BY <3>2, <3>4 DEF size
  <2> QED BY <2>1, <2>2, <1>3
<1>7. i \in 1 .. m
  BY <1>2, <1>3
<1>8. /\ vals \in Seq(Value) /\ Len(vals) = m
      /\ \A j \in 1 .. m : vals[j] = IF j = i THEN Last(CodeVals) ELSE CodeVals[j]
  <2> HIDE DEF some, m
  <2>1. i \in 1 .. Len(some)
    BY <1>5, <1>7
  <2>2. vals \in Seq(Value) /\ Len(vals) = Len(some)
    BY <2>1, <1>5, <1>6, ExceptSeq
  <2>3. DOMAIN some = 1 .. m
    BY <1>5
  <2> QED BY <2>2, <2>3, <1>5
<1>9. \A j \in 1 .. m : stack'[Base + j].num = vals[j]
  <2>1. \A j \in 1 .. m : /\ j \in 1 .. sp - Base /\ Base + j \in 1 .. sp - 1
                          /\ (Base + j = fp + i - 1 <=> j = i)
    <3>1. \A b, c, d \in Int : 0 <= b => \A j \in 1 .. c - b - 1 :
            /\ j \in 1 .. c - b /\ b + j \in 1 .. c - 1
            /\ (b + j = b + 1 + d - 1 <=> j = d)
      OBVIOUS
    <3>2. Base \in Int /\ sp \in Int /\ i \in Int /\ 0 <= Base /\ fp = Base + 1
      BY <1>3
    <3> QED BY <3>1, <3>2
  <2> HIDE DEF m, vals
  <2>2. \A j \in 1 .. m : stack'[Base + j] = IF j = i THEN stack[sp] ELSE stack[Base + j]
    BY <2>1, <1>1
  <2> QED BY <2>1, <2>2, <1>3, <1>6, <1>8
<1>10. Len(stack') - Base = m
  BY <1>1, <1>3
<1>11. acts' = Append(Front(acts), Stack!Activation(ip.fn, ip'.at, vals))
  <2> HIDE DEF m, vals
  <2> QED BY <1>1, <1>2, <1>8, <1>9, <1>10, Worker
<1>12. [Stack!Drop(1) EXCEPT !.vals[i] = Last(Stack!top.vals)] = Stack!Activation(ip.fn, ip.at, vals)
  <2>1. Stack!Drop(1) = Stack!Activation(ip.fn, ip.at, some)
    BY <1>2, <1>3, TopWith DEF Stack!Drop
  <2> HIDE DEF some
  <2>2. Stack!Drop(1).vals = some /\ Last(Stack!top.vals) = Last(CodeVals)
    BY <2>1, <1>3 DEF Stack!Activation
  <2>3. \A w : [Stack!Drop(1) EXCEPT !.vals = w] = Stack!Activation(ip.fn, ip.at, w)
    BY <2>1 DEF Stack!Activation
  <2>4. [Stack!Drop(1).vals EXCEPT ![i] = Last(Stack!top.vals)] = vals
    BY <2>2
  <2> QED BY <2>3, <2>4
<1>13. Stack!Becomes([Stack!Drop(1) EXCEPT !.vals[i] = Stack!Last(Stack!top.vals)])
  <2>1. acts' = Append(Front(acts), [Stack!Drop(1) EXCEPT !.vals[i] = Last(Stack!top.vals)])
    BY <1>2, <1>11, <1>12
  <2> QED BY <2>1, Ends DEF Stack!Becomes
<1>14. i \in DOMAIN CodeVals /\ i < Len(CodeVals)
  BY <1>3, <1>7
<1> QED BY <1>3, <1>4, <1>13, <1>14 DEF Stack!Assign

(* Blocks are not seen.                                                    *)
LEMMA BlockActs ==
  ASSUME NEW us, NEW n, Reads(us, n), Enter \/ Leave
  PROVE  acts' = acts
<1>1. /\ Works(us, n, stack', ip') /\ natives' = natives /\ fp' = fp
      /\ stack' = stack /\ ip' = ip
  BY BlockWorks DEF Reads
<1>2. InCode /\ Watch
  BY DEF Enter, Leave
<1>3. /\ CodeVals \in Seq(Value) /\ Len(CodeVals) = sp - Base /\ sp = Len(stack)
      /\ \A j \in 1 .. sp - Base : CodeVals[j] = stack[Base + j].num
  BY <1>2, TopIsCode DEF Reads
<1>4. Len(CodeVals) = Len(stack') - Base /\ \A j \in 1 .. Len(stack') - Base : stack'[Base + j].num = CodeVals[j]
  BY <1>1, <1>3
<1> QED BY <1>1, <1>2, <1>3, <1>4, Worker

-----------------------------------------------------------------------------
(* The activations below stay; the last ones are opened, closed or changed. *)

KeepsActs(us, n, vs, m, k) ==
  /\ Reads(us, n) /\ Moved(vs, m) /\ Watch
  /\ n \in Nat \ {0} /\ k \in 0 .. n /\ k <= m /\ \A i \in 1 .. k : vs[i] = us[i]
  /\ k > 0 => SameBelow(us[k], stack, stack', Settled, Settled')

ActsStay(k) == \A i \in 1 .. k : acts'[i] = acts[i]

LEMMA KeptActs ==
  ASSUME NEW us, NEW n, NEW vs, NEW m, NEW k, KeepsActs(us, n, vs, m, k)
  PROVE  /\ ActsStay(k) /\ IsSeq(acts, n) /\ IsSeq(acts', m) /\ m \in Nat \ {0}
         /\ \A i \in 1 .. n : acts[i] = ActOf(stack, Settled, us[i])
         /\ \A i \in 1 .. m : acts'[i] = ActOf(stack', Settled', vs[i])
<1>1. /\ Shape /\ Frames(stack, natives, us, n) /\ acts = Acts(stack, Settled, us, n)
      /\ n \in Nat \ {0} /\ k \in 0 .. n /\ k <= m
      /\ \A i \in 1 .. k : vs[i] = us[i]
  BY DEF KeepsActs, Reads
<1>2. acts' = Acts(stack', Settled', vs, m) /\ m \in Nat \ {0}
  BY ReadNext DEF KeepsActs
<1>3. IsSeq(acts, n) /\ IsSeq(acts', m)
  BY <1>1, <1>2 DEF Acts, IsSeq
<1>4. \A i \in 1 .. n : acts[i] = ActOf(stack, Settled, us[i])
  BY <1>1 DEF Acts
<1>5. \A i \in 1 .. m : acts'[i] = ActOf(stack', Settled', vs[i])
  BY <1>2 DEF Acts
<1>6. ASSUME NEW i \in 1 .. k PROVE acts'[i] = acts[i]
  <2>1. k > 0 /\ k \in 1 .. n /\ i \in 1 .. n /\ i \in 1 .. m
    BY <1>1, <1>2, <1>6
  <2>2. Stay(stack, natives, us, n, k)
    BY <1>1, <2>1, Sizes DEF Stay
  <2>3. ReadsSame(us, k, stack, stack', Settled, Settled')
    BY <2>1, <2>2, SameActs DEF KeepsActs
  <2> QED BY <1>1, <1>4, <1>5, <1>6, <2>1, <2>3 DEF ReadsSame
<1> QED BY <1>2, <1>3, <1>4, <1>5, <1>6 DEF ActsStay

LEMMA BecomeActs ==
  ASSUME NEW us, NEW n, NEW vs, NEW k, k = n - 1, KeepsActs(us, n, vs, n, k)
  PROVE  /\ acts' = Append(Front(acts), ActOf(stack', Settled', vs[n]))
         /\ Last(acts) = ActOf(stack, Settled, us[n])
         /\ ActOf(stack', Settled', vs[n]) = ActOf(stack, Settled, us[n]) => acts' = acts
<1>1. /\ ActsStay(k) /\ IsSeq(acts, n) /\ IsSeq(acts', n) /\ n \in Nat \ {0}
      /\ \A i \in 1 .. n : acts[i] = ActOf(stack, Settled, us[i])
      /\ \A i \in 1 .. n : acts'[i] = ActOf(stack', Settled', vs[i])
  BY KeptActs
<1>2. n \in 1 .. n /\ \A i \in 1 .. n - 1 : acts'[i] = acts[i]
  BY <1>1 DEF ActsStay
<1>3. acts[n] = ActOf(stack, Settled, us[n]) /\ acts'[n] = ActOf(stack', Settled', vs[n])
  BY <1>1, <1>2
<1>4. acts' = Append(Front(acts), acts'[n]) /\ Last(acts) = acts[n] /\ (acts'[n] = acts[n] => acts' = acts)
  BY <1>1, <1>2, Becoming
<1> QED BY <1>3, <1>4

LEMMA OpenActs ==
  ASSUME NEW us, NEW n, NEW vs, NEW k, k = n - 1, NEW m, m = n + 1, KeepsActs(us, n, vs, m, k)
  PROVE  /\ acts' = Front(acts) \o <<ActOf(stack', Settled', vs[n]), ActOf(stack', Settled', vs[m])>>
         /\ Last(acts) = ActOf(stack, Settled, us[n])
<1>1. /\ ActsStay(k) /\ IsSeq(acts, n) /\ IsSeq(acts', m)
      /\ \A i \in 1 .. n : acts[i] = ActOf(stack, Settled, us[i])
      /\ \A i \in 1 .. m : acts'[i] = ActOf(stack', Settled', vs[i])
  BY KeptActs
<1>2. n \in Nat \ {0}
  BY DEF KeepsActs
<1>3. /\ n \in 1 .. n /\ n \in 1 .. m /\ m \in 1 .. m /\ IsSeq(acts', n + 1)
      /\ \A i \in 1 .. n - 1 : acts'[i] = acts[i]
  BY <1>1, <1>2 DEF ActsStay
<1>4. acts[n] = ActOf(stack, Settled, us[n])
  BY <1>1, <1>3
<1>5. acts'[n] = ActOf(stack', Settled', vs[n]) /\ acts'[m] = ActOf(stack', Settled', vs[m])
  BY <1>1, <1>3
<1>6. acts' = Front(acts) \o <<acts'[n], acts'[n + 1]>> /\ Last(acts) = acts[n]
  BY <1>1, <1>2, <1>3, Opening
<1> QED BY <1>4, <1>5, <1>6

LEMMA CloseActs ==
  ASSUME NEW us, NEW n, n > 1, NEW vs, NEW k, k = n - 2, NEW m, m = n - 1, KeepsActs(us, n, vs, m, k)
  PROVE  /\ acts' = Append(Front(Front(acts)), ActOf(stack', Settled', vs[m]))
         /\ Last(acts) = ActOf(stack, Settled, us[n])
         /\ Last(Front(acts)) = ActOf(stack, Settled, us[m])
<1>1. /\ ActsStay(k) /\ IsSeq(acts, n) /\ IsSeq(acts', m)
      /\ \A i \in 1 .. n : acts[i] = ActOf(stack, Settled, us[i])
      /\ \A i \in 1 .. m : acts'[i] = ActOf(stack', Settled', vs[i])
  BY KeptActs
<1>2. n \in Nat \ {0}
  BY DEF KeepsActs
<1>3. /\ n \in 1 .. n /\ m \in 1 .. n /\ m \in 1 .. m /\ IsSeq(acts', n - 1)
      /\ \A i \in 1 .. n - 2 : acts'[i] = acts[i]
  BY <1>1, <1>2 DEF ActsStay
<1>4. acts[n] = ActOf(stack, Settled, us[n]) /\ acts[m] = ActOf(stack, Settled, us[m])
  BY <1>1, <1>3
<1>5. acts'[m] = ActOf(stack', Settled', vs[m])
  BY <1>1, <1>3
<1>6. acts' = Append(Front(Front(acts)), acts'[n - 1]) /\ Last(acts) = acts[n] /\ Last(Front(acts)) = acts[n - 1]
  BY <1>1, <1>2, <1>3, Closing
<1> QED BY <1>4, <1>5, <1>6

-----------------------------------------------------------------------------
(* Natives.                                                                *)

(* What is left of a list from k on.                                       *)
LEMMA Rest ==
  ASSUME NEW S, NEW s \in Seq(S), NEW k \in 1 .. Len(s) + 1
  PROVE  /\ SubSeq(s, 1, Len(s)) = s
         /\ k <= Len(s) => /\ SubSeq(s, k, Len(s)) # <<>>
                           /\ Head(SubSeq(s, k, Len(s))) = s[k]
                           /\ Tail(SubSeq(s, k, Len(s))) = SubSeq(s, k + 1, Len(s))
         /\ k > Len(s) => SubSeq(s, k, Len(s)) = <<>>
<1> DEFINE m == Len(s)
<1>1. m \in Nat /\ k \in Int /\ m \in Int /\ k + 1 \in Int /\ \A i \in 1 .. m : s[i] \in S
  BY LenProperties, ElementOfSeq
<1>2. SubSeq(s, 1, m) = s
  <2>1. SubSeq(s, 1, m) \in Seq(S) /\ Len(SubSeq(s, 1, m)) = m /\ \A i \in 1 .. m : SubSeq(s, 1, m)[i] = s[i]
    <3>1. m \in 0 .. Len(s)
      BY <1>1
    <3> HIDE DEF m
    <3> QED BY <3>1, Prefix
  <2> QED BY <2>1, Alikes
<1> DEFINE r == SubSeq(s, k, m)
           t == SubSeq(s, k + 1, m)
<1>3. /\ r \in Seq(S) /\ Len(r) = IF k <= m THEN m - k + 1 ELSE 0
      /\ \A i \in 1 .. m - k + 1 : r[i] = s[k + i - 1]
  <2>1. \A i \in k .. m : s[i] \in S
    BY <1>1
  <2> HIDE DEF m
  <2> QED BY <1>1, <2>1, SubSeqProperties
<1>4. /\ t \in Seq(S) /\ Len(t) = IF k + 1 <= m THEN m - (k + 1) + 1 ELSE 0
      /\ \A i \in 1 .. m - (k + 1) + 1 : t[i] = s[k + 1 + i - 1]
  <2>1. \A i \in k + 1 .. m : s[i] \in S
    BY <1>1
  <2> DEFINE q == k + 1
  <2> HIDE DEF m, q
  <2>2. q \in Int /\ \A i \in q .. m : s[i] \in S
    BY <1>1, <2>1 DEF q
  <2>3. /\ SubSeq(s, q, m) \in Seq(S) /\ Len(SubSeq(s, q, m)) = IF q <= m THEN m - q + 1 ELSE 0
        /\ \A i \in 1 .. m - q + 1 : SubSeq(s, q, m)[i] = s[q + i - 1]
    BY <1>1, <2>2, SubSeqProperties
  <2> QED BY <2>3 DEF q
<1> HIDE DEF r, t
<1>5. ASSUME k <= m PROVE r # <<>> /\ Head(r) = s[k] /\ Tail(r) = t
  <2>1. Len(r) = m - k + 1 /\ m - k + 1 >= 1 /\ 1 \in 1 .. m - k + 1 /\ k + 1 - 1 = k
    BY <1>1, <1>3, <1>5
  <2>2. r # <<>>
    BY <2>1
  <2>3. Head(r) = r[1] /\ r[1] = s[k]
    BY <1>3, <2>1, <2>2, HeadTailProperties
  <2>4. Tail(r) \in Seq(S) /\ Len(Tail(r)) = m - k /\ \A i \in 1 .. m - k : Tail(r)[i] = r[i + 1]
    <3>1. /\ Tail(r) \in Seq(S) /\ Len(Tail(r)) = Len(r) - 1
          /\ \A i \in 1 .. Len(Tail(r)) : Tail(r)[i] = r[i + 1]
      BY <1>3, <2>2, HeadTailProperties
    <3>2. Len(r) - 1 = m - k
      BY <1>1, <2>1
    <3> QED BY <3>1, <3>2
  <2>5. Len(t) = m - k
    BY <1>1, <1>4, <1>5
  <2>6. \A i \in 1 .. m - k : Tail(r)[i] = t[i]
    <3>1. \A i \in 1 .. m - k : /\ i + 1 \in 1 .. m - k + 1 /\ i \in 1 .. m - (k + 1) + 1
                                /\ k + (i + 1) - 1 = k + 1 + i - 1
      BY <1>1
    <3> QED BY <3>1, <1>3, <1>4, <2>4
  <2>7. Tail(r) = t
    BY <1>4, <2>4, <2>5, <2>6, Alikes
  <2> QED BY <2>2, <2>3, <2>7
<1>6. k > m => r = <<>>
  <2>1. k > m => Len(r) = 0
    BY <1>1, <1>3
  <2> QED BY <2>1, <1>3, EmptySeq
<1> QED BY <1>2, <1>5, <1>6 DEF r, t

(* The fields of CallStack's records.                                      *)
LEMMA NativeFields ==
  \A f, t, l, d, p :
    LET r == Stack!NativeActivation(f, t, l, d, p)
    IN r.fn = f /\ r.target = t /\ r.todo = l /\ r.done = d /\ r.param = p
BY DEF Stack!NativeActivation

LEMMA Delivered ==
  \A f, t, l, d, p, v :
    Stack!Deliver(Stack!NativeActivation(f, t, l, d, p), v)
      = Stack!NativeActivation(f, t, Tail(l), Stack!Collected(f, d, Head(l), v), p)
<1> SUFFICES ASSUME NEW f, NEW t, NEW l, NEW d, NEW p, NEW v
             PROVE  Stack!Deliver(Stack!NativeActivation(f, t, l, d, p), v)
                      = Stack!NativeActivation(f, t, Tail(l), Stack!Collected(f, d, Head(l), v), p)
  OBVIOUS
<1> DEFINE r == Stack!NativeActivation(f, t, l, d, p)
<1>1. r.fn = f /\ r.done = d /\ r.todo = l
  BY NativeFields
<1>2. \A c : [r EXCEPT !.done = c] = Stack!NativeActivation(f, t, l, c, p)
  BY DEF Stack!NativeActivation
<1>3. \A c, q : [Stack!NativeActivation(f, t, l, c, p) EXCEPT !.todo = q] = Stack!NativeActivation(f, t, q, c, p)
  BY DEF Stack!NativeActivation
<1> HIDE DEF r
<1>4. Stack!Deliver(r, v) = [[r EXCEPT !.done = Stack!Collected(r.fn, r.done, Head(r.todo), v)]
                                EXCEPT !.todo = Tail(r.todo)]
  BY DEF Stack!Deliver
<1>5. Stack!Deliver(r, v) = [Stack!NativeActivation(f, t, l, Stack!Collected(f, d, Head(l), v), p)
                                EXCEPT !.todo = Tail(l)]
  BY <1>1, <1>2, <1>4
<1> QED BY <1>3, <1>5 DEF r

(* A native in its loop, and what it is after a result.                    *)
LEMMA NativeLists ==
  ASSUME Shape, natives # <<>>
  PROVE  /\ native.next <= Len(native.list) =>
              /\ NativeAct(native).todo # <<>> /\ Head(NativeAct(native).todo) = Elem
              /\ \A v \in Value : NativeAct(After(v)) = Stack!Deliver(NativeAct(native), v)
         /\ native.next > Len(native.list) => NativeAct(native).todo = <<>>
         /\ NativeAct(native).fn = native.fn /\ native.fn \in Native
         /\ NativeAct(native).target = native.target /\ NativeAct(native).param = native.param
<1>1. native \in NatRec /\ Looping(native)
  BY Innermost
<1> DEFINE l == native.list
           k == native.next
<1>2. l \in Seq(Num) /\ k \in Nat \ {0} /\ k <= Len(l) + 1 /\ Len(l) \in Nat /\ native.fn \in Native
  BY <1>1, LenProperties DEF NatRec, Looping
<1>3. k \in 1 .. Len(l) + 1
  BY <1>2
<1>4. NativeAct(native) = Stack!NativeActivation(native.fn, native.target, SubSeq(l, k, Len(l)),
                                                  native.out, native.param)
  BY DEF NativeAct
<1>5. /\ k <= Len(l) => /\ SubSeq(l, k, Len(l)) # <<>>
                        /\ Head(SubSeq(l, k, Len(l))) = l[k]
                        /\ Tail(SubSeq(l, k, Len(l))) = SubSeq(l, k + 1, Len(l))
      /\ k > Len(l) => SubSeq(l, k, Len(l)) = <<>>
  <2> HIDE DEF l, k
  <2> QED BY <1>2, <1>3, Rest
<1>6. ASSUME k <= Len(l), NEW v \in Value PROVE NativeAct(After(v)) = Stack!Deliver(NativeAct(native), v)
  <2> DEFINE done == IF native.fn = "for_list" THEN Append(native.out, v)
                     ELSE IF v \notin {0, Obj} THEN Append(native.out, Elem) ELSE native.out
  <2>1. /\ After(v).fn = native.fn /\ After(v).target = native.target /\ After(v).list = l
        /\ After(v).next = k + 1 /\ After(v).out = done /\ After(v).param = native.param
    BY <1>1 DEF After, NatRec
  <2>2. NativeAct(After(v)) = Stack!NativeActivation(native.fn, native.target,
                                SubSeq(l, k + 1, Len(l)), done, native.param)
    BY <2>1 DEF NativeAct
  <2>3. Elem = Head(SubSeq(l, k, Len(l)))
    BY <1>5, <1>6 DEF Elem
  <2>4. done = Stack!Collected(native.fn, native.out, Head(SubSeq(l, k, Len(l))), v)
    BY <2>3 DEF Stack!Collected, Stack!Obj, Obj
  <2>5. Stack!Deliver(NativeAct(native), v) =
          Stack!NativeActivation(native.fn, native.target, Tail(SubSeq(l, k, Len(l))),
            Stack!Collected(native.fn, native.out, Head(SubSeq(l, k, Len(l))), v), native.param)
    <3> DEFINE F == native.fn
               T == native.target
               L == SubSeq(l, k, Len(l))
               D == native.out
               P == native.param
    <3>1. NativeAct(native) = Stack!NativeActivation(F, T, L, D, P)
      BY <1>4
    <3> HIDE DEF F, T, L, D, P
    <3>2. Stack!Deliver(NativeAct(native), v) =
            Stack!NativeActivation(F, T, Tail(L), Stack!Collected(F, D, Head(L), v), P)
      BY <3>1, Delivered
    <3> QED BY <3>2 DEF F, T, L, D, P
  <2>6. Tail(SubSeq(l, k, Len(l))) = SubSeq(l, k + 1, Len(l))
    BY <1>5, <1>6
  <2> HIDE DEF done, l, k
  <2> QED BY <2>2, <2>4, <2>5, <2>6
<1>7. /\ NativeAct(native).todo = SubSeq(l, k, Len(l)) /\ NativeAct(native).fn = native.fn
      /\ NativeAct(native).target = native.target /\ NativeAct(native).param = native.param
  <2> DEFINE F == native.fn
             T == native.target
             L == SubSeq(l, k, Len(l))
             D == native.out
             P == native.param
  <2>1. NativeAct(native) = Stack!NativeActivation(F, T, L, D, P)
    BY <1>4
  <2> HIDE DEF F, T, L, D, P
  <2>2. /\ NativeAct(native).todo = L /\ NativeAct(native).fn = F
        /\ NativeAct(native).target = T /\ NativeAct(native).param = P
    BY <2>1, NativeFields
  <2> QED BY <2>2 DEF F, T, L, P
<1>8. Elem = l[k]
  BY DEF Elem
<1>9. k <= Len(l) => \A v \in Value : NativeAct(After(v)) = Stack!Deliver(NativeAct(native), v)
  BY <1>6
<1> HIDE DEF l, k
<1>10. /\ k <= Len(l) => NativeAct(native).todo # <<>> /\ Head(NativeAct(native).todo) = Elem
       /\ k > Len(l) => NativeAct(native).todo = <<>>
  BY <1>5, <1>7, <1>8
<1> QED BY <1>2, <1>7, <1>9, <1>10 DEF l, k

(* The native on top.                                                      *)
LEMMA TopIsNative ==
  ASSUME NEW us, NEW n, Reads(us, n), InNative
  PROVE  /\ Last(acts) = NativeAct(native) /\ Stack!top = Last(acts) /\ ~ Stack!InCode
         /\ ~ Waiting /\ natives # <<>> /\ n \in Nat /\ n > 1
         /\ us[n].p = CodeEnd /\ us[n].n = Len(natives) /\ us[n].top = sp
         /\ us[n - 1].top = sp /\ us[n - 1].n = Len(natives) - 1
         /\ Len(natives) \in Nat \ {0} /\ sp \in Nat /\ sp = Len(stack)
<1>1. /\ Shape /\ Frames(stack, natives, us, n) /\ us[n] = Running
      /\ acts = Acts(stack, Settled, us, n)
  BY DEF Reads
<1>2. ~ Waiting
  BY SettledAre
<1>3. /\ us[n] = [p |-> CodeEnd, f |-> fp, top |-> sp, n |-> Len(natives)]
      /\ n \in Nat \ {0} /\ n > 1 /\ NativeOn(natives, us[n - 1], us[n]) /\ natives # <<>>
  BY <1>1, <1>2, NativeRuns
<1>4. us[n - 1].top = sp /\ us[n - 1].n = Len(natives) - 1
  BY <1>3 DEF NativeOn
<1>5. /\ Len(natives) \in Nat \ {0} /\ Len(natives) \in 1 .. Len(natives)
      /\ native = natives[Len(natives)] /\ native.fn \in Native /\ NativeAct(native).fn = native.fn
  BY <1>1, <1>3, Innermost, NativeLists
<1>6. Settled[Len(natives)] = native
  BY <1>2, <1>5 DEF Settled
<1>7. Last(acts) = NativeAct(native)
  <2>1. n \in 1 .. n /\ IsSeq(acts, n)
    BY <1>1, <1>3 DEF Acts, IsSeq
  <2>2. acts[n] = NativeAct(native)
    BY <2>1, <1>1, <1>3, <1>6 DEF Acts, ActOf
  <2>3. Last(acts) = acts[n]
    BY <1>3, <2>1, Becoming
  <2> QED BY <2>2, <2>3
<1>8. Stack!top = Last(acts)
  BY Ends DEF Stack!top
<1>9. ~ Stack!InCode
  BY <1>5, <1>7, <1>8 DEF Stack!InCode
<1> QED BY <1>1, <1>2, <1>3, <1>4, <1>5, <1>7, <1>8, <1>9, Sizes

(* The innermost native is r, and those below are as they were.            *)
LEMMA SettledGoesOn ==
  ASSUME Shape, natives # <<>>, NEW r \in NatRec, Looping(r), r.saved_ip = native.saved_ip,
         SetNative(r), ~ Waiting'
  PROVE  /\ Settled'[Len(natives)] = r
         /\ \A j \in 1 .. Len(natives) - 1 : Settled'[j] = Settled[j]
<1>1. /\ Len(natives') = Len(natives) /\ natives'[Len(natives)] = r
      /\ \A i \in 1 .. Len(natives) - 1 : natives'[i] = natives[i]
  BY GoesOn
<1>2. /\ Len(natives) \in Nat \ {0} /\ Len(natives) \in 1 .. Len(natives)
      /\ \A j \in 1 .. Len(natives) - 1 : j \in 1 .. Len(natives) /\ j # Len(natives)
  BY Innermost
<1>3. Settled' = [i \in 1 .. Len(natives) |-> natives'[i]]
  BY <1>1 DEF Settled
<1>4. \A j \in 1 .. Len(natives) - 1 : Settled[j] = natives[j]
  BY <1>2 DEF Settled
<1> QED BY <1>1, <1>2, <1>3, <1>4

LEMMA StdCallbackActs ==
  ASSUME NEW us, NEW n, Reads(us, n), NEW v \in Num, StdCallback(v)
  PROVE  Stack!StdCallback(v) /\ v \in Stack!Value
<1>1. /\ Shape /\ Frames(stack, natives, us, n) /\ us[n] = Running
      /\ InNative /\ native.next <= Len(native.list) /\ native.target = "std" /\ SetNative(After(v)) /\ Watch
      /\ stack' = stack
  BY DEF StdCallback, Reads
<1>2. /\ Last(acts) = NativeAct(native) /\ Stack!top = Last(acts) /\ ~ Stack!InCode
      /\ natives # <<>> /\ n \in Nat /\ n > 1
      /\ us[n].p = CodeEnd /\ us[n].n = Len(natives)
      /\ us[n - 1].n = Len(natives) - 1
  BY <1>1, TopIsNative
<1>3. Moved(us, n)
  BY <1>1, StdCalled
<1>4. v \in Value
  BY DEF Value
<1>5. /\ After(v) \in NatRec /\ Looping(After(v)) /\ ~ After(v).running
      /\ After(v).saved_ip = native.saved_ip
  BY <1>1, <1>2, <1>4, Results
<1>6. natives' # <<>> /\ native' = After(v)
  BY <1>1, <1>2, <1>5, GoesOn
<1>7. ~ Waiting'
  BY <1>5, <1>6 DEF Waiting
<1>8. /\ Settled'[Len(natives)] = After(v)
      /\ \A j \in 1 .. Len(natives) - 1 : Settled'[j] = Settled[j]
  BY <1>1, <1>2, <1>5, <1>7, SettledGoesOn
<1> DEFINE k == n - 1
<1>9. KeepsActs(us, n, us, n, k)
  <2>1. k \in 0 .. n /\ k <= n /\ n \in Nat \ {0}
    BY <1>2
  <2>2. SameBelow(us[k], stack, stack', Settled, Settled')
    BY <1>1, <1>2, <1>8 DEF SameBelow
  <2> QED BY <1>1, <1>3, <2>1, <2>2 DEF KeepsActs
<1>10. ActOf(stack', Settled', us[n]) = NativeAct(After(v))
  BY <1>2, <1>8 DEF ActOf
<1> HIDE DEF k
<1>11. k = n - 1
  BY DEF k
<1>12. acts' = Append(Front(acts), NativeAct(After(v)))
  BY <1>9, <1>10, <1>11, BecomeActs
<1>13. /\ NativeAct(native).todo # <<>> /\ NativeAct(After(v)) = Stack!Deliver(NativeAct(native), v)
       /\ NativeAct(native).target = "std"
  BY <1>1, <1>2, <1>4, NativeLists
<1> QED BY <1>2, <1>4, <1>12, <1>13, Ends
        DEF Stack!StdCallback, Stack!Becomes, Stack!Value, Stack!Obj, Value, Obj

(* A result counts as delivered from the moment the callback returns.      *)
LEMMA CollectActs ==
  ASSUME NEW us, NEW n, Reads(us, n), Collect
  PROVE  acts' = acts
<1>1. /\ Shape /\ Frames(stack, natives, us, n) /\ us[n] = Running
      /\ SetNative(After(Last(stack).num)) /\ Watch
  BY DEF Collect, Reads
<1>2. /\ Moved(us, n)
      /\ sp \in Nat \ {0} /\ Last(stack) \in ValCell /\ Waiting
      /\ \A j \in 1 .. sp - 1 : stack'[j] = stack[j]
      /\ native.next <= Len(native.list) /\ native' = After(Last(stack).num) /\ natives # <<>>
  BY <1>1, Collected
<1> DEFINE v == Last(stack).num
<1>3. v \in Value
  BY <1>2, Cells
<1>4. /\ After(v) \in NatRec /\ Looping(After(v)) /\ ~ After(v).running
      /\ After(v).saved_ip = native.saved_ip
  BY <1>1, <1>2, <1>3, Results
<1>5. ~ Waiting'
  BY <1>2, <1>4 DEF Waiting
<1>6. /\ Settled'[Len(natives)] = After(v)
      /\ \A j \in 1 .. Len(natives) - 1 : Settled'[j] = Settled[j]
  BY <1>1, <1>2, <1>4, <1>5, SettledGoesOn
<1>7. Len(natives) \in 1 .. Len(natives) /\ Len(natives) \in Nat \ {0}
  BY <1>1, <1>2, Innermost
<1>8. Settled[Len(natives)] = After(v)
  BY <1>2, <1>7 DEF Settled
<1>9. /\ us[n] = [p |-> CodeEnd, f |-> fp, top |-> sp - 1, n |-> Len(natives)]
      /\ n \in Nat \ {0} /\ n > 1 /\ NativeOn(natives, us[n - 1], us[n])
  BY <1>1, <1>2, NativeRuns
<1>10. us[n - 1].n = Len(natives) - 1 /\ us[n - 1].top = sp - 1
  BY <1>9 DEF NativeOn
<1> DEFINE k == n - 1
<1>11. KeepsActs(us, n, us, n, k)
  <2>1. k \in 0 .. n /\ k <= n /\ n \in Nat \ {0}
    BY <1>9
  <2>2. SameBelow(us[k], stack, stack', Settled, Settled')
    BY <1>2, <1>6, <1>10 DEF SameBelow
  <2> QED BY <1>1, <1>2, <2>1, <2>2 DEF KeepsActs
<1>12. ActOf(stack', Settled', us[n]) = ActOf(stack, Settled, us[n])
  BY <1>6, <1>8, <1>9 DEF ActOf
<1> HIDE DEF k
<1>13. k = n - 1
  BY DEF k
<1> QED BY <1>11, <1>12, <1>13, BecomeActs

LEMMA Pairs == \A x, y : <<x>> \o <<y>> = <<x, y>> /\ <<x>> \o <<>> = <<x>>
<1> SUFFICES ASSUME NEW x, NEW y PROVE <<x>> \o <<y>> = <<x, y>> /\ <<x>> \o <<>> = <<x>>
  OBVIOUS
<1> DEFINE S == {x, y}
           s == <<x>>
           t == <<y>>
           e == <<>>
           two == <<x, y>>
<1>1. /\ s \in Seq(S) /\ Len(s) = 1 /\ s[1] = x
      /\ t \in Seq(S) /\ Len(t) = 1 /\ t[1] = y
      /\ e \in Seq(S) /\ Len(e) = 0
      /\ two \in Seq(S) /\ Len(two) = 2 /\ two[1] = x /\ two[2] = y
  OBVIOUS
<1> HIDE DEF S, s, t, e, two
<1>2. /\ s \o t \in Seq(S) /\ Len(s \o t) = Len(s) + Len(t)
      /\ \A j \in 1 .. Len(s) + Len(t) : (s \o t)[j] = IF j <= Len(s) THEN s[j] ELSE t[j - Len(s)]
  BY <1>1, Joined
<1>3. /\ s \o e \in Seq(S) /\ Len(s \o e) = Len(s) + Len(e)
      /\ \A j \in 1 .. Len(s) + Len(e) : (s \o e)[j] = IF j <= Len(s) THEN s[j] ELSE e[j - Len(s)]
  BY <1>1, Joined
<1>4. s \o t = two
  <2>1. Len(s \o t) = 2 /\ (s \o t)[1] = x /\ (s \o t)[2] = y
    BY <1>1, <1>2
  <2>2. \A j \in 1 .. 2 : (s \o t)[j] = two[j]
    BY <2>1, <1>1
  <2> QED BY <2>1, <2>2, <1>1, <1>2, Alikes
<1>5. s \o e = s
  <2>1. Len(s) + Len(e) = 1 /\ 1 \in 1 .. 1 /\ 1 <= Len(s)
    BY <1>1
  <2>2. (s \o e)[1] = s[1]
    BY <2>1, <1>3
  <2>3. \A j \in 1 .. Len(s) : (s \o e)[j] = s[j]
    <3>1. \A j \in 1 .. Len(s) : j = 1
      BY <1>1
    <3> QED BY <2>2, <3>1
  <2>4. Len(s \o e) = Len(s)
    BY <1>1, <1>3
  <2> QED BY <2>3, <2>4, <1>1, <1>3, Alikes
<1> QED BY <1>4, <1>5 DEF s, t, e, two

LEMMA CallbackActs ==
  ASSUME NEW us, NEW n, Reads(us, n), Callback
  PROVE  Stack!Callback
<1>1. /\ Shape /\ Frames(stack, natives, us, n) /\ us[n] = Running /\ Watch
      /\ InNative /\ native.next <= Len(native.list) /\ native.target # "std"
      /\ SetNative([native EXCEPT !.running = TRUE]) /\ ip' = At(native.target, 0)
  BY DEF Callback, Reads, Starts
<1>2. /\ Last(acts) = NativeAct(native) /\ Stack!top = Last(acts) /\ ~ Stack!InCode
      /\ natives # <<>> /\ n \in Nat /\ n > 1
      /\ us[n].p = CodeEnd /\ us[n].n = Len(natives)
      /\ us[n - 1].top = sp /\ us[n - 1].n = Len(natives) - 1
      /\ Len(natives) \in Nat \ {0} /\ sp \in Nat
  BY <1>1, TopIsNative
<1>3. /\ Moved(Opened(us, n, Running'), n + 1)
      /\ Running' = [p |-> At(native.target, 0), f |-> sp + 3, top |-> sp + 2 + Len(Args), n |-> Len(natives)]
      /\ native.target \in Fn /\ Args \in Seq(Num)
      /\ \A j \in 1 .. Len(Args) : stack'[sp + 2 + j] = Val(Args[j])
      /\ \A j \in 1 .. sp : stack'[j] = stack[j]
      /\ native' = [native EXCEPT !.running = TRUE]
  BY <1>1, CalledBack DEF Reads
<1> DEFINE r == [native EXCEPT !.running = TRUE]
           w == Running'
           vs == Opened(us, n, w)
           k == n - 1
           m == n + 1
<1>4. /\ native \in NatRec /\ Looping(native)
      /\ r \in NatRec /\ Looping(r) /\ r.saved_ip = native.saved_ip
      /\ r.fn = native.fn /\ r.target = native.target /\ r.list = native.list /\ r.next = native.next
      /\ r.out = native.out /\ r.param = native.param
  <2>1. native \in NatRec /\ Looping(native)
    BY <1>1, <1>2, Innermost
  <2>2. r \in NatRec /\ r.saved_ip = native.saved_ip
      /\ r.fn = native.fn /\ r.target = native.target /\ r.list = native.list /\ r.next = native.next
      /\ r.out = native.out /\ r.param = native.param
    BY <2>1 DEF NatRec
  <2>3. Looping(r)
    BY <2>1, <2>2, <1>1, <1>3 DEF Looping
  <2> QED BY <2>1, <2>2, <2>3
<1>5. ~ Waiting'
  <2>1. ip' # CodeEnd
    BY <1>1, <1>3, Positions
  <2> QED BY <2>1 DEF Waiting
<1>6. SetNative(r)
  BY <1>1
<1> HIDE DEF r
<1>7. /\ Settled'[Len(natives)] = r
      /\ \A j \in 1 .. Len(natives) - 1 : Settled'[j] = Settled[j]
  BY <1>1, <1>2, <1>4, <1>5, <1>6, SettledGoesOn
<1> HIDE DEF w
<1>8. vs[n] = us[n] /\ vs[m] = w /\ \A i \in 1 .. k : vs[i] = us[i]
  BY <1>2 DEF Opened
<1> HIDE DEF vs
<1>9. KeepsActs(us, n, vs, m, k)
  <2>1. k \in 0 .. n /\ k <= m /\ n \in Nat \ {0}
    BY <1>2
  <2>2. SameBelow(us[k], stack, stack', Settled, Settled')
    BY <1>2, <1>3, <1>7 DEF SameBelow
  <2>3. Moved(vs, m)
    BY <1>3 DEF vs, w
  <2> QED BY <1>1, <1>8, <2>1, <2>2, <2>3 DEF KeepsActs
<1>10. ActOf(stack', Settled', vs[n]) = NativeAct(native)
  <2>1. NativeAct(r) = NativeAct(native)
    BY <1>4 DEF NativeAct
  <2> QED BY <2>1, <1>2, <1>7, <1>8 DEF ActOf
<1>11. ActOf(stack', Settled', vs[m]) = Stack!Activation(native.target, 0, Args)
  <2> DEFINE a == sp + 3
             b == sp + 2 + Len(Args)
  <2>1. w.p # CodeEnd /\ Code(w) /\ First(w) = a /\ w.top = b /\ w.p.fn = native.target /\ w.p.at = 0
    BY <1>3, Positions DEF w, Code, First, At
  <2>2. Len(Args) \in Nat /\ Args = [j \in 1 .. Len(Args) |-> Args[j]] /\ \A j \in 1 .. Len(Args) : Args[j] \in Value
    <3>1. \A j \in 1 .. Len(Args) : Args[j] \in Num
      BY <1>3, ElementOfSeq
    <3> QED BY <3>1, <1>3, LenProperties DEF Value
  <2>3. b - a + 1 = Len(Args) /\ \A j \in 1 .. Len(Args) : a + j - 1 = sp + 2 + j
    BY <1>2, <2>2
  <2>4. \A j \in 1 .. Len(Args) : stack'[sp + 2 + j].num = Args[j]
    BY <1>3, <2>2, Cells
  <2> HIDE DEF a, b
  <2>5. Held(stack', a, b) = [j \in 1 .. Len(Args) |-> stack'[sp + 2 + j].num]
    BY <2>3 DEF Held
  <2>6. Held(stack', a, b) = Args
    BY <2>2, <2>4, <2>5
  <2> QED BY <1>8, <2>1, <2>6 DEF ActOf, CodeAct
<1> HIDE DEF k, m
<1>12. acts' = Front(acts) \o <<NativeAct(native), Stack!Activation(native.target, 0, Args)>>
  <2>1. k = n - 1 /\ m = n + 1
    BY DEF k, m
  <2> QED BY <1>9, <1>10, <1>11, <2>1, OpenActs
<1>13. /\ NativeAct(native).todo # <<>> /\ Head(NativeAct(native).todo) = Elem
       /\ NativeAct(native).target = native.target /\ NativeAct(native).fn = native.fn
       /\ NativeAct(native).param = native.param
  BY <1>1, <1>2, NativeLists
<1>14. Args = <<Elem>> \o IF native.fn = "param_filter" THEN <<native.param>> ELSE <<>>
  <2>1. <<Elem>> \o <<native.param>> = <<Elem, native.param>> /\ <<Elem>> \o <<>> = <<Elem>>
    BY Pairs
  <2> QED BY <2>1 DEF Args
<1> QED BY <1>1, <1>2, <1>12, <1>13, <1>14, Ends DEF Stack!Callback, Stack!Opens

-----------------------------------------------------------------------------
(* One result on top of the values of code.                                *)
LEMMA Pushes ==
  ASSUME NEW u, NEW w, NEW v \in Value, w = [u EXCEPT !.top = u.top + 1],
         u \in Views(stack, natives), Holds(stack, First(u), u.top),
         stack'[u.top + 1].num = v, \A j \in 1 .. u.top : stack'[j] = stack[j]
  PROVE  CodeAct(stack', w) = [CodeAct(stack, u) EXCEPT !.vals = Append(@, v)]
<1> DEFINE a == First(u)
           b == u.top
           old == Held(stack, a, b)
           new == Held(stack', a, b + 1)
<1>1. w.p = u.p /\ w.top = b + 1 /\ w.f = u.f /\ (Code(w) <=> Code(u)) /\ First(w) = a
  BY DEF Views, Code, First
<1>2. a \in Nat \ {0} /\ b \in Nat /\ a <= b + 1
  BY DEF Holds
<1>3. old \in Seq(Value) /\ Len(old) = b - a + 1 /\ \A j \in 1 .. b - a + 1 : old[j] = stack[a + j - 1].num
  <2> HIDE DEF a, b
  <2>1. Holds(stack, a, b)
    BY DEF a, b
  <2> QED BY <2>1, Holding DEF AreHeld
<1>4. stack'[b + 1].num = v /\ \A j \in 1 .. b : stack'[j] = stack[j]
  OBVIOUS
<1> HIDE DEF a, b, old
<1>5. /\ Append(old, v) \in Seq(Value) /\ Len(Append(old, v)) = b - a + 2
      /\ Append(old, v)[b - a + 2] = v
      /\ \A j \in 1 .. b - a + 1 : Append(old, v)[j] = old[j]
  <2>1. b - a + 1 \in Nat /\ b - a + 1 + 1 = b - a + 2
    BY <1>2
  <2> QED BY <2>1, <1>3, AppendProperties
<1>6. new = [j \in 1 .. b - a + 2 |-> stack'[a + j - 1].num]
  <2> DEFINE c == b + 1
             m == b - a + 2
  <2>1. c - a + 1 = m
    BY <1>2
  <2> HIDE DEF c, m
  <2>2. Held(stack', a, c) = [j \in 1 .. m |-> stack'[a + j - 1].num]
    BY <2>1 DEF Held
  <2> QED BY <2>2 DEF c, m
<1>7. \A j \in 1 .. b - a + 2 : stack'[a + j - 1].num = Append(old, v)[j]
  <2>1. \A j \in 1 .. b - a + 2 : /\ j = b - a + 2 \/ j \in 1 .. b - a + 1
                                  /\ j \in 1 .. b - a + 1 => a + j - 1 \in 1 .. b
                                  /\ j = b - a + 2 => a + j - 1 = b + 1
    BY <1>2
  <2> QED BY <2>1, <1>3, <1>4, <1>5
<1>8. Append(old, v) = [j \in 1 .. b - a + 2 |-> Append(old, v)[j]]
  BY <1>5, LenProperties
<1>9. new = Append(old, v)
  BY <1>6, <1>7, <1>8
<1> DEFINE F == IF Code(u) THEN u.p.fn ELSE "script"
           T == u.p.at
<1>10. CodeAct(stack, u) = Stack!Activation(F, T, old) /\ CodeAct(stack', w) = Stack!Activation(F, T, new)
  BY <1>1 DEF CodeAct, a, b, old
<1> HIDE DEF new, F, T
<1>11. \A f, t : [Stack!Activation(f, t, old) EXCEPT !.vals = Append(@, v)] = Stack!Activation(f, t, Append(old, v))
  BY DEF Stack!Activation
<1> QED BY <1>9, <1>10, <1>11

-----------------------------------------------------------------------------
(* What ends gives its result to whoever is below.                         *)

LEMMA CodeHolds ==
  ASSUME Shape, NEW us, NEW n, Frames(stack, natives, us, n), NEW i \in 1 .. n, us[i].p # CodeEnd
  PROVE  Holds(stack, First(us[i]), us[i].top) /\ us[i] \in Views(stack, natives)
<1>1. stack \in Seq(Cell) /\ Len(stack) \in Nat /\ Len(natives) \in Nat
  BY Sizes
<1>2. us[i] \in Views(stack, natives) /\ Lies(stack, natives, us, i)
  BY DEF Frames
<1>3. /\ us[i].f \in Nat \ {0} /\ us[i].top \in Nat /\ us[i].top <= Len(stack)
      /\ \A j \in First(us[i]) .. us[i].top : stack[j] \in ValCell
  BY <1>1, <1>2, ViewTypes DEF Lies, Clean
<1>4. First(us[i]) \in Nat \ {0} /\ First(us[i]) <= us[i].top + 1
  <2>1. CASE Code(us[i])
    <3>1. i > 1
      <4>1. i = 1 => ~ Code(us[i])
        BY Positions DEF Frames, Outermost, Code
      <4> QED BY <2>1, <4>1
    <3>2. us[i].f \in 3 .. us[i].top
      BY <1>2, <3>1 DEF Lies, On, NativeOn, FrameOn
    <3> QED BY <1>3, <2>1, <3>2 DEF First
  <2>2. CASE ~ Code(us[i])
    BY <1>3, <2>2 DEF First
  <2> QED BY <2>1, <2>2
<1> QED BY <1>1, <1>2, <1>3, <1>4 DEF Holds

(* The last two activations, as n - 1 and n - 2.                           *)
LEMMA ResumedViews ==
  ASSUME NEW us, NEW n \in Nat \ {0}, n > 1, NEW m, m = n - 1, NEW k, k = n - 2
  PROVE  /\ Resumed(us, n)[m] = Running' /\ \A i \in 1 .. k : Resumed(us, n)[i] = us[i]
         /\ m \in Nat \ {0} /\ m \in 1 .. n /\ k \in 0 .. n /\ k <= m /\ k \in Nat
<1>1. /\ m \in Nat \ {0} /\ m \in 1 .. n /\ m \in 1 .. m /\ k \in 0 .. n /\ k <= m /\ k \in Nat
      /\ \A i \in 1 .. k : i \in 1 .. m /\ i # m
  OBVIOUS
<1>2. Resumed(us, n) = [i \in 1 .. m |-> IF i = m THEN Running' ELSE Kept(us, m)[i]]
  BY DEF Resumed, Retopped
<1>3. \A i \in 1 .. m : Kept(us, m)[i] = us[i]
  BY DEF Kept
<1> QED BY <1>1, <1>2, <1>3

LEMMA LowerStays ==
  ASSUME Shape, NEW us, NEW n, Frames(stack, natives, us, n), n > 1, NEW m, m = n - 1, NEW k, k = n - 2,
         \A j \in 1 .. us[m].top : stack'[j] = stack[j],
         \A j \in 1 .. us[m].n : Settled'[j] = Settled[j]
  PROVE  k > 0 => SameBelow(us[k], stack, stack', Settled, Settled')
<1> SUFFICES ASSUME k > 0 PROVE SameBelow(us[k], stack, stack', Settled, Settled')
  OBVIOUS
<1>1. n \in Nat \ {0} /\ \A j \in 1 .. n : \A i \in 1 .. j : Rises(us, i, j)
  BY DEF Frames
<1>2. m \in 1 .. n /\ k \in 1 .. m /\ k \in 1 .. n
  BY <1>1
<1>3. Rises(us, k, m) /\ us[k] \in Views(stack, natives) /\ us[m] \in Views(stack, natives)
  BY <1>1, <1>2 DEF Frames
<1>4. us[k].top <= us[m].top /\ us[k].n <= us[m].n
  BY <1>3 DEF Rises
<1>5. Len(stack) \in Nat /\ Len(natives) \in Nat
  BY Sizes
<1>6. us[k].top \in Nat /\ us[m].top \in Nat /\ us[k].n \in Nat /\ us[m].n \in Nat
  BY <1>3, <1>5, ViewTypes
<1>7. \A a, b \in Nat : a <= b => 1 .. a \subseteq 1 .. b
  OBVIOUS
<1>8. 1 .. us[k].top \subseteq 1 .. us[m].top /\ 1 .. us[k].n \subseteq 1 .. us[m].n
  BY <1>4, <1>6, <1>7
<1> QED BY <1>8 DEF SameBelow

LEMMA FinishActs ==
  ASSUME NEW us, NEW n, Reads(us, n), Finish
  PROVE  Stack!Finish
<1>1. /\ Shape /\ Frames(stack, natives, us, n) /\ us[n] = Running /\ Watch
      /\ InNative /\ native.next > Len(native.list) /\ ip' = native.saved_ip
  BY DEF Finish, Reads
<1>2. /\ Last(acts) = NativeAct(native) /\ Stack!top = Last(acts) /\ ~ Stack!InCode
      /\ natives # <<>> /\ n \in Nat /\ n > 1
      /\ Len(natives) \in Nat \ {0} /\ sp \in Nat /\ sp = Len(stack)
  BY <1>1, TopIsNative
<1> DEFINE w == Running'
           vs == Resumed(us, n)
           m == n - 1
           k == n - 2
<1>3. /\ Moved(vs, m) /\ w = [us[m] EXCEPT !.top = sp + 1] /\ us[m].top = sp
      /\ us[m].p \in CodePos /\ us[m].n = Len(natives) - 1
      /\ Len(stack') = sp + 1 /\ stack'[sp + 1] = Val(Obj)
      /\ \A j \in 1 .. sp : stack'[j] = stack[j]
      /\ Len(natives') = Len(natives) - 1 /\ \A i \in 1 .. Len(natives) - 1 : natives'[i] = natives[i]
  BY <1>1, Finished
<1>4. ~ Waiting'
  <2>1. native.saved_ip \in CodePos
    BY <1>1, <1>2, Innermost DEF NatRec
  <2>2. ip' # CodeEnd
    BY <2>1, <1>1, Positions
  <2> QED BY <2>2 DEF Waiting
<1>5. \A j \in 1 .. us[m].n : Settled'[j] = Settled[j]
  <2>1. Settled' = [i \in 1 .. Len(natives) - 1 |-> natives'[i]]
    BY <1>3, <1>4 DEF Settled
  <2>2. \A j \in 1 .. Len(natives) - 1 : j \in 1 .. Len(natives) /\ j # Len(natives)
    BY <1>2
  <2>3. \A j \in 1 .. Len(natives) - 1 : Settled[j] = natives[j]
    BY <2>2 DEF Settled
  <2> QED BY <1>3, <2>1, <2>3
<1>6. m = n - 1 /\ k = n - 2
  OBVIOUS
<1> HIDE DEF m, k
<1>7. /\ vs[m] = w /\ (\A i \in 1 .. k : vs[i] = us[i])
      /\ m \in Nat \ {0} /\ m \in 1 .. n /\ k \in 0 .. n /\ k <= m
  BY <1>2, <1>6, ResumedViews
<1> HIDE DEF vs, w
<1>8. k > 0 => SameBelow(us[k], stack, stack', Settled, Settled')
  BY <1>1, <1>2, <1>3, <1>5, <1>6, LowerStays
<1>9. KeepsActs(us, n, vs, m, k)
  <2>1. n \in Nat \ {0}
    BY <1>2
  <2> QED BY <1>1, <1>3, <1>7, <1>8, <2>1 DEF KeepsActs
<1>10. us[m].p # CodeEnd /\ Holds(stack, First(us[m]), us[m].top) /\ us[m] \in Views(stack, natives)
  <2>1. us[m].p # CodeEnd
    BY <1>3, Positions
  <2> QED BY <2>1, <1>1, <1>7, CodeHolds
<1>11. CodeAct(stack', w) = [CodeAct(stack, us[m]) EXCEPT !.vals = Append(@, Obj)]
  <2> DEFINE u == us[m]
  <2>1. /\ w = [u EXCEPT !.top = u.top + 1] /\ u \in Views(stack, natives) /\ Holds(stack, First(u), u.top)
        /\ Obj \in Value /\ stack'[u.top + 1].num = Obj /\ \A j \in 1 .. u.top : stack'[j] = stack[j]
    BY <1>3, <1>10, Cells DEF Value
  <2> HIDE DEF u
  <2>2. CodeAct(stack', w) = [CodeAct(stack, u) EXCEPT !.vals = Append(@, Obj)]
    BY <2>1, Pushes
  <2> QED BY <2>2 DEF u
<1>12. ActOf(stack', Settled', vs[m]) = CodeAct(stack', w) /\ ActOf(stack, Settled, us[m]) = CodeAct(stack, us[m])
  <2>1. w.p # CodeEnd
    <3>1. w.p = us[m].p
      BY <1>3, <1>10 DEF Views
    <3> QED BY <3>1, <1>10
  <2> QED BY <2>1, <1>7, <1>10 DEF ActOf
<1>13. /\ acts' = Append(Front(Front(acts)), CodeAct(stack', w))
       /\ Last(Front(acts)) = CodeAct(stack, us[m])
  BY <1>2, <1>6, <1>9, <1>12, CloseActs
<1>14. NativeAct(native).todo = <<>>
  BY <1>1, <1>2, NativeLists
<1> QED BY <1>2, <1>11, <1>13, <1>14, Ends DEF Stack!Finish, Stack!Obj, Obj

LEMMA ReturnActs ==
  ASSUME NEW us, NEW n, Reads(us, n), Return
  PROVE  Stack!Return
<1>1. /\ Shape /\ Frames(stack, natives, us, n) /\ us[n] = Running /\ Watch
      /\ InCode /\ ~ InScript /\ Pushed > 0
  BY DEF Return, Reads, Watch
<1>2. /\ Stack!top = Last(acts) /\ Stack!top.vals = CodeVals /\ Stack!InCode /\ Stack!top.fn = ip.fn
      /\ CodeVals \in Seq(Value) /\ Len(CodeVals) = sp - Base
      /\ Stack!Params(ip.fn) \in Nat /\ Pushed = Len(CodeVals) - Stack!Params(ip.fn)
      /\ sp \in Nat /\ Base \in Nat /\ Base <= sp /\ sp = Len(stack)
      /\ \A j \in 1 .. sp - Base : CodeVals[j] = stack[Base + j].num
      /\ ip.fn # Stack!Script
  BY <1>1, TopIsCode DEF Reads
<1>3. Len(CodeVals) > Stack!Params(ip.fn) /\ sp - Base \in 1 .. sp - Base
  BY <1>1, <1>2
<1> DEFINE v == stack[sp].num
           w == Running'
           vs == Resumed(us, n)
           m == n - 1
           k == n - 2
           b == fp - 3
<1>4. Last(CodeVals) = v /\ v \in Value
  <2>1. Last(CodeVals) = CodeVals[Len(CodeVals)] /\ Last(CodeVals) \in Value
    <3>1. CodeVals # <<>>
      BY <1>2, <1>3
    <3> QED BY <3>1, <1>2, Fronts
  <2>2. CodeVals[sp - Base] = stack[Base + (sp - Base)].num /\ Base + (sp - Base) = sp
    <3> DEFINE size == sp - Base
    <3> HIDE DEF v, w, vs, m, k, b
    <3>1. \A x, y \in Int : x + (y - x) = y
      OBVIOUS
    <3>2. Base + size = sp
      BY <3>1, <1>2, <1>3
    <3>3. size \in 1 .. size /\ \A j \in 1 .. size : CodeVals[j] = stack[Base + j].num
      BY <1>2, <1>3
    <3> HIDE DEF size
    <3>4. CodeVals[size] = stack[Base + size].num
      BY <3>3
    <3> QED BY <3>2, <3>4 DEF size
  <2> QED BY <2>1, <2>2, <1>2
<1>5. /\ Moved(vs, m) /\ n > 1 /\ us[m].top = b /\ us[m].n = Len(natives) /\ us[m].p \in Caller
      /\ b \in 0 .. sp /\ b \in Nat
      /\ \A j \in 1 .. b : stack'[j] = stack[j]
      /\ natives' = natives
      /\ IF us[m].p = CodeEnd THEN w = us[m] /\ Waiting' /\ natives # <<>>
         ELSE w = [us[m] EXCEPT !.top = b + 1] /\ ~ Waiting'
  <2>1. fp \in Nat /\ fp - 2 = fp - 3 + 1
    BY <1>1, Sizes
  <2>2. fp - 3 \in 0 .. sp
    BY <1>1, Returned
  <2> QED BY <1>1, <2>1, <2>2, Returned
<1>6. Len(stack') = b + 1 /\ stack'[b + 1] = stack[sp]
  <2>1. fp \in Nat /\ fp - 2 = b + 1
    BY <1>1, Sizes
  <2> QED BY <1>1, <2>1, Returned
<1>7. m = n - 1 /\ k = n - 2 /\ n \in Nat \ {0}
  BY <1>1 DEF Frames
<1> HIDE DEF m, k, b, v
<1>8. /\ vs[m] = w /\ (\A i \in 1 .. k : vs[i] = us[i])
      /\ m \in Nat \ {0} /\ m \in 1 .. n /\ k \in 0 .. n /\ k <= m
  BY <1>5, <1>7, ResumedViews
<1> HIDE DEF vs, w
<1>9. /\ Settled = [i \in 1 .. Len(natives) |-> natives[i]] /\ Len(natives) \in Nat
      /\ Settled' = [i \in 1 .. Len(natives) |->
                       IF Waiting' /\ i = Len(natives) THEN After(Last(stack').num) ELSE natives[i]]
  <2>1. ~ Waiting
    BY <1>1, CodeRuns
  <2>2. After(Last(stack).num)' = After(Last(stack').num)
    BY <1>5 DEF After, native, Elem
  <2> QED BY <2>1, <2>2, <1>1, <1>5, Sizes DEF Settled
<1>10. k > 0 => SameBelow(us[k], stack, stack', Settled, Settled')
  <2>1. CASE us[m].p = CodeEnd
    <3> SUFFICES ASSUME k > 0 PROVE SameBelow(us[k], stack, stack', Settled, Settled')
      OBVIOUS
    <3>1. m > 1 /\ k = m - 1
      BY <1>7, <1>8
    <3>2. On(stack, natives, us[k], us[m]) /\ ~ Code(us[m])
      BY <1>1, <1>8, <2>1, <3>1, Positions DEF Frames, Lies, Code
    <3>3. us[k].top = us[m].top /\ us[k].n = us[m].n - 1
      BY <3>2 DEF On, NativeOn, FrameOn
    <3>4. \A j \in 1 .. Len(natives) - 1 : j \in 1 .. Len(natives) /\ j # Len(natives)
      BY <1>9
    <3>5. \A j \in 1 .. Len(natives) - 1 : Settled'[j] = Settled[j]
      BY <1>9, <3>4
    <3> QED BY <1>5, <3>3, <3>5 DEF SameBelow
  <2>2. CASE us[m].p # CodeEnd
    <3>1. \A j \in 1 .. us[m].n : Settled'[j] = Settled[j]
      BY <2>2, <1>5, <1>9
    <3> QED BY <3>1, <1>1, <1>5, <1>7, LowerStays
  <2> QED BY <2>1, <2>2
<1>11. KeepsActs(us, n, vs, m, k)
  BY <1>1, <1>5, <1>7, <1>8, <1>10 DEF KeepsActs
<1>12. /\ acts' = Append(Front(Front(acts)), ActOf(stack', Settled', w))
       /\ Last(Front(acts)) = ActOf(stack, Settled, us[m])
  BY <1>5, <1>7, <1>8, <1>11, CloseActs
<1>13. ActOf(stack', Settled', w) = IF ActOf(stack, Settled, us[m]).fn \in Native
                                    THEN Stack!Deliver(ActOf(stack, Settled, us[m]), v)
                                    ELSE [ActOf(stack, Settled, us[m]) EXCEPT !.vals = Append(@, v)]
  <2>1. CASE us[m].p = CodeEnd
    <3>1. /\ Len(natives) \in 1 .. Len(natives) /\ native = natives[Len(natives)] /\ Looping(native)
          /\ natives # <<>>
      BY <1>1, <1>5, <2>1, Innermost
    <3>2. native.next <= Len(native.list)
      BY <1>1, <3>1 DEF InCode, InNative, Looping
    <3>3. Last(stack') = stack[sp]
      BY <1>6 DEF Last
    <3>4. Settled[Len(natives)] = native /\ Settled'[Len(natives)] = After(v)
      BY <1>5, <1>9, <2>1, <3>1, <3>3 DEF v
    <3>5. ActOf(stack, Settled, us[m]) = NativeAct(native) /\ ActOf(stack', Settled', w) = NativeAct(After(v))
      BY <1>5, <2>1, <3>4 DEF ActOf
    <3>6. NativeAct(After(v)) = Stack!Deliver(NativeAct(native), v) /\ NativeAct(native).fn \in Native
      BY <1>1, <1>4, <3>1, <3>2, NativeLists
    <3> QED BY <3>5, <3>6
  <2>2. CASE us[m].p # CodeEnd
    <3>1. Holds(stack, First(us[m]), us[m].top) /\ us[m] \in Views(stack, natives)
      BY <1>1, <1>8, <2>2, CodeHolds
    <3>2. w.p # CodeEnd
      BY <1>5, <2>2, <3>1 DEF Views
    <3>3. CodeAct(stack', w) = [CodeAct(stack, us[m]) EXCEPT !.vals = Append(@, v)]
      <4> DEFINE u == us[m]
      <4>1. /\ w = [u EXCEPT !.top = u.top + 1] /\ u \in Views(stack, natives) /\ Holds(stack, First(u), u.top)
            /\ v \in Value /\ stack'[u.top + 1].num = v /\ \A j \in 1 .. u.top : stack'[j] = stack[j]
        BY <1>4, <1>5, <1>6, <2>2, <3>1 DEF v
      <4> HIDE DEF u
      <4>2. CodeAct(stack', w) = [CodeAct(stack, u) EXCEPT !.vals = Append(@, v)]
        BY <4>1, Pushes
      <4> QED BY <4>2 DEF u
    <3>4. CodeAct(stack, us[m]).fn \notin Native
      <4>1. CodeAct(stack, us[m]).fn = IF Code(us[m]) THEN us[m].p.fn ELSE "script"
        BY DEF CodeAct, Stack!Activation
      <4>2. CodeAct(stack, us[m]).fn \in Fn \cup {"script"}
        BY <4>1 DEF Code
      <4> QED BY <4>2, StackConstants
    <3> QED BY <2>2, <3>2, <3>3, <3>4 DEF ActOf
  <2> QED BY <2>1, <2>2
<1> DEFINE x == ActOf(stack, Settled, us[m])
           y == ActOf(stack', Settled', w)
<1>14. /\ acts' = Append(Front(Front(acts)), y) /\ Last(Front(acts)) = x
       /\ y = IF x.fn \in Native THEN Stack!Deliver(x, v) ELSE [x EXCEPT !.vals = Append(@, v)]
  BY <1>12, <1>13
<1> HIDE DEF x, y
<1> QED BY <1>2, <1>3, <1>4, <1>14, Ends DEF Stack!Return

-----------------------------------------------------------------------------
(* Code opens an activation.                                               *)

LEMMA HeldAs ==
  ASSUME NEW st, NEW a, NEW b, NEW m, m = b - a + 1, NEW vals, IsSeq(vals, m),
         \A j \in 1 .. m : st[a + j - 1].num = vals[j]
  PROVE  Held(st, a, b) = vals
<1>1. Held(st, a, b) = [j \in 1 .. m |-> st[a + j - 1].num]
  BY DEF Held
<1> QED BY <1>1 DEF IsSeq

LEMMA BelowCode ==
  ASSUME Shape, NEW us, NEW n, Frames(stack, natives, us, n), us[n] = Running, InCode,
         \A j \in 1 .. Base : stack'[j] = stack[j],
         \A j \in 1 .. Len(natives) : Settled'[j] = Settled[j], NEW k, k = n - 1
  PROVE  k > 0 => SameBelow(us[k], stack, stack', Settled, Settled')
<1> SUFFICES ASSUME k > 0 PROVE SameBelow(us[k], stack, stack', Settled, Settled')
  OBVIOUS
<1>1. n \in Nat \ {0} /\ (InScript => n = 1) /\ (~ InScript => Base = fp - 1 /\ FrameOn(stack, us[k], us[n]))
      /\ us[n] = [p |-> ip, f |-> fp, top |-> sp, n |-> Len(natives)]
  BY CodeRuns
<1>2. ~ InScript
  BY <1>1
<1>3. us[k].top = fp - 3 /\ us[k].n = Len(natives) /\ Base = fp - 1 /\ fp \in Nat
  BY <1>1, <1>2, Sizes DEF FrameOn
<1>4. \A j \in 1 .. fp - 3 : j \in 1 .. fp - 1
  BY <1>3
<1> QED BY <1>3, <1>4 DEF SameBelow

(* The caller, with its own values up to lower.                            *)
LEMMA CallerReads ==
  ASSUME Shape, NEW us, NEW n, Frames(stack, natives, us, n), us[n] = Running, InCode, HasSite,
         NEW lower \in Nat, Base <= lower, NEW own, IsSeq(own, lower - Base),
         \A j \in 1 .. lower - Base : stack'[Base + j].num = own[j]
  PROVE  /\ Calling(Beyond(ip), lower).p # CodeEnd
         /\ CodeAct(stack', Calling(Beyond(ip), lower)) = Stack!Activation(ip.fn, ip.at + 1, own)
<1> DEFINE u == Calling(Beyond(ip), lower)
<1>1. /\ us[n] = [p |-> ip, f |-> fp, top |-> sp, n |-> Len(natives)]
      /\ ip \in CodePos /\ Base + 1 = First(us[n]) /\ Base \in Nat
      /\ (InScript <=> ~ Code(us[n])) /\ (InScript => ip.fn = "script")
  BY CodeRuns
<1>2. Beyond(ip) \in CodePos /\ Beyond(ip).fn = ip.fn /\ Beyond(ip).at = ip.at + 1
  BY <1>1, Positions DEF HasSite
<1>3. u.p = Beyond(ip) /\ u.f = fp /\ u.top = lower /\ u.p # CodeEnd
  BY <1>2, Positions DEF Calling
<1>4. (Code(u) <=> Code(us[n])) /\ First(u) = Base + 1
  BY <1>1, <1>2, <1>3 DEF Code, First
<1>5. (IF Code(u) THEN u.p.fn ELSE "script") = ip.fn
  BY <1>1, <1>2, <1>3, <1>4 DEF Code
<1> DEFINE a == Base + 1
           m == lower - Base
<1>6. m = lower - a + 1 /\ \A j \in 1 .. m : a + j - 1 = Base + j
  BY <1>1
<1>7. IsSeq(own, m) /\ \A j \in 1 .. m : stack'[a + j - 1].num = own[j]
  BY <1>6
<1> HIDE DEF u, a, m
<1>8. Held(stack', a, lower) = own
  BY <1>6, <1>7, HeldAs
<1>9. First(u) = a
  BY <1>4 DEF a
<1>10. CodeAct(stack', u) = Stack!Activation(ip.fn, ip.at + 1, own)
  BY <1>2, <1>3, <1>5, <1>8, <1>9 DEF CodeAct
<1> QED BY <1>3, <1>10 DEF u

(* The caller keeps the values own, f gets args.                           *)
Passes(us, n, f, values, lower, own, args) ==
  /\ Reads(us, n) /\ CallsOn(us, n, f, values, lower) /\ Watch
  /\ IsSeq(own, lower - Base) /\ \A j \in 1 .. lower - Base : stack[Base + j].num = own[j]
  /\ IsSeq(args, Arity[f]) /\ \A j \in 1 .. Arity[f] : values[lower + j].num = args[j]

LEMMA CalledActs ==
  ASSUME NEW us, NEW n, NEW f, NEW values, NEW lower, NEW own, NEW args,
         Passes(us, n, f, values, lower, own, args)
  PROVE  acts' = Front(acts) \o <<Stack!Activation(ip.fn, ip.at + 1, own), Stack!Activation(f, 0, args)>>
<1>0. /\ Reads(us, n) /\ CallsOn(us, n, f, values, lower) /\ Watch
      /\ IsSeq(own, lower - Base) /\ \A j \in 1 .. lower - Base : stack[Base + j].num = own[j]
      /\ IsSeq(args, Arity[f]) /\ \A j \in 1 .. Arity[f] : values[lower + j].num = args[j]
  BY DEF Passes
<1>1. /\ Shape /\ Frames(stack, natives, us, n) /\ us[n] = Running /\ InCode /\ HasSite
      /\ f \in Fn /\ lower \in Nat /\ Base <= lower /\ natives' = natives /\ ip' = At(f, 0)
      /\ lower = Len(values) - Arity[f] /\ values \in Seq(Cell)
  BY <1>0 DEF CallsOn
<1> DEFINE w == Running'
           c == Calling(Beyond(ip), lower)
           vs == Opened(Retopped(us, n, c), n, w)
           m == n + 1
           k == n - 1
<1>2. /\ Moved(vs, m)
      /\ w = [p |-> At(f, 0), f |-> lower + 3, top |-> Len(values) + 2, n |-> Len(natives)]
      /\ \A j \in 1 .. Arity[f] : stack'[lower + 2 + j] = values[lower + j]
      /\ \A j \in 1 .. lower : stack'[j] = stack[j]
  BY <1>0, Called
<1>3. n \in Nat \ {0} /\ Base \in Nat /\ ~ Waiting
  BY <1>1, CodeRuns
<1>4. ip' # CodeEnd /\ ~ Waiting'
  <2>1. ip' # CodeEnd
    BY <1>1, Positions
  <2> QED BY <2>1 DEF Waiting
<1>5. \A j \in 1 .. Len(natives) : Settled'[j] = Settled[j]
  BY <1>1, <1>3, <1>4 DEF Settled
<1> HIDE DEF w, c
<1>6. vs[n] = c /\ vs[m] = w /\ \A i \in 1 .. k : vs[i] = us[i]
  BY <1>3 DEF Opened, Retopped
<1>7. k = n - 1 /\ m = n + 1 /\ k \in 0 .. n /\ k <= m
  BY <1>3
<1> HIDE DEF vs, m, k
<1>8. KeepsActs(us, n, vs, m, k)
  <2>1. \A j \in 1 .. Base : stack'[j] = stack[j]
    <3>1. \A j \in 1 .. Base : j \in 1 .. lower
      BY <1>1, <1>3
    <3> QED BY <3>1, <1>2
  <2>2. k > 0 => SameBelow(us[k], stack, stack', Settled, Settled')
    BY <2>1, <1>1, <1>5, <1>7, BelowCode
  <2> QED BY <1>0, <1>2, <1>3, <1>6, <1>7, <2>2 DEF KeepsActs
<1>9. ActOf(stack', Settled', vs[n]) = Stack!Activation(ip.fn, ip.at + 1, own)
  <2>1. \A j \in 1 .. lower - Base : stack'[Base + j].num = own[j]
    <3>1. \A j \in 1 .. lower - Base : Base + j \in 1 .. lower
      BY <1>1, <1>3
    <3> QED BY <3>1, <1>0, <1>2
  <2>2. c.p # CodeEnd /\ CodeAct(stack', c) = Stack!Activation(ip.fn, ip.at + 1, own)
    BY <2>1, <1>0, <1>1, CallerReads DEF c
  <2> QED BY <2>2, <1>6 DEF ActOf
<1>10. ActOf(stack', Settled', vs[m]) = Stack!Activation(f, 0, args)
  <2> DEFINE a == lower + 3
             b == Len(values) + 2
             q == Arity[f]
  <2>1. w.p # CodeEnd /\ Code(w) /\ First(w) = a /\ w.top = b /\ w.p.fn = f /\ w.p.at = 0
    BY <1>1, <1>2, Positions DEF Code, First, At
  <2>2. q \in Nat /\ Len(values) \in Nat
    BY <1>1, StackConstants, LenProperties
  <2>3. q = b - a + 1 /\ \A j \in 1 .. q : a + j - 1 = lower + 2 + j
    BY <1>1, <2>2
  <2>4. IsSeq(args, q) /\ \A j \in 1 .. q : stack'[a + j - 1].num = args[j]
    BY <1>0, <1>2, <2>3
  <2> HIDE DEF a, b, q
  <2>5. Held(stack', a, b) = args
    BY <2>3, <2>4, HeldAs
  <2> QED BY <1>6, <2>1, <2>5 DEF ActOf, CodeAct
<1> QED BY <1>7, <1>8, <1>9, <1>10, OpenActs

LEMMA Advanced == \A f, t, v : Stack!Beyond(Stack!Activation(f, t, v)) = Stack!Activation(f, t + 1, v)
BY DEF Stack!Beyond, Stack!Activation

LEMMA CallActs ==
  ASSUME NEW us, NEW n, Reads(us, n), NEW f \in Fn, Call(f)
  PROVE  Stack!Call(f)
<1> DEFINE A == Arity[f]
           lower == sp - A
           N == Len(CodeVals)
           own == SubSeq(CodeVals, 1, N - A)
           args == SubSeq(CodeVals, N - A + 1, N)
<1>1. InCode /\ HasSite /\ Watch /\ Pushed >= A
  BY DEF Call
<1>2. CallsOn(us, n, f, stack, lower)
  BY CallCalls DEF Reads
<1>3. /\ Stack!top.vals = CodeVals /\ Stack!InCode /\ Stack!top.fn = ip.fn /\ Stack!top.at = ip.at
      /\ CodeVals \in Seq(Value) /\ N = sp - Base
      /\ Stack!Params(ip.fn) \in Nat /\ Pushed = N - Stack!Params(ip.fn)
      /\ sp \in Nat /\ Base \in Nat /\ Base <= sp /\ sp = Len(stack)
      /\ \A j \in 1 .. sp - Base : CodeVals[j] = stack[Base + j].num
      /\ Stack!top = Last(acts)
  BY <1>1, TopIsCode DEF Reads
<1>4. A \in Nat \ {0} /\ N \in Nat
  BY <1>3, StackConstants, LenProperties
<1>5. N - Stack!Params(ip.fn) >= A /\ N - A \in 0 .. N /\ lower - Base = N - A
  <2> DEFINE p == Stack!Params(ip.fn)
  <2>1. N - p >= A /\ p \in Nat
    BY <1>1, <1>3
  <2>2. lower = sp - A /\ N = sp - Base /\ A \in Nat /\ N \in Nat /\ sp \in Nat /\ Base \in Nat
    BY <1>3, <1>4
  <2> HIDE DEF p, A, N, lower
  <2>3. N - A \in 0 .. N /\ lower - Base = N - A
    BY <2>1, <2>2
  <2> QED BY <2>1, <2>3 DEF p
<1> HIDE DEF A, N
<1>6. IsSeq(own, N - A) /\ \A j \in 1 .. N - A : own[j] = CodeVals[j]
  <2>1. own \in Seq(Value) /\ Len(own) = N - A /\ \A j \in 1 .. N - A : own[j] = CodeVals[j]
    <3> DEFINE q == N - A
    <3>1. q \in 0 .. Len(CodeVals)
      BY <1>5 DEF N
    <3> HIDE DEF q
    <3>2. /\ SubSeq(CodeVals, 1, q) \in Seq(Value) /\ Len(SubSeq(CodeVals, 1, q)) = q
          /\ \A j \in 1 .. q : SubSeq(CodeVals, 1, q)[j] = CodeVals[j]
      BY <1>3, <3>1, Prefix
    <3> QED BY <3>2 DEF q
  <2> HIDE DEF own
  <2> QED BY <2>1, LenProperties DEF IsSeq
<1>7. IsSeq(args, A) /\ \A j \in 1 .. A : args[j] = CodeVals[N - A + j]
  <2> DEFINE p == N - A + 1
  <2>1. p \in Int /\ N \in Int /\ p <= N /\ N - p + 1 = A /\ \A j \in 1 .. A : p + j - 1 = N - A + j
    BY <1>4, <1>5
  <2>2. \A j \in p .. N : CodeVals[j] \in Value
    <3>1. \A j \in p .. N : j \in 1 .. N
      BY <1>4, <1>5
    <3>2. \A j \in 1 .. N : CodeVals[j] \in Value
      BY <1>3, ElementOfSeq DEF N
    <3> QED BY <3>1, <3>2
  <2> HIDE DEF p
  <2>3. /\ SubSeq(CodeVals, p, N) \in Seq(Value) /\ Len(SubSeq(CodeVals, p, N)) = N - p + 1
        /\ \A j \in 1 .. N - p + 1 : SubSeq(CodeVals, p, N)[j] = CodeVals[p + j - 1]
    BY <2>1, <2>2, SubSeqProperties
  <2>4. SubSeq(CodeVals, p, N) = args
    BY DEF p
  <2> HIDE DEF args
  <2>5. args \in Seq(Value) /\ Len(args) = A /\ \A j \in 1 .. A : args[j] = CodeVals[N - A + j]
    BY <2>1, <2>3, <2>4
  <2> QED BY <2>5, LenProperties DEF IsSeq
<1> HIDE DEF own, args, lower
<1>8. \A j \in 1 .. lower - Base : stack[Base + j].num = own[j]
  <2>1. \A j \in 1 .. N - A : j \in 1 .. sp - Base
    BY <1>3, <1>4
  <2> QED BY <2>1, <1>3, <1>5, <1>6
<1>9. \A j \in 1 .. A : stack[lower + j].num = args[j]
  <2>1. \A j \in 1 .. A : N - A + j \in 1 .. sp - Base /\ Base + (N - A + j) = lower + j
    BY <1>3, <1>4, <1>5 DEF lower
  <2> QED BY <2>1, <1>3, <1>7
<1>10. acts' = Front(acts) \o <<Stack!Activation(ip.fn, ip.at + 1, own), Stack!Activation(f, 0, args)>>
  <2>1. IsSeq(own, lower - Base) /\ IsSeq(args, Arity[f]) /\ \A j \in 1 .. Arity[f] : stack[lower + j].num = args[j]
    BY <1>5, <1>6, <1>7, <1>9 DEF A
  <2>2. Passes(us, n, f, stack, lower, own, args)
    BY <2>1, <1>1, <1>2, <1>8 DEF Passes
  <2> QED BY <2>2, CalledActs
<1>11. Stack!Beyond(Stack!Drop(Arity[f])) = Stack!Activation(ip.fn, ip.at + 1, own)
  <2>1. Stack!Drop(Arity[f]) = Stack!Activation(ip.fn, ip.at, own)
    BY <1>1, <1>3, TopWith DEF Stack!Drop, own, A, N
  <2> QED BY <2>1, Advanced
<1>12. SubSeq(Stack!top.vals, Len(Stack!top.vals) - Arity[f] + 1, Len(Stack!top.vals)) = args
  BY <1>3 DEF args, A, N
<1>13. Len(Stack!top.vals) - Stack!Params(Stack!top.fn) >= Arity[f] /\ Stack!top.at < MaxSites
  BY <1>1, <1>3, <1>5 DEF N, A, HasSite
<1> QED BY <1>3, <1>10, <1>11, <1>12, <1>13, Ends DEF Stack!Call, Stack!Opens

LEMMA CallByNameActs ==
  ASSUME NEW us, NEW n, Reads(us, n), NEW f \in Fn, NEW args \in [1 .. Arity[f] -> Literals],
         CallByName(f, args)
  PROVE  Stack!CallByName(f, args) /\ args \in [1 .. Arity[f] -> Num]
<1> DEFINE values == stack \o Vals(args)
<1>1. InCode /\ HasSite /\ Watch
  BY DEF CallByName
<1>2. CallsOn(us, n, f, values, sp)
  BY CallByNameCalls DEF Reads
<1>3. /\ Stack!top.vals = CodeVals /\ Stack!InCode /\ Stack!top.at = ip.at
      /\ Stack!top = Stack!Activation(ip.fn, ip.at, CodeVals)
      /\ CodeVals \in Seq(Value) /\ Len(CodeVals) = sp - Base
      /\ sp \in Nat /\ sp = Len(stack) /\ stack \in Seq(Cell)
      /\ \A j \in 1 .. sp - Base : CodeVals[j] = stack[Base + j].num
  BY <1>1, TopIsCode, Sizes DEF Reads
<1>4. args \in [1 .. Arity[f] -> Num] /\ args \in [1 .. Arity[f] -> Value] /\ Arity[f] \in Nat
  BY StackConstants, CallConstants DEF Value
<1>5. IsSeq(CodeVals, sp - Base) /\ IsSeq(args, Arity[f])
  BY <1>3, <1>4, LenProperties DEF IsSeq
<1>6. \A j \in 1 .. Arity[f] : values[sp + j].num = args[j]
  <2> DEFINE t == Vals(args)
             q == Arity[f]
  <2>1. t \in Seq(Cell) /\ Len(t) = q /\ q \in Nat /\ \A j \in 1 .. q : t[j] = Val(args[j]) /\ args[j] \in Value
    BY <1>4, Arguments
  <2> HIDE DEF t, q
  <2>2. \A j \in 1 .. Len(stack) + Len(t) : (stack \o t)[j] = IF j <= Len(stack) THEN stack[j] ELSE t[j - Len(stack)]
    BY <1>3, <2>1, Joined
  <2>3. \A j \in 1 .. q : /\ sp + j \in 1 .. Len(stack) + Len(t) /\ ~ (sp + j <= Len(stack))
                          /\ sp + j - Len(stack) = j
    BY <1>3, <2>1
  <2>4. \A j \in 1 .. q : (stack \o t)[sp + j] = t[j]
    <3> SUFFICES ASSUME NEW j \in 1 .. q PROVE (stack \o t)[sp + j] = t[j]
      OBVIOUS
    <3> DEFINE i == sp + j
    <3>1. i \in 1 .. Len(stack) + Len(t) /\ ~ (i <= Len(stack)) /\ i - Len(stack) = j
      BY <1>3, <2>1
    <3> HIDE DEF i
    <3>2. (stack \o t)[i] = t[j]
      BY <2>2, <3>1
    <3> QED BY <3>2 DEF i
  <2>5. \A j \in 1 .. q : (stack \o t)[sp + j].num = args[j]
    <3>1. \A j \in 1 .. q : Val(args[j]).num = args[j]
      BY <2>1, Cells
    <3> QED BY <3>1, <2>1, <2>4
  <2> QED BY <2>5 DEF t, q
<1> HIDE DEF values
<1>7. acts' = Front(acts) \o <<Stack!Activation(ip.fn, ip.at + 1, CodeVals), Stack!Activation(f, 0, args)>>
  <2> DEFINE lower == sp
             own == CodeVals
             given == args
  <2>1. /\ CallsOn(us, n, f, values, lower) /\ IsSeq(own, lower - Base) /\ IsSeq(given, Arity[f])
        /\ \A j \in 1 .. lower - Base : stack[Base + j].num = own[j]
        /\ \A j \in 1 .. Arity[f] : values[lower + j].num = given[j]
    BY <1>2, <1>3, <1>5, <1>6
  <2> HIDE DEF lower, own, given
  <2>2. Passes(us, n, f, values, lower, own, given)
    BY <1>1, <2>1 DEF Passes
  <2>3. acts' = Front(acts) \o <<Stack!Activation(ip.fn, ip.at + 1, own), Stack!Activation(f, 0, given)>>
    BY <2>2, CalledActs
  <2> QED BY <2>3 DEF own, given
<1>8. Stack!Beyond(Stack!top) = Stack!Activation(ip.fn, ip.at + 1, CodeVals)
  BY <1>3, Advanced
<1> QED BY <1>1, <1>3, <1>4, <1>7, <1>8, Ends DEF Stack!CallByName, Stack!Opens, HasSite

LEMMA ApplyActs ==
  ASSUME NEW us, NEW n, Reads(us, n),
         NEW fn \in Native, NEW list \in Lists, NEW target \in Targets(fn), NEW param \in ParamsOf(fn),
         Apply(fn, target, list, param)
  PROVE  Stack!Apply(fn, target, list, param) /\ param \in Num /\ target \in Stack!Targets(fn)
<1> DEFINE c == Calling(Beyond(ip), sp)
           r == [fn |-> fn, target |-> target, list |-> list, param |-> param,
                 next |-> 1, running |-> FALSE, saved_ip |-> ip', out |-> <<>>]
           w == Running'
           vs == Opened(Retopped(us, n, c), n, w)
           m == n + 1
           k == n - 1
<1>1. /\ Shape /\ Frames(stack, natives, us, n) /\ us[n] = Running /\ InCode /\ HasSite /\ Watch
      /\ ip' = Beyond(ip) /\ stack' = stack /\ natives' = Append(natives, r)
  BY DEF Apply, Reads
<1>2. /\ Stack!top.vals = CodeVals /\ Stack!InCode /\ Stack!top.at = ip.at
      /\ Stack!top = Stack!Activation(ip.fn, ip.at, CodeVals)
      /\ CodeVals \in Seq(Value) /\ Len(CodeVals) = sp - Base
      /\ sp \in Nat /\ Base \in Nat /\ Base <= sp /\ sp = Len(stack)
      /\ \A j \in 1 .. sp - Base : CodeVals[j] = stack[Base + j].num
  BY <1>1, TopIsCode DEF Reads
<1>3. /\ n \in Nat \ {0} /\ ~ Waiting /\ ip \in CodePos /\ Len(natives) \in Nat
  BY <1>1, CodeRuns, Sizes
<1>4. Top(Beyond(ip), stack) = c
  BY <1>2 DEF Top, Calling
<1>5. /\ Moved(vs, m)
      /\ w = [p |-> CodeEnd, f |-> fp, top |-> sp, n |-> Len(natives) + 1]
      /\ natives'[Len(natives) + 1] = r
  BY <1>1, <1>4, Applied
<1>6. ~ Waiting'
  <2>1. Beyond(ip) # CodeEnd
    BY <1>1, <1>3, Positions DEF HasSite
  <2> QED BY <2>1, <1>1 DEF Waiting
<1>7. list \in Seq(Num) /\ param \in Num /\ target \in Stack!Targets(fn)
  BY StackConstants, CallConstants DEF ParamsOf, Targets, Stack!Targets, Stack!CallbackArity
<1>8. Len(natives') = Len(natives) + 1 /\ \A j \in 1 .. Len(natives) : natives'[j] = natives[j]
  <2>1. /\ natives \in Seq(NatRec) /\ natives' \in Seq(NatRec)
    BY <1>1, <1>5, Sizes DEF Moved, NativesOK, NatRec, CodePos
  <2> QED BY <2>1, <1>1, AppendProperties
<1> HIDE DEF r
<1>9. /\ Settled'[Len(natives) + 1] = r
      /\ \A j \in 1 .. Len(natives) : Settled'[j] = Settled[j]
  <2>1. /\ Len(natives) + 1 \in 1 .. Len(natives) + 1
        /\ \A j \in 1 .. Len(natives) : j \in 1 .. Len(natives) + 1
    BY <1>3
  <2>2. Settled' = [i \in 1 .. Len(natives) + 1 |-> natives'[i]]
    BY <1>6, <1>8 DEF Settled
  <2>3. Settled = [i \in 1 .. Len(natives) |-> natives[i]]
    BY <1>3 DEF Settled
  <2> QED BY <2>1, <2>2, <2>3, <1>5, <1>8
<1> HIDE DEF w, c
<1>10. vs[n] = c /\ vs[m] = w /\ \A i \in 1 .. k : vs[i] = us[i]
  BY <1>3 DEF Opened, Retopped
<1>11. k = n - 1 /\ m = n + 1 /\ k \in 0 .. n /\ k <= m
  BY <1>3
<1> HIDE DEF vs, m, k
<1>12. KeepsActs(us, n, vs, m, k)
  <2>1. k > 0 => SameBelow(us[k], stack, stack', Settled, Settled')
    BY <1>1, <1>9, <1>11, BelowCode
  <2> QED BY <1>1, <1>3, <1>5, <1>10, <1>11, <2>1 DEF KeepsActs
<1>13. ActOf(stack', Settled', vs[n]) = Stack!Activation(ip.fn, ip.at + 1, CodeVals)
  <2>1. IsSeq(CodeVals, sp - Base)
    BY <1>2, LenProperties DEF IsSeq
  <2>2. c.p # CodeEnd /\ CodeAct(stack', c) = Stack!Activation(ip.fn, ip.at + 1, CodeVals)
    BY <2>1, <1>1, <1>2, CallerReads DEF c
  <2> QED BY <2>2, <1>10 DEF ActOf
<1>14. ActOf(stack', Settled', vs[m]) = Stack!NativeActivation(fn, target, list, <<>>, param)
  <2>1. ActOf(stack', Settled', vs[m]) = NativeAct(r)
    BY <1>5, <1>9, <1>10 DEF ActOf
  <2>2. SubSeq(list, 1, Len(list)) = list
    <3>1. 1 \in 1 .. Len(list) + 1
      BY <1>7, LenProperties
    <3> QED BY <3>1, <1>7, Rest
  <2>3. NativeAct(r) = Stack!NativeActivation(fn, target, SubSeq(list, 1, Len(list)), <<>>, param)
    BY DEF NativeAct, r
  <2> QED BY <2>1, <2>2, <2>3
<1>15. acts' = Front(acts) \o <<Stack!Activation(ip.fn, ip.at + 1, CodeVals),
                                Stack!NativeActivation(fn, target, list, <<>>, param)>>
  BY <1>11, <1>12, <1>13, <1>14, OpenActs
<1>16. Stack!Beyond(Stack!top) = Stack!Activation(ip.fn, ip.at + 1, CodeVals)
  BY <1>2, Advanced
<1> QED BY <1>1, <1>2, <1>7, <1>15, <1>16, Ends DEF Stack!Apply, Stack!Opens, HasSite

-----------------------------------------------------------------------------
(* Lines, and the whole.                                                   *)

LEMMA Nothing ==
  ASSUME NEW st, NEW ns, NEW us, us[1].p.fn \in {"script", "prompt"}, us[1].p.at = 0, us[1].top = 0
  PROVE  Acts(st, ns, us, 1) = <<Stack!Activation(Stack!Script, 0, <<>>)>>
<1> DEFINE x == Stack!Activation(Stack!Script, 0, <<>>)
<1>1. us[1].p # CodeEnd /\ ~ Code(us[1]) /\ First(us[1]) = 1
  BY Positions DEF Code, First
<1>2. Held(st, 1, 0) = <<>>
  <2>1. Held(st, 1, 0) = [j \in 1 .. 0 |-> st[j].num]
    BY DEF Held
  <2> QED BY <2>1
<1>3. ActOf(st, ns, us[1]) = x
  BY <1>1, <1>2 DEF ActOf, CodeAct, Stack!Script
<1> HIDE DEF x
<1>4. Acts(st, ns, us, 1) = [i \in 1 .. 1 |-> x]
  <2>1. \A i \in 1 .. 1 : ActOf(st, ns, us[i]) = x
    <3>1. \A i \in 1 .. 1 : i = 1
      OBVIOUS
    <3> QED BY <3>1, <1>3
  <2> QED BY <2>1 DEF Acts
<1>5. [i \in 1 .. 1 |-> x] = <<x>>
  OBVIOUS
<1> QED BY <1>4, <1>5 DEF x

LEMMA LineActs ==
  ASSUME NEW us, NEW n, Reads(us, n), StartLine \/ EndLine \/ RuntimeError
  PROVE  Stack!Restart
<1>1. Shape /\ Frames(stack, natives, us, n) /\ us[n] = Running /\ Watch
  BY DEF Reads, StartLine, EndLine, RuntimeError, Watch
<1> DEFINE w == Running'
           m == 1
<1>2. Moved(<<w>>, m) /\ w.p.fn \in {"script", "prompt"} /\ w.p.at = 0 /\ w.top = 0
  <2>1. Moved(<<w>>, m) /\ w.p \in {Prompt, At("script", 0)} /\ w.top = 0
    BY <1>1, LineStarts, LineEnds, Aborted
  <2> QED BY <2>1 DEF Prompt, At
<1> HIDE DEF w
<1>3. acts' = Acts(stack', Settled', <<w>>, 1)
  BY <1>1, <1>2, ReadNext
<1>4. <<w>>[1] = w
  OBVIOUS
<1>5. acts' = <<Stack!Activation(Stack!Script, 0, <<>>)>>
  <2> DEFINE vs == <<w>>
  <2>1. vs[1].p.fn \in {"script", "prompt"} /\ vs[1].p.at = 0 /\ vs[1].top = 0
    BY <1>2, <1>4
  <2> HIDE DEF vs
  <2>2. Acts(stack', Settled', vs, 1) = <<Stack!Activation(Stack!Script, 0, <<>>)>>
    BY <2>1, Nothing
  <2> QED BY <1>3, <2>2 DEF vs
<1> QED BY <1>5 DEF Stack!Restart, Stack!Init, Stack!Activation, Stack!Script

LEMMA UnseenActs ==
  ASSUME NEW us, NEW n, Reads(us, n), UNCHANGED vm
  PROVE  Activations' = acts
<1>1. Activations' = Acts(stack', Settled', us, n)
  BY Unchanged, NextReads DEF Reads
<1>2. stack' = stack /\ natives' = natives /\ ip' = ip
  BY DEF vm
<1>3. Settled' = Settled
  BY <1>2 DEF Settled, Waiting, native, After, Elem
<1> QED BY <1>1, <1>2, <1>3 DEF Reads

LEMMA DefineVarActs ==
  ASSUME NEW us, NEW n, Reads(us, n), NEW x \in Var, DefineVar(x)
  PROVE  Stack!Evaluate(Obj) \/ acts' = acts
<1>1. /\ Shape /\ Frames(stack, natives, us, n) /\ us[n] = Running /\ Watch
      /\ InScript /\ ~ InNative /\ InCode /\ stack = <<>>
      /\ natives' = natives /\ fp' = fp /\ ip' = ip
      /\ stack' = IF inside THEN <<Val(Obj)>> ELSE <<>>
  BY DEF DefineVar, InCode, InScript, Reads
<1>2. /\ Stack!top = Last(acts) /\ Stack!top.vals = CodeVals /\ Stack!InCode
      /\ CodeVals \in Seq(Value) /\ Len(CodeVals) = 0
  <2>1. sp = 0 /\ Base = 0
    BY <1>1 DEF sp, Base
  <2> QED BY <2>1, <1>1, TopIsCode DEF Reads
<1>3. Base = 0 /\ ip \in CodePos /\ Val(Obj) \in ValCell /\ ValCell \subseteq Cell /\ Val(Obj).num = Obj
      /\ STACK_SIZE \in Nat \ {0} /\ Obj \in Value
  BY <1>1, CodeRuns, Cells, Sizes DEF Value
<1>4. Works(us, n, stack', ip')
  <2>1. CASE inside
    <3>1. stack' \in Seq(Cell) /\ Len(stack') = 1 /\ stack'[1] = Val(Obj)
      BY <2>1, <1>1, <1>3
    <3>2. /\ Len(stack') <= STACK_SIZE /\ Base <= Len(stack')
          /\ (\A j \in 1 .. Base : FALSE) /\ \A j \in Base + 1 .. Len(stack') : j = 1
      BY <3>1, <1>3
    <3> QED BY <3>1, <3>2, <1>1, <1>3 DEF Works
  <2>2. CASE ~ inside
    <3>1. stack' \in Seq(Cell) /\ Len(stack') = 0
      BY <2>2, <1>1
    <3>2. /\ Len(stack') <= STACK_SIZE /\ Base <= Len(stack')
          /\ (\A j \in 1 .. Base : FALSE) /\ \A j \in Base + 1 .. Len(stack') : FALSE
      BY <3>1, <1>3
    <3> QED BY <3>1, <3>2, <1>1, <1>3 DEF Works
  <2> QED BY <2>1, <2>2
<1>5. CASE inside
  <2> DEFINE vals == Append(CodeVals, Obj)
  <2>1. vals \in Seq(Value) /\ Len(vals) = 1 /\ vals[1] = Obj
    <3>1. Len(CodeVals) + 1 = 1
      BY <1>2
    <3> QED BY <3>1, <1>2, <1>3, AppendProperties
  <2>2. Len(stack') = 1 /\ stack'[1].num = Obj
    BY <1>1, <1>3, <1>5
  <2> HIDE DEF vals
  <2>3. Len(vals) = Len(stack') - Base /\ \A j \in 1 .. Len(stack') - Base : stack'[Base + j].num = vals[j]
    <3>1. Len(stack') - Base = 1 /\ Base + 1 = 1 /\ \A j \in 1 .. 1 : j = 1
      BY <1>3, <2>2
    <3> QED BY <3>1, <2>1, <2>2
  <2>4. acts' = Append(Front(acts), Stack!Activation(ip.fn, ip'.at, vals))
    BY <1>1, <1>4, <2>1, <2>3, Worker
  <2>5. Stack!Push(Obj) = Stack!Activation(ip.fn, ip.at, vals)
    BY <1>1, <1>2, TopWith DEF Stack!Push, vals
  <2> QED BY <1>1, <1>2, <2>4, <2>5, Ends DEF Stack!Evaluate, Stack!Becomes
<1>6. CASE ~ inside
  <2>1. Len(stack') - Base = 0
    BY <1>1, <1>3, <1>6
  <2>2. Len(CodeVals) = Len(stack') - Base /\ \A j \in 1 .. Len(stack') - Base : stack'[Base + j].num = CodeVals[j]
    BY <1>2, <2>1
  <2> QED BY <1>1, <1>2, <1>4, <2>2, Worker
<1> QED BY <1>5, <1>6

(* acts is what Activations reads.                                         *)
Linked == CallInv /\ acts = Activations

LEMMA LinkedReads ==
  ASSUME Linked
  PROVE  \E n : \E us : Standing(us, n) /\ Reads(us, n)
<1>1. PICK n \in Nat : \E us \in [1 .. n -> Views(stack, natives)] : Stands(us, n)
  BY DEF Linked, CallInv
<1>2. PICK us \in [1 .. n -> Views(stack, natives)] : Stands(us, n)
  BY <1>1
<1>3. Standing(us, n)
  BY <1>2 DEF Standing, Linked, CallInv
<1>4. Frames(stack, natives, us, n) /\ us[n] = Running /\ Shape
  BY <1>3, StandingHas
<1>5. Activations = Acts(stack, Settled, us, n)
  BY <1>4, Mapped DEF Shape, Maps
<1>6. Reads(us, n)
  BY <1>4, <1>5 DEF Reads, Linked
<1> QED BY <1>3, <1>6

LEMMA LinkedInit == Init => Linked /\ Stack!Init
<1> SUFFICES ASSUME Init PROVE Linked /\ Stack!Init
  OBVIOUS
<1>1. Linked
  BY InvInit DEF Init, Linked
<1>2. PICK n, us : Reads(us, n)
  BY <1>1, LinkedReads
<1>3. n = 1 /\ us[1] = [p |-> Prompt, f |-> fp, top |-> 0, n |-> 0]
  <2>1. ip = Prompt
    BY DEF Init
  <2> QED BY <2>1, <1>2, AtThePrompt DEF Reads
<1>4. us[1].p.fn \in {"script", "prompt"} /\ us[1].p.at = 0 /\ us[1].top = 0
  BY <1>3 DEF Prompt, At
<1>5. acts = Acts(stack, Settled, us, 1)
  BY <1>2, <1>3 DEF Reads
<1>6. acts = <<Stack!Activation(Stack!Script, 0, <<>>)>>
  BY <1>4, <1>5, Nothing
<1> QED BY <1>1, <1>6 DEF Stack!Init

(* Each step as CallStack may take it.                                     *)
Nests == Stack!Next \/ acts' = acts

LEMMA NestsNext == Linked /\ [Next]_allvars => Linked' /\ [Stack!Next]_acts
<1> SUFFICES ASSUME Linked, [Next]_allvars PROVE Linked' /\ Nests
  BY DEF Nests
<1>0. PICK n, us : Standing(us, n) /\ Reads(us, n)
  BY LinkedReads
<1>1. Linked'
  <2>1. CallInv'
    BY InvNext DEF Linked
  <2>2. acts' = Activations'
    <3>1. CASE UNCHANGED allvars
      BY <3>1, <1>0, UnseenActs DEF allvars
    <3>2. CASE Next
      BY <3>2 DEF Next, Watch, Evaluate, Discard, Assign, Enter, Leave, Call, CallByName, Return,
                  Apply, Callback, Collect, Finish, StdCallback, StartLine, EndLine, DefineVar,
                  CompileError, RuntimeError
    <3> QED BY <3>1, <3>2
  <2> QED BY <2>1, <2>2 DEF Linked
<1> SUFFICES Nests
  BY <1>1
<1>2. ASSUME NEW v \in Literals \cup {Obj} \cup Locals, Evaluate(v) PROVE Nests
  BY <1>0, <1>2, EvaluateActs DEF Nests, Stack!Next
<1>3. CASE Discard
  BY <1>0, <1>3, DiscardActs DEF Nests, Stack!Next
<1>4. ASSUME NEW i \in 1 .. sp, Assign(i) PROVE Nests
  BY <1>0, <1>4, AssignActs DEF Nests, Stack!Next
<1>5. CASE Enter \/ Leave
  BY <1>0, <1>5, BlockActs DEF Nests
<1>6. ASSUME NEW f \in Fn, Call(f) PROVE Nests
  BY <1>0, <1>6, CallActs DEF Nests, Stack!Next
<1>7. ASSUME NEW f \in Fn, NEW args \in [1 .. Arity[f] -> Literals], CallByName(f, args) PROVE Nests
  BY <1>0, <1>7, CallByNameActs DEF Nests, Stack!Next
<1>8. CASE Return
  BY <1>0, <1>8, ReturnActs DEF Nests, Stack!Next
<1>9. ASSUME NEW fn \in Native, NEW l \in Lists, NEW t \in Targets(fn), NEW p \in ParamsOf(fn),
             Apply(fn, t, l, p)
      PROVE  Nests
  BY <1>0, <1>9, ApplyActs DEF Nests, Stack!Next
<1>10. CASE Callback
  BY <1>0, <1>10, CallbackActs DEF Nests, Stack!Next
<1>11. CASE Collect
  BY <1>0, <1>11, CollectActs DEF Nests
<1>12. CASE Finish
  BY <1>0, <1>12, FinishActs DEF Nests, Stack!Next
<1>13. ASSUME NEW v \in Num, StdCallback(v) PROVE Nests
  BY <1>0, <1>13, StdCallbackActs DEF Nests, Stack!Next
<1>14. CASE StartLine \/ EndLine \/ RuntimeError
  BY <1>0, <1>14, LineActs DEF Nests, Stack!Next
<1>15. ASSUME NEW x \in Var, DefineVar(x) PROVE Nests
  <2>1. Obj \in Stack!Value
    BY DEF Stack!Value, Stack!Obj, Obj
  <2> QED BY <2>1, <1>0, <1>15, DefineVarActs DEF Nests, Stack!Next
<1>16. CASE CompileError
  <2>1. UNCHANGED vm /\ Watch
    BY <1>16 DEF CompileError
  <2> QED BY <2>1, <1>0, UnseenActs DEF Watch, Nests
<1>17. CASE UNCHANGED allvars
  BY <1>17 DEF allvars, Nests
<1> QED BY <1>2, <1>3, <1>4, <1>5, <1>6, <1>7, <1>8, <1>9, <1>10, <1>11, <1>12, <1>13,
           <1>14, <1>15, <1>16, <1>17 DEF Next

(* Calls are a stack of activations: what the frames in the one value      *)
(* stack and the natives on the C stack hold goes through the steps of     *)
(* CallStack only.  A return reaches its own caller, whose values are all  *)
(* there with the result on top; a native collects the results of its own  *)
(* callbacks in order and goes on in the code that called it; an error or  *)
(* the end of a line leaves nothing (OP_CALL, OP_RET, call, run_vm_from).  *)
THEOREM CallsAreNested ==
  Spec => CallsNest
<1>1. Init => Linked /\ Stack!Init
  BY LinkedInit
<1>2. Linked /\ [Next]_allvars => Linked' /\ [Stack!Next]_acts
  BY NestsNext
<1> QED BY <1>1, <1>2, PTL DEF Spec, CallsNest, Stack!Spec
=============================================================================
