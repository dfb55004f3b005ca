---------------------------- MODULE ArenasProofs ----------------------------
(***************************************************************************)
(* Proofs about Arenas, for every table size, generation width, arena      *)
(* capacity and bound.                                                     *)
(***************************************************************************)
EXTENDS Arenas, TLAPS

-----------------------------------------------------------------------------
(* Facts about the operators of ArenaTable.                                *)

(* init_arena steps through the generations 1 .. GEN_MOD - 1 and around.   *)
LEMMA NextGenValue ==
  ASSUME NEW g \in 0 .. GEN_MOD - 1
  PROVE  /\ NextGen(g) = IF g = GEN_MOD - 1 THEN 1 ELSE g + 1
         /\ NextGen(g) \in 1 .. GEN_MOD - 1
<1>1. CASE g = GEN_MOD - 1
  <2>1. (g + 1) % GEN_MOD = 0
    BY <1>1, ArenaConstants
  <2> QED BY <2>1, <1>1, ArenaConstants DEF NextGen
<1>2. CASE g # GEN_MOD - 1
  <2>1. (g + 1) % GEN_MOD = g + 1
    BY <1>2, ArenaConstants
  <2> QED BY <2>1, <1>2, ArenaConstants DEF NextGen
<1> QED BY <1>1, <1>2

(* init_arena leaves a usable, empty slot one generation on.               *)
LEMMA InitArenaValue ==
  ASSUME NEW a \in Arena
  PROVE  /\ InitArena(a, Block) \in Arena
         /\ InitArena(a, Block).active
         /\ InitArena(a, Block).gen = NextGen(a.gen)
         /\ InitArena(a, Block).gen # 0
         /\ InitArena(a, Block).head = 0
         /\ InitArena(a, Block).mem # NULL
<1>1. NextGen(a.gen) \in 1 .. GEN_MOD - 1
  BY NextGenValue DEF Arena
<1> QED BY <1>1, ArenaConstants DEF Arena, InitArena, NULL, Block

(* free_arena leaves the generation and nothing else.                      *)
LEMMA FreeArenaValue ==
  ASSUME NEW a \in Arena
  PROVE  /\ FreeArena(a) \in Arena
         /\ ~FreeArena(a).active
         /\ FreeArena(a).gen = a.gen
         /\ FreeArena(a).mem = NULL
BY ArenaConstants DEF Arena, FreeArena, NULL, Block

(* A slot as the memset of a cold vm_init leaves it is a well-formed arena. *)
LEMMA BlankArena == Blank \in Arena /\ ~Blank.active /\ Blank.mem = NULL
BY ArenaConstants DEF Arena, Blank, NULL, Block

(* The table always has a slot 0, the main heap. *)
LEMMA ZeroIsArena == 0 \in ArenaId /\ ArenaId \subseteq Int
BY ArenaConstants DEF ArenaId

-----------------------------------------------------------------------------
(* The invariants, strengthened until every step keeps them.               *)

(* A pointer never carries generation 0: heap_alloc packs the generation   *)
(* of an active slot.                                                      *)
ActiveHasGeneration == \A i \in ArenaId : arenas[i].active => arenas[i].gen # 0

(* Where d steps of NextGen lead from generation g, as long as d is less   *)
(* than a full lap.                                                        *)
Ahead(g, d) == IF g + d <= GEN_MOD - 1 THEN g + d ELSE g + d - (GEN_MOD - 1)

(* A slot now in generation g and epoch e is as many generations past the  *)
(* reference p as it is epochs, for a lap.                                 *)
Tracks(p, g, e) ==
  /\ p.epoch <= e
  /\ e - p.epoch < GEN_MOD - 1 => g = Ahead(p.gen, e - p.epoch)

GenerationTracksEpoch ==
  \A p \in ptrs : Tracks(p, arenas[p.arena].gen, epoch[p.arena])

BelowHead(p) == Live(p) => p.off + p.size <= arenas[p.arena].head

Apart(p, q) ==
  p # q /\ p.arena = q.arena /\ p.epoch = q.epoch =>
    p.off + p.size <= q.off \/ q.off + q.size <= p.off

ObjectLayout ==
  /\ \A p \in ptrs : BelowHead(p)
  /\ \A p, q \in ptrs : Apart(p, q)

TypeInv == TypeOK /\ ActiveHasGeneration

(* A cold VM is well formed. *)
LEMMA TypeInvInit == Init => TypeInv
<1> SUFFICES ASSUME Init PROVE TypeInv
  OBVIOUS
<1>1. arenas \in [ArenaId -> Arena]
  BY BlankArena, InitArenaValue DEF Init, Cold
<1>2. epoch \in [ArenaId -> Nat]
  BY DEF Init, ColdEpoch
<1>3. ActiveHasGeneration
  BY BlankArena, InitArenaValue DEF Init, Cold, ActiveHasGeneration
<1> QED BY <1>1, <1>2, <1>3, ZeroIsArena DEF Init, TypeInv, TypeOK

(* Every operation keeps the shape of the state, and no active slot has     *)
(* generation 0.                                                           *)
LEMMA TypeInvStep == TypeInv /\ [Next]_vars => TypeInv'
<1> SUFFICES ASSUME TypeInv, [Next]_vars PROVE TypeInv'
  OBVIOUS
<1> USE DEF TypeInv
<1>1. ASSUME NEW i \in RegionId, CreateRegion(i) PROVE TypeInv'
  <2>1. i \in ArenaId /\ arenas[i] \in Arena
    BY DEF RegionId, ArenaId, TypeOK
  <2>2. arenas' \in [ArenaId -> Arena]
    BY <1>1, <2>1, InitArenaValue DEF CreateRegion, Reinit, TypeOK
  <2>3. epoch' \in [ArenaId -> Nat]
    BY <1>1, <2>1 DEF CreateRegion, TypeOK
  <2>4. ActiveHasGeneration'
    BY <1>1, <2>1, InitArenaValue
       DEF CreateRegion, Reinit, TypeOK, ActiveHasGeneration
  <2> QED BY <1>1, <2>2, <2>3, <2>4 DEF CreateRegion, TypeOK
<1>2. ASSUME NEW i \in ArenaId, ClearRegion(i) PROVE TypeInv'
  <2>1. arenas' \in [ArenaId -> Arena]
    BY <1>2, FreeArenaValue DEF ClearRegion, TypeOK
  <2>2. ActiveHasGeneration'
    BY <1>2, FreeArenaValue DEF ClearRegion, TypeOK, ActiveHasGeneration
  <2> QED BY <1>2, <2>1, <2>2 DEF ClearRegion, TypeOK
<1>3. ASSUME NEW i \in ArenaId, SetRegion(i) PROVE TypeInv'
  BY <1>3 DEF SetRegion, TypeOK, ActiveHasGeneration
<1>4. ASSUME NEW how \in OpcodeOrNative, NEW slot \in ArenaId,
             NEW kind \in {"max_regions", "clear_main", "inactive",
                           "overflow", "stale"},
             Fail(how, kind, slot)
      PROVE  TypeInv'
  BY <1>4 DEF Fail, Fault, OpcodeOrNative, TypeOK, ActiveHasGeneration
<1>5. ASSUME NEW size \in Sizes, NEW keep \in SUBSET ptrs,
             HeapAlloc(size, keep)
      PROVE  TypeInv'
  <2> DEFINE lazy  == ~arenas[current].active
             table == IF lazy THEN Reinit(arenas, current) ELSE arenas
             now   == IF lazy THEN [epoch EXCEPT ![current] = @ + 1]
                      ELSE epoch
             a     == table[current]
             new   == [arena |-> current, gen |-> a.gen, off |-> a.head,
                       size |-> size, epoch |-> now[current]]
  <2>1. /\ table \in [ArenaId -> Arena]
        /\ now \in [ArenaId -> Nat]
        /\ \A i \in ArenaId : table[i].active => table[i].gen # 0
        /\ a.active
    BY InitArenaValue DEF TypeOK, Reinit, ActiveHasGeneration
  <2>2. /\ Fits(a, size)
        /\ arenas' = [table EXCEPT ![current].head = @ + size]
        /\ epoch' = now
        /\ ptrs' = keep \cup {new}
        /\ UNCHANGED <<current, status, fault>>
    BY <1>5 DEF HeapAlloc, Advance
  <2> HIDE DEF table, now
  <2>3. current \in ArenaId /\ a \in Arena /\ size \in Nat \ {0}
    BY <2>1, BoundConstants DEF TypeOK
  <2>4. a.head + size \in 0 .. MAX_HEAP - 1
    BY <2>2, <2>3, ArenaConstants DEF Fits, Advance, Arena
  <2>5. arenas' \in [ArenaId -> Arena]
    BY <2>1, <2>2, <2>3, <2>4 DEF Arena
  <2>6. ActiveHasGeneration'
    BY <2>1, <2>2, <2>3 DEF ActiveHasGeneration
  <2>7. new \in Ptr
    BY <2>1, <2>2, <2>3, ArenaConstants DEF Ptr, Arena
  <2> QED BY <2>1, <2>2, <2>5, <2>6, <2>7 DEF TypeOK
<1>6. CASE Recover
  BY <1>6 DEF Recover, TypeOK, ActiveHasGeneration
<1>7. CASE SoftInit
  <2>1. arenas' \in [ArenaId -> Arena]
    BY <1>7, ZeroIsArena, InitArenaValue, FreeArenaValue DEF SoftInit, TypeOK
  <2>2. ActiveHasGeneration'
    BY <1>7, ZeroIsArena, InitArenaValue, FreeArenaValue
       DEF SoftInit, TypeOK, ActiveHasGeneration
  <2> QED BY <1>7, <2>1, <2>2, ZeroIsArena DEF SoftInit, TypeOK
<1>8. CASE Cleanup
  <2>1. arenas' \in [ArenaId -> Arena] /\ ActiveHasGeneration'
    BY <1>8, FreeArenaValue DEF Cleanup, TypeOK, ActiveHasGeneration
  <2> QED BY <1>8, <2>1 DEF Cleanup, TypeOK
<1>9. CASE ColdInit
  <2>1. arenas' \in [ArenaId -> Arena] /\ ActiveHasGeneration'
    BY <1>9, BlankArena, InitArenaValue DEF ColdInit, Cold, ActiveHasGeneration
  <2> QED BY <1>9, <2>1, ZeroIsArena DEF ColdInit, ColdEpoch, TypeOK
<1>10. CASE UNCHANGED vars
  BY <1>10 DEF vars, TypeOK, ActiveHasGeneration
<1>11. /\ "raised" \in OpcodeOrNative /\ "exited" \in OpcodeOrNative
       /\ current \in ArenaId /\ \A p \in ptrs : p.arena \in ArenaId
  BY DEF OpcodeOrNative, TypeOK, Ptr
<1> QED
  BY <1>1, <1>2, <1>3, <1>4, <1>5, <1>6, <1>7, <1>8, <1>9, <1>10, <1>11,
     ZeroIsArena
     DEF Next, CreateRegionFull, ClearMainHeap, SetInactiveRegion,
         HeapOverflow, StaleAccess

-----------------------------------------------------------------------------
(* The generation check.                                                   *)

(* One more initialisation keeps the distance between a reference and its  *)
(* slot equal in generations and in epochs.                                *)
LEMMA TracksNext ==
  ASSUME NEW p \in Ptr, NEW g \in 0 .. GEN_MOD - 1, NEW e \in Nat,
         Tracks(p, g, e)
  PROVE  Tracks(p, NextGen(g), e + 1)
BY NextGenValue, ArenaConstants DEF Tracks, Ahead, Ptr

(* Every operation keeps each reference a known number of generations       *)
(* behind its slot.                                                        *)
LEMMA TracksStep ==
  TypeInv /\ GenerationTracksEpoch /\ [Next]_vars => GenerationTracksEpoch'
<1> SUFFICES ASSUME TypeInv, GenerationTracksEpoch, [Next]_vars
             PROVE  GenerationTracksEpoch'
  OBVIOUS
<1> USE DEF TypeInv, GenerationTracksEpoch
<1>1. \A p \in ptrs : /\ p \in Ptr /\ p.arena \in ArenaId
                      /\ arenas[p.arena] \in Arena
                      /\ arenas[p.arena].gen \in 0 .. GEN_MOD - 1
                      /\ epoch[p.arena] \in Nat
  BY DEF TypeOK, Ptr, Arena
<1>2. ASSUME NEW i \in RegionId, CreateRegion(i) PROVE GenerationTracksEpoch'
  <2>1. SUFFICES ASSUME NEW p \in ptrs
                 PROVE  Tracks(p, arenas'[p.arena].gen, epoch'[p.arena])
    BY <1>2 DEF CreateRegion
  <2>2. CASE p.arena = i
    <3>1. /\ arenas'[i].gen = NextGen(arenas[i].gen)
          /\ epoch'[i] = epoch[i] + 1
      BY <1>1, <1>2, <2>2, InitArenaValue DEF CreateRegion, Reinit, TypeOK
    <3> QED BY <1>1, <2>2, <3>1, TracksNext
  <2>3. CASE p.arena # i
    BY <1>1, <1>2, <2>3 DEF CreateRegion, Reinit, TypeOK
  <2> QED BY <2>2, <2>3
<1>3. ASSUME NEW i \in ArenaId, ClearRegion(i) PROVE GenerationTracksEpoch'
  BY <1>1, <1>3, FreeArenaValue DEF ClearRegion, TypeOK
<1>4. ASSUME NEW size \in Sizes, NEW keep \in SUBSET ptrs,
             HeapAlloc(size, keep)
      PROVE  GenerationTracksEpoch'
  <2> DEFINE lazy  == ~arenas[current].active
             table == IF lazy THEN Reinit(arenas, current) ELSE arenas
             now   == IF lazy THEN [epoch EXCEPT ![current] = @ + 1]
                      ELSE epoch
             new   == [arena |-> current, gen |-> table[current].gen,
                       off |-> table[current].head,
                       size |-> size, epoch |-> now[current]]
  <2>1. /\ current \in ArenaId
        /\ table \in [ArenaId -> Arena]
        /\ now \in [ArenaId -> Nat]
        /\ table[current].gen \in 1 .. GEN_MOD - 1
    BY InitArenaValue DEF TypeOK, Reinit, ActiveHasGeneration, Arena
  <2>2. \A p \in ptrs : Tracks(p, table[p.arena].gen, now[p.arena])
    <3>1. SUFFICES ASSUME NEW p \in ptrs, lazy, p.arena = current
                   PROVE  Tracks(p, table[p.arena].gen, now[p.arena])
      BY <1>1, <2>1 DEF Reinit, TypeOK
    <3>2. /\ table[current].gen = NextGen(arenas[current].gen)
          /\ now[current] = epoch[current] + 1
      BY <2>1, <3>1, InitArenaValue DEF Reinit, TypeOK
    <3> QED BY <1>1, <3>1, <3>2, TracksNext
  <2>3. Tracks(new, table[current].gen, now[current])
    BY <2>1, ArenaConstants DEF Tracks, Ahead
  <2>4. /\ arenas' = [table EXCEPT ![current].head = @ + size]
        /\ epoch' = now
        /\ ptrs' = keep \cup {new}
    BY <1>4 DEF HeapAlloc, Advance
  <2> HIDE DEF table, now
  <2>5. \A i \in ArenaId : arenas'[i].gen = table[i].gen
    BY <2>1, <2>4
  <2>6. new.arena = current
    OBVIOUS
  <2> QED BY <1>1, <2>1, <2>2, <2>3, <2>4, <2>5, <2>6
<1>5. CASE SoftInit
  <2>1. SUFFICES ASSUME NEW p \in ptrs
                 PROVE  Tracks(p, arenas'[p.arena].gen, epoch'[p.arena])
    BY <1>5 DEF SoftInit
  <2>2. CASE p.arena = 0
    <3>1. /\ arenas'[0].gen = NextGen(arenas[0].gen)
          /\ epoch'[0] = epoch[0] + 1
      BY <1>1, <1>5, <2>2, InitArenaValue DEF SoftInit, TypeOK
    <3> QED BY <1>1, <2>2, <3>1, TracksNext
  <2>3. CASE p.arena # 0
    BY <1>1, <1>5, <2>3, FreeArenaValue DEF SoftInit, TypeOK
  <2> QED BY <2>2, <2>3
<1>6. CASE Cleanup
  BY <1>1, <1>6, FreeArenaValue DEF Cleanup, TypeOK
<1>7. CASE ColdInit
  BY <1>7 DEF ColdInit
<1>8. ASSUME UNCHANGED <<arenas, epoch, ptrs>> PROVE GenerationTracksEpoch'
  BY <1>8
<1> QED
  BY <1>2, <1>3, <1>4, <1>5, <1>6, <1>7, <1>8
     DEF Next, CreateRegionFull, ClearMainHeap, SetRegion, SetInactiveRegion,
         HeapOverflow, StaleAccess, Fail, Recover, vars

-----------------------------------------------------------------------------
(* The layout of the objects.                                              *)

(* Every operation keeps reachable objects apart and below the head.        *)
LEMMA LayoutStep ==
  TypeInv /\ GenerationTracksEpoch /\ ObjectLayout /\ [Next]_vars
    => ObjectLayout'
<1> SUFFICES ASSUME TypeInv, GenerationTracksEpoch, ObjectLayout, [Next]_vars
             PROVE  ObjectLayout'
  OBVIOUS
<1> USE DEF TypeInv, ObjectLayout
<1>1. \A p \in ptrs : /\ p.arena \in ArenaId /\ p.size \in Nat
                      /\ p.off \in Nat /\ p.epoch \in Nat
                      /\ arenas[p.arena] \in Arena
                      /\ epoch[p.arena] \in Nat
                      /\ p.epoch <= epoch[p.arena]
  <2>1. SUFFICES ASSUME NEW p \in ptrs
                 PROVE  /\ p.arena \in ArenaId /\ p.size \in Nat
                        /\ p.off \in Nat /\ p.epoch \in Nat
                        /\ arenas[p.arena] \in Arena
                        /\ epoch[p.arena] \in Nat
                        /\ p.epoch <= epoch[p.arena]
    OBVIOUS
  <2>2. p \in Ptr
    BY DEF TypeOK
  <2>3. p.epoch <= epoch[p.arena]
    BY DEF GenerationTracksEpoch, Tracks
  <2>4. p.size \in Sizes /\ p.off \in 0 .. MAX_HEAP - 1
    BY <2>2 DEF Ptr
  <2>5. p.off \in Nat /\ p.size \in Nat
    <3>1. \A n \in Sizes : n \in Nat
      BY BoundConstants
    <3>2. \A n \in 0 .. MAX_HEAP - 1 : n \in Nat
      BY ArenaConstants
    <3> QED BY <2>4, <3>1, <3>2
  <2> QED BY <2>2, <2>3, <2>5 DEF Ptr, TypeOK
<1>2. ASSUME NEW i \in RegionId, CreateRegion(i) PROVE ObjectLayout'
  <2>1. \A p \in ptrs : BelowHead(p)'
    BY <1>1, <1>2 DEF CreateRegion, Reinit, TypeOK, BelowHead, Live
  <2> QED BY <1>2, <2>1 DEF CreateRegion, Apart
<1>3. ASSUME NEW i \in ArenaId, ClearRegion(i) PROVE ObjectLayout'
  <2>1. \A p \in ptrs : BelowHead(p)'
    BY <1>1, <1>3, FreeArenaValue
       DEF ClearRegion, TypeOK, BelowHead, Live
  <2> QED BY <1>3, <2>1 DEF ClearRegion, Apart
<1>4. ASSUME NEW size \in Sizes, NEW keep \in SUBSET ptrs,
             HeapAlloc(size, keep)
      PROVE  ObjectLayout'
  <2> DEFINE lazy  == ~arenas[current].active
             table == IF lazy THEN Reinit(arenas, current) ELSE arenas
             now   == IF lazy THEN [epoch EXCEPT ![current] = @ + 1]
                      ELSE epoch
             new   == [arena |-> current, gen |-> table[current].gen,
                       off |-> table[current].head,
                       size |-> size, epoch |-> now[current]]
  <2>1. /\ current \in ArenaId /\ size \in Nat
        /\ table \in [ArenaId -> Arena]
        /\ now \in [ArenaId -> Nat]
        /\ table[current].head \in Nat
    BY InitArenaValue, BoundConstants, ArenaConstants DEF TypeOK, Reinit, Arena
  (* Objects of the slot's present epoch end below its head. *)
  <2>2. \A p \in ptrs : table[p.arena].active /\ p.epoch = now[p.arena]
                          => p.off + p.size <= table[p.arena].head
    BY <1>1, <2>1 DEF BelowHead, Live, Reinit, TypeOK
  <2>3. table[current].active
    BY <2>1, InitArenaValue DEF Reinit, TypeOK
  <2>4. /\ arenas' = [table EXCEPT ![current].head = @ + size]
        /\ epoch' = now
        /\ ptrs' = keep \cup {new}
    BY <1>4 DEF HeapAlloc, Advance
  <2> HIDE DEF table, now
  <2>5. \A i \in ArenaId : /\ arenas'[i].active = table[i].active
                           /\ arenas'[i].head = IF i = current
                                THEN table[i].head + size ELSE table[i].head
    BY <2>1, <2>4
  <2>6. \A p \in keep : BelowHead(p)'
    BY <1>1, <2>1, <2>2, <2>4, <2>5 DEF BelowHead, Live, Arena
  <2>7. PICK n : n = new
    OBVIOUS
  <2>8. BelowHead(n)'
    BY <2>1, <2>4, <2>5, <2>7 DEF BelowHead
  <2>9. \A p \in keep : Apart(p, n) /\ Apart(n, p)
    BY <1>1, <2>1, <2>2, <2>3, <2>7 DEF Apart
  <2>10. \A p \in ptrs' : p \in keep \/ p = n
    BY <2>4, <2>7
  <2>11. \A p, q \in ptrs' : Apart(p, q)
    BY <2>9, <2>10 DEF Apart
  <2> QED BY <2>6, <2>8, <2>10, <2>11
<1>5. CASE SoftInit
  <2>1. \A p \in ptrs : BelowHead(p)'
    BY <1>1, <1>5, FreeArenaValue, ZeroIsArena
       DEF SoftInit, TypeOK, BelowHead, Live
  <2> QED BY <1>5, <2>1 DEF SoftInit, Apart
<1>6. CASE Cleanup
  <2>1. \A p \in ptrs : BelowHead(p)'
    BY <1>1, <1>6, FreeArenaValue DEF Cleanup, TypeOK, BelowHead, Live
  <2> QED BY <1>6, <2>1 DEF Cleanup, Apart
<1>7. CASE ColdInit
  BY <1>7 DEF ColdInit
<1>8. ASSUME UNCHANGED <<arenas, epoch, ptrs>> PROVE ObjectLayout'
  BY <1>8 DEF BelowHead, Live, Apart
<1> QED
  BY <1>2, <1>3, <1>4, <1>5, <1>6, <1>7, <1>8
     DEF Next, CreateRegionFull, ClearMainHeap, SetRegion, SetInactiveRegion,
         HeapOverflow, StaleAccess, Fail, Recover, vars

-----------------------------------------------------------------------------
(* What memory backs, and the main heap.                                   *)

MemoryInv == ResolvedHasMemory /\ MainHeapStays

(* Every operation keeps memory and `active` together, and the main heap up. *)
LEMMA MemoryStep == TypeInv /\ MemoryInv /\ [Next]_vars => MemoryInv'
<1> SUFFICES ASSUME TypeInv, MemoryInv, [Next]_vars PROVE MemoryInv'
  OBVIOUS
<1> USE DEF TypeInv, MemoryInv, ResolvedHasMemory, MainHeapStays
<1>1. ASSUME NEW i \in RegionId, CreateRegion(i) PROVE MemoryInv'
  <2>1. i \in ArenaId /\ InitArena(arenas[i], Block).active
          /\ InitArena(arenas[i], Block).mem # NULL
    BY InitArenaValue DEF RegionId, ArenaId, TypeOK
  <2> QED BY <1>1, <2>1 DEF CreateRegion, Reinit, TypeOK
<1>2. ASSUME NEW i \in ArenaId, ClearRegion(i) PROVE MemoryInv'
  BY <1>2, FreeArenaValue DEF ClearRegion, TypeOK
<1>3. ASSUME NEW size \in Sizes, NEW keep \in SUBSET ptrs,
             HeapAlloc(size, keep)
      PROVE  MemoryInv'
  <2> DEFINE table == IF ~arenas[current].active
                      THEN Reinit(arenas, current) ELSE arenas
  <2>1. /\ current \in ArenaId
        /\ table \in [ArenaId -> Arena]
        /\ \A i \in ArenaId : table[i].active <=> table[i].mem # NULL
        /\ \A i \in ArenaId : arenas[i].active => table[i].active
    BY InitArenaValue DEF TypeOK, Reinit
  <2>2. arenas' = [table EXCEPT ![current].head = @ + size]
    BY <1>3 DEF HeapAlloc, Advance
  <2> HIDE DEF table
  <2>3. \A i \in ArenaId : /\ arenas'[i].active = table[i].active
                           /\ arenas'[i].mem = table[i].mem
    BY <2>1, <2>2 DEF Arena
  <2>4. status' = status
    BY <1>3 DEF HeapAlloc, Advance
  <2> QED BY <2>1, <2>3, <2>4, ZeroIsArena
<1>4. CASE SoftInit
  BY <1>4, ZeroIsArena, InitArenaValue, FreeArenaValue DEF SoftInit, TypeOK
<1>5. CASE Cleanup
  BY <1>5, FreeArenaValue DEF Cleanup, TypeOK
<1>6. CASE ColdInit
  BY <1>6, ZeroIsArena, BlankArena, InitArenaValue DEF ColdInit, Cold
<1>7. ASSUME UNCHANGED arenas, Running \/ status = "raised" \/ UNCHANGED status
      PROVE  MemoryInv'
  BY <1>7 DEF Running
<1> QED
  BY <1>1, <1>2, <1>3, <1>4, <1>5, <1>6, <1>7
     DEF Next, CreateRegionFull, ClearMainHeap, SetRegion, SetInactiveRegion,
         HeapOverflow, StaleAccess, Fail, Recover, vars

-----------------------------------------------------------------------------
(* The theorems.                                                           *)

IInv == TypeInv /\ GenerationTracksEpoch /\ ObjectLayout /\ MemoryInv

(* A cold VM satisfies the inductive invariant. *)
LEMMA IInvInit == Init => IInv
<1> SUFFICES ASSUME Init PROVE IInv
  OBVIOUS
<1>1. GenerationTracksEpoch /\ ObjectLayout
  BY DEF Init, GenerationTracksEpoch, ObjectLayout
<1>2. MemoryInv
  BY ZeroIsArena, BlankArena, InitArenaValue
     DEF Init, Cold, MemoryInv, ResolvedHasMemory, MainHeapStays
<1> QED BY <1>1, <1>2, TypeInvInit DEF IInv

(* IInv holds in every state of every behaviour. *)
THEOREM Invariance == Spec => []IInv
<1>1. IInv /\ [Next]_vars => IInv'
  BY TypeInvStep, TracksStep, LayoutStep, MemoryStep DEF IInv
<1> QED BY <1>1, IInvInit, PTL DEF Spec

(* The state of Arenas keeps its shape under every operation.              *)
THEOREM TypeCorrect == Spec => []TypeOK
<1>1. IInv => TypeOK
  BY DEF IInv, TypeInv
<1> QED BY <1>1, Invariance, PTL

(* The generation check of vm_resolve_ptr refuses every reference to an    *)
(* earlier life of its slot until a full lap of generations has passed.    *)
THEOREM StaleRefused == Spec => []StaleNeverResolves
<1>1. IInv => StaleNeverResolves
  <2>1. SUFFICES ASSUME IInv, NEW p \in ptrs, Resolves(arenas, p),
                        p.epoch # epoch[p.arena],
                        epoch[p.arena] - p.epoch < GEN_MOD - 1
                 PROVE  FALSE
    <3>1. ASSUME IInv, NEW p \in ptrs
          PROVE  epoch[p.arena] - p.epoch \in Int
      BY <3>1 DEF IInv, TypeInv, TypeOK, Ptr
    <3> QED BY <3>1, ArenaConstants DEF StaleNeverResolves
  <2>2. p \in Ptr /\ epoch[p.arena] \in Nat
    BY <2>1 DEF IInv, TypeInv, TypeOK, Ptr
  <2>3. /\ p.epoch <= epoch[p.arena]
        /\ arenas[p.arena].gen = Ahead(p.gen, epoch[p.arena] - p.epoch)
    BY <2>1 DEF IInv, GenerationTracksEpoch, Tracks
  <2>4. arenas[p.arena].gen = p.gen
    BY <2>1 DEF Resolves
  <2> QED BY <2>1, <2>2, <2>3, <2>4, ArenaConstants DEF Ahead, Ptr
<1> QED BY <1>1, Invariance, PTL

(* heap_alloc never hands out a cell of an object the program can reach.   *)
THEOREM ObjectsDisjoint == Spec => []LiveObjectsDisjoint
<1>1. IInv => LiveObjectsDisjoint
  BY DEF IInv, ObjectLayout, BelowHead, Apart, LiveObjectsDisjoint, Live
<1> QED BY <1>1, Invariance, PTL

(* An address is computed only in memory that exists.                      *)
THEOREM MemoryBacked == Spec => []ResolvedHasMemory
<1>1. IInv => ResolvedHasMemory
  BY DEF IInv, MemoryInv
<1> QED BY <1>1, Invariance, PTL

(* The main heap exists as long as the VM is up: neither clear nor any     *)
(* vm_init takes it away.                                                  *)
THEOREM MainHeapKept == Spec => []MainHeapStays
<1>1. IInv => MainHeapStays
  BY DEF IInv, MemoryInv
<1> QED BY <1>1, Invariance, PTL
=============================================================================
