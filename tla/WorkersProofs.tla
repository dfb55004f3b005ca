--------------------------- MODULE WorkersProofs ----------------------------
(***************************************************************************)
(* Proofs about Workers, for any number of slots, regions and blocks.      *)
(* Under any Rules: the shape of the state, that no block of memory is     *)
(* held twice, and that a worker declared complete holds none.  Under the  *)
(* rules named in each theorem: that no block is lost, and that references *)
(* follow their objects.                                                   *)
(***************************************************************************)
EXTENDS Workers, FiniteSetTheorems, TLAPS

Table == [ArenaId -> ArenaRec]

(* What is left of init_arena's `memory` and the pointer's generation: a   *)
(* slot with memory was initialised, wherever it is.                       *)
HasGeneration(a) == a.mem # NULL => a.gen # 0

(* The memory a table cell points to, and that a worker slot points to     *)
(* while it, and not the thread's table, stands for the region.            *)
Mem(v, i)  == tab[v][i].mem
SlotMem(s) == workers[s].arena.mem
Keeps(s)   == workers[s].active /\ pc[s] \notin {"running", "returned"}

(* No two places hold one block, and what they hold was not freed.         *)
OncePerTable ==
  \A v, w \in VM, i, j \in ArenaId :
    Mem(v, i) # NULL /\ Mem(v, i) = Mem(w, j) => v = w /\ i = j

OncePerSlot ==
  \A s, t \in Slot :
    Keeps(s) /\ Keeps(t) /\ SlotMem(s) # NULL /\ SlotMem(s) = SlotMem(t) => s = t

TableOrSlot ==
  \A v \in VM, i \in ArenaId, s \in Slot :
    Keeps(s) /\ SlotMem(s) # NULL => Mem(v, i) # SlotMem(s)

HeldIsLive ==
  /\ \A v \in VM, i \in ArenaId : Mem(v, i) # NULL => Mem(v, i) \in live
  /\ \A s \in Slot : Keeps(s) /\ SlotMem(s) # NULL => SlotMem(s) \in live

(* A thread's slot stays its own until it was docked. *)
SlotTaken == \A s \in Slot : pc[s] # "none" => workers[s].active

(* Blocks above `blocks` were never allocated. *)
Numbered == live \subseteq 1 .. blocks

Moves == Numbered /\ OncePerTable /\ OncePerSlot /\ TableOrSlot /\ HeldIsLive
         /\ SlotTaken

-----------------------------------------------------------------------------
(* Facts about the operators of ArenaTable.                                *)

(* init_arena never leaves a slot in generation 0. *)
LEMMA NextGenRange ==
  ASSUME NEW g \in 0 .. GEN_MOD - 1
  PROVE  NextGen(g) \in 1 .. GEN_MOD - 1
<1>1. CASE g = GEN_MOD - 1
  <2>1. (g + 1) % GEN_MOD = 0
    BY <1>1, ArenaConstants
  <2> QED BY <2>1, ArenaConstants DEF NextGen
<1>2. CASE g # GEN_MOD - 1
  <2>1. (g + 1) % GEN_MOD = g + 1
    BY <1>2, ArenaConstants
  <2> QED BY <2>1, <1>2, ArenaConstants DEF NextGen
<1> QED BY <1>1, <1>2

(* init_arena keeps the memory a slot has, and gives it some if it has none. *)
LEMMA InitArenaRec ==
  ASSUME NEW a \in ArenaRec, NEW b \in 1 .. MaxBlocks
  PROVE  /\ InitArena(a, b) \in ArenaRec
         /\ InitArena(a, b).mem = IF a.mem = NULL THEN b ELSE a.mem
         /\ InitArena(a, b).mem # NULL
         /\ InitArena(a, b).gen \in 1 .. GEN_MOD - 1
<1>1. a.gen \in 0 .. GEN_MOD - 1 /\ a.mem \in 0 .. MaxBlocks
  BY DEF ArenaRec
<1>2. NextGen(a.gen) \in 1 .. GEN_MOD - 1
  BY <1>1, NextGenRange
<1> QED BY <1>1, <1>2, ArenaConstants, WorkerConstants DEF InitArena, ArenaRec, NULL

(* free_arena takes the memory and leaves the generation. *)
LEMMA FreeArenaRec ==
  ASSUME NEW a \in ArenaRec
  PROVE  FreeArena(a) \in ArenaRec /\ FreeArena(a).mem = NULL
BY WorkerConstants DEF FreeArena, ArenaRec, NULL

(* A table as calloc leaves it. *)
LEMMA NoTableIsTable ==
  NoTable \in Table /\ \A i \in ArenaId : NoTable[i].mem = NULL
<1>1. Blank \in ArenaRec /\ Blank.mem = NULL
  BY ArenaConstants, WorkerConstants DEF Blank, ArenaRec, NULL
<1> QED BY <1>1 DEF NoTable, Table

(* vm_init leaves the VM with a main heap and no other memory: the one it  *)
(* had, or the new block.                                                  *)
LEMMA VmInitTable ==
  ASSUME NEW table \in Table, NEW b \in 1 .. MaxBlocks
  PROVE  /\ VmInit(table, b) \in Table
         /\ VmInit(table, b)[0].mem = IF table[0].mem = NULL THEN b ELSE table[0].mem
         /\ VmInit(table, b)[0].mem # NULL
         /\ \A i \in ArenaId \ {0} : VmInit(table, b)[i].mem = NULL
         /\ \A i \in ArenaId : HasGeneration(VmInit(table, b)[i])
<1> DEFINE old == IF table[0].mem = NULL THEN NoTable ELSE table
<1>1. 0 \in ArenaId
  BY ArenaConstants DEF ArenaId
<1>2. old \in Table
  BY NoTableIsTable
<1>3. old[0].mem = table[0].mem
  BY <1>1, NoTableIsTable
<1>4. \A i \in ArenaId : old[i] \in ArenaRec
  BY <1>2 DEF Table
<1>5. VmInit(table, b) = [i \in ArenaId |-> IF i = 0 THEN InitArena(old[0], b)
                                             ELSE FreeArena(old[i])]
  BY DEF VmInit
<1> HIDE DEF old
<1>6. /\ InitArena(old[0], b) \in ArenaRec
      /\ InitArena(old[0], b).mem = IF old[0].mem = NULL THEN b ELSE old[0].mem
      /\ InitArena(old[0], b).mem # NULL
      /\ InitArena(old[0], b).gen # 0
  BY <1>1, <1>4, InitArenaRec, ArenaConstants
<1>7. \A i \in ArenaId : FreeArena(old[i]) \in ArenaRec /\ FreeArena(old[i]).mem = NULL
  BY <1>4, FreeArenaRec
<1> QED BY <1>1, <1>3, <1>5, <1>6, <1>7 DEF Table, HasGeneration

(* The slots of the tables and of workers[]. *)
LEMMA Slots ==
  /\ Main \in VM /\ Slot \subseteq VM /\ Main \notin Slot
  /\ 0 \in ArenaId /\ RegionId \subseteq ArenaId /\ 0 \notin RegionId
  /\ 1 \in RegionId
BY ArenaConstants, WorkerConstants DEF Main, VM, Slot, ArenaId, RegionId
-----------------------------------------------------------------------------
(* The shape of the state.                                                 *)

Rec == [active : BOOLEAN, complete : BOOLEAN, error : BOOLEAN,
        entry : BOOLEAN, rid : RegionId, arena : ArenaRec]
Ref == [arena : ArenaId, gen : 1 .. GEN_MOD - 1, off : {0}, block : 1 .. MaxBlocks]

(* The parts of TypeInv, by the variables a step changes. *)
TablesOK  == /\ tab \in [VM -> Table]
             /\ \A v \in VM, i \in ArenaId : HasGeneration(tab[v][i])
RefsOK    == ptrs \in [VM -> SUBSET Ref]
WorkersOK == /\ workers \in [Slot -> Rec]
             /\ \A s \in Slot : HasGeneration(workers[s].arena)
ThreadsOK == /\ pc \in [Slot -> {"none", "no_thread", "spawned", "running",
                                 "returned", "extracted", "cleaned", "exited"}]
             /\ joining \in VM
BlocksOK  == blocks \in 1 .. MaxBlocks /\ live \subseteq 1 .. MaxBlocks
FaultOK   == fault \in {"none", "stale", "null_access", "inactive_region",
                        "inactive_worker", "join_crash"}

TypeInv == TablesOK /\ RefsOK /\ WorkersOK /\ ThreadsOK /\ BlocksOK /\ FaultOK

(* A process that ends, or has not started, is well formed. *)
LEMMA NothingHeld ==
  /\ NoTable \in Table
  /\ \A i \in ArenaId : HasGeneration(NoTable[i])
  /\ Idle \in Rec
  /\ HasGeneration(Idle.arena)
<1>1. Blank \in ArenaRec /\ Blank.mem = NULL
  BY ArenaConstants, WorkerConstants DEF Blank, ArenaRec, NULL
<1> QED BY <1>1, Slots, NoTableIsTable DEF HasGeneration, Idle, Rec

LEMMA TypeInvInit == Init => TypeInv
<1> SUFFICES ASSUME Init PROVE TypeInv
  OBVIOUS
<1> USE DEF Init, TypeInv
<1>1. 1 \in 1 .. MaxBlocks
  BY WorkerConstants
<1>2. VmInit(NoTable, 1) \in Table /\ \A i \in ArenaId : HasGeneration(VmInit(NoTable, 1)[i])
  BY <1>1, VmInitTable, NothingHeld
<1>3. TablesOK
  BY <1>2, NothingHeld DEF TablesOK
<1>4. WorkersOK
  BY NothingHeld DEF WorkersOK
<1>5. RefsOK /\ ThreadsOK /\ BlocksOK /\ FaultOK
  BY <1>1, Slots DEF RefsOK, ThreadsOK, BlocksOK, FaultOK
<1> QED BY <1>3, <1>4, <1>5

(* The end of the process, for whatever reason. *)
LEMMA EndsTyped ==
  ASSUME TypeInv, NEW why, Ends(why),
         why \in {"stale", "null_access", "inactive_region", "inactive_worker",
                  "join_crash"}
  PROVE  TypeInv'
<1> USE DEF Ends, TypeInv
<1>1. TablesOK'
  BY NothingHeld DEF TablesOK
<1>2. WorkersOK'
  BY NothingHeld DEF WorkersOK
<1>3. RefsOK' /\ ThreadsOK' /\ BlocksOK' /\ FaultOK'
  BY Slots DEF TypeInv, RefsOK, ThreadsOK, BlocksOK, FaultOK
<1> QED BY <1>1, <1>2, <1>3

(* One cell of one table is written. *)
LEMMA CellTyped ==
  ASSUME TablesOK, NEW v \in VM, NEW i \in ArenaId, NEW a \in ArenaRec,
         HasGeneration(a), tab' = [tab EXCEPT ![v][i] = a]
  PROVE  TablesOK'
<1>1. tab[v] \in Table
  BY DEF TablesOK
<1>2. tab' = [tab EXCEPT ![v] = [tab[v] EXCEPT ![i] = a]]
  OBVIOUS
<1>3. [tab[v] EXCEPT ![i] = a] \in Table
  BY <1>1 DEF Table
<1>4. tab' \in [VM -> Table]
  BY <1>2, <1>3 DEF TablesOK
<1>5. \A w \in VM, j \in ArenaId : HasGeneration(tab'[w][j])
  BY <1>1, <1>2 DEF TablesOK, Table
<1> QED BY <1>4, <1>5 DEF TablesOK

(* A reference to an allocated object. *)
LEMMA NewPtrTyped ==
  ASSUME NEW i \in ArenaId, NEW a \in ArenaRec, a.mem # NULL, HasGeneration(a)
  PROVE  NewPtr(i, a) \in Ref
BY ArenaConstants, WorkerConstants DEF NewPtr, Ref, ArenaRec, HasGeneration, NULL

LEMMA CellRead ==
  ASSUME TablesOK, NEW v \in VM, NEW i \in ArenaId
  PROVE  /\ tab[v][i] \in ArenaRec
         /\ HasGeneration(tab[v][i])
         /\ Mem(v, i) \in 0 .. MaxBlocks
BY DEF TablesOK, Table, ArenaRec, Mem

LEMMA SlotRead ==
  ASSUME WorkersOK, NEW s \in Slot
  PROVE  /\ workers[s] \in Rec
         /\ workers[s].rid \in RegionId
         /\ workers[s].rid \in ArenaId
         /\ workers[s].arena \in ArenaRec
         /\ HasGeneration(workers[s].arena)
BY Slots DEF WorkersOK, Rec

(* The next block has a number of its own. *)
LEMMA NextBlock ==
  ASSUME BlocksOK, blocks < MaxBlocks
  PROVE  /\ blocks + 1 \in 1 .. MaxBlocks
         /\ blocks + 1 # NULL
         /\ live \cup {blocks + 1} \subseteq 1 .. MaxBlocks
BY WorkerConstants DEF BlocksOK, NULL

LEMMA TypeInvStep == TypeInv /\ [Next]_vars => TypeInv'
<1> SUFFICES ASSUME TypeInv, [Next]_vars PROVE TypeInv'
  OBVIOUS
<1> USE Slots DEF TypeInv
<1>1. ASSUME NEW v \in VM, NEW i \in RegionId, CreateRegion(v, i) PROVE TypeInv'
  <2>1. InitArena(tab[v][i], blocks + 1) \in ArenaRec
        /\ HasGeneration(InitArena(tab[v][i], blocks + 1))
    BY <1>1, CellRead, NextBlock, InitArenaRec DEF CreateRegion, HasGeneration
  <2>2. tab' = [tab EXCEPT ![v][i] = InitArena(tab[v][i], blocks + 1)]
    BY <1>1 DEF CreateRegion
  <2>3. TablesOK'
    BY <2>1, <2>2, CellTyped
  <2>4. BlocksOK'
    BY <1>1, NextBlock DEF CreateRegion, BlocksOK
  <2> QED BY <1>1, <2>3, <2>4
          DEF CreateRegion, RefsOK, WorkersOK, ThreadsOK, FaultOK
<1>2. ASSUME NEW v \in VM, NEW i \in RegionId, ClearRegion(v, i) PROVE TypeInv'
  <2>1. FreeArena(tab[v][i]) \in ArenaRec /\ HasGeneration(FreeArena(tab[v][i]))
    BY CellRead, FreeArenaRec DEF HasGeneration
  <2>2. tab' = [tab EXCEPT ![v][i] = FreeArena(tab[v][i])]
    BY <1>2 DEF ClearRegion
  <2>3. TablesOK'
    BY <2>1, <2>2, CellTyped
  <2>4. BlocksOK'
    BY <1>2 DEF ClearRegion, BlocksOK
  <2> QED BY <1>2, <2>3, <2>4
          DEF ClearRegion, RefsOK, WorkersOK, ThreadsOK, FaultOK
<1>3. ASSUME NEW v \in VM, NEW i \in ArenaId, NEW keep \in SUBSET ptrs[v],
             HeapAlloc(v, i, keep)
      PROVE TypeInv'
  <2>1. NewPtr(i, tab[v][i]) \in Ref
    BY <1>3, CellRead, NewPtrTyped DEF HeapAlloc
  <2>2. RefsOK'
    BY <1>3, <2>1 DEF HeapAlloc, RefsOK
  <2> QED BY <1>3, <2>2
          DEF HeapAlloc, TablesOK, WorkersOK, ThreadsOK, BlocksOK, FaultOK
<1>4. ASSUME NEW s \in Slot, NEW keep \in SUBSET ptrs[s], LazyAlloc(s, keep)
      PROVE TypeInv'
  <2> DEFINE i == workers[s].rid
             a == InitArena(tab[s][i], blocks + 1)
  <2>1. i \in ArenaId /\ s \in VM
    BY SlotRead
  <2>2. a \in ArenaRec /\ HasGeneration(a) /\ a.mem # NULL
    BY <1>4, <2>1, CellRead, NextBlock, InitArenaRec DEF LazyAlloc, HasGeneration
  <2>3. tab' = [tab EXCEPT ![s][i] = a] /\ ptrs' = [ptrs EXCEPT ![s] = keep \cup {NewPtr(i, a)}]
    BY <1>4 DEF LazyAlloc
  <2>4. NewPtr(i, a) \in Ref
    BY <2>1, <2>2, NewPtrTyped
  <2>5. BlocksOK'
    BY <1>4, NextBlock DEF LazyAlloc, BlocksOK
  <2> HIDE DEF i, a
  <2>6. TablesOK'
    BY <2>1, <2>2, <2>3, CellTyped
  <2>7. RefsOK'
    BY <2>1, <2>3, <2>4 DEF RefsOK
  <2> QED BY <1>4, <2>5, <2>6, <2>7 DEF LazyAlloc, WorkersOK, ThreadsOK, FaultOK
<1>5. ASSUME NEW v \in VM, NEW p \in ptrs[v], StaleAccess(v, p) PROVE TypeInv'
  BY <1>5, EndsTyped DEF StaleAccess
<1>6. ASSUME NEW v \in VM, NEW i \in ArenaId, NullAccess(v, i) PROVE TypeInv'
  BY <1>6, EndsTyped DEF NullAccess
<1>7. ASSUME NEW s \in Slot, NEW i \in RegionId, NEW entry \in BOOLEAN,
             NEW thread \in BOOLEAN, CreateWorker(s, i, entry, thread)
      PROVE TypeInv'
  <2> DEFINE child == VmInit(tab[s], blocks + 1)
             a     == [tab[Main][i] EXCEPT !.mem = NULL]
  <2>1. tab[s] \in Table /\ tab[Main][i] \in ArenaRec /\ HasGeneration(tab[Main][i])
    BY CellRead DEF TablesOK
  <2>2. blocks + 1 \in 1 .. MaxBlocks
    BY <1>7, NextBlock DEF CreateWorker
  <2>3. child \in Table /\ (\A j \in ArenaId : HasGeneration(child[j]))
        /\ child[0].mem = (IF tab[s][0].mem = NULL THEN blocks + 1 ELSE tab[s][0].mem)
    BY <2>1, <2>2, VmInitTable
  <2>4. /\ tab' = [tab EXCEPT ![Main][i].mem = NULL, ![s] = child]
        /\ blocks' = (IF child[0].mem = blocks + 1 THEN blocks + 1 ELSE blocks)
        /\ live' = live \cup {child[0].mem}
        /\ ptrs' = [ptrs EXCEPT ![s] = Crossing(Main, i)]
    BY <1>7 DEF CreateWorker
  <2> HIDE DEF child
  <2>5. a \in ArenaRec /\ HasGeneration(a)
    BY <2>1, WorkerConstants DEF ArenaRec, HasGeneration, NULL
  <2>6. TablesOK'
    <3>1. tab' = [[tab EXCEPT ![Main] = [tab[Main] EXCEPT ![i] = a]]
                    EXCEPT ![s] = child]
      BY <2>4
    <3>2. [tab[Main] EXCEPT ![i] = a] \in Table
          /\ \A j \in ArenaId : HasGeneration([tab[Main] EXCEPT ![i] = a][j])
      BY <2>5 DEF TablesOK, Table
    <3> HIDE DEF a
    <3> QED BY <2>3, <3>1, <3>2 DEF TablesOK
  <2>7. RefsOK'
    BY <2>4 DEF RefsOK, Crossing
  <2>8. BlocksOK'
    BY <2>2, <2>3, <2>4, CellRead, WorkerConstants DEF BlocksOK, Mem, NULL
  <2>9. WorkersOK'
    BY <1>7, <2>1 DEF CreateWorker, WorkersOK, Rec
  <2> QED BY <1>7, <2>6, <2>7, <2>8, <2>9 DEF CreateWorker, ThreadsOK, FaultOK
<1>8. ASSUME NEW i \in RegionId, CreateWorkerInactive(i) PROVE TypeInv'
  BY <1>8, EndsTyped DEF CreateWorkerInactive
<1>9. ASSUME NEW s \in Slot, DockWorker(s) PROVE TypeInv'
  BY <1>9 DEF DockWorker, TablesOK, RefsOK, WorkersOK, ThreadsOK, BlocksOK, FaultOK
<1>10. ASSUME NEW s \in Slot, DockInactive(s) PROVE TypeInv'
  BY <1>10, EndsTyped DEF DockInactive
<1>11. ASSUME NEW s \in Slot, JoinCrash(s) PROVE TypeInv'
  BY <1>11, EndsTyped DEF JoinCrash
<1>12. ASSUME NEW s \in Slot, NEW keep \in SUBSET (ptrs[Main] \cup ptrs[s]),
              Docked(s, keep)
       PROVE TypeInv'
  <2> DEFINE i == workers[s].rid
             a == [workers[s].arena EXCEPT !.active = TRUE]
  <2>1. i \in ArenaId /\ a \in ArenaRec /\ HasGeneration(a)
    BY SlotRead DEF ArenaRec, HasGeneration
  <2>2. tab' = [tab EXCEPT ![Main][i] = a]
    BY <1>12 DEF Docked
  <2> HIDE DEF i, a
  <2>3. TablesOK'
    BY <2>1, <2>2, CellTyped
  <2>4. RefsOK'
    <3>1. keep \subseteq Ref
      BY DEF RefsOK
    <3>2. ptrs' = [ptrs EXCEPT ![Main] = keep, ![s] = {}]
      BY <1>12 DEF Docked
    <3> QED BY <3>1, <3>2 DEF RefsOK
  <2>5. WorkersOK'
    BY <1>12 DEF Docked, WorkersOK, Rec
  <2> QED BY <1>12, <2>3, <2>4, <2>5 DEF Docked, ThreadsOK, BlocksOK, FaultOK
<1>13. ASSUME NEW s \in Slot, Inject(s) PROVE TypeInv'
  <2> DEFINE i == workers[s].rid
             a == workers[s].arena
  <2>1. i \in ArenaId /\ a \in ArenaRec /\ HasGeneration(a)
    BY SlotRead
  <2>2. tab' = [tab EXCEPT ![s][i] = a]
    BY <1>13 DEF Inject
  <2> HIDE DEF i, a
  <2>3. TablesOK'
    BY <2>1, <2>2, CellTyped
  <2>4. WorkersOK'
    BY <1>13 DEF Inject, WorkersOK, Rec
  <2> QED BY <1>13, <2>3, <2>4
          DEF Inject, Goto, RefsOK, ThreadsOK, BlocksOK, FaultOK
<1>14. ASSUME NEW s \in Slot, Return(s) PROVE TypeInv'
  BY <1>14 DEF Return, Goto, TablesOK, RefsOK, WorkersOK, ThreadsOK, BlocksOK, FaultOK
<1>15. ASSUME NEW s \in Slot, Extract(s) PROVE TypeInv'
  <2> DEFINE i == workers[s].rid
             a == [tab[s][i] EXCEPT !.mem = NULL]
  <2>1. i \in ArenaId /\ tab[s][i] \in ArenaRec /\ HasGeneration(tab[s][i])
    BY SlotRead, CellRead
  <2>2. a \in ArenaRec /\ HasGeneration(a)
    BY <2>1, WorkerConstants DEF ArenaRec, HasGeneration, NULL
  <2>3. /\ tab' = [tab EXCEPT ![s][i] = a]
        /\ workers' = [workers EXCEPT ![s].arena = tab[s][i]]
    BY <1>15 DEF Extract
  <2>4. WorkersOK'
    BY <2>1, <2>3 DEF WorkersOK, Rec
  <2> HIDE DEF i, a
  <2>5. TablesOK'
    BY <2>1, <2>2, <2>3, CellTyped
  <2> QED BY <1>15, <2>4, <2>5
          DEF Extract, Goto, RefsOK, ThreadsOK, BlocksOK, FaultOK
<1>16. ASSUME NEW s \in Slot, Cleanup(s) PROVE TypeInv'
  <2> DEFINE t == [i \in ArenaId |-> FreeArena(tab[s][i])]
  <2>1. t \in Table /\ \A i \in ArenaId : HasGeneration(t[i])
    BY CellRead, FreeArenaRec DEF Table, HasGeneration
  <2>2. tab' = [tab EXCEPT ![s] = t]
    BY <1>16 DEF Cleanup
  <2> HIDE DEF t
  <2>3. TablesOK'
    BY <2>1, <2>2 DEF TablesOK
  <2>4. BlocksOK'
    BY <1>16 DEF Cleanup, BlocksOK
  <2> QED BY <1>16, <2>3, <2>4 DEF Cleanup, Goto, RefsOK, WorkersOK, ThreadsOK, FaultOK
<1>17. ASSUME NEW s \in Slot, Complete(s) PROVE TypeInv'
  BY <1>17 DEF Complete, Goto, TablesOK, RefsOK, WorkersOK, Rec, ThreadsOK, BlocksOK,
               FaultOK
<1>18. CASE UNCHANGED vars
  BY <1>18 DEF vars, TablesOK, RefsOK, WorkersOK, ThreadsOK, BlocksOK, FaultOK
<1>19. ASSUME NEW v \in VM, v # Main PROVE v \in Slot
  BY <1>19 DEF VM
<1>20. CASE Regions
  BY <1>20, <1>1, <1>2, <1>3, <1>4, <1>5, <1>6, <1>19 DEF Regions
<1>21. CASE MainCalls
  BY <1>21, <1>7, <1>8, <1>9, <1>10, <1>11, <1>12 DEF MainCalls
<1>22. CASE \E s \in Slot : Thread(s)
  BY <1>22, <1>13, <1>14, <1>15, <1>16, <1>17 DEF Thread
<1> QED BY <1>18, <1>20, <1>21, <1>22 DEF Next

-----------------------------------------------------------------------------
(* A block has one holder.                                                 *)

IInv == TypeInv /\ Moves

LEMMA IInvInit == Init => IInv
<1> SUFFICES ASSUME Init PROVE IInv
  OBVIOUS
<1>1. TypeInv
  BY TypeInvInit
<1>2. \A v \in VM, i \in ArenaId : Mem(v, i) = IF v = Main /\ i = 0 THEN 1 ELSE NULL
  BY VmInitTable, NoTableIsTable, Slots, WorkerConstants DEF Init, Mem
<1>3. \A s \in Slot : ~Keeps(s) /\ pc[s] = "none"
  BY DEF Init, Keeps, Idle
<1>4. live = {1} /\ blocks = 1
  BY DEF Init
<1> QED BY <1>1, <1>2, <1>3, <1>4 DEF IInv, Moves, Numbered, OncePerTable,
           OncePerSlot, TableOrSlot, HeldIsLive, SlotTaken

(* Where the process ends nothing holds memory. *)
LEMMA EndsMoves == ASSUME NEW why, Ends(why) PROVE Moves'
<1>1. \A v \in VM, i \in ArenaId : Mem(v, i)' = NULL
  BY NoTableIsTable DEF Ends, Mem
<1>2. \A s \in Slot : ~Keeps(s)' /\ pc'[s] = "none"
  BY DEF Ends, Keeps, Idle
<1>3. live' = {}
  BY DEF Ends
<1> QED BY <1>1, <1>2, <1>3 DEF Moves, Numbered, OncePerTable, OncePerSlot,
           TableOrSlot, HeldIsLive, SlotTaken

(* A slot without memory gets a block nobody has. *)
LEMMA FreshBlock ==
  ASSUME TypeInv, Moves, NEW v \in VM, NEW i \in ArenaId, blocks < MaxBlocks,
         tab' = [tab EXCEPT ![v][i] = InitArena(tab[v][i], blocks + 1)],
         blocks' = blocks + 1, live' = live \cup {blocks + 1},
         UNCHANGED <<workers, pc>>
  PROVE  Moves'
<1> USE DEF TypeInv, Moves
<1>1. blocks + 1 \in 1 .. MaxBlocks /\ blocks + 1 # NULL /\ blocks \in Nat
  BY NextBlock DEF BlocksOK
<1>2. \A w \in VM, j \in ArenaId :
        Mem(w, j)' = IF w = v /\ j = i /\ Mem(v, i) = NULL THEN blocks + 1
                     ELSE Mem(w, j)
  <2>1. /\ InitArena(tab[v][i], blocks + 1) \in ArenaRec
        /\ InitArena(tab[v][i], blocks + 1).mem =
             IF Mem(v, i) = NULL THEN blocks + 1 ELSE Mem(v, i)
    BY <1>1, CellRead, InitArenaRec DEF Mem
  <2> QED BY <2>1 DEF TablesOK, Table, Mem
<1>3. \A s \in Slot : SlotMem(s)' = SlotMem(s) /\ Keeps(s)' = Keeps(s)
  BY DEF SlotMem, Keeps
<1>4. blocks + 1 \notin live
  BY <1>1 DEF Numbered
<1>5. \A w \in VM, j \in ArenaId : Mem(w, j) # blocks + 1
  BY <1>1, <1>4 DEF HeldIsLive
<1>6. \A s \in Slot : Keeps(s) => SlotMem(s) # blocks + 1
  BY <1>1, <1>4 DEF HeldIsLive
<1>7. Numbered'
  BY <1>1 DEF Numbered
<1>8. OncePerTable'
  BY <1>2, <1>5 DEF OncePerTable
<1>9. OncePerSlot'
  BY <1>3 DEF OncePerSlot
<1>10. TableOrSlot'
  BY <1>2, <1>3, <1>6 DEF TableOrSlot
<1>11. HeldIsLive'
  BY <1>2, <1>3 DEF HeldIsLive
<1>12. SlotTaken'
  BY DEF SlotTaken
<1> QED BY <1>7, <1>8, <1>9, <1>10, <1>11, <1>12

(* Nothing that matters changes: dock_worker starts to wait, a worker's    *)
(* function returns, an object is allocated.                               *)
LEMMA SameHolders ==
  ASSUME Moves, UNCHANGED <<blocks, live>>,
         \A v \in VM, i \in ArenaId : Mem(v, i)' = Mem(v, i),
         \A s \in Slot : /\ SlotMem(s)' = SlotMem(s) /\ Keeps(s)' = Keeps(s)
                         /\ pc'[s] # "none" => workers'[s].active
  PROVE  Moves'
BY DEF Moves, Numbered, OncePerTable, OncePerSlot, TableOrSlot, HeldIsLive, SlotTaken

(* free(arena->memory): nobody else has the block. *)
LEMMA ClearRegionMoves ==
  ASSUME TypeInv, Moves, NEW v \in VM, NEW i \in RegionId, ClearRegion(v, i)
  PROVE  Moves'
<1> USE DEF TypeInv, Moves
<1>1. tab' = [tab EXCEPT ![v][i] = FreeArena(tab[v][i])]
      /\ live' = live \ {Mem(v, i)} /\ UNCHANGED <<workers, pc, blocks>>
  BY DEF ClearRegion, Mem
<1>2. \A w \in VM, j \in ArenaId :
        Mem(w, j)' = IF w = v /\ j = i THEN NULL ELSE Mem(w, j)
  <2>1. /\ i \in ArenaId /\ FreeArena(tab[v][i]) \in ArenaRec
        /\ FreeArena(tab[v][i]).mem = NULL
    BY Slots, CellRead, FreeArenaRec
  <2> QED BY <1>1, <2>1 DEF TablesOK, Table, Mem
<1>3. \A s \in Slot : SlotMem(s)' = SlotMem(s) /\ Keeps(s)' = Keeps(s)
  BY <1>1 DEF SlotMem, Keeps
<1>4. i \in ArenaId
  BY Slots
<1>5. Numbered' /\ SlotTaken'
  BY <1>1 DEF Numbered, SlotTaken
<1>6. OncePerTable' /\ OncePerSlot' /\ TableOrSlot'
  BY <1>2, <1>3 DEF OncePerTable, OncePerSlot, TableOrSlot
<1>7. HeldIsLive'
  BY <1>1, <1>2, <1>3, <1>4 DEF HeldIsLive, OncePerTable, TableOrSlot
<1> QED BY <1>5, <1>6, <1>7

(* create_worker: the region's block goes from main's table to the slot,   *)
(* and the thread's VM gets a main heap if it has none.                    *)
LEMMA CreateWorkerMoves ==
  ASSUME TypeInv, Moves, NEW s \in Slot, NEW i \in RegionId, NEW entry \in BOOLEAN,
         NEW thread \in BOOLEAN, CreateWorker(s, i, entry, thread)
  PROVE  Moves'
<1> USE DEF TypeInv, Moves
<1> DEFINE child == VmInit(tab[s], blocks + 1)
           heap  == IF Mem(s, 0) = NULL THEN blocks + 1 ELSE Mem(s, 0)
<1>1. blocks + 1 \in 1 .. MaxBlocks /\ blocks + 1 # NULL /\ blocks \in Nat
  BY NextBlock DEF CreateWorker, BlocksOK
<1>2. /\ tab[s] \in Table /\ i \in ArenaId /\ s \in VM /\ s # Main
      /\ tab \in [VM -> Table]
  BY Slots DEF TablesOK
<1>3. /\ child[0].mem = heap
      /\ \A j \in ArenaId \ {0} : child[j].mem = NULL
  BY <1>1, <1>2, VmInitTable DEF Mem
<1>4. /\ tab' = [tab EXCEPT ![Main][i].mem = NULL, ![s] = child]
      /\ blocks' = (IF child[0].mem = blocks + 1 THEN blocks + 1 ELSE blocks)
      /\ live' = live \cup {child[0].mem}
      /\ workers' = [workers EXCEPT ![s] =
            [active |-> TRUE, complete |-> FALSE, error |-> FALSE, entry |-> entry,
             rid |-> i, arena |-> tab[Main][i]]]
      /\ pc' = [pc EXCEPT ![s] = IF thread THEN "spawned" ELSE "no_thread"]
  BY DEF CreateWorker
<1> HIDE DEF child
<1>5. \A w \in VM, j \in ArenaId :
        Mem(w, j)' = IF w = s THEN (IF j = 0 THEN heap ELSE NULL)
                     ELSE IF w = Main /\ j = i THEN NULL ELSE Mem(w, j)
  BY <1>2, <1>3, <1>4 DEF Mem, Table, ArenaRec
<1>6. \A t \in Slot : /\ SlotMem(t)' = IF t = s THEN Mem(Main, i) ELSE SlotMem(t)
                      /\ t # s => Keeps(t)' = Keeps(t)
                      /\ pc'[t] # "none" => workers'[t].active
  BY <1>4 DEF SlotMem, Mem, Keeps, WorkersOK, ThreadsOK, SlotTaken
<1>7. heap # NULL /\ heap \in live \cup {blocks + 1}
  BY <1>1, <1>2, Slots DEF HeldIsLive
<1>8. /\ \A w \in VM, j \in ArenaId : Mem(w, j) # blocks + 1
      /\ \A t \in Slot : Keeps(t) => SlotMem(t) # blocks + 1
  BY <1>1 DEF HeldIsLive, Numbered
<1>9. /\ \A w \in VM, j \in ArenaId : w # s => Mem(w, j) # heap
      /\ \A t \in Slot : Keeps(t) => SlotMem(t) # heap
  BY <1>2, <1>7, <1>8, Slots DEF OncePerTable, TableOrSlot
<1>10. live' = live \cup {heap} /\ (heap = blocks + 1 \/ heap \in live)
       /\ blocks' = IF heap = blocks + 1 THEN blocks + 1 ELSE blocks
  BY <1>3, <1>4, <1>7
<1>11. Main \in VM /\ i # 0
  BY Slots
<1> HIDE DEF heap
<1>12. Numbered'
  <2>1. CASE heap = blocks + 1
    BY <2>1, <1>1, <1>10 DEF Numbered
  <2>2. CASE heap # blocks + 1
    BY <2>2, <1>1, <1>10 DEF Numbered
  <2> QED BY <2>1, <2>2
<1>13. OncePerTable'
  BY <1>5, <1>9 DEF OncePerTable
<1>14. OncePerSlot'
  BY <1>2, <1>6, <1>11 DEF OncePerSlot, TableOrSlot
<1>15. TableOrSlot'
  <2> SUFFICES ASSUME NEW w \in VM, NEW j \in ArenaId, NEW t \in Slot,
                      Keeps(t)', SlotMem(t)' # NULL
               PROVE  Mem(w, j)' # SlotMem(t)'
    BY DEF TableOrSlot
  <2>1. CASE t = s
    BY <2>1, <1>2, <1>5, <1>6, <1>9, <1>11 DEF OncePerTable
  <2>2. CASE t # s
    BY <2>2, <1>2, <1>5, <1>6, <1>9 DEF TableOrSlot
  <2> QED BY <2>1, <2>2
<1>16. HeldIsLive'
  BY <1>2, <1>5, <1>6, <1>10, <1>11 DEF HeldIsLive
<1>17. SlotTaken'
  BY <1>6 DEF SlotTaken
<1> QED BY <1>12, <1>13, <1>14, <1>15, <1>16, <1>17

(* The region's block goes from slot s to a cell of v's table. *)
LEMMA SlotToTable ==
  ASSUME TypeInv, Moves, NEW s \in Slot, NEW v \in VM, NEW i \in ArenaId,
         NEW a \in ArenaRec, a.mem = SlotMem(s), tab' = [tab EXCEPT ![v][i] = a],
         Keeps(s), ~Keeps(s)', UNCHANGED <<blocks, live>>,
         \A t \in Slot : /\ SlotMem(t)' = SlotMem(t)
                         /\ t # s => Keeps(t)' = Keeps(t)
                         /\ pc'[t] # "none" => workers'[t].active
  PROVE  Moves'
<1> USE DEF TypeInv, Moves
<1>1. \A w \in VM, j \in ArenaId :
        Mem(w, j)' = IF w = v /\ j = i THEN SlotMem(s) ELSE Mem(w, j)
  BY DEF TablesOK, Table, Mem
<1>2. OncePerTable'
  BY <1>1 DEF OncePerTable, TableOrSlot
<1>3. OncePerSlot'
  BY DEF OncePerSlot
<1>4. TableOrSlot'
  BY <1>1 DEF TableOrSlot, OncePerSlot
<1>5. HeldIsLive'
  BY <1>1 DEF HeldIsLive
<1>6. Numbered' /\ SlotTaken'
  BY DEF Numbered, SlotTaken
<1> QED BY <1>2, <1>3, <1>4, <1>5, <1>6

(* mylo_worker_entry gives the region back: from its table to its slot. *)
LEMMA ExtractMoves ==
  ASSUME TypeInv, Moves, NEW s \in Slot, Extract(s)
  PROVE  Moves'
<1> USE DEF TypeInv, Moves
<1> DEFINE i == workers[s].rid
<1>1. i \in ArenaId /\ s \in VM /\ tab[s][i] \in ArenaRec
  BY Slots, SlotRead, CellRead
<1>2. /\ tab' = [tab EXCEPT ![s][i] = [tab[s][i] EXCEPT !.mem = NULL]]
      /\ workers' = [workers EXCEPT ![s].arena = tab[s][i]]
      /\ pc[s] = "returned" /\ pc' = [pc EXCEPT ![s] = "extracted"]
      /\ blocks' = blocks /\ live' = live
  BY DEF Extract, Goto
<1> HIDE DEF i
<1>3. \A w \in VM, j \in ArenaId :
        Mem(w, j)' = IF w = s /\ j = i THEN NULL ELSE Mem(w, j)
  <2>1. /\ [tab[s][i] EXCEPT !.mem = NULL] \in ArenaRec
        /\ [tab[s][i] EXCEPT !.mem = NULL].mem = NULL
    BY <1>1, WorkerConstants DEF ArenaRec, NULL
  <2> QED BY <1>1, <1>2, <2>1 DEF TablesOK, Table, Mem
<1>4. \A t \in Slot : /\ SlotMem(t)' = IF t = s THEN Mem(s, i) ELSE SlotMem(t)
                      /\ t # s => Keeps(t)' = Keeps(t)
                      /\ pc'[t] # "none" => workers'[t].active
  BY <1>2 DEF SlotMem, Mem, Keeps, WorkersOK, Rec, ThreadsOK, SlotTaken
<1>5. OncePerTable'
  BY <1>3 DEF OncePerTable
<1>6. OncePerSlot'
  BY <1>1, <1>4 DEF OncePerSlot, TableOrSlot
<1>7. TableOrSlot'
  BY <1>1, <1>3, <1>4 DEF TableOrSlot, OncePerTable
<1>8. HeldIsLive'
  BY <1>1, <1>2, <1>3, <1>4 DEF HeldIsLive
<1>9. Numbered' /\ SlotTaken'
  BY <1>2, <1>4 DEF Numbered, SlotTaken
<1> QED BY <1>5, <1>6, <1>7, <1>8, <1>9

(* vm_cleanup frees what only the thread's own VM has. *)
LEMMA CleanupMoves ==
  ASSUME TypeInv, Moves, NEW s \in Slot, Cleanup(s)
  PROVE  Moves'
<1> USE DEF TypeInv, Moves
<1>1. /\ live' = live \ {Mem(s, i) : i \in ArenaId}
      /\ tab' = [tab EXCEPT ![s] = [i \in ArenaId |-> FreeArena(tab[s][i])]]
      /\ pc[s] = "extracted" /\ pc' = [pc EXCEPT ![s] = "cleaned"]
      /\ workers' = workers /\ blocks' = blocks
  BY DEF Cleanup, Goto, Mem
<1>2. s \in VM
  BY Slots
<1>3. \A w \in VM, j \in ArenaId : Mem(w, j)' = IF w = s THEN NULL ELSE Mem(w, j)
  BY <1>1, <1>2, CellRead, FreeArenaRec DEF Mem, TablesOK
<1>4. \A t \in Slot : /\ SlotMem(t)' = SlotMem(t) /\ Keeps(t)' = Keeps(t)
                      /\ pc'[t] # "none" => workers'[t].active
  BY <1>1 DEF SlotMem, Keeps, ThreadsOK, SlotTaken
<1>5. OncePerTable' /\ OncePerSlot' /\ TableOrSlot'
  BY <1>3, <1>4 DEF OncePerTable, OncePerSlot, TableOrSlot
<1>6. HeldIsLive'
  <2>1. ASSUME NEW w \in VM, NEW j \in ArenaId, Mem(w, j)' # NULL
        PROVE  Mem(w, j)' \in live'
    BY <2>1, <1>1, <1>2, <1>3 DEF HeldIsLive, OncePerTable
  <2>2. ASSUME NEW t \in Slot, Keeps(t)', SlotMem(t)' # NULL
        PROVE  SlotMem(t)' \in live'
    BY <2>2, <1>1, <1>2, <1>4 DEF HeldIsLive, TableOrSlot
  <2> QED BY <2>1, <2>2 DEF HeldIsLive
<1>7. Numbered' /\ SlotTaken'
  BY <1>1, <1>4 DEF Numbered, SlotTaken
<1> QED BY <1>5, <1>6, <1>7

LEMMA IInvStep == IInv /\ [Next]_vars => IInv'
<1> SUFFICES ASSUME TypeInv, Moves, [Next]_vars PROVE Moves'
  BY TypeInvStep DEF IInv
<1> USE Slots
<1>1. ASSUME NEW v \in VM, NEW i \in RegionId, CreateRegion(v, i) PROVE Moves'
  BY <1>1, FreshBlock DEF CreateRegion
<1>2. ASSUME NEW v \in VM, NEW i \in RegionId, ClearRegion(v, i) PROVE Moves'
  BY <1>2, ClearRegionMoves
<1>3. ASSUME NEW v \in VM, NEW i \in ArenaId, NEW keep \in SUBSET ptrs[v],
             HeapAlloc(v, i, keep)
      PROVE Moves'
  BY <1>3, SameHolders DEF HeapAlloc, Mem, SlotMem, Keeps, Moves, SlotTaken
<1>4. ASSUME NEW s \in Slot, NEW keep \in SUBSET ptrs[s], LazyAlloc(s, keep)
      PROVE Moves'
  BY <1>4, FreshBlock, SlotRead DEF LazyAlloc, TypeInv
<1>5. ASSUME NEW v \in VM, NEW p \in ptrs[v], StaleAccess(v, p) PROVE Moves'
  BY <1>5, EndsMoves DEF StaleAccess
<1>6. ASSUME NEW v \in VM, NEW i \in ArenaId, NullAccess(v, i) PROVE Moves'
  BY <1>6, EndsMoves DEF NullAccess
<1>7. ASSUME NEW s \in Slot, NEW i \in RegionId, NEW entry \in BOOLEAN,
             NEW thread \in BOOLEAN, CreateWorker(s, i, entry, thread)
      PROVE Moves'
  BY <1>7, CreateWorkerMoves
<1>8. ASSUME NEW i \in RegionId, CreateWorkerInactive(i) PROVE Moves'
  BY <1>8, EndsMoves DEF CreateWorkerInactive
<1>9. ASSUME NEW s \in Slot, DockWorker(s) PROVE Moves'
  BY <1>9, SameHolders DEF DockWorker, Mem, SlotMem, Keeps, Moves, SlotTaken
<1>10. ASSUME NEW s \in Slot, DockInactive(s) PROVE Moves'
  BY <1>10, EndsMoves DEF DockInactive
<1>11. ASSUME NEW s \in Slot, JoinCrash(s) PROVE Moves'
  BY <1>11, EndsMoves DEF JoinCrash
<1>12. ASSUME NEW s \in Slot, NEW keep \in SUBSET (ptrs[Main] \cup ptrs[s]),
              Docked(s, keep)
       PROVE Moves'
  <2> DEFINE i == workers[s].rid
             a == [workers[s].arena EXCEPT !.active = TRUE]
  <2>1. /\ tab' = [tab EXCEPT ![Main][i] = a]
        /\ workers' = [workers EXCEPT ![s].active = FALSE]
        /\ pc[s] \in {"exited", "no_thread"} /\ pc' = [pc EXCEPT ![s] = "none"]
        /\ UNCHANGED <<blocks, live>>
    BY <1>12 DEF Docked
  <2>2. i \in ArenaId /\ a \in ArenaRec /\ a.mem = SlotMem(s)
    BY SlotRead DEF TypeInv, ArenaRec, SlotMem
  <2>3. Keeps(s) /\ ~Keeps(s)'
    BY <2>1 DEF Moves, SlotTaken, Keeps, TypeInv, WorkersOK, Rec
  <2>4. \A t \in Slot : /\ SlotMem(t)' = SlotMem(t)
                        /\ t # s => Keeps(t)' = Keeps(t)
                        /\ pc'[t] # "none" => workers'[t].active
    BY <2>1 DEF SlotMem, Keeps, TypeInv, WorkersOK, Rec, ThreadsOK, Moves, SlotTaken
  <2> HIDE DEF i, a
  <2> QED BY <2>1, <2>2, <2>3, <2>4, SlotToTable
<1>13. ASSUME NEW s \in Slot, Inject(s) PROVE Moves'
  <2> DEFINE i == workers[s].rid
             a == workers[s].arena
             to == IF workers[s].entry THEN "running" ELSE "returned"
  <2>1. /\ tab' = [tab EXCEPT ![s][i] = a]
        /\ workers' = [workers EXCEPT ![s].error = ~workers[s].entry]
        /\ pc[s] = "spawned" /\ pc' = [pc EXCEPT ![s] = to]
        /\ UNCHANGED <<blocks, live>>
    BY <1>13 DEF Inject, Goto
  <2>2. i \in ArenaId /\ a \in ArenaRec /\ a.mem = SlotMem(s)
        /\ to \in {"running", "returned"}
    BY SlotRead DEF TypeInv, SlotMem
  <2> HIDE DEF i, a, to
  <2>3. Keeps(s) /\ ~Keeps(s)'
    BY <2>1, <2>2 DEF Moves, SlotTaken, Keeps, TypeInv, ThreadsOK
  <2>4. \A t \in Slot : /\ workers'[t].arena = workers[t].arena
                        /\ workers'[t].active = workers[t].active
    BY <2>1 DEF TypeInv, WorkersOK, Rec
  <2>5. \A t \in Slot : /\ SlotMem(t)' = SlotMem(t)
                        /\ t # s => Keeps(t)' = Keeps(t)
                        /\ pc'[t] # "none" => workers'[t].active
    BY <2>1, <2>3, <2>4 DEF SlotMem, Keeps, TypeInv, ThreadsOK, Moves, SlotTaken
  <2> QED BY <2>1, <2>2, <2>3, <2>5, SlotToTable
<1>14. ASSUME NEW s \in Slot, Return(s) PROVE Moves'
  BY <1>14, SameHolders
     DEF Return, Goto, Mem, SlotMem, Keeps, Moves, SlotTaken, TypeInv, ThreadsOK
<1>15. ASSUME NEW s \in Slot, Extract(s) PROVE Moves'
  BY <1>15, ExtractMoves
<1>16. ASSUME NEW s \in Slot, Cleanup(s) PROVE Moves'
  BY <1>16, CleanupMoves
<1>17. ASSUME NEW s \in Slot, Complete(s) PROVE Moves'
  <2>1. \A t \in Slot : /\ workers'[t].arena = workers[t].arena
                        /\ workers'[t].active = workers[t].active
    BY <1>17 DEF Complete, TypeInv, WorkersOK, Rec
  <2> QED BY <1>17, <2>1, SameHolders
          DEF Complete, Goto, Mem, SlotMem, Keeps, Moves, SlotTaken, TypeInv, ThreadsOK
<1>18. CASE UNCHANGED vars
  BY <1>18, SameHolders DEF vars, Mem, SlotMem, Keeps, Moves, SlotTaken
<1>19. ASSUME NEW v \in VM, v # Main PROVE v \in Slot
  BY <1>19 DEF VM
<1>20. CASE Regions
  BY <1>20, <1>1, <1>2, <1>3, <1>4, <1>5, <1>6, <1>19 DEF Regions
<1>21. CASE MainCalls
  BY <1>21, <1>7, <1>8, <1>9, <1>10, <1>11, <1>12 DEF MainCalls
<1>22. CASE \E s \in Slot : Thread(s)
  BY <1>22, <1>13, <1>14, <1>15, <1>16, <1>17 DEF Thread
<1> QED BY <1>18, <1>20, <1>21, <1>22 DEF Next

(* A set whose elements are all equal has at most one. *)
LEMMA AtMostOne ==
  ASSUME NEW S, \A x, y \in S : x = y
  PROVE  Cardinality(S) = IF S = {} THEN 0 ELSE 1
<1>1. CASE S = {}
  BY <1>1, FS_EmptySet
<1>2. CASE S # {}
  <2>1. PICK x \in S : S = {x}
    BY <1>2
  <2> QED BY <2>1, FS_Singleton
<1> QED BY <1>1, <1>2

LEMMA MovesGiveOneHolder == IInv => OneHolder
<1> SUFFICES ASSUME IInv, NEW b \in 1 .. blocks
             PROVE  Cardinality(InTables(b)) + Cardinality(InSlots(b)) <=
                      IF b \in live THEN 1 ELSE 0
  BY DEF OneHolder
<1> USE DEF IInv, TypeInv, Moves
<1>1. b # NULL
  BY DEF BlocksOK, NULL
<1>2. \A x \in InTables(b) : x = <<x[1], x[2]>> /\ x[1] \in VM /\ x[2] \in ArenaId
                             /\ Mem(x[1], x[2]) = b
  BY DEF InTables, Mem
<1>3. \A s \in InSlots(b) : s \in Slot /\ Keeps(s) /\ SlotMem(s) = b
  BY DEF InSlots, Keeps, SlotMem
<1>4. Cardinality(InTables(b)) = IF InTables(b) = {} THEN 0 ELSE 1
  <2>1. \A x, y \in InTables(b) : x[1] = y[1] /\ x[2] = y[2]
    BY <1>1, <1>2 DEF OncePerTable
  <2>2. \A x, y \in InTables(b) : x = y
    BY <2>1, <1>2
  <2> QED BY <2>2, AtMostOne
<1>5. Cardinality(InSlots(b)) = IF InSlots(b) = {} THEN 0 ELSE 1
  <2>1. \A s, t \in InSlots(b) : s = t
    BY <1>1, <1>3 DEF OncePerSlot
  <2> QED BY <2>1, AtMostOne
<1>6. InTables(b) = {} \/ InSlots(b) = {}
  BY <1>1, <1>2, <1>3 DEF TableOrSlot
<1>7. InTables(b) # {} \/ InSlots(b) # {} => b \in live
  BY <1>1, <1>2, <1>3 DEF HeldIsLive
<1> QED BY <1>4, <1>5, <1>6, <1>7

-----------------------------------------------------------------------------
(* The state always has its shape, however regions are lent and cleared. *)
THEOREM TypeCorrect == Spec => []TypeOK
<1>1. IInv => TypeOK
  BY DEF IInv, Moves, Numbered, TypeInv, TypeOK, TablesOK, RefsOK, WorkersOK,
         ThreadsOK, BlocksOK, FaultOK, Table, Rec, Ref
<1> QED BY <1>1, IInvInit, IInvStep, PTL DEF Spec

(* create_worker, the worker thread and dock_worker move a region's memory *)
(* (the pointer is nulled where it was taken from: mylolib.c), *)
(* so no block is ever in two VMs or slots, and none of them holds a block *)
(* that was freed: with any number of workers and regions, under any Rules.*)
THEOREM BlocksHaveOneHolder == Spec => []OneHolder
BY IInvInit, IInvStep, MovesGiveOneHolder, PTL DEF Spec

-----------------------------------------------------------------------------
(* What a thread that is done leaves behind.                               *)

(* vm_cleanup comes before `complete`, and only an ended thread sets it.   *)
Finished ==
  \A s \in Slot :
    /\ pc[s] \in {"cleaned", "exited"} => \A i \in ArenaId : Mem(s, i) = NULL
    /\ workers[s].active /\ workers[s].complete => pc[s] = "exited"

(* Steps that write no table of a worker that is done, no `complete` and   *)
(* no pc.                                                                  *)
LEMMA SameFinished ==
  ASSUME Finished, UNCHANGED <<workers, pc>>,
         \A s \in Slot, i \in ArenaId :
           pc[s] \in {"cleaned", "exited"} => tab'[s][i] = tab[s][i]
  PROVE  Finished'
BY DEF Finished, Mem

LEMMA FinishedStep == TypeInv /\ Finished /\ [Next]_vars => Finished'
<1> SUFFICES ASSUME TypeInv, Finished, [Next]_vars PROVE Finished'
  OBVIOUS
<1> USE Slots DEF TypeInv
<1>0. /\ tab \in [VM -> Table]
      /\ \A s \in Slot : s \in VM /\ s # Main /\ workers[s].rid \in ArenaId
  BY SlotRead DEF TablesOK
<1>1. ASSUME NEW v \in VM, NEW i \in RegionId, CreateRegion(v, i) PROVE Finished'
  <2>1. \A s \in Slot : pc[s] \in {"cleaned", "exited"} => s # v
    BY <1>1 DEF CreateRegion, Executes
  <2> QED BY <1>0, <1>1, <2>1, SameFinished DEF CreateRegion, Table
<1>2. ASSUME NEW v \in VM, NEW i \in RegionId, ClearRegion(v, i) PROVE Finished'
  <2>1. \A s \in Slot : pc[s] \in {"cleaned", "exited"} => s # v
    BY <1>2 DEF ClearRegion, Executes
  <2> QED BY <1>0, <1>2, <2>1, SameFinished DEF ClearRegion, Table
<1>3. ASSUME NEW v \in VM, NEW i \in ArenaId, NEW keep \in SUBSET ptrs[v],
             HeapAlloc(v, i, keep)
      PROVE Finished'
  BY <1>3, SameFinished DEF HeapAlloc
<1>4. ASSUME NEW s \in Slot, NEW keep \in SUBSET ptrs[s], LazyAlloc(s, keep)
      PROVE Finished'
  <2>1. \A t \in Slot : pc[t] \in {"cleaned", "exited"} => t # s
    BY <1>0, <1>4 DEF LazyAlloc, Executes
  <2> QED BY <1>0, <1>4, <2>1, SameFinished DEF LazyAlloc, Table
<1>5. ASSUME NEW why, Ends(why) PROVE Finished'
  BY <1>5 DEF Ends, Finished, Idle
<1>6. ASSUME NEW s \in Slot, NEW i \in RegionId, NEW entry \in BOOLEAN,
             NEW thread \in BOOLEAN, CreateWorker(s, i, entry, thread)
      PROVE Finished'
  <2>1. \A t \in Slot \ {s} :
          /\ tab'[t] = tab[t] /\ pc'[t] = pc[t] /\ workers'[t] = workers[t]
    BY <1>0, <1>6 DEF CreateWorker
  <2>2. pc'[s] \in {"spawned", "no_thread"} /\ ~workers'[s].complete
    BY <1>6 DEF CreateWorker, ThreadsOK, WorkersOK
  <2> QED BY <2>1, <2>2 DEF Finished, Mem
<1>7. ASSUME NEW s \in Slot, DockWorker(s) PROVE Finished'
  BY <1>7, SameFinished DEF DockWorker
<1>8. ASSUME NEW s \in Slot, NEW keep \in SUBSET (ptrs[Main] \cup ptrs[s]),
             Docked(s, keep)
      PROVE Finished'
  <2>1. \A t \in Slot : tab'[t] = tab[t]
    BY <1>0, <1>8 DEF Docked
  <2>2. \A t \in Slot \ {s} : pc'[t] = pc[t] /\ workers'[t] = workers[t]
    BY <1>8 DEF Docked
  <2>3. pc'[s] = "none" /\ ~workers'[s].active
    BY <1>8 DEF Docked, ThreadsOK, WorkersOK, Rec
  <2> QED BY <2>1, <2>2, <2>3 DEF Finished, Mem
<1>9. ASSUME NEW s \in Slot, Inject(s) \/ Return(s) \/ Extract(s) PROVE Finished'
  <2>1. \A t \in Slot \ {s} :
          /\ tab'[t] = tab[t] /\ pc'[t] = pc[t] /\ workers'[t] = workers[t]
    <3>1. CASE Inject(s)
      BY <1>0, <3>1 DEF Inject, Goto
    <3>2. CASE Return(s)
      BY <3>2 DEF Return, Goto
    <3>3. CASE Extract(s)
      BY <1>0, <3>3 DEF Extract, Goto
    <3> QED BY <1>9, <3>1, <3>2, <3>3
  <2>2. pc[s] # "exited" /\ pc'[s] \in {"running", "returned", "extracted"}
    BY <1>9 DEF Inject, Return, Extract, Goto, ThreadsOK
  <2>3. /\ workers'[s].active = workers[s].active
        /\ workers'[s].complete = workers[s].complete
    BY <1>9 DEF Inject, Return, Extract, WorkersOK, Rec
  <2> QED BY <2>1, <2>2, <2>3 DEF Finished, Mem
<1>10. ASSUME NEW s \in Slot, Cleanup(s) PROVE Finished'
  <2>1. \A t \in Slot \ {s} : tab'[t] = tab[t] /\ pc'[t] = pc[t]
    BY <1>0, <1>10 DEF Cleanup, Goto
  <2>2. pc[s] = "extracted" /\ pc'[s] = "cleaned" /\ workers' = workers
    BY <1>10 DEF Cleanup, Goto, ThreadsOK
  <2>3. \A i \in ArenaId : tab'[s][i].mem = NULL
    BY <1>0, <1>10, CellRead, FreeArenaRec DEF Cleanup
  <2> QED BY <2>1, <2>2, <2>3 DEF Finished, Mem
<1>11. ASSUME NEW s \in Slot, Complete(s) PROVE Finished'
  <2>1. \A t \in Slot \ {s} : pc'[t] = pc[t] /\ workers'[t] = workers[t]
    BY <1>11 DEF Complete, Goto
  <2>2. tab' = tab /\ pc[s] = "cleaned" /\ pc'[s] = "exited"
    BY <1>11 DEF Complete, Goto, ThreadsOK
  <2> QED BY <2>1, <2>2 DEF Finished, Mem
<1>12. CASE UNCHANGED vars
  BY <1>12, SameFinished DEF vars
<1>13. ASSUME NEW v \in VM, v # Main PROVE v \in Slot
  BY <1>13 DEF VM
<1>14. CASE Regions
  BY <1>14, <1>1, <1>2, <1>3, <1>4, <1>5, <1>13 DEF Regions, StaleAccess, NullAccess
<1>15. CASE MainCalls
  BY <1>15, <1>5, <1>6, <1>7, <1>8
     DEF MainCalls, CreateWorkerInactive, DockInactive, JoinCrash
<1>16. CASE \E s \in Slot : Thread(s)
  BY <1>16, <1>9, <1>10, <1>11 DEF Thread
<1> QED BY <1>12, <1>14, <1>15, <1>16 DEF Next

(* When check_worker answers 1 the worker's own table holds no memory, so  *)
(* dock_worker hands over all there is, and nothing is freed behind main's *)
(* back: `complete` is the last thing the thread writes.                   *)
THEOREM CompleteIsFinal == Spec => []CompleteMeansHandedOver
<1>1. Init => Finished
  BY DEF Init, Finished, Idle
<1>2. Finished => CompleteMeansHandedOver
  BY DEF Finished, CompleteMeansHandedOver, CheckWorker, Mem
<1>3. IInv /\ Finished /\ [Next]_vars => (IInv /\ Finished)'
  BY IInvStep, FinishedStep DEF IInv
<1> QED BY IInvInit, <1>1, <1>2, <1>3, PTL DEF Spec

-----------------------------------------------------------------------------
(* No block is lost, if main leaves the regions alone that are out.        *)

HeldSomewhere(b) ==
  \/ \E v \in VM, i \in ArenaId : Mem(v, i) = b
  \/ \E s \in Slot : Keeps(s) /\ SlotMem(s) = b

AllHeld == \A b \in live : HeldSomewhere(b)

(* A pointer is only overwritten where it is NULL: in a slot that is not   *)
(* active, in main's table while the region is out, and in the table of a  *)
(* worker that has no region.                                              *)
InactiveEmpty ==
  /\ \A v \in VM, i \in ArenaId : ~tab[v][i].active => Mem(v, i) = NULL
  /\ \A s \in Slot : ~workers[s].arena.active => SlotMem(s) = NULL

OutEmpty ==
  \A s \in Slot : workers[s].active =>
    tab[Main][workers[s].rid].active /\ Mem(Main, workers[s].rid) = NULL

OneSlotPerRegion ==
  \A s, t \in Slot : workers[s].active /\ workers[t].active
                      /\ workers[s].rid = workers[t].rid => s = t

AtHome(s) == pc[s] \in {"running", "returned", "extracted"}

NoRegionAtHand ==
  \A s \in Slot : ~AtHome(s) => \A i \in RegionId : Mem(s, i) = NULL

Accounted == AllHeld /\ InactiveEmpty /\ OutEmpty /\ OneSlotPerRegion /\ NoRegionAtHand

LEMMA AccountedInit == Init => Accounted
<1> SUFFICES ASSUME Init PROVE Accounted
  OBVIOUS
<1>1. \A v \in VM, i \in ArenaId : Mem(v, i) = IF v = Main /\ i = 0 THEN 1 ELSE NULL
  BY VmInitTable, NoTableIsTable, Slots, WorkerConstants DEF Init, Mem
<1>2. tab[Main][0].active
  BY Slots DEF Init, VmInit, InitArena
<1>3. \A s \in Slot : ~workers[s].active /\ SlotMem(s) = NULL
  BY DEF Init, Idle, SlotMem, Blank
<1>4. AllHeld
  BY <1>1, Slots DEF Init, AllHeld, HeldSomewhere
<1>5. InactiveEmpty
  BY <1>1, <1>2, <1>3 DEF InactiveEmpty
<1>6. OutEmpty /\ OneSlotPerRegion
  BY <1>3 DEF OutEmpty, OneSlotPerRegion
<1>7. NoRegionAtHand
  BY <1>1, Slots DEF NoRegionAtHand
<1> QED BY <1>4, <1>5, <1>6, <1>7 DEF Accounted

LEMMA EndsAccounted == ASSUME NEW why, Ends(why) PROVE Accounted'
<1>1. \A v \in VM, i \in ArenaId : Mem(v, i)' = NULL
  BY NoTableIsTable DEF Ends, Mem
<1>2. \A s \in Slot : ~workers'[s].active /\ SlotMem(s)' = NULL
  BY DEF Ends, Idle, SlotMem, Blank
<1>3. live' = {}
  BY DEF Ends
<1> QED BY <1>1, <1>2, <1>3, Slots DEF Accounted, AllHeld, InactiveEmpty, OutEmpty,
           OneSlotPerRegion, NoRegionAtHand

(* A slot that is not active gets a new block; in main's table, and in a   *)
(* worker's that runs.                                                     *)
LEMMA FreshAccounted ==
  ASSUME TypeInv, Accounted, NEW v \in VM, NEW i \in ArenaId, blocks < MaxBlocks,
         ~tab[v][i].active, v # Main => AtHome(v),
         tab' = [tab EXCEPT ![v][i] = InitArena(tab[v][i], blocks + 1)],
         live' = live \cup {blocks + 1}, UNCHANGED <<workers, pc>>
  PROVE  Accounted'
<1> USE DEF TypeInv, Accounted
<1>1. blocks + 1 \in 1 .. MaxBlocks
  BY NextBlock DEF BlocksOK
<1>2. Mem(v, i) = NULL
  BY DEF InactiveEmpty
<1>3. InitArena(tab[v][i], blocks + 1).mem = blocks + 1
      /\ InitArena(tab[v][i], blocks + 1).active
  BY <1>1, <1>2, CellRead, InitArenaRec DEF Mem, InitArena
<1>4. /\ tab'[v][i].mem = blocks + 1 /\ tab'[v][i].active
      /\ \A w \in VM, j \in ArenaId : ~(w = v /\ j = i) => tab'[w][j] = tab[w][j]
  BY <1>3 DEF TablesOK, Table
<1>5. \A s \in Slot : SlotMem(s)' = SlotMem(s) /\ Keeps(s)' = Keeps(s)
  BY DEF SlotMem, Keeps
<1>6. 0 \notin live
  BY DEF BlocksOK
<1>7. AllHeld'
  <2>1. ASSUME NEW b, b = blocks + 1 PROVE HeldSomewhere(b)'
    BY <2>1, <1>4 DEF HeldSomewhere, Mem
  <2>2. ASSUME NEW b \in live PROVE HeldSomewhere(b)'
    <3>1. HeldSomewhere(b) /\ b # NULL
      BY <1>6 DEF AllHeld, NULL
    <3> QED BY <3>1, <1>2, <1>4, <1>5 DEF HeldSomewhere, Mem
  <2>3. ASSUME NEW b \in live' PROVE HeldSomewhere(b)'
    BY <2>1, <2>2, <2>3
  <2> QED BY <2>3 DEF AllHeld
<1>8. InactiveEmpty'
  BY <1>4, <1>5 DEF InactiveEmpty, Mem, SlotMem
<1>9. OutEmpty'
  BY <1>4, SlotRead, Slots DEF OutEmpty, Mem
<1>10. OneSlotPerRegion'
  BY DEF OneSlotPerRegion
<1>11. NoRegionAtHand'
  BY <1>4, Slots DEF NoRegionAtHand, AtHome, Mem
<1> QED BY <1>7, <1>8, <1>9, <1>10, <1>11

(* A step that moves no memory. *)
LEMMA SameAccounted ==
  ASSUME Accounted, live' = live, UNCHANGED tab,
         \A s \in Slot : /\ workers'[s].arena = workers[s].arena
                         /\ workers'[s].active = workers[s].active
                         /\ workers'[s].rid = workers[s].rid
                         /\ Keeps(s)' = Keeps(s) /\ (AtHome(s) => AtHome(s)')
                         /\ (AtHome(s)' => AtHome(s))
  PROVE  Accounted'
<1> USE DEF Accounted
<1>1. AllHeld'
  BY DEF AllHeld, HeldSomewhere, Mem, SlotMem
<1>2. InactiveEmpty' /\ OutEmpty' /\ OneSlotPerRegion' /\ NoRegionAtHand'
  BY DEF InactiveEmpty, OutEmpty, OneSlotPerRegion, NoRegionAtHand, Mem, SlotMem
<1> QED BY <1>1, <1>2

LEMMA ClearRegionAccounted ==
  ASSUME TypeInv, Accounted, "hands_off" \in Rules,
         NEW v \in VM, NEW i \in RegionId, ClearRegion(v, i)
  PROVE  Accounted'
<1> USE DEF TypeInv, Accounted
<1>1. /\ tab' = [tab EXCEPT ![v][i] = FreeArena(tab[v][i])]
      /\ live' = live \ {Mem(v, i)} /\ UNCHANGED <<workers, pc, blocks>>
      /\ v = Main => ~Out(i)
      /\ v # Main => AtHome(v)
  BY DEF ClearRegion, Mem, Allowed, Executes, AtHome
<1>2. \A w \in VM, j \in ArenaId :
        /\ Mem(w, j)' = IF w = v /\ j = i THEN NULL ELSE Mem(w, j)
        /\ ~(w = v /\ j = i) => tab'[w][j].active = tab[w][j].active
  BY <1>1 DEF FreeArena, TablesOK, Table, Mem
<1>3. \A s \in Slot : SlotMem(s)' = SlotMem(s) /\ Keeps(s)' = Keeps(s)
  BY <1>1 DEF SlotMem, Keeps
<1>4. i \in ArenaId
  BY Slots
<1>5. AllHeld'
  BY <1>1, <1>2, <1>3, <1>4 DEF AllHeld, HeldSomewhere
<1>6. InactiveEmpty'
  BY <1>1, <1>2, <1>3 DEF InactiveEmpty
<1>7. OutEmpty'
  BY <1>1, <1>2, SlotRead, Slots DEF OutEmpty, Out
<1>8. OneSlotPerRegion'
  BY <1>1 DEF OneSlotPerRegion
<1>9. NoRegionAtHand'
  BY <1>1, <1>2, Slots DEF NoRegionAtHand, AtHome
<1> QED BY <1>5, <1>6, <1>7, <1>8, <1>9

LEMMA CreateWorkerAccounted ==
  ASSUME TypeInv, Moves, Accounted, "hands_off" \in Rules,
         NEW s \in Slot, NEW i \in RegionId, NEW entry \in BOOLEAN,
         NEW thread \in BOOLEAN, CreateWorker(s, i, entry, thread)
  PROVE  Accounted'
<1> USE DEF TypeInv, Accounted
<1> DEFINE child == VmInit(tab[s], blocks + 1)
<1>1. blocks + 1 \in 1 .. MaxBlocks
  BY NextBlock DEF CreateWorker, BlocksOK
<1>2. /\ tab[s] \in Table /\ i \in ArenaId /\ s \in VM /\ s # Main
      /\ tab \in [VM -> Table] /\ 0 \in ArenaId /\ i # 0
  BY Slots DEF TablesOK
<1>3. /\ child[0].mem = IF Mem(s, 0) = NULL THEN blocks + 1 ELSE Mem(s, 0)
      /\ \A j \in ArenaId \ {0} : child[j].mem = NULL
      /\ child[0].active
  <2>1. child[0].active
    BY <1>2 DEF VmInit, InitArena
  <2> QED BY <2>1, <1>1, <1>2, VmInitTable DEF Mem
<1>4. /\ tab' = [tab EXCEPT ![Main][i].mem = NULL, ![s] = child]
      /\ live' = live \cup {child[0].mem}
      /\ workers' = [workers EXCEPT ![s] =
            [active |-> TRUE, complete |-> FALSE, error |-> FALSE, entry |-> entry,
             rid |-> i, arena |-> tab[Main][i]]]
      /\ pc' = [pc EXCEPT ![s] = IF thread THEN "spawned" ELSE "no_thread"]
      /\ tab[Main][i].active /\ ~workers[s].active /\ ~Out(i)
  BY DEF CreateWorker, Allowed, FirstSlot
<1> HIDE DEF child
<1>5. /\ tab'[s] = child
      /\ tab'[Main][i].mem = NULL /\ tab'[Main][i].active
      /\ \A w \in VM \ {s}, j \in ArenaId :
           ~(w = Main /\ j = i) => tab'[w][j] = tab[w][j]
  <2>1. tab[Main][i] \in ArenaRec
    BY <1>2, CellRead, Slots
  <2>2. tab'[s] = child
    BY <1>2, <1>4
  <2>3. tab'[Main][i] = [tab[Main][i] EXCEPT !.mem = NULL]
    BY <1>2, <1>4, Slots DEF Table
  <2>4. \A w \in VM \ {s}, j \in ArenaId :
          ~(w = Main /\ j = i) => tab'[w][j] = tab[w][j]
    BY <1>2, <1>4 DEF Table
  <2>5. tab'[Main][i].mem = NULL /\ tab'[Main][i].active = tab[Main][i].active
    BY <2>1, <2>3 DEF ArenaRec
  <2>6. tab[Main][i].active
    BY <1>4
  <2> QED BY <2>2, <2>4, <2>5, <2>6
<1>6. /\ pc'[s] \in {"spawned", "no_thread"} /\ workers'[s].active
      /\ workers'[s].rid = i /\ workers'[s].arena = tab[Main][i]
  BY <1>4 DEF WorkersOK, ThreadsOK
<1>7. \A t \in Slot \ {s} : workers'[t] = workers[t] /\ pc'[t] = pc[t]
  BY <1>4
<1>8. \A t \in Slot : /\ SlotMem(t)' = IF t = s THEN Mem(Main, i) ELSE SlotMem(t)
                      /\ Keeps(t)' = IF t = s THEN TRUE ELSE Keeps(t)
  BY <1>6, <1>7 DEF SlotMem, Mem, Keeps
<1>9. ~Keeps(s) /\ \A j \in RegionId : Mem(s, j) = NULL
  BY <1>4 DEF Keeps, NoRegionAtHand, AtHome, Moves, SlotTaken
<1>10. ASSUME NEW b \in live' PROVE HeldSomewhere(b)'
  <2>1. CASE b = child[0].mem
    BY <2>1, <1>2, <1>5 DEF HeldSomewhere, Mem
  <2>2. CASE b # child[0].mem
    <3>1. HeldSomewhere(b) /\ b # NULL
      BY <2>2, <1>4, <1>10 DEF AllHeld, BlocksOK, NULL
    <3>2. ASSUME NEW t \in Slot, Keeps(t), SlotMem(t) = b PROVE HeldSomewhere(b)'
      BY <3>2, <1>8, <1>9 DEF HeldSomewhere
    <3>3. ASSUME NEW v \in VM, NEW j \in ArenaId, Mem(v, j) = b PROVE HeldSomewhere(b)'
      <4>1. CASE v = s
        <5>1. j \in RegionId \/ j = 0
          BY DEF ArenaId, RegionId
        <5> QED BY <5>1, <4>1, <3>1, <3>3, <2>2, <1>3, <1>9
      <4>2. CASE v = Main /\ j = i
        BY <4>2, <3>3, <1>8 DEF HeldSomewhere
      <4>3. CASE v # s /\ ~(v = Main /\ j = i)
        BY <4>3, <3>3, <1>5 DEF HeldSomewhere, Mem
      <4> QED BY <4>1, <4>2, <4>3
    <3> QED BY <3>1, <3>2, <3>3 DEF HeldSomewhere
  <2> QED BY <2>1, <2>2
<1>11. AllHeld'
  BY <1>10 DEF AllHeld
<1>12. InactiveEmpty'
  <2>1. ASSUME NEW v \in VM, NEW j \in ArenaId, ~tab'[v][j].active
        PROVE  tab'[v][j].mem = NULL
    <3>1. CASE v = s
      BY <3>1, <2>1, <1>3, <1>5
    <3>2. CASE v # s
      BY <3>2, <2>1, <1>5 DEF InactiveEmpty, Mem
    <3> QED BY <3>1, <3>2
  <2>2. ASSUME NEW t \in Slot, ~workers'[t].arena.active
        PROVE  workers'[t].arena.mem = NULL
    BY <2>2, <1>4, <1>6, <1>7 DEF InactiveEmpty, SlotMem
  <2> QED BY <2>1, <2>2 DEF InactiveEmpty, Mem, SlotMem
<1>13. OutEmpty'
  <2>2. ASSUME NEW t \in Slot \ {s}, workers'[t].active
        PROVE  tab'[Main][workers'[t].rid].active /\ tab'[Main][workers'[t].rid].mem = NULL
    <3>1. workers'[t] = workers[t] /\ workers[t].active /\ workers[t].rid \in ArenaId
      BY <2>2, <1>7, SlotRead
    <3>2. tab[Main][workers[t].rid].active /\ tab[Main][workers[t].rid].mem = NULL
      BY <3>1 DEF OutEmpty, Mem
    <3> QED BY <3>1, <3>2, <1>2, <1>5, Slots DEF Mem
  <2> QED BY <2>2, <1>5, <1>6 DEF OutEmpty, Mem
<1>14. OneSlotPerRegion'
  BY <1>4, <1>6, <1>7 DEF OneSlotPerRegion, Out
<1>15. NoRegionAtHand'
  BY <1>2, <1>3, <1>5, <1>6, <1>7, Slots DEF NoRegionAtHand, AtHome, Mem
<1> QED BY <1>11, <1>12, <1>13, <1>14, <1>15

(* The region comes back to main's table, or to the thread's. *)
LEMMA SlotToTableAccounted ==
  ASSUME TypeInv, Accounted, NEW s \in Slot, NEW v \in VM,
         Mem(v, workers[s].rid) = NULL,
         NEW a \in ArenaRec, a.mem = SlotMem(s), ~a.active => a.mem = NULL,
         tab' = [tab EXCEPT ![v][workers[s].rid] = a], live' = live,
         v = Main => ~workers'[s].active, v # Main => AtHome(v)',
         workers[s].active,
         \A t \in Slot : /\ workers'[t].arena = workers[t].arena
                         /\ workers'[t].rid = workers[t].rid
                         /\ workers'[t].active => workers[t].active
                         /\ t # s => (Keeps(t) => Keeps(t)')
                         /\ AtHome(t) => AtHome(t)'
  PROVE  Accounted'
<1> USE DEF TypeInv, Accounted
<1> DEFINE i == workers[s].rid
<1>1. i \in ArenaId
  BY SlotRead
<1>2. /\ tab'[v][i] = a
      /\ \A w \in VM, j \in ArenaId : ~(w = v /\ j = i) => tab'[w][j] = tab[w][j]
  BY <1>1 DEF TablesOK, Table
<1>3. tab[v][i].mem = NULL
  BY DEF Mem
<1>4. ASSUME NEW t \in Slot, workers[t].active, v = Main, t # s PROVE workers[t].rid # i
  BY <1>4 DEF OneSlotPerRegion
<1> HIDE DEF i
<1>5. AllHeld'
  <2>1. ASSUME NEW b \in live PROVE HeldSomewhere(b)'
    <3>1. HeldSomewhere(b) /\ b # NULL
      BY DEF AllHeld, BlocksOK, NULL
    <3>2. ASSUME NEW t \in Slot, Keeps(t), SlotMem(t) = b PROVE HeldSomewhere(b)'
      <4>1. CASE t = s
        BY <4>1, <3>2, <1>1, <1>2 DEF HeldSomewhere, Mem
      <4>2. CASE t # s
        BY <4>2, <3>2 DEF HeldSomewhere, SlotMem
      <4> QED BY <4>1, <4>2
    <3>3. ASSUME NEW w \in VM, NEW j \in ArenaId, tab[w][j].mem = b PROVE HeldSomewhere(b)'
      BY <3>1, <3>3, <1>2, <1>3 DEF HeldSomewhere, Mem
    <3> QED BY <3>1, <3>2, <3>3 DEF HeldSomewhere, Mem
  <2> QED BY <2>1 DEF AllHeld
<1>6. InactiveEmpty'
  BY <1>2 DEF InactiveEmpty, Mem, SlotMem
<1>7. OutEmpty'
  <2> SUFFICES ASSUME NEW t \in Slot, workers'[t].active
               PROVE  tab'[Main][workers'[t].rid].active /\ tab'[Main][workers'[t].rid].mem = NULL
    BY DEF OutEmpty, Mem
  <2>1. /\ workers[t].active /\ workers'[t].rid = workers[t].rid
        /\ workers[t].rid \in ArenaId
    BY SlotRead
  <2>2. tab[Main][workers[t].rid].active /\ tab[Main][workers[t].rid].mem = NULL
    BY <2>1 DEF OutEmpty, Mem
  <2>3. ~(Main = v /\ workers[t].rid = i)
    BY <2>1, <1>4
  <2> QED BY <2>1, <2>2, <2>3, <1>2, Slots
<1>8. OneSlotPerRegion'
  BY DEF OneSlotPerRegion
<1>9. NoRegionAtHand'
  BY <1>2, Slots DEF NoRegionAtHand, Mem
<1> QED BY <1>5, <1>6, <1>7, <1>8, <1>9

LEMMA ExtractAccounted ==
  ASSUME TypeInv, Moves, Accounted, NEW s \in Slot, Extract(s)
  PROVE  Accounted'
<1> USE DEF TypeInv, Accounted
<1> DEFINE i == workers[s].rid
<1>1. i \in ArenaId /\ s \in VM /\ s # Main /\ tab[s][i] \in ArenaRec
  BY Slots, SlotRead, CellRead
<1>2. /\ tab' = [tab EXCEPT ![s][i] = [tab[s][i] EXCEPT !.mem = NULL]]
      /\ workers' = [workers EXCEPT ![s].arena = tab[s][i]]
      /\ pc[s] = "returned" /\ pc' = [pc EXCEPT ![s] = "extracted"] /\ live' = live
  BY DEF Extract, Goto, Mem
<1> HIDE DEF i
<1>3. /\ tab'[s][i].mem = NULL
      /\ \A w \in VM, j \in ArenaId : ~(w = s /\ j = i) => tab'[w][j] = tab[w][j]
  <2>1. tab'[s][i] = [tab[s][i] EXCEPT !.mem = NULL]
    BY <1>1, <1>2 DEF TablesOK, Table
  <2> QED BY <1>1, <1>2, <2>1 DEF TablesOK, Table, ArenaRec
<1>4. /\ workers'[s].arena = tab[s][i] /\ workers[s].active /\ ~Keeps(s) /\ Keeps(s)'
      /\ \A t \in Slot : /\ workers'[t].active = workers[t].active
                         /\ workers'[t].rid = workers[t].rid
                         /\ AtHome(t)' = AtHome(t)
                         /\ t # s => /\ workers'[t].arena = workers[t].arena
                                     /\ Keeps(t)' = Keeps(t)
  BY <1>2 DEF Keeps, AtHome, WorkersOK, Rec, ThreadsOK, Moves, SlotTaken
<1>5. AllHeld'
  <2>1. ASSUME NEW b \in live PROVE HeldSomewhere(b)'
    <3>1. HeldSomewhere(b)
      BY DEF AllHeld
    <3>2. ASSUME NEW t \in Slot, Keeps(t), SlotMem(t) = b PROVE HeldSomewhere(b)'
      BY <3>2, <1>4 DEF HeldSomewhere, SlotMem
    <3>3. ASSUME NEW w \in VM, NEW j \in ArenaId, tab[w][j].mem = b PROVE HeldSomewhere(b)'
      <4>1. CASE w = s /\ j = i
        BY <4>1, <3>3, <1>4 DEF HeldSomewhere, SlotMem
      <4>2. CASE ~(w = s /\ j = i)
        BY <4>2, <3>3, <1>3 DEF HeldSomewhere, Mem
      <4> QED BY <4>1, <4>2
    <3> QED BY <3>1, <3>2, <3>3 DEF HeldSomewhere, Mem
  <2> QED BY <1>2, <2>1 DEF AllHeld
<1>6. InactiveEmpty'
  BY <1>1, <1>3, <1>4 DEF InactiveEmpty, Mem, SlotMem
<1>7. OutEmpty'
  BY <1>1, <1>3, <1>4, SlotRead, Slots DEF OutEmpty, Mem
<1>8. OneSlotPerRegion'
  BY <1>4 DEF OneSlotPerRegion
<1>9. NoRegionAtHand'
  BY <1>3, <1>4, Slots DEF NoRegionAtHand, Mem
<1> QED BY <1>5, <1>6, <1>7, <1>8, <1>9

LEMMA CleanupAccounted ==
  ASSUME TypeInv, Accounted, NEW s \in Slot, Cleanup(s)
  PROVE  Accounted'
<1> USE DEF TypeInv, Accounted
<1>1. /\ live' = live \ {tab[s][i].mem : i \in ArenaId}
      /\ tab' = [tab EXCEPT ![s] = [i \in ArenaId |-> FreeArena(tab[s][i])]]
      /\ pc[s] = "extracted" /\ pc' = [pc EXCEPT ![s] = "cleaned"]
      /\ workers' = workers
  BY DEF Cleanup, Goto
<1>2. s \in VM /\ s # Main
  BY Slots
<1>3. /\ \A i \in ArenaId : tab'[s][i].mem = NULL
      /\ \A w \in VM \ {s} : tab'[w] = tab[w]
  BY <1>1, <1>2, CellRead, FreeArenaRec DEF TablesOK
<1>4. \A t \in Slot : /\ Keeps(t)' = Keeps(t)
                      /\ t # s => (AtHome(t) => AtHome(t)')
  BY <1>1 DEF Keeps, AtHome, ThreadsOK
<1>5. AllHeld'
  <2>1. ASSUME NEW b \in live' PROVE HeldSomewhere(b)'
    <3>1. HeldSomewhere(b) /\ \A i \in ArenaId : tab[s][i].mem # b
      BY <1>1, <2>1 DEF AllHeld
    <3> QED BY <3>1, <1>1, <1>3, <1>4 DEF HeldSomewhere, Mem, SlotMem
  <2> QED BY <2>1 DEF AllHeld
<1>6. InactiveEmpty'
  BY <1>1, <1>3 DEF InactiveEmpty, Mem, SlotMem
<1>7. OutEmpty'
  BY <1>1, <1>2, <1>3, Slots DEF OutEmpty, Mem
<1>8. OneSlotPerRegion'
  BY <1>1 DEF OneSlotPerRegion
<1>9. NoRegionAtHand'
  BY <1>2, <1>3, <1>4, Slots DEF NoRegionAtHand, Mem
<1> QED BY <1>5, <1>6, <1>7, <1>8, <1>9

LEMMA AccountedStep ==
  ASSUME "hands_off" \in Rules
  PROVE  TypeInv /\ Moves /\ Accounted /\ [Next]_vars => Accounted'
<1> SUFFICES ASSUME TypeInv, Moves, Accounted, [Next]_vars PROVE Accounted'
  OBVIOUS
<1> USE Slots
<1>0. ASSUME NEW v \in VM, v # Main PROVE v \in Slot
  BY <1>0 DEF VM
<1>1. ASSUME NEW v \in VM, NEW i \in RegionId, CreateRegion(v, i) PROVE Accounted'
  <2>1. ~tab[v][i].active /\ (v # Main => AtHome(v))
    BY <1>1 DEF CreateRegion, FirstFree, FreeSlots, Executes, AtHome
  <2> QED BY <1>1, <2>1, FreshAccounted DEF CreateRegion
<1>2. ASSUME NEW v \in VM, NEW i \in RegionId, ClearRegion(v, i) PROVE Accounted'
  BY <1>2, ClearRegionAccounted
<1>3. ASSUME NEW v \in VM, NEW i \in ArenaId, NEW keep \in SUBSET ptrs[v],
             HeapAlloc(v, i, keep)
      PROVE Accounted'
  BY <1>3, SameAccounted DEF HeapAlloc, Keeps, AtHome
<1>4. ASSUME NEW s \in Slot, NEW keep \in SUBSET ptrs[s], LazyAlloc(s, keep)
      PROVE Accounted'
  <2>1. ~tab[s][workers[s].rid].active /\ AtHome(s) /\ workers[s].rid \in ArenaId
    BY <1>4, SlotRead DEF LazyAlloc, Executes, AtHome, TypeInv
  <2> QED BY <1>4, <2>1, FreshAccounted DEF LazyAlloc
<1>5. ASSUME NEW why, Ends(why) PROVE Accounted'
  BY <1>5, EndsAccounted
<1>6. ASSUME NEW s \in Slot, NEW i \in RegionId, NEW entry \in BOOLEAN,
             NEW thread \in BOOLEAN, CreateWorker(s, i, entry, thread)
      PROVE Accounted'
  BY <1>6, CreateWorkerAccounted
<1>7. ASSUME NEW s \in Slot, DockWorker(s) PROVE Accounted'
  BY <1>7, SameAccounted DEF DockWorker, Keeps, AtHome
<1>8. ASSUME NEW s \in Slot, NEW keep \in SUBSET (ptrs[Main] \cup ptrs[s]),
             Docked(s, keep)
      PROVE Accounted'
  <2> DEFINE a == [workers[s].arena EXCEPT !.active = TRUE]
  <2>1. /\ tab' = [tab EXCEPT ![Main][workers[s].rid] = a]
        /\ workers' = [workers EXCEPT ![s].active = FALSE]
        /\ pc[s] \in {"exited", "no_thread"} /\ pc' = [pc EXCEPT ![s] = "none"]
        /\ live' = live
    BY <1>8 DEF Docked
  <2>2. a \in ArenaRec /\ a.mem = SlotMem(s) /\ (~a.active => a.mem = NULL)
    BY SlotRead DEF TypeInv, ArenaRec, SlotMem
  <2>3. workers[s].active
    BY <2>1 DEF Moves, SlotTaken
  <2>4. Mem(Main, workers[s].rid) = NULL
    BY <2>3 DEF Accounted, OutEmpty
  <2>5. ~workers'[s].active
    BY <2>1 DEF TypeInv, WorkersOK, Rec
  <2>6. \A t \in Slot : /\ workers'[t].arena = workers[t].arena
                        /\ workers'[t].rid = workers[t].rid
                        /\ workers'[t].active => workers[t].active
                        /\ t # s => (Keeps(t) => Keeps(t)')
                        /\ AtHome(t) => AtHome(t)'
    BY <2>1, <2>3 DEF TypeInv, WorkersOK, Rec, ThreadsOK, Keeps, AtHome
  <2> HIDE DEF a
  <2> QED BY <2>1, <2>2, <2>3, <2>4, <2>5, <2>6, SlotToTableAccounted
<1>9. ASSUME NEW s \in Slot, Inject(s) PROVE Accounted'
  <2> DEFINE a == workers[s].arena
             to == IF workers[s].entry THEN "running" ELSE "returned"
  <2>1. /\ tab' = [tab EXCEPT ![s][workers[s].rid] = a]
        /\ workers' = [workers EXCEPT ![s].error = ~workers[s].entry]
        /\ pc[s] = "spawned" /\ pc' = [pc EXCEPT ![s] = to]
        /\ live' = live
    BY <1>9 DEF Inject, Goto
  <2>2. a \in ArenaRec /\ a.mem = SlotMem(s) /\ workers[s].rid \in RegionId
        /\ to \in {"running", "returned"}
    BY SlotRead DEF TypeInv, SlotMem
  <2>3. workers[s].active
    BY <2>1 DEF Moves, SlotTaken
  <2>4. Mem(s, workers[s].rid) = NULL
    BY <2>1, <2>2 DEF Accounted, NoRegionAtHand, AtHome
  <2> HIDE DEF to
  <2>5. AtHome(s)'
    BY <2>1, <2>2 DEF TypeInv, ThreadsOK, AtHome
  <2>6. \A t \in Slot : /\ workers'[t].arena = workers[t].arena
                        /\ workers'[t].rid = workers[t].rid
                        /\ workers'[t].active = workers[t].active
    BY <2>1 DEF TypeInv, WorkersOK, Rec
  <2>7. \A t \in Slot : /\ t # s => (Keeps(t) => Keeps(t)')
                        /\ AtHome(t) => AtHome(t)'
    BY <2>1, <2>2, <2>6 DEF TypeInv, ThreadsOK, Keeps, AtHome
  <2>8. ~a.active => a.mem = NULL
    BY DEF Accounted, InactiveEmpty, SlotMem
  <2> HIDE DEF a
  <2> QED BY <2>1, <2>2, <2>3, <2>4, <2>5, <2>6, <2>7, <2>8, SlotToTableAccounted
<1>10. ASSUME NEW s \in Slot, Return(s) PROVE Accounted'
  BY <1>10, SameAccounted DEF Return, Goto, Keeps, AtHome, TypeInv, ThreadsOK
<1>11. ASSUME NEW s \in Slot, Extract(s) PROVE Accounted'
  BY <1>11, ExtractAccounted
<1>12. ASSUME NEW s \in Slot, Cleanup(s) PROVE Accounted'
  BY <1>12, CleanupAccounted
<1>13. ASSUME NEW s \in Slot, Complete(s) PROVE Accounted'
  <2>1. \A t \in Slot : /\ workers'[t].arena = workers[t].arena
                        /\ workers'[t].active = workers[t].active
                        /\ workers'[t].rid = workers[t].rid
    BY <1>13 DEF Complete, TypeInv, WorkersOK, Rec
  <2> QED BY <1>13, <2>1, SameAccounted
          DEF Complete, Goto, Keeps, AtHome, TypeInv, ThreadsOK
<1>14. CASE UNCHANGED vars
  BY <1>14, SameAccounted DEF vars, Keeps, AtHome
<1>15. CASE Regions
  BY <1>15, <1>0, <1>1, <1>2, <1>3, <1>4, <1>5 DEF Regions, StaleAccess, NullAccess
<1>16. CASE MainCalls
  BY <1>16, <1>5, <1>6, <1>7, <1>8
     DEF MainCalls, CreateWorkerInactive, DockInactive, JoinCrash
<1>17. CASE \E s \in Slot : Thread(s)
  BY <1>17, <1>9, <1>10, <1>11, <1>12, <1>13 DEF Thread
<1> QED BY <1>14, <1>15, <1>16, <1>17 DEF Next

(* A program that neither clears nor lends again a region a worker has     *)
(* leaks no block: create_worker, the thread and dock_worker overwrite a   *)
(* `memory` pointer only where it is NULL, with any number of workers.     *)
THEOREM NoBlockIsLost ==
  ASSUME "hands_off" \in Rules
  PROVE  Spec => []NoLeak
<1>1. Accounted => NoLeak
  <2> SUFFICES ASSUME Accounted, NEW b \in live
               PROVE  InTables(b) # {} \/ InSlots(b) # {}
    BY DEF NoLeak
  <2>1. ASSUME NEW v \in VM, NEW i \in ArenaId, Mem(v, i) = b
        PROVE  <<v, i>> \in InTables(b)
    BY <2>1 DEF InTables, Mem
  <2>2. ASSUME NEW s \in Slot, Keeps(s), SlotMem(s) = b PROVE s \in InSlots(b)
    BY <2>2 DEF InSlots, Keeps, SlotMem
  <2>3. HeldSomewhere(b)
    BY DEF Accounted, AllHeld
  <2> QED BY <2>1, <2>2, <2>3 DEF HeldSomewhere
<1>2. IInv /\ Accounted /\ [Next]_vars => (IInv /\ Accounted)'
  BY IInvStep, AccountedStep DEF IInv
<1> QED BY IInvInit, AccountedInit, <1>1, <1>2, PTL DEF Spec

-----------------------------------------------------------------------------
(* References, while generations do not wrap around, of programs that pass *)
(* only references into the region to and from a worker.                   *)

(* What the record a says of the object p was made for, after n blocks, of *)
(* which l exist: its generation is not older; if it is p's own, it has    *)
(* p's block or none; and as long as the block exists, it has it.          *)
Follows(p, a, n, l) ==
  /\ p.block <= n /\ p.gen <= a.gen
  /\ p.gen = a.gen => a.mem \in {p.block, NULL}
  /\ p.block \in l => a.active /\ a.gen = p.gen /\ a.mem = p.block

(* Where the region a worker has is kept: the thread's table while it      *)
(* works, its slot before and after.                                       *)
Region(s) ==
  IF pc[s] \in {"running", "returned"} THEN tab[s][workers[s].rid]
  ELSE workers[s].arena

(* A reference of main follows the region: in its own table, or where the  *)
(* region has gone.                                                        *)
MainFollows ==
  \A p \in ptrs[Main] :
    /\ ~Out(p.arena) => Follows(p, tab[Main][p.arena], blocks, live)
    /\ \A s \in Slot : workers[s].active /\ workers[s].rid = p.arena =>
         Follows(p, Region(s), blocks, live)

(* A worker's references into its region follow it too; those into regions *)
(* and the main heap of its own VM matter while it works.                  *)
WorkerFollows ==
  \A s \in Slot : \A p \in ptrs[s] :
    /\ pc[s] # "none" /\ p.arena = workers[s].rid => Follows(p, Region(s), blocks, live)
    /\ pc[s] = "running" => Follows(p, tab[s][p.arena], blocks, live)
    /\ pc[s] \in {"spawned", "no_thread"} => p.arena = workers[s].rid

(* Every new generation of a region costs a block.                         *)
GensPaid ==
  /\ \A v \in VM, i \in RegionId : tab[v][i].gen <= blocks
  /\ \A s \in Slot : workers[s].arena.gen <= blocks

Followed == MainFollows /\ WorkerFollows /\ GensPaid

-----------------------------------------------------------------------------
(* More blocks are allocated, and others freed: a reference still follows. *)
LEMMA FollowsLater ==
  ASSUME NEW p \in Ref, NEW a \in ArenaRec, NEW n \in Nat, NEW m \in Nat, n <= m,
         NEW l, NEW k, p.block \in k => p.block \in l \/ p.block > n,
         Follows(p, a, n, l)
  PROVE  Follows(p, a, m, k)
<1>1. p.block \in Nat
  BY WorkerConstants DEF Ref
<1> QED BY <1>1 DEF Follows

(* init_arena makes a new generation of a region that has no memory, which *)
(* no reference belongs to, and its block is none that exists.             *)
LEMMA FollowsInit ==
  ASSUME NEW p \in Ref, NEW a \in ArenaRec, a.mem = NULL, NEW n \in Nat, NEW l,
         a.gen <= n, n + 1 < GEN_MOD, Follows(p, a, n, l)
  PROVE  Follows(p, InitArena(a, n + 1), n + 1, l \cup {n + 1})
<1>1. /\ p.block \in Nat \ {0} /\ p.gen \in Nat /\ a.gen \in Nat
  BY ArenaConstants, WorkerConstants DEF Ref, ArenaRec
<1>2. NextGen(a.gen) = a.gen + 1
  <2>1. (a.gen + 1) % GEN_MOD = a.gen + 1
    BY <1>1, ArenaConstants
  <2> QED BY <1>1, <2>1 DEF NextGen
<1>3. p.block \notin l /\ p.block <= n /\ p.gen <= a.gen
  BY <1>1 DEF Follows, NULL
<1>4. InitArena(a, n + 1).gen = a.gen + 1 /\ InitArena(a, n + 1).gen <= n + 1
  BY <1>1, <1>2 DEF InitArena
<1> QED BY <1>1, <1>3, <1>4 DEF Follows

(* The generation init_arena counts, as long as it does not wrap around.   *)
LEMMA InitGen ==
  ASSUME NEW a \in ArenaRec, NEW n \in Nat, a.gen <= n, n + 1 < GEN_MOD
  PROVE  InitArena(a, n + 1).gen <= n + 1
<1>1. a.gen \in Nat
  BY ArenaConstants DEF ArenaRec
<1>2. (a.gen + 1) % GEN_MOD = a.gen + 1
  BY <1>1, ArenaConstants
<1> QED BY <1>1, <1>2 DEF NextGen, InitArena

(* free_arena frees the block, and leaves the generation.                  *)
LEMMA FollowsFree ==
  ASSUME NEW p \in Ref, NEW a \in ArenaRec, NEW n \in Nat, NEW l, Follows(p, a, n, l)
  PROVE  Follows(p, FreeArena(a), n, l \ {a.mem})
BY DEF Follows, FreeArena

(* dock_worker marks the region as active.                                 *)
LEMMA FollowsDocked ==
  ASSUME NEW p \in Ref, NEW a \in ArenaRec, NEW n \in Nat, NEW l, Follows(p, a, n, l)
  PROVE  Follows(p, [a EXCEPT !.active = TRUE], n, l)
BY DEF Follows, ArenaRec

(* A reference to what was just allocated.                                 *)
LEMMA FollowsNew ==
  ASSUME NEW i \in ArenaId, NEW a \in ArenaRec, NEW n \in Nat, NEW l,
         a.active, a.mem <= n
  PROVE  Follows(NewPtr(i, a), a, n, l) /\ NewPtr(i, a).arena = i
<1>1. a.gen \in Nat
  BY ArenaConstants DEF ArenaRec
<1> QED BY <1>1 DEF Follows, NewPtr

(* The types of what is followed.                                          *)
LEMMA FollowTypes ==
  ASSUME TypeInv
  PROVE  /\ blocks \in Nat /\ tab \in [VM -> Table]
         /\ \A v \in VM : \A p \in ptrs[v] : p \in Ref /\ p.arena \in ArenaId
         /\ \A v \in VM, i \in ArenaId : tab[v][i] \in ArenaRec
         /\ \A s \in Slot : /\ workers[s].rid \in RegionId /\ workers[s].rid \in ArenaId
                            /\ workers[s].arena \in ArenaRec /\ Region(s) \in ArenaRec
                            /\ s \in VM /\ s # Main
<1>1. blocks \in Nat /\ tab \in [VM -> Table]
  BY DEF TypeInv, BlocksOK, TablesOK
<1>2. \A v \in VM : \A p \in ptrs[v] : p \in Ref /\ p.arena \in ArenaId
  BY DEF TypeInv, RefsOK, Ref
<1>3. \A v \in VM, i \in ArenaId : tab[v][i] \in ArenaRec
  BY <1>1 DEF Table
<1>4. \A s \in Slot : /\ workers[s].rid \in RegionId /\ workers[s].rid \in ArenaId
                      /\ workers[s].arena \in ArenaRec /\ s \in VM /\ s # Main
  BY Slots, SlotRead DEF TypeInv
<1> QED BY <1>1, <1>2, <1>3, <1>4 DEF Region

(* A VM that executes writes a cell of its table, or none, and makes       *)
(* references to the region of that cell.                                  *)
LEMMA CellFollowed ==
  ASSUME TypeInv, TypeInv', Followed, NEW v \in VM, NEW i \in ArenaId, Executes(v),
         v = Main => ~Out(i), UNCHANGED <<workers, pc>>, NEW a \in ArenaRec,
         tab' = [tab EXCEPT ![v][i] = a], blocks <= blocks',
         i \in RegionId => a.gen <= blocks',
         \A p \in Ref : Follows(p, tab[v][i], blocks, live) => Follows(p, a, blocks', live'),
         \A p \in Ref, c \in ArenaRec :
           Follows(p, c, blocks, live) => Follows(p, c, blocks', live'),
         \A w \in VM : \A p \in ptrs'[w] :
           \/ p \in ptrs[w]
           \/ w = v /\ p.arena = i /\ Follows(p, a, blocks', live')
  PROVE  Followed'
<1> USE DEF Followed
<1>1. /\ tab'[v][i] = a
      /\ \A w \in VM, j \in ArenaId : ~(w = v /\ j = i) => tab'[w][j] = tab[w][j]
  BY FollowTypes DEF Table
<1>2. \A s \in Slot : \/ Region(s)' = Region(s)
                      \/ s = v /\ workers[s].rid = i /\ Region(s) = tab[v][i] /\ Region(s)' = a
  BY <1>1, FollowTypes DEF Region
<1>3. \A p \in Ref, s \in Slot :
        Follows(p, Region(s), blocks, live) => Follows(p, Region(s)', blocks', live')
  BY <1>2, FollowTypes
<1>4. \A p \in Ref, w \in VM : p.arena \in ArenaId /\
        Follows(p, tab[w][p.arena], blocks, live) => Follows(p, tab'[w][p.arena], blocks', live')
  BY <1>1, FollowTypes
<1>5. \A j : Out(j)' = Out(j)
  BY DEF Out
<1>6. MainFollows'
  <2> SUFFICES ASSUME NEW p \in ptrs'[Main]
               PROVE  /\ ~Out(p.arena) => Follows(p, tab'[Main][p.arena], blocks', live')
                      /\ \A s \in Slot : workers[s].active /\ workers[s].rid = p.arena =>
                           Follows(p, Region(s)', blocks', live')
    BY <1>5 DEF MainFollows
  <2>1. CASE p \in ptrs[Main]
    <3>1. p \in Ref /\ p.arena \in ArenaId /\ Main \in VM
      BY <2>1, FollowTypes, Slots
    <3> QED BY <2>1, <3>1, <1>3, <1>4 DEF MainFollows
  <2>2. CASE Main = v /\ p.arena = i /\ Follows(p, a, blocks', live')
    BY <2>2, <1>1 DEF Out
  <2> QED BY <2>1, <2>2, Slots
<1>7. WorkerFollows'
  <2> SUFFICES ASSUME NEW s \in Slot, NEW p \in ptrs'[s]
               PROVE  /\ pc[s] # "none" /\ p.arena = workers[s].rid =>
                           Follows(p, Region(s)', blocks', live')
                      /\ pc[s] = "running" => Follows(p, tab'[s][p.arena], blocks', live')
                      /\ pc[s] \in {"spawned", "no_thread"} => p.arena = workers[s].rid
    BY DEF WorkerFollows
  <2>0. s \in VM /\ s # Main
    BY FollowTypes
  <2>1. CASE p \in ptrs[s]
    <3>1. p \in Ref /\ p.arena \in ArenaId
      BY <2>0, <2>1, FollowTypes
    <3> QED BY <2>0, <2>1, <3>1, <1>3, <1>4 DEF WorkerFollows
  <2>2. CASE s = v /\ p.arena = i /\ Follows(p, a, blocks', live')
    <3>1. pc[s] = "running"
      BY <2>0, <2>2 DEF Executes
    <3> QED BY <2>2, <3>1, <1>1 DEF Region
  <2> QED BY <2>0, <2>1, <2>2
<1>8. GensPaid'
  <2>1. ASSUME NEW w \in VM, NEW j \in RegionId PROVE tab'[w][j].gen <= blocks'
    <3>1. j \in ArenaId /\ tab[w][j].gen <= blocks
      BY Slots DEF GensPaid
    <3>2. CASE w = v /\ j = i
      BY <1>1, <3>2
    <3>3. CASE ~(w = v /\ j = i)
      <4>1. tab[w][j].gen \in Nat /\ blocks \in Nat /\ blocks' \in Nat
        BY <3>1, FollowTypes, ArenaConstants DEF ArenaRec, TypeInv, BlocksOK
      <4> QED BY <1>1, <3>1, <3>3, <4>1
    <3> QED BY <3>2, <3>3
  <2>2. ASSUME NEW s \in Slot PROVE workers'[s].arena.gen <= blocks'
    <3>1. workers[s].arena.gen \in Nat /\ blocks \in Nat /\ blocks' \in Nat
      BY FollowTypes, ArenaConstants DEF ArenaRec, TypeInv, BlocksOK
    <3> QED BY <3>1 DEF GensPaid
  <2> QED BY <2>1, <2>2 DEF GensPaid
<1> QED BY <1>6, <1>7, <1>8

(* Steps of a thread, or of main, that leave each region where it is or    *)
(* move it between a slot and the thread's table.                          *)
LEMMA ThreadFollowed ==
  ASSUME TypeInv, TypeInv', Followed, UNCHANGED <<ptrs, blocks>>, live' \subseteq live,
         tab'[Main] = tab[Main],
         \A v \in VM, i \in RegionId : tab'[v][i].gen <= blocks,
         \A s \in Slot :
           /\ workers'[s].active = workers[s].active
           /\ workers'[s].rid = workers[s].rid /\ workers'[s].arena.gen <= blocks
           /\ Region(s)' = Region(s)
           /\ \/ pc'[s] = pc[s] /\ tab'[s] = tab[s]
              \/ /\ pc[s] = "spawned" /\ pc'[s] \in {"running", "returned"}
                 /\ tab'[s][workers[s].rid] = Region(s)
              \/ /\ pc[s] # "none"
                 /\ pc'[s] \in {"returned", "extracted", "cleaned", "exited"}
  PROVE  Followed'
<1> USE DEF Followed
<1>1. \A p \in Ref, c \in ArenaRec :
        Follows(p, c, blocks, live) => Follows(p, c, blocks, live')
  BY DEF Follows
<1>2. \A j : Out(j)' = Out(j)
  BY DEF Out
<1>3. MainFollows'
  <2> SUFFICES ASSUME NEW p \in ptrs[Main]
               PROVE  /\ ~Out(p.arena) => Follows(p, tab[Main][p.arena], blocks, live')
                      /\ \A s \in Slot : workers[s].active /\ workers[s].rid = p.arena =>
                           Follows(p, Region(s), blocks, live')
    BY <1>2 DEF MainFollows
  <2>1. p \in Ref /\ p.arena \in ArenaId /\ Main \in VM
    BY FollowTypes, Slots
  <2> QED BY <2>1, <1>1, FollowTypes DEF MainFollows
<1>4. WorkerFollows'
  <2> SUFFICES ASSUME NEW s \in Slot, NEW p \in ptrs[s]
               PROVE  /\ pc'[s] # "none" /\ p.arena = workers[s].rid =>
                           Follows(p, Region(s), blocks, live')
                      /\ pc'[s] = "running" => Follows(p, tab'[s][p.arena], blocks, live')
                      /\ pc'[s] \in {"spawned", "no_thread"} => p.arena = workers[s].rid
    BY DEF WorkerFollows
  <2>1. p \in Ref /\ p.arena \in ArenaId /\ s \in VM /\ Region(s) \in ArenaRec
        /\ tab[s][p.arena] \in ArenaRec
    BY FollowTypes
  <2>2. /\ pc[s] # "none" /\ p.arena = workers[s].rid => Follows(p, Region(s), blocks, live)
        /\ pc[s] = "running" => Follows(p, tab[s][p.arena], blocks, live)
        /\ pc[s] \in {"spawned", "no_thread"} => p.arena = workers[s].rid
    BY DEF WorkerFollows
  <2>3. CASE pc'[s] = pc[s] /\ tab'[s] = tab[s]
    BY <2>1, <2>2, <2>3, <1>1
  <2>4. CASE /\ pc[s] = "spawned" /\ pc'[s] \in {"running", "returned"}
             /\ tab'[s][workers[s].rid] = Region(s)
    BY <2>1, <2>2, <2>4, <1>1
  <2>5. CASE /\ pc[s] # "none"
             /\ pc'[s] \in {"returned", "extracted", "cleaned", "exited"}
    BY <2>1, <2>2, <2>5, <1>1
  <2> QED BY <2>3, <2>4, <2>5
<1>5. GensPaid'
  BY DEF GensPaid
<1> QED BY <1>3, <1>4, <1>5

LEMMA FollowedInit == Init => Followed
<1> SUFFICES ASSUME Init PROVE Followed
  OBVIOUS
<1>1. MainFollows /\ WorkerFollows
  BY Slots DEF Init, MainFollows, WorkerFollows
<1>2. \A i \in RegionId : NoTable[i].gen = 0 /\ VmInit(NoTable, 1)[i].gen = 0
  BY Slots DEF NoTable, Blank, VmInit, FreeArena
<1>3. GensPaid
  BY <1>2 DEF Init, GensPaid, Idle, Blank
<1> QED BY <1>1, <1>3 DEF Followed

LEMMA EndsFollowed ==
  ASSUME TypeInv, NEW why, Ends(why)
  PROVE  Followed'
<1>1. MainFollows' /\ WorkerFollows'
  BY Slots DEF Ends, MainFollows, WorkerFollows
<1>2. \A i \in RegionId : NoTable[i].gen = 0
  BY Slots DEF NoTable, Blank
<1>3. blocks' \in Nat
  BY FollowTypes DEF Ends
<1>4. GensPaid'
  BY <1>2, <1>3 DEF Ends, GensPaid, Idle, Blank
<1> QED BY <1>1, <1>4 DEF Followed

(* create_region, and heap_alloc in a region its worker has cleared, begin *)
(* a new generation of a region that has no memory.                        *)
LEMMA FreshFollows ==
  ASSUME TypeInv, Accounted, Followed, MaxBlocks < GEN_MOD, blocks < MaxBlocks,
         NEW v \in VM, NEW i \in RegionId, ~tab[v][i].active, NEW a,
         a = InitArena(tab[v][i], blocks + 1),
         blocks' = blocks + 1, live' = live \cup {blocks + 1}
  PROVE  /\ a \in ArenaRec /\ a.mem = blocks' /\ a.active
         /\ blocks <= blocks' /\ blocks' \in Nat
         /\ v = Main => ~Out(i)
         /\ a.gen <= blocks'
         /\ \A p \in Ref : Follows(p, tab[v][i], blocks, live) => Follows(p, a, blocks', live')
         /\ \A p \in Ref, c \in ArenaRec :
              Follows(p, c, blocks, live) => Follows(p, c, blocks', live')
<1>1. /\ blocks \in Nat /\ tab[v][i] \in ArenaRec /\ i \in ArenaId
      /\ blocks + 1 \in 1 .. MaxBlocks /\ blocks + 1 < GEN_MOD
  BY FollowTypes, NextBlock, Slots, WorkerConstants, ArenaConstants DEF TypeInv
<1>2. tab[v][i].mem = NULL
  BY <1>1 DEF Accounted, InactiveEmpty, Mem
<1>3. v = Main => ~Out(i)
  BY DEF Accounted, OutEmpty, Out
<1>4. tab[v][i].gen <= blocks
  BY DEF Followed, GensPaid
<1>5. a \in ArenaRec /\ a.mem = blocks' /\ a.active
  BY <1>1, <1>2, InitArenaRec DEF InitArena
<1>6. a.gen <= blocks'
  BY <1>1, <1>4, InitGen
<1>7. \A p \in Ref : Follows(p, tab[v][i], blocks, live) => Follows(p, a, blocks', live')
  BY <1>1, <1>2, <1>4, FollowsInit
<1>8. ASSUME NEW p \in Ref, NEW c \in ArenaRec, Follows(p, c, blocks, live)
      PROVE  Follows(p, c, blocks', live')
  <2>1. p.block \in live' => p.block \in live \/ p.block > blocks
    BY <1>1
  <2> QED BY <2>1, <1>1, <1>8, FollowsLater
<1>9. blocks <= blocks' /\ blocks' \in Nat
  BY <1>1
<1> QED BY <1>3, <1>5, <1>6, <1>7, <1>8, <1>9

LEMMA CreateRegionFollowed ==
  ASSUME TypeInv, TypeInv', Accounted, Followed, MaxBlocks < GEN_MOD,
         NEW v \in VM, NEW i \in RegionId, CreateRegion(v, i)
  PROVE  Followed'
<1> DEFINE a == InitArena(tab[v][i], blocks + 1)
<1>1. /\ ~tab[v][i].active /\ blocks < MaxBlocks /\ Executes(v)
      /\ tab' = [tab EXCEPT ![v][i] = a] /\ ptrs' = ptrs
      /\ blocks' = blocks + 1 /\ live' = live \cup {blocks + 1}
      /\ UNCHANGED <<workers, pc>>
  BY DEF CreateRegion, FirstFree, FreeSlots
<1>2. /\ a \in ArenaRec /\ a.gen <= blocks' /\ blocks <= blocks'
      /\ v = Main => ~Out(i)
      /\ \A p \in Ref : Follows(p, tab[v][i], blocks, live) => Follows(p, a, blocks', live')
      /\ \A p \in Ref, c \in ArenaRec :
           Follows(p, c, blocks, live) => Follows(p, c, blocks', live')
  BY <1>1, FreshFollows
<1>3. i \in ArenaId
  BY Slots
<1> HIDE DEF a
<1> QED BY <1>1, <1>2, <1>3, CellFollowed

LEMMA LazyAllocFollowed ==
  ASSUME TypeInv, TypeInv', Accounted, Followed, MaxBlocks < GEN_MOD,
         NEW s \in Slot, NEW keep \in SUBSET ptrs[s], LazyAlloc(s, keep)
  PROVE  Followed'
<1> DEFINE i == workers[s].rid
           a == InitArena(tab[s][i], blocks + 1)
<1>1. /\ ~tab[s][i].active /\ blocks < MaxBlocks /\ Executes(s)
      /\ tab' = [tab EXCEPT ![s][i] = a]
      /\ ptrs' = [ptrs EXCEPT ![s] = keep \cup {NewPtr(i, a)}]
      /\ blocks' = blocks + 1 /\ live' = live \cup {blocks + 1}
      /\ UNCHANGED <<workers, pc>>
  BY DEF LazyAlloc
<1>2. i \in RegionId /\ i \in ArenaId /\ s \in VM /\ s # Main
  BY FollowTypes
<1>3. /\ a \in ArenaRec /\ a.gen <= blocks' /\ blocks <= blocks' /\ blocks' \in Nat
      /\ a.mem = blocks' /\ a.active
      /\ \A p \in Ref : Follows(p, tab[s][i], blocks, live) => Follows(p, a, blocks', live')
      /\ \A p \in Ref, c \in ArenaRec :
           Follows(p, c, blocks, live) => Follows(p, c, blocks', live')
  BY <1>1, <1>2, FreshFollows
<1> HIDE DEF a, i
<1>4. Follows(NewPtr(i, a), a, blocks', live') /\ NewPtr(i, a).arena = i
  BY <1>2, <1>3, FollowsNew
<1>5. \A w \in VM : \A p \in ptrs'[w] :
         \/ p \in ptrs[w]
         \/ w = s /\ p.arena = i /\ Follows(p, a, blocks', live')
  BY <1>1, <1>2, <1>4 DEF TypeInv, RefsOK
<1> QED BY <1>1, <1>2, <1>3, <1>5, CellFollowed

LEMMA HeapAllocFollowed ==
  ASSUME TypeInv, TypeInv', Moves, Accounted, Followed,
         NEW v \in VM, NEW i \in ArenaId, NEW keep \in SUBSET ptrs[v],
         HeapAlloc(v, i, keep)
  PROVE  Followed'
<1> DEFINE a == tab[v][i]
<1>1. /\ a.active /\ a.mem # NULL /\ Executes(v)
      /\ ptrs' = [ptrs EXCEPT ![v] = keep \cup {NewPtr(i, a)}]
      /\ UNCHANGED <<tab, workers, pc, blocks, live>>
  BY DEF HeapAlloc
<1>2. a \in ArenaRec /\ blocks \in Nat /\ tab \in [VM -> Table]
  BY FollowTypes
<1>3. tab' = [tab EXCEPT ![v][i] = a]
  BY <1>1, <1>2 DEF Table
<1>4. a.mem <= blocks
  <2>1. Mem(v, i) \in live
    BY <1>1 DEF Moves, HeldIsLive, Mem
  <2>2. Mem(v, i) \in 1 .. blocks
    BY <2>1 DEF Moves, Numbered
  <2> QED BY <1>2, <2>2 DEF Mem
<1>5. v = Main => ~Out(i)
  BY <1>1 DEF Accounted, OutEmpty, Out, Mem
<1>6. i \in RegionId => a.gen <= blocks'
  BY <1>1 DEF Followed, GensPaid
<1>7. Follows(NewPtr(i, a), a, blocks, live) /\ NewPtr(i, a).arena = i
  BY <1>1, <1>2, <1>4, FollowsNew
<1> HIDE DEF a
<1>8. \A w \in VM : \A p \in ptrs'[w] :
         \/ p \in ptrs[w]
         \/ w = v /\ p.arena = i /\ Follows(p, a, blocks', live')
  BY <1>1, <1>7 DEF TypeInv, RefsOK
<1>9. \A p \in Ref : Follows(p, tab[v][i], blocks, live) => Follows(p, a, blocks', live')
  BY <1>1 DEF a
<1>10. blocks <= blocks'
  BY <1>1, <1>2
<1> QED BY <1>1, <1>2, <1>3, <1>5, <1>6, <1>8, <1>9, <1>10, CellFollowed

LEMMA ClearRegionFollowed ==
  ASSUME TypeInv, TypeInv', Followed, "hands_off" \in Rules,
         NEW v \in VM, NEW i \in RegionId, ClearRegion(v, i)
  PROVE  Followed'
<1> DEFINE a == FreeArena(tab[v][i])
<1>1. /\ Executes(v) /\ tab' = [tab EXCEPT ![v][i] = a] /\ ptrs' = ptrs
      /\ live' = live \ {tab[v][i].mem} /\ UNCHANGED <<workers, pc, blocks>>
      /\ v = Main => ~Out(i)
  BY DEF ClearRegion, Allowed
<1>2. /\ i \in ArenaId /\ blocks \in Nat /\ tab[v][i] \in ArenaRec
  BY FollowTypes, Slots
<1>3. a \in ArenaRec
  BY <1>2, FreeArenaRec
<1>4. a.gen <= blocks'
  BY <1>1 DEF Followed, GensPaid, FreeArena
<1>5. \A p \in Ref : Follows(p, tab[v][i], blocks, live) => Follows(p, a, blocks', live')
  BY <1>1, <1>2, FollowsFree
<1>6. \A p \in Ref, c \in ArenaRec :
        Follows(p, c, blocks, live) => Follows(p, c, blocks', live')
  BY <1>1 DEF Follows
<1>7. blocks <= blocks'
  BY <1>1, <1>2
<1> HIDE DEF a
<1> QED BY <1>1, <1>2, <1>3, <1>4, <1>5, <1>6, <1>7, CellFollowed

(* create_worker: the region goes into the slot, with the references main  *)
(* passes on, and main keeps its own.                                      *)
LEMMA CreateWorkerFollowed ==
  ASSUME TypeInv, TypeInv', Moves, Accounted, Followed,
         {"hands_off", "region_data"} \subseteq Rules,
         NEW s \in Slot, NEW i \in RegionId, NEW entry \in BOOLEAN,
         NEW thread \in BOOLEAN, CreateWorker(s, i, entry, thread)
  PROVE  Followed'
<1> USE DEF Followed
<1> DEFINE child == VmInit(tab[s], blocks + 1)
           r     == tab[Main][i]
<1>1. /\ tab[s] \in Table /\ i \in ArenaId /\ s \in VM /\ s # Main /\ Main \in VM
      /\ tab \in [VM -> Table] /\ r \in ArenaRec /\ blocks \in Nat
      /\ tab[s][0] \in ArenaRec /\ 0 \in ArenaId /\ i # 0 /\ blocks' \in Nat
  BY FollowTypes, Slots DEF TypeInv, TablesOK, BlocksOK
<1>2. /\ tab' = [tab EXCEPT ![Main][i].mem = NULL, ![s] = child]
      /\ live' = live \cup {child[0].mem}
      /\ blocks' = IF child[0].mem = blocks + 1 THEN blocks + 1 ELSE blocks
      /\ workers' = [workers EXCEPT ![s] =
            [active |-> TRUE, complete |-> FALSE, error |-> FALSE, entry |-> entry,
             rid |-> i, arena |-> r]]
      /\ pc' = [pc EXCEPT ![s] = IF thread THEN "spawned" ELSE "no_thread"]
      /\ ptrs' = [ptrs EXCEPT ![s] = {p \in ptrs[Main] : p.arena = i}]
      /\ ~workers[s].active /\ ~Out(i) /\ blocks < MaxBlocks
  BY DEF CreateWorker, Allowed, FirstSlot, Crossing
<1>3. child[0].mem \in live \/ child[0].mem = blocks + 1
  <2>1. blocks + 1 \in 1 .. MaxBlocks
    BY <1>2, NextBlock DEF TypeInv
  <2>2. child[0].mem = IF tab[s][0].mem = NULL THEN blocks + 1 ELSE tab[s][0].mem
    BY <1>1, <2>1, VmInitTable
  <2>3. tab[s][0].mem # NULL => tab[s][0].mem \in live
    BY <1>1 DEF Moves, HeldIsLive, Mem
  <2> QED BY <2>2, <2>3
<1>4. \A j \in RegionId : child[j].gen \in {0, tab[s][j].gen}
  <2>1. \A j \in RegionId : NoTable[j].gen = 0 /\ j # 0 /\ j \in ArenaId
    BY Slots DEF NoTable, Blank
  <2> QED BY <2>1 DEF VmInit, FreeArena
<1> HIDE DEF child
<1>5. \A p \in Ref, c \in ArenaRec :
        Follows(p, c, blocks, live) => Follows(p, c, blocks', live')
  <2> SUFFICES ASSUME NEW p \in Ref, NEW c \in ArenaRec, Follows(p, c, blocks, live)
               PROVE  Follows(p, c, blocks', live')
    OBVIOUS
  <2>1. p.block \in live' => p.block \in live \/ p.block > blocks
    BY <1>1, <1>2, <1>3
  <2>2. blocks <= blocks'
    BY <1>1, <1>2
  <2> QED BY <1>1, <2>1, <2>2, FollowsLater
<1>6. /\ tab'[s] = child
      /\ tab'[Main][i] = [r EXCEPT !.mem = NULL]
      /\ \A w \in VM \ {s}, j \in ArenaId :
           ~(w = Main /\ j = i) => tab'[w][j] = tab[w][j]
  <2>1. tab'[s] = child
    BY <1>1, <1>2
  <2>2. tab'[Main][i] = [r EXCEPT !.mem = NULL]
    BY <1>1, <1>2 DEF Table
  <2>3. \A w \in VM \ {s}, j \in ArenaId :
          ~(w = Main /\ j = i) => tab'[w][j] = tab[w][j]
    BY <1>1, <1>2 DEF Table
  <2> QED BY <2>1, <2>2, <2>3
<1>7. /\ pc'[s] \in {"spawned", "no_thread"} /\ workers'[s].active
      /\ workers'[s].rid = i /\ workers'[s].arena = r
  BY <1>2 DEF TypeInv, WorkersOK, ThreadsOK
<1>8. \A t \in Slot \ {s} : workers'[t] = workers[t] /\ pc'[t] = pc[t]
  BY <1>2
<1>9. /\ Region(s)' = r
      /\ \A t \in Slot \ {s} : Region(t)' = Region(t)
  <2>1. Region(s)' = r
    BY <1>7 DEF Region
  <2>2. ASSUME NEW t \in Slot \ {s} PROVE Region(t)' = Region(t)
    <3>1. /\ workers'[t] = workers[t] /\ pc'[t] = pc[t] /\ t \in VM \ {s}
          /\ t # Main /\ workers[t].rid \in ArenaId
      BY <1>8, FollowTypes
    <3>2. tab'[t][workers[t].rid] = tab[t][workers[t].rid]
      BY <3>1, <1>6
    <3> QED BY <3>1, <3>2 DEF Region
  <2> QED BY <2>1, <2>2
<1>10. \A w \in VM \ {s} : ptrs'[w] = ptrs[w]
  BY <1>2 DEF TypeInv, RefsOK
<1>11. ptrs'[s] = {p \in ptrs[Main] : p.arena = i}
  BY <1>1, <1>2 DEF TypeInv, RefsOK
<1>12. \A j : Out(j)' <=> Out(j) \/ j = i
  BY <1>2, <1>7, <1>8 DEF Out
<1>13. \A p \in ptrs[Main] : p \in Ref /\ p.arena \in ArenaId
  BY <1>1, FollowTypes
<1>14. MainFollows'
  <2> SUFFICES ASSUME NEW p \in ptrs[Main]
               PROVE  /\ ~Out(p.arena)' => Follows(p, tab'[Main][p.arena], blocks', live')
                      /\ \A t \in Slot : workers'[t].active /\ workers'[t].rid = p.arena =>
                           Follows(p, Region(t)', blocks', live')
    BY <1>1, <1>10 DEF MainFollows
  <2>1. ~Out(p.arena) => Follows(p, tab[Main][p.arena], blocks, live)
    BY DEF MainFollows
  <2>2. ~Out(p.arena)' => Follows(p, tab'[Main][p.arena], blocks', live')
    <3>1. tab[Main][p.arena] \in ArenaRec
      BY <1>1, <1>13, FollowTypes
    <3> QED BY <2>1, <3>1, <1>1, <1>5, <1>6, <1>12, <1>13
  <2>3. ASSUME NEW t \in Slot, workers'[t].active, workers'[t].rid = p.arena
        PROVE  Follows(p, Region(t)', blocks', live')
    <3>1. CASE t = s
      BY <3>1, <2>1, <2>3, <1>1, <1>2, <1>5, <1>7, <1>9, <1>13
    <3>2. CASE t # s
      <4>1. workers[t].active /\ workers[t].rid = p.arena /\ Region(t) \in ArenaRec
        BY <3>2, <2>3, <1>8, FollowTypes
      <4>2. Follows(p, Region(t), blocks, live)
        BY <4>1 DEF MainFollows
      <4> QED BY <4>1, <4>2, <3>2, <1>5, <1>9, <1>13
    <3> QED BY <3>1, <3>2
  <2> QED BY <2>2, <2>3
<1>15. WorkerFollows'
  <2> SUFFICES ASSUME NEW t \in Slot, NEW p \in ptrs'[t]
               PROVE  /\ pc'[t] # "none" /\ p.arena = workers'[t].rid =>
                           Follows(p, Region(t)', blocks', live')
                      /\ pc'[t] = "running" => Follows(p, tab'[t][p.arena], blocks', live')
                      /\ pc'[t] \in {"spawned", "no_thread"} => p.arena = workers'[t].rid
    BY DEF WorkerFollows
  <2>1. CASE t = s
    <3>1. p \in ptrs[Main] /\ p.arena = i /\ p \in Ref
      BY <2>1, <1>11, <1>13
    <3>2. Follows(p, r, blocks, live)
      BY <3>1, <1>2 DEF MainFollows
    <3> QED BY <2>1, <3>1, <3>2, <1>1, <1>5, <1>7, <1>9
  <2>2. CASE t # s
    <3>1. /\ p \in ptrs[t] /\ p \in Ref /\ p.arena \in ArenaId /\ t \in VM \ {s}
          /\ t # Main /\ Region(t) \in ArenaRec /\ tab[t][p.arena] \in ArenaRec
      BY <2>2, <1>10, FollowTypes
    <3>2. /\ workers'[t] = workers[t] /\ pc'[t] = pc[t] /\ Region(t)' = Region(t)
          /\ tab'[t][p.arena] = tab[t][p.arena]
      BY <2>2, <3>1, <1>6, <1>8, <1>9
    <3> QED BY <3>1, <3>2, <1>5 DEF WorkerFollows
  <2> QED BY <2>1, <2>2
<1>16. GensPaid'
  <2>0. blocks <= blocks' /\ r.gen <= blocks /\ r.gen \in Nat
    BY <1>1, <1>2, ArenaConstants DEF GensPaid, ArenaRec
  <2>1. ASSUME NEW w \in VM, NEW j \in RegionId PROVE tab'[w][j].gen <= blocks'
    <3>1. j \in ArenaId /\ tab[w][j].gen <= blocks /\ tab[w][j].gen \in Nat
      BY Slots, FollowTypes, ArenaConstants DEF GensPaid, ArenaRec
    <3>2. tab'[w][j].gen \in {0, tab[w][j].gen}
      <4>1. CASE w = s
        BY <4>1, <1>4, <1>6
      <4>2. CASE w = Main /\ j = i
        BY <4>2, <1>1, <1>6 DEF ArenaRec
      <4>3. CASE w # s /\ ~(w = Main /\ j = i)
        BY <4>3, <3>1, <1>6
      <4> QED BY <4>1, <4>2, <4>3
    <3> QED BY <2>0, <3>1, <3>2, <1>1
  <2>2. ASSUME NEW t \in Slot PROVE workers'[t].arena.gen <= blocks'
    <3>1. workers[t].arena.gen <= blocks /\ workers[t].arena.gen \in Nat
      BY FollowTypes, ArenaConstants DEF GensPaid, ArenaRec
    <3> QED BY <2>0, <3>1, <1>1, <1>7, <1>8
  <2> QED BY <2>1, <2>2 DEF GensPaid
<1> QED BY <1>14, <1>15, <1>16

(* dock_worker: the region comes back with what the worker left in it.     *)
LEMMA DockedFollowed ==
  ASSUME TypeInv, Moves, Accounted, Followed, "region_data" \in Rules,
         NEW s \in Slot, NEW keep \in SUBSET (ptrs[Main] \cup ptrs[s]), Docked(s, keep)
  PROVE  Followed'
<1> USE DEF Followed
<1> DEFINE i == workers[s].rid
           a == [workers[s].arena EXCEPT !.active = TRUE]
<1>1. /\ tab' = [tab EXCEPT ![Main][i] = a]
      /\ workers' = [workers EXCEPT ![s].active = FALSE]
      /\ pc[s] \in {"exited", "no_thread"} /\ pc' = [pc EXCEPT ![s] = "none"]
      /\ ptrs' = [ptrs EXCEPT ![Main] = keep, ![s] = {}]
      /\ keep \subseteq ptrs[Main] \cup {p \in ptrs[s] : p.arena = i}
      /\ live' = live /\ blocks' = blocks
  BY DEF Docked, Crossing
<1>2. /\ i \in ArenaId /\ s \in VM /\ s # Main /\ Main \in VM
      /\ tab \in [VM -> Table] /\ workers[s].arena \in ArenaRec /\ blocks \in Nat
      /\ \A v \in VM : \A p \in ptrs[v] : p \in Ref /\ p.arena \in ArenaId
  BY FollowTypes, Slots
<1>3. workers[s].active /\ Region(s) = workers[s].arena
  BY <1>1 DEF Moves, SlotTaken, Region
<1>4. a.gen = workers[s].arena.gen
  BY <1>2 DEF ArenaRec
<1>5. \A p \in Ref : Follows(p, Region(s), blocks, live) => Follows(p, a, blocks, live)
  BY <1>2, <1>3, FollowsDocked
<1>6. ASSUME NEW t \in Slot, workers[t].active, workers[t].rid = i PROVE t = s
  BY <1>3, <1>6 DEF Accounted, OneSlotPerRegion
<1> HIDE DEF a, i
<1>7. /\ tab'[Main][i] = a
      /\ \A w \in VM, j \in ArenaId : ~(w = Main /\ j = i) => tab'[w][j] = tab[w][j]
  BY <1>1, <1>2 DEF Table
<1>8. /\ ~workers'[s].active /\ pc'[s] = "none"
      /\ \A t \in Slot : workers'[t].arena = workers[t].arena /\ workers'[t].rid = workers[t].rid
      /\ \A t \in Slot \ {s} : workers'[t].active = workers[t].active /\ pc'[t] = pc[t]
  BY <1>1 DEF TypeInv, WorkersOK, Rec, ThreadsOK
<1>9. \A t \in Slot \ {s} : Region(t)' = Region(t)
  <2>1. ASSUME NEW t \in Slot \ {s} PROVE Region(t)' = Region(t)
    <3>1. /\ workers[t].rid \in ArenaId /\ t \in VM /\ t # Main
      BY FollowTypes
    <3> QED BY <3>1, <1>7, <1>8 DEF Region
  <2> QED BY <2>1
<1>10. ptrs'[Main] = keep /\ ptrs'[s] = {} /\ \A t \in Slot \ {s} : ptrs'[t] = ptrs[t]
  BY <1>1, <1>2, Slots DEF TypeInv, RefsOK
<1>11. \A j : ~Out(j)' => ~Out(j) \/ j = i
  BY <1>8 DEF Out, i
<1>12. MainFollows'
  <2> SUFFICES ASSUME NEW p \in keep
               PROVE  /\ ~Out(p.arena)' => Follows(p, tab'[Main][p.arena], blocks, live)
                      /\ \A t \in Slot : workers'[t].active /\ workers'[t].rid = p.arena =>
                           Follows(p, Region(t)', blocks, live)
    BY <1>1, <1>10 DEF MainFollows
  <2>1. p \in Ref /\ p.arena \in ArenaId
    BY <1>2
  <2>2. CASE p.arena = i
    <3>1. Follows(p, Region(s), blocks, live)
      <4>1. CASE p \in ptrs[Main]
        BY <4>1, <2>2, <1>3 DEF MainFollows, i
      <4>2. CASE p \in ptrs[s]
        BY <4>2, <2>2, <1>1 DEF WorkerFollows, i
      <4> QED BY <4>1, <4>2
    <3>2. Follows(p, tab'[Main][p.arena], blocks, live)
      BY <2>1, <2>2, <3>1, <1>5, <1>7
    <3>3. \A t \in Slot : ~(workers'[t].active /\ workers'[t].rid = p.arena)
      BY <2>2, <1>6, <1>8
    <3> QED BY <3>2, <3>3
  <2>3. CASE p.arena # i
    <3>1. p \in ptrs[Main]
      BY <2>3, <1>1
    <3>2. ~Out(p.arena)' => Follows(p, tab'[Main][p.arena], blocks, live)
      BY <2>1, <2>3, <3>1, <1>2, <1>7, <1>11 DEF MainFollows
    <3>3. ASSUME NEW t \in Slot, workers'[t].active, workers'[t].rid = p.arena
          PROVE  Follows(p, Region(t)', blocks, live)
      <4>1. t # s /\ workers[t].active /\ workers[t].rid = p.arena
        BY <3>3, <1>8
      <4> QED BY <3>1, <4>1, <1>9 DEF MainFollows
    <3> QED BY <3>2, <3>3
  <2> QED BY <2>2, <2>3
<1>13. WorkerFollows'
  <2> SUFFICES ASSUME NEW t \in Slot, NEW p \in ptrs'[t]
               PROVE  /\ pc'[t] # "none" /\ p.arena = workers'[t].rid =>
                           Follows(p, Region(t)', blocks', live')
                      /\ pc'[t] = "running" => Follows(p, tab'[t][p.arena], blocks', live')
                      /\ pc'[t] \in {"spawned", "no_thread"} => p.arena = workers'[t].rid
    BY DEF WorkerFollows
  <2>1. t # s /\ p \in ptrs[t] /\ t \in VM /\ t # Main
    BY <1>10, FollowTypes
  <2>2. p.arena \in ArenaId
    BY <2>1, <1>2
  <2>3. tab'[t][p.arena] = tab[t][p.arena]
    BY <2>1, <2>2, <1>7
  <2> QED BY <2>1, <2>3, <1>1, <1>8, <1>9 DEF WorkerFollows
<1>14. GensPaid'
  <2>1. a.gen <= blocks
    BY <1>4 DEF GensPaid
  <2>2. ASSUME NEW w \in VM, NEW j \in RegionId PROVE tab'[w][j].gen <= blocks
    BY <2>1, <1>7, Slots DEF GensPaid
  <2>3. ASSUME NEW t \in Slot PROVE workers'[t].arena.gen <= blocks
    BY <1>8 DEF GensPaid
  <2> QED BY <2>2, <2>3, <1>1 DEF GensPaid
<1> QED BY <1>12, <1>13, <1>14

(* The thread takes the region over.                                       *)
LEMMA InjectFollowed ==
  ASSUME TypeInv, TypeInv', Followed, NEW s \in Slot, Inject(s)
  PROVE  Followed'
<1> DEFINE i == workers[s].rid
           to == IF workers[s].entry THEN "running" ELSE "returned"
<1>1. /\ tab' = [tab EXCEPT ![s][i] = workers[s].arena]
      /\ workers' = [workers EXCEPT ![s].error = ~workers[s].entry]
      /\ pc[s] = "spawned" /\ pc' = [pc EXCEPT ![s] = to]
      /\ UNCHANGED <<ptrs, blocks, live>>
  BY DEF Inject, Goto
<1>2. to \in {"running", "returned"}
  OBVIOUS
<1>3. /\ i \in ArenaId /\ s \in VM /\ s # Main /\ Main \in VM /\ tab \in [VM -> Table]
      /\ blocks \in Nat
  BY FollowTypes, Slots
<1>4. Region(s) = workers[s].arena
  BY <1>1 DEF Region
<1> HIDE DEF i, to
<1>5. /\ tab'[s][i] = workers[s].arena
      /\ \A w \in VM, j \in ArenaId : ~(w = s /\ j = i) => tab'[w][j] = tab[w][j]
      /\ \A w \in VM \ {s} : tab'[w] = tab[w]
  BY <1>1, <1>3 DEF Table
<1>6. /\ pc'[s] = to
      /\ \A t \in Slot : /\ workers'[t].active = workers[t].active
                         /\ workers'[t].rid = workers[t].rid
                         /\ workers'[t].arena = workers[t].arena
      /\ \A t \in Slot \ {s} : pc'[t] = pc[t]
  BY <1>1 DEF TypeInv, WorkersOK, Rec, ThreadsOK
<1>7. \A t \in Slot : Region(t)' = Region(t)
  <2>1. ASSUME NEW t \in Slot PROVE Region(t)' = Region(t)
    <3>1. CASE t = s
      BY <3>1, <1>2, <1>4, <1>5, <1>6 DEF Region, i
    <3>2. CASE t # s
      <4>1. t \in VM \ {s}
        BY <3>2, FollowTypes
      <4> QED BY <3>2, <4>1, <1>5, <1>6 DEF Region
    <3> QED BY <3>1, <3>2
  <2> QED BY <2>1
<1>8. \A t \in Slot : workers'[t].arena.gen <= blocks
  BY <1>6 DEF Followed, GensPaid
<1>9. \A w \in VM, j \in RegionId : tab'[w][j].gen <= blocks
  <2>1. \A w \in VM, j \in RegionId :
          tab'[w][j] = tab[w][j] \/ tab'[w][j] = workers[s].arena
    BY <1>5, Slots
  <2> QED BY <2>1 DEF Followed, GensPaid
<1>10. \A t \in Slot :
         \/ pc'[t] = pc[t] /\ tab'[t] = tab[t]
         \/ /\ pc[t] = "spawned" /\ pc'[t] \in {"running", "returned"}
            /\ tab'[t][workers[t].rid] = Region(t)
  BY <1>1, <1>2, <1>4, <1>5, <1>6, FollowTypes DEF i
<1>11. tab'[Main] = tab[Main]
  BY <1>3, <1>5
<1> QED BY <1>1, <1>6, <1>7, <1>8, <1>9, <1>10, <1>11, ThreadFollowed

(* The region returns to its slot.                                         *)
LEMMA ExtractFollowed ==
  ASSUME TypeInv, TypeInv', Followed, NEW s \in Slot, Extract(s)
  PROVE  Followed'
<1> DEFINE i == workers[s].rid
<1>1. /\ tab' = [tab EXCEPT ![s][i].mem = NULL]
      /\ workers' = [workers EXCEPT ![s].arena = tab[s][i]]
      /\ pc[s] = "returned" /\ pc' = [pc EXCEPT ![s] = "extracted"]
      /\ UNCHANGED <<ptrs, blocks, live>>
  BY DEF Extract, Goto
<1>2. /\ i \in ArenaId /\ i \in RegionId /\ s \in VM /\ s # Main /\ Main \in VM
      /\ tab \in [VM -> Table] /\ tab[s][i] \in ArenaRec /\ blocks \in Nat
  BY FollowTypes, Slots
<1>3. Region(s) = tab[s][i]
  BY <1>1 DEF Region
<1> HIDE DEF i
<1>4. /\ tab'[s][i] = [tab[s][i] EXCEPT !.mem = NULL]
      /\ \A w \in VM, j \in ArenaId : ~(w = s /\ j = i) => tab'[w][j] = tab[w][j]
      /\ \A w \in VM \ {s} : tab'[w] = tab[w]
  BY <1>1, <1>2 DEF Table
<1>5. /\ pc'[s] = "extracted" /\ workers'[s].arena = tab[s][i]
      /\ \A t \in Slot : /\ workers'[t].active = workers[t].active
                         /\ workers'[t].rid = workers[t].rid
      /\ \A t \in Slot \ {s} : workers'[t].arena = workers[t].arena /\ pc'[t] = pc[t]
  BY <1>1 DEF TypeInv, WorkersOK, Rec, ThreadsOK
<1>6. \A t \in Slot : Region(t)' = Region(t)
  <2>1. ASSUME NEW t \in Slot PROVE Region(t)' = Region(t)
    <3>1. CASE t = s
      BY <3>1, <1>3, <1>5 DEF Region
    <3>2. CASE t # s
      <4>1. t \in VM \ {s}
        BY <3>2, FollowTypes
      <4> QED BY <3>2, <4>1, <1>4, <1>5 DEF Region
    <3> QED BY <3>1, <3>2
  <2> QED BY <2>1
<1>7. \A t \in Slot : workers'[t].arena.gen <= blocks
  BY <1>2, <1>5 DEF Followed, GensPaid
<1>8. \A w \in VM, j \in RegionId : tab'[w][j].gen <= blocks
  <2>1. tab'[s][i].gen = tab[s][i].gen
    BY <1>2, <1>4 DEF ArenaRec
  <2>2. \A w \in VM, j \in RegionId : tab'[w][j].gen = tab[w][j].gen
    BY <2>1, <1>4, Slots
  <2> QED BY <2>2 DEF Followed, GensPaid
<1>9. \A t \in Slot :
        \/ pc'[t] = pc[t] /\ tab'[t] = tab[t]
        \/ pc[t] # "none" /\ pc'[t] \in {"returned", "extracted", "cleaned", "exited"}
  BY <1>1, <1>4, <1>5, FollowTypes
<1>10. tab'[Main] = tab[Main]
  BY <1>2, <1>4
<1> QED BY <1>1, <1>5, <1>6, <1>7, <1>8, <1>9, <1>10, ThreadFollowed

(* vm_cleanup frees what the thread has left.                              *)
LEMMA CleanupFollowed ==
  ASSUME TypeInv, TypeInv', Followed, NEW s \in Slot, Cleanup(s)
  PROVE  Followed'
<1>1. /\ tab' = [tab EXCEPT ![s] = [j \in ArenaId |-> FreeArena(tab[s][j])]]
      /\ pc[s] = "extracted" /\ pc' = [pc EXCEPT ![s] = "cleaned"]
      /\ UNCHANGED <<ptrs, blocks, workers>> /\ live' \subseteq live
  BY DEF Cleanup, Goto
<1>2. /\ s \in VM /\ s # Main /\ Main \in VM /\ tab \in [VM -> Table]
  BY FollowTypes, Slots
<1>3. /\ tab'[s] = [j \in ArenaId |-> FreeArena(tab[s][j])]
      /\ \A w \in VM \ {s} : tab'[w] = tab[w]
  BY <1>1, <1>2
<1>4. pc'[s] = "cleaned" /\ \A t \in Slot \ {s} : pc'[t] = pc[t]
  BY <1>1 DEF TypeInv, ThreadsOK
<1>5. \A t \in Slot : Region(t)' = Region(t)
  BY <1>1, <1>2, <1>3, <1>4, FollowTypes DEF Region
<1>6. \A w \in VM, j \in RegionId : tab'[w][j].gen = tab[w][j].gen
  BY <1>3, Slots DEF FreeArena
<1>7. \A w \in VM, j \in RegionId : tab'[w][j].gen <= blocks
  BY <1>6 DEF Followed, GensPaid
<1>8. \A t \in Slot : workers[t].arena.gen <= blocks
  BY DEF Followed, GensPaid
<1>9. \A t \in Slot :
        \/ pc'[t] = pc[t] /\ tab'[t] = tab[t]
        \/ pc[t] # "none" /\ pc'[t] \in {"returned", "extracted", "cleaned", "exited"}
  BY <1>1, <1>3, <1>4, FollowTypes
<1> QED BY <1>1, <1>2, <1>3, <1>5, <1>7, <1>8, <1>9, ThreadFollowed

(* Return and Complete only move the thread on, DockWorker not even that.  *)
LEMMA WaitFollowed ==
  ASSUME TypeInv, TypeInv', Followed, UNCHANGED <<tab, ptrs, blocks, live>>,
         \A s \in Slot :
           /\ workers'[s].active = workers[s].active
           /\ workers'[s].rid = workers[s].rid /\ workers'[s].arena = workers[s].arena
           /\ \/ pc'[s] = pc[s]
              \/ pc[s] = "running" /\ pc'[s] = "returned"
              \/ pc[s] = "cleaned" /\ pc'[s] = "exited"
  PROVE  Followed'
<1>1. \A s \in Slot : Region(s)' = Region(s)
  BY DEF Region
<1>2. \A w \in VM, j \in RegionId : tab'[w][j].gen <= blocks
  BY DEF Followed, GensPaid
<1>3. \A s \in Slot : workers'[s].arena.gen <= blocks
  BY DEF Followed, GensPaid
<1>4. \A s \in Slot :
        \/ pc'[s] = pc[s] /\ tab'[s] = tab[s]
        \/ pc[s] # "none" /\ pc'[s] \in {"returned", "extracted", "cleaned", "exited"}
  OBVIOUS
<1> QED BY <1>1, <1>2, <1>3, <1>4, ThreadFollowed

LEMMA FollowedStep ==
  ASSUME {"hands_off", "region_data"} \subseteq Rules, MaxBlocks < GEN_MOD
  PROVE  TypeInv /\ Moves /\ Accounted /\ Followed /\ [Next]_vars => Followed'
<1> SUFFICES ASSUME TypeInv, Moves, Accounted, Followed, [Next]_vars PROVE Followed'
  OBVIOUS
<1>0. TypeInv' /\ "hands_off" \in Rules /\ "region_data" \in Rules
  BY TypeInvStep
<1>a. ASSUME NEW v \in VM, v # Main PROVE v \in Slot
  BY <1>a DEF VM
<1>1. ASSUME NEW v \in VM, NEW i \in RegionId, CreateRegion(v, i) PROVE Followed'
  BY <1>0, <1>1, CreateRegionFollowed
<1>2. ASSUME NEW v \in VM, NEW i \in RegionId, ClearRegion(v, i) PROVE Followed'
  BY <1>0, <1>2, ClearRegionFollowed
<1>3. ASSUME NEW v \in VM, NEW i \in ArenaId, NEW keep \in SUBSET ptrs[v],
             HeapAlloc(v, i, keep)
      PROVE Followed'
  BY <1>0, <1>3, HeapAllocFollowed
<1>4. ASSUME NEW s \in Slot, NEW keep \in SUBSET ptrs[s], LazyAlloc(s, keep)
      PROVE Followed'
  BY <1>0, <1>4, LazyAllocFollowed
<1>5. ASSUME NEW why, Ends(why) PROVE Followed'
  BY <1>5, EndsFollowed
<1>6. ASSUME NEW s \in Slot, NEW i \in RegionId, NEW entry \in BOOLEAN,
             NEW thread \in BOOLEAN, CreateWorker(s, i, entry, thread)
      PROVE Followed'
  BY <1>0, <1>6, CreateWorkerFollowed
<1>7. ASSUME NEW s \in Slot, DockWorker(s) PROVE Followed'
  BY <1>0, <1>7, WaitFollowed DEF DockWorker
<1>8. ASSUME NEW s \in Slot, NEW keep \in SUBSET (ptrs[Main] \cup ptrs[s]),
             Docked(s, keep)
      PROVE Followed'
  BY <1>0, <1>8, DockedFollowed
<1>9. ASSUME NEW s \in Slot, Inject(s) PROVE Followed'
  BY <1>0, <1>9, InjectFollowed
<1>10. ASSUME NEW s \in Slot, Return(s) PROVE Followed'
  <2>1. \A t \in Slot :
          \/ pc'[t] = pc[t]
          \/ pc[t] = "running" /\ pc'[t] = "returned"
    <3>1. pc[s] = "running" /\ pc' = [pc EXCEPT ![s] = "returned"]
      BY <1>10 DEF Return, Goto
    <3>2. pc'[s] = "returned" /\ \A t \in Slot \ {s} : pc'[t] = pc[t]
      BY <3>1 DEF TypeInv, ThreadsOK
    <3> QED BY <3>1, <3>2
  <2> QED BY <1>0, <1>10, <2>1, WaitFollowed DEF Return
<1>11. ASSUME NEW s \in Slot, Extract(s) PROVE Followed'
  BY <1>0, <1>11, ExtractFollowed
<1>12. ASSUME NEW s \in Slot, Cleanup(s) PROVE Followed'
  BY <1>0, <1>12, CleanupFollowed
<1>13. ASSUME NEW s \in Slot, Complete(s) PROVE Followed'
  <2>1. \A t \in Slot : /\ workers'[t].arena = workers[t].arena
                        /\ workers'[t].active = workers[t].active
                        /\ workers'[t].rid = workers[t].rid
    BY <1>13 DEF Complete, TypeInv, WorkersOK, Rec
  <2>2. \A t \in Slot :
          \/ pc'[t] = pc[t]
          \/ pc[t] = "cleaned" /\ pc'[t] = "exited"
    <3>1. pc[s] = "cleaned" /\ pc' = [pc EXCEPT ![s] = "exited"]
      BY <1>13 DEF Complete, Goto
    <3>2. pc'[s] = "exited" /\ \A t \in Slot \ {s} : pc'[t] = pc[t]
      BY <3>1 DEF TypeInv, ThreadsOK
    <3> QED BY <3>1, <3>2
  <2> QED BY <1>0, <1>13, <2>1, <2>2, WaitFollowed DEF Complete
<1>14. CASE UNCHANGED vars
  BY <1>0, <1>14, WaitFollowed DEF vars
<1>15. CASE Regions
  BY <1>15, <1>a, <1>1, <1>2, <1>3, <1>4, <1>5 DEF Regions, StaleAccess, NullAccess
<1>16. CASE MainCalls
  BY <1>16, <1>5, <1>6, <1>7, <1>8
     DEF MainCalls, CreateWorkerInactive, DockInactive, JoinCrash
<1>17. CASE \E s \in Slot : Thread(s)
  BY <1>17, <1>9, <1>10, <1>11, <1>12, <1>13 DEF Thread
<1> QED BY <1>14, <1>15, <1>16, <1>17 DEF Next

(* "This ensures pointers (which encode the Arena ID) remain valid": if    *)
(* main leaves the regions of workers alone, only references into the      *)
(* moved region cross, and no generation wraps around, a reference leads   *)
(* the VM that executes to its object and to no other, through any number  *)
(* of moves to workers and back.                                           *)
THEOREM ReferencesFollow ==
  ASSUME {"hands_off", "region_data"} \subseteq Rules, MaxBlocks < GEN_MOD
  PROVE  Spec => []RefsFollowTheirObject
<1>1. TypeInv /\ Moves /\ Followed => RefsFollowTheirObject
  <2> SUFFICES ASSUME TypeInv, Moves, Followed,
                      NEW v \in VM, Executes(v), NEW p \in ptrs[v],
                      ~(v = Main /\ Out(p.arena))
               PROVE  IF p.block \in live
                      THEN Resolves(tab[v], p) /\ tab[v][p.arena].mem = p.block
                      ELSE Resolves(tab[v], p) => tab[v][p.arena].mem = NULL
    BY DEF RefsFollowTheirObject
  <2>1. p \in Ref /\ p.arena \in ArenaId /\ p.off < MAX_HEAP
    BY FollowTypes, ArenaConstants DEF Ref
  <2>2. Follows(p, tab[v][p.arena], blocks, live)
    <3>1. CASE v = Main
      BY <3>1 DEF Followed, MainFollows
    <3>2. CASE v # Main
      BY <3>2 DEF Followed, WorkerFollows, Executes, VM
    <3> QED BY <3>1, <3>2
  <2>3. tab[v][p.arena].mem # NULL => tab[v][p.arena].mem \in live
    BY <2>1 DEF Moves, HeldIsLive, Mem
  <2> QED BY <2>1, <2>2, <2>3 DEF Follows, Resolves
<1>2. "hands_off" \in Rules
  OBVIOUS
<1>3. IInv /\ Accounted /\ Followed /\ [Next]_vars => (IInv /\ Accounted /\ Followed)'
  BY <1>2, IInvStep, AccountedStep, FollowedStep DEF IInv
<1>4. IInv /\ Followed => RefsFollowTheirObject
  BY <1>1 DEF IInv
<1> QED BY IInvInit, AccountedInit, FollowedInit, <1>3, <1>4, PTL DEF Spec
=============================================================================
