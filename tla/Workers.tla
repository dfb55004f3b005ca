------------------------------ MODULE Workers -------------------------------
(***************************************************************************)
(* create_worker, check_worker and dock_worker (mylolib.c): the main VM    *)
(* moves a region into a worker slot, a thread with a VM of its own works  *)
(* on it and moves it back.  Every VM has an arena table (ArenaTable); the *)
(* operations of Arenas that matter to ownership are taken here per VM, at *)
(* the level of whole statements (`var r::x = ...` selects r, allocates,   *)
(* selects 0 again), and without object sizes.                             *)
(*                                                                         *)
(* Memory blocks get serial numbers, so a block malloc reuses counts as a  *)
(* new one.  A reference carries, next to what PACK_PTR stores, the block  *)
(* its object lies in; no code reads that.                                 *)
(***************************************************************************)
EXTENDS ArenaTable, FiniteSets

CONSTANTS
  MAX_WORKERS,  (* Slots of workers[].                                     *)
  Rules,        (* What the program and its environment are known to obey. *)
  MaxBlocks,    (* Bound: arenas ever allocated, over all VMs.             *)
  MaxPtrs       (* Bound: references one VM holds at a time.               *)

(* hands_off   main does not clear, or lend again, a region that a worker  *)
(*             has; it may try to use it.                                  *)
(* region_data only references into the moved region cross between VMs.    *)
(* spawn_one   pthread_create starts a thread if no other worker is there. *)
ASSUME WorkerConstants ==
  /\ MAX_WORKERS \in Nat \ {0}
  /\ Rules \subseteq {"hands_off", "region_data", "spawn_one"}
  /\ MaxBlocks \in Nat \ {0}
  /\ MaxPtrs \in Nat

Main == 0
Slot == 1 .. MAX_WORKERS
VM   == {Main} \cup Slot

VARIABLES
  tab,      (* per VM: its arena table                                     *)
  ptrs,     (* per VM: references it holds, in globals or in its regions   *)
  workers,  (* per slot: the MyloWorker fields                             *)
  pc,       (* per slot: where its thread is                               *)
  joining,  (* the slot dock_worker waits for, or Main when it does not    *)
  blocks,   (* number of blocks allocated so far                           *)
  live,     (* blocks not freed                                            *)
  fault     (* how the process ended, or "none"                            *)

vars == <<tab, ptrs, workers, pc, joining, blocks, live, fault>>

Idle == [active |-> FALSE, complete |-> FALSE, error |-> FALSE,
         entry |-> TRUE, rid |-> 1, arena |-> Blank]

NoTable == [i \in ArenaId |-> Blank]

(* vm_init: cold after vm_cleanup (or never used), else the main heap is   *)
(* kept, with a new generation.                                            *)
VmInit(table, block) ==
  LET old == IF table[0].mem = NULL THEN NoTable ELSE table
  IN  [i \in ArenaId |-> IF i = 0 THEN InitArena(old[0], block)
                         ELSE FreeArena(old[i])]

(* The process ends, and its memory is gone. *)
Ends(why) ==
  /\ fault' = why
  /\ tab' = [v \in VM |-> NoTable] /\ ptrs' = [v \in VM |-> {}]
  /\ workers' = [s \in Slot |-> Idle] /\ pc' = [s \in Slot |-> "none"]
  /\ joining' = Main /\ live' = {}
  /\ UNCHANGED blocks

(* VM v executes program code now. *)
Executes(v) ==
  /\ fault = "none"
  /\ IF v = Main THEN joining = Main ELSE pc[v] = "running"

Out(i) == \E s \in Slot : workers[s].active /\ workers[s].rid = i

(* May v clear or lend its region i, under the rules the program obeys? *)
Allowed(v, i) ==
  v = Main /\ "hands_off" \in Rules => ~Out(i)

-----------------------------------------------------------------------------
(* Regions and references, in whichever VM executes.                       *)

CreateRegion(v, i) ==
  /\ Executes(v)
  /\ FirstFree(tab[v], i)
  /\ blocks < MaxBlocks
  /\ tab' = [tab EXCEPT ![v][i] = InitArena(@, blocks + 1)]
  /\ blocks' = blocks + 1
  /\ live' = live \cup {blocks + 1}
  /\ UNCHANGED <<ptrs, workers, pc, joining, fault>>

ClearRegion(v, i) ==
  /\ Executes(v)
  /\ i > 0
  /\ Allowed(v, i)
  /\ tab' = [tab EXCEPT ![v][i] = FreeArena(@)]
  /\ live' = live \ {tab[v][i].mem}
  /\ UNCHANGED <<ptrs, workers, pc, joining, blocks, fault>>

(* Mutant: the generation from before init_arena. *)
NewPtrBeforeInit(i, a) ==
  [arena |-> i, gen |-> a.gen - 1, off |-> 0, block |-> a.mem]

NewPtr(i, a) == [arena |-> i, gen |-> a.gen, off |-> 0, block |-> a.mem]

HeapAlloc(v, i, keep) ==
  /\ Executes(v)
  /\ tab[v][i].active /\ tab[v][i].mem # NULL
  /\ Cardinality(keep) < MaxPtrs
  /\ ptrs' = [ptrs EXCEPT ![v] = keep \cup {NewPtr(i, tab[v][i])}]
  /\ UNCHANGED <<tab, workers, pc, joining, blocks, live, fault>>

(* A worker's statements outside any `r::` allocate in its own region,     *)
(* which heap_alloc initialises again if the worker has cleared it.        *)
LazyAlloc(s, keep) ==
  LET i == workers[s].rid
      a == InitArena(tab[s][i], blocks + 1)
  IN /\ Executes(s)
     /\ ~tab[s][i].active
     /\ blocks < MaxBlocks
     /\ Cardinality(keep) < MaxPtrs
     /\ tab' = [tab EXCEPT ![s][i] = a]
     /\ blocks' = blocks + 1
     /\ live' = live \cup {blocks + 1}
     /\ ptrs' = [ptrs EXCEPT ![s] = keep \cup {NewPtr(i, a)}]
     /\ UNCHANGED <<workers, pc, joining, fault>>

(* A reference vm_resolve_ptr refuses; in a worker thread, too, the error  *)
(* ends the process.                                                       *)
StaleAccess(v, p) ==
  /\ Executes(v)
  /\ ~Resolves(tab[v], p)
  /\ Ends("stale")

(* An object made or reached in a slot that is active without memory: the  *)
(* code does not refuse it, although standardlib_reference.md:871 says so. *)
NullAccess(v, i) ==
  /\ Executes(v)
  /\ tab[v][i].active
  /\ tab[v][i].mem = NULL
  /\ Ends("null_access")

-----------------------------------------------------------------------------
(* create_worker.                                                          *)

FirstSlot(s) ==
  /\ ~workers[s].active
  /\ \A t \in Slot : ~workers[t].active => s <= t

(* References in the globals, which the child gets by value. *)
Crossing(v, i) ==
  IF "region_data" \in Rules THEN {p \in ptrs[v] : p.arena = i} ELSE ptrs[v]

(* entry: whether the function exists; thread: whether pthread_create      *)
(* started one, which the code does not ask.  Main's slot keeps `active`   *)
(* and its generation and loses the memory.  With all slots taken the call *)
(* answers -1 and changes nothing.                                         *)
CreateWorker(s, i, entry, thread) ==
  /\ Executes(Main)
  /\ Allowed(Main, i)
  /\ tab[Main][i].active
  /\ FirstSlot(s)
  /\ blocks < MaxBlocks
  /\ "spawn_one" \in Rules => thread \/ \E t \in Slot : workers[t].active
  /\ workers' = [workers EXCEPT ![s] =
       [active |-> TRUE, complete |-> FALSE, error |-> FALSE, entry |-> entry,
        rid |-> i, arena |-> tab[Main][i]]]
  /\ LET child == VmInit(tab[s], blocks + 1) IN
       /\ tab' = [tab EXCEPT ![Main][i].mem = NULL, ![s] = child]
       /\ blocks' = IF child[0].mem = blocks + 1 THEN blocks + 1 ELSE blocks
       /\ live' = live \cup {child[0].mem}
  /\ ptrs' = [ptrs EXCEPT ![s] = Crossing(Main, i)]
  /\ pc' = [pc EXCEPT ![s] = IF thread THEN "spawned" ELSE "no_thread"]
  /\ UNCHANGED <<joining, fault>>

CreateWorkerInactive(i) ==
  /\ Executes(Main)
  /\ ~tab[Main][i].active
  /\ Ends("inactive_region")

-----------------------------------------------------------------------------
(* mylo_worker_entry, step by step.                                        *)

Goto(s, from, to) == pc[s] = from /\ pc' = [pc EXCEPT ![s] = to]

(* Mutant: the region is initialised for the child instead of taken over. *)
InjectInitialised(s) ==
  /\ fault = "none"
  /\ Goto(s, "spawned", IF workers[s].entry THEN "running" ELSE "returned")
  /\ tab' = [tab EXCEPT ![s][workers[s].rid] =
                           InitArena(workers[s].arena, blocks + 1)]
  /\ workers' = [workers EXCEPT ![s].error = ~workers[s].entry]
  /\ UNCHANGED <<ptrs, joining, blocks, live, fault>>

(* 1-2: put the region into the same slot, look up the function. *)
Inject(s) ==
  /\ fault = "none"
  /\ Goto(s, "spawned", IF workers[s].entry THEN "running" ELSE "returned")
  /\ tab' = [tab EXCEPT ![s][workers[s].rid] = workers[s].arena]
  /\ workers' = [workers EXCEPT ![s].error = ~workers[s].entry]
  /\ UNCHANGED <<ptrs, joining, blocks, live, fault>>

(* 4: run_vm_from returns. *)
Return(s) ==
  /\ fault = "none"
  /\ Goto(s, "running", "returned")
  /\ UNCHANGED <<tab, ptrs, workers, joining, blocks, live, fault>>

(* Mutants: the child keeps the pointer; it is cleared before it is copied;  *)
(* the worker is declared complete before vm_cleanup.                      *)
ExtractKeeping(s) ==
  /\ fault = "none"
  /\ Goto(s, "returned", "extracted")
  /\ workers' = [workers EXCEPT ![s].arena = tab[s][workers[s].rid]]
  /\ UNCHANGED <<tab, ptrs, joining, blocks, live, fault>>

ExtractAfterHiding(s) ==
  /\ fault = "none"
  /\ Goto(s, "returned", "extracted")
  /\ tab' = [tab EXCEPT ![s][workers[s].rid].mem = NULL]
  /\ workers' = [workers EXCEPT ![s].arena = tab'[s][workers[s].rid]]
  /\ UNCHANGED <<ptrs, joining, blocks, live, fault>>

ExtractComplete(s) ==
  /\ fault = "none"
  /\ Goto(s, "returned", "extracted")
  /\ workers' = [workers EXCEPT ![s].arena = tab[s][workers[s].rid],
                                ![s].complete = TRUE]
  /\ tab' = [tab EXCEPT ![s][workers[s].rid].mem = NULL]
  /\ UNCHANGED <<ptrs, joining, blocks, live, fault>>

(* 5-6: take the region out, hide its memory from vm_cleanup. *)
Extract(s) ==
  /\ fault = "none"
  /\ Goto(s, "returned", "extracted")
  /\ workers' = [workers EXCEPT ![s].arena = tab[s][workers[s].rid]]
  /\ tab' = [tab EXCEPT ![s][workers[s].rid].mem = NULL]
  /\ UNCHANGED <<ptrs, joining, blocks, live, fault>>

(* 7: vm_cleanup. *)
Cleanup(s) ==
  /\ fault = "none"
  /\ Goto(s, "extracted", "cleaned")
  /\ live' = live \ {tab[s][i].mem : i \in ArenaId}
  /\ tab' = [tab EXCEPT ![s] = [i \in ArenaId |-> FreeArena(@[i])]]
  /\ UNCHANGED <<ptrs, workers, joining, blocks, fault>>

(* Mutant: the thread waits for what the docking thread holds. *)
CompleteUnlessDocking(s) ==
  /\ fault = "none"
  /\ joining # s
  /\ Goto(s, "cleaned", "exited")
  /\ workers' = [workers EXCEPT ![s].complete = TRUE]
  /\ UNCHANGED <<tab, ptrs, joining, blocks, live, fault>>

Complete(s) ==
  /\ fault = "none"
  /\ Goto(s, "cleaned", "exited")
  /\ workers' = [workers EXCEPT ![s].complete = TRUE]
  /\ UNCHANGED <<tab, ptrs, joining, blocks, live, fault>>

-----------------------------------------------------------------------------
(* dock_worker and check_worker.                                           *)

DockWorker(s) ==
  /\ Executes(Main)
  /\ workers[s].active
  /\ joining' = s
  /\ UNCHANGED <<tab, ptrs, workers, pc, blocks, live, fault>>

DockInactive(s) ==
  /\ Executes(Main)
  /\ ~workers[s].active
  /\ Ends("inactive_worker")

(* After pthread_join.  Joining a thread that never started is undefined:  *)
(* it returns at once or ends the process.  Main finds in the region the   *)
(* references the worker left there.                                       *)
Docked(s, keep) ==
  /\ fault = "none"
  /\ joining = s
  /\ pc[s] \in {"exited", "no_thread"}
  /\ LET i == workers[s].rid IN
       /\ keep \subseteq ptrs[Main] \cup Crossing(s, i)
       /\ Cardinality(keep) <= MaxPtrs
       /\ tab' = [tab EXCEPT ![Main][i] =
                              [workers[s].arena EXCEPT !.active = TRUE]]
  /\ workers' = [workers EXCEPT ![s].active = FALSE]
  /\ ptrs' = [ptrs EXCEPT ![Main] = keep, ![s] = {}]
  /\ pc' = [pc EXCEPT ![s] = "none"]
  /\ joining' = Main
  /\ UNCHANGED <<blocks, live, fault>>

JoinCrash(s) ==
  /\ fault = "none"
  /\ joining = s
  /\ pc[s] = "no_thread"
  /\ Ends("join_crash")

(* check_worker pushes a number and changes nothing. *)
CheckWorker(s) ==
  IF ~workers[s].active THEN -1 ELSE IF workers[s].complete THEN 1 ELSE 0

-----------------------------------------------------------------------------
Init ==
  /\ tab = [v \in VM |-> IF v = Main THEN VmInit(NoTable, 1) ELSE NoTable]
  /\ ptrs = [v \in VM |-> {}]
  /\ workers = [s \in Slot |-> Idle]
  /\ pc = [s \in Slot |-> "none"]
  /\ joining = Main
  /\ blocks = 1
  /\ live = {1}
  /\ fault = "none"

Regions ==
  \E v \in VM :
    \/ \E i \in RegionId : CreateRegion(v, i) \/ ClearRegion(v, i)
    \/ \E i \in ArenaId, keep \in SUBSET ptrs[v] : HeapAlloc(v, i, keep)
    \/ \E p \in ptrs[v] : StaleAccess(v, p)
    \/ \E i \in ArenaId : NullAccess(v, i)
    \/ v # Main /\ \E keep \in SUBSET ptrs[v] : LazyAlloc(v, keep)

MainCalls ==
  \/ \E s \in Slot, i \in RegionId, entry, thread \in BOOLEAN :
       CreateWorker(s, i, entry, thread)
  \/ \E i \in RegionId : CreateWorkerInactive(i)
  \/ \E s \in Slot : DockWorker(s) \/ DockInactive(s) \/ JoinCrash(s)
  \/ \E s \in Slot : \E keep \in SUBSET (ptrs[Main] \cup ptrs[s]) :
       Docked(s, keep)

Thread(s) ==
  Inject(s) \/ Return(s) \/ Extract(s) \/ Cleanup(s) \/ Complete(s)

Next == Regions \/ MainCalls \/ \E s \in Slot : Thread(s)

(* Threads are scheduled, worker functions return, and a join whose thread *)
(* has ended returns.                                                      *)
Fairness ==
  /\ \A s \in Slot : WF_vars(Thread(s))
  /\ \A s \in Slot : WF_vars(\E keep \in SUBSET (ptrs[Main] \cup ptrs[s]) :
                               Docked(s, keep))

Spec == Init /\ [][Next]_vars /\ Fairness

-----------------------------------------------------------------------------
(* The shape of the state. *)
ArenaRec == [active : BOOLEAN, gen : 0 .. GEN_MOD - 1, head : {0},
             mem : 0 .. MaxBlocks]
TypeOK ==
  /\ tab \in [VM -> [ArenaId -> ArenaRec]]
  /\ \A v \in VM : ptrs[v] \subseteq
       [arena : ArenaId, gen : 1 .. GEN_MOD - 1, off : {0}, block : 1 .. MaxBlocks]
  /\ workers \in [Slot -> [active : BOOLEAN, complete : BOOLEAN, error : BOOLEAN,
                           entry : BOOLEAN, rid : RegionId, arena : ArenaRec]]
  /\ pc \in [Slot -> {"none", "no_thread", "spawned", "running", "returned",
                      "extracted", "cleaned", "exited"}]
  /\ joining \in VM
  /\ blocks \in 1 .. MaxBlocks
  /\ live \subseteq 1 .. blocks
  /\ fault \in {"none", "stale", "null_access", "inactive_region",
                "inactive_worker", "join_crash"}

(* Where a block can be found: in a VM's table, or in a worker slot before *)
(* its thread took the region and after it gave it back.                   *)
InTables(b) == {at \in VM \X ArenaId : tab[at[1]][at[2]].mem = b}
InSlots(b)  == {s \in Slot : /\ workers[s].active
                             /\ pc[s] \notin {"running", "returned"}
                             /\ workers[s].arena.mem = b}

(* Move semantics, whatever the program does: no block of memory is ever   *)
(* held twice, so no two threads reach it and none frees it again; and a   *)
(* block that was freed is held nowhere.                                   *)
OneHolder ==
  \A b \in 1 .. blocks :
    Cardinality(InTables(b)) + Cardinality(InSlots(b)) <=
      IF b \in live THEN 1 ELSE 0

(* A block that was not freed is held somewhere: moving a region to a      *)
(* worker and back loses none, if main leaves the region alone meanwhile.  *)
NoLeak == \A b \in live : InTables(b) # {} \/ InSlots(b) # {}

(* "This ensures pointers (which encode the Arena ID) remain valid"        *)
(* (mylolib.c:221): in the VM that executes, a reference to a region that  *)
(* is not out leads to its object's memory as long as that exists, through *)
(* any number of moves to workers and back, and never to another block; it *)
(* is refused, or finds no memory where a worker has cleared its region.   *)
RefsFollowTheirObject ==
  \A v \in VM : Executes(v) =>
    \A p \in ptrs[v] : ~(v = Main /\ Out(p.arena)) =>
      LET at == tab[v][p.arena].mem
      IN IF p.block \in live THEN Resolves(tab[v], p) /\ at = p.block
         ELSE Resolves(tab[v], p) => at = NULL

(* When check_worker says 1, dock_worker will hand main the finished       *)
(* region: the thread holds no memory any more.                            *)
CompleteMeansHandedOver ==
  \A s \in Slot : CheckWorker(s) = 1 =>
    \A i \in ArenaId : tab[s][i].mem = NULL

(* dock_worker comes back. *)
DockReturns ==
  \A s \in Slot : (joining = s) ~> (joining # s \/ fault # "none")
=============================================================================
