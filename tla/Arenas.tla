------------------------------- MODULE Arenas -------------------------------
(***************************************************************************)
(* Regions of one VM: create_region/OP_NEW_ARENA, clear/OP_DEL_ARENA,      *)
(* set_region/OP_SET_CTX, heap_alloc, the resolution of object references, *)
(* and the VM's own life cycle (vm_init soft and cold, vm_cleanup).        *)
(*                                                                         *)
(* The program is any sequence of these operations.  ptrs are the object   *)
(* references it still holds, in variables, containers or the bus; each    *)
(* carries, next to what PACK_PTR stores, the epoch of the slot it was     *)
(* made in.  epoch counts the initialisations of a slot; no code reads it. *)
(***************************************************************************)
EXTENDS ArenaTable, FiniteSets

CONSTANTS
  Sizes,     (* Object sizes heap_alloc is asked for.                      *)
  MaxPtrs,   (* Bound: references the program holds at a time.             *)
  MaxEpoch   (* Bound: initialisations of one slot.                        *)

ASSUME BoundConstants ==
  /\ Sizes \subseteq Nat \ {0}
  /\ MaxPtrs \in Nat
  /\ MaxEpoch \in Nat \ {0}

VARIABLES
  arenas,    (* vm->arenas                                                 *)
  current,   (* vm->current_arena                                          *)
  status,    (* running; raised: RUNTIME_ERROR unwound to its landing pad; *)
             (* exited: the process called exit; down: after vm_cleanup    *)
  fault,     (* the error that stopped the program, and the slot it names  *)
  ptrs,      (* references the program holds                               *)
  epoch      (* per slot: how often it was initialised (history)           *)

vars == <<arenas, current, status, fault, ptrs, epoch>>

Ptr == [arena : ArenaId, gen : 1 .. GEN_MOD - 1, off : 0 .. MAX_HEAP - 1,
        size : Sizes, epoch : Nat]

Block == 1   \* one VM: which block backs a slot does not matter, only whether

Arena == [active : BOOLEAN, gen : 0 .. GEN_MOD - 1, head : 0 .. MAX_HEAP - 1,
          mem : {NULL, Block}]

Running == status = "running"

Fault == [kind : {"max_regions", "clear_main", "inactive", "overflow", "stale"},
          slot : ArenaId]
NoFault == [kind |-> "none", slot |-> 0]

Fail(how, kind, slot) ==
  /\ status' = how
  /\ fault' = [kind |-> kind, slot |-> slot]
  /\ UNCHANGED <<arenas, current, ptrs, epoch>>

(* The opcodes raise RUNTIME_ERROR; the natives of the same name call exit. *)
OpcodeOrNative == {"raised", "exited"}

Reinit(table, i) == [table EXCEPT ![i] = InitArena(@, Block)]

(***************************************************************************)
(* region r / create_region()                                              *)
(***************************************************************************)
CreateRegion(i) ==
  /\ Running
  /\ FirstFree(arenas, i)
  /\ epoch[i] < MaxEpoch
  /\ arenas' = Reinit(arenas, i)
  /\ epoch' = [epoch EXCEPT ![i] = @ + 1]
  /\ UNCHANGED <<current, status, fault, ptrs>>

CreateRegionFull ==
  /\ Running
  /\ FreeSlots(arenas) = {}
  /\ \E how \in OpcodeOrNative : Fail(how, "max_regions", 0)

(* Mutant: the main heap may be cleared. *)
ClearAnyRegion(i) ==
  /\ Running
  /\ arenas' = [arenas EXCEPT ![i] = FreeArena(@)]
  /\ UNCHANGED <<current, status, fault, ptrs, epoch>>

(***************************************************************************)
(* clear(r): the current arena is not changed, even when it is the one     *)
(* cleared.                                                                *)
(***************************************************************************)
ClearRegion(i) ==
  /\ Running
  /\ i > 0
  /\ arenas' = [arenas EXCEPT ![i] = FreeArena(@)]
  /\ UNCHANGED <<current, status, fault, ptrs, epoch>>

ClearMainHeap ==
  /\ Running
  /\ \E how \in OpcodeOrNative : Fail(how, "clear_main", 0)

(***************************************************************************)
(* var r::x = ..., set_region(r)                                           *)
(***************************************************************************)
SetRegion(i) ==
  /\ Running
  /\ arenas[i].active \/ i = 0
  /\ current' = i
  /\ UNCHANGED <<arenas, status, fault, ptrs, epoch>>

SetInactiveRegion(i) ==
  /\ Running
  /\ ~arenas[i].active /\ i # 0
  /\ \E how \in OpcodeOrNative : Fail(how, "inactive", i)

(***************************************************************************)
(* heap_alloc: a current arena that was cleared meanwhile is initialised   *)
(* again.  The program may overwrite some of its references with the new   *)
(* one: keep are those it does not.                                        *)
(***************************************************************************)
HeapAlloc(size, keep) ==
  /\ Running
  /\ Cardinality(keep) < MaxPtrs
  /\ LET lazy  == ~arenas[current].active
         table == IF lazy THEN Reinit(arenas, current) ELSE arenas
         now   == IF lazy THEN [epoch EXCEPT ![current] = @ + 1] ELSE epoch
         a     == table[current]
     IN /\ now[current] <= MaxEpoch
        /\ Fits(a, size)
        /\ arenas' = [table EXCEPT ![current] = Advance(@, size)]
        /\ epoch' = now
        /\ ptrs' = keep \cup {[arena |-> current, gen |-> a.gen, off |-> a.head,
                               size |-> size, epoch |-> now[current]]}
  /\ UNCHANGED <<current, status, fault>>

HeapOverflow(size) ==
  /\ Running
  /\ ~Fits(IF arenas[current].active THEN arenas[current]
           ELSE InitArena(arenas[current], Block), size)
  /\ Fail("exited", "overflow", current)

(***************************************************************************)
(* An opcode dereferences p (vm_resolve_ptr): refused when p is stale.     *)
(***************************************************************************)
StaleAccess(p) ==
  /\ Running
  /\ ~Resolves(arenas, p)
  /\ Fail("raised", "stale", p.arena)

(* The REPL's landing pad: nothing but the value stack is reset. *)
Recover ==
  /\ status = "raised"
  /\ status' = "running"
  /\ fault' = NoFault
  /\ UNCHANGED <<arenas, current, ptrs, epoch>>

(***************************************************************************)
(* vm_init on a VM that is up: the main heap keeps its block and gets a    *)
(* new generation, every region is freed.  References parked outside the   *)
(* VM (the bus) survive.                                                   *)
(***************************************************************************)
SoftInit ==
  /\ status \in {"running", "raised"}
  /\ epoch[0] < MaxEpoch
  /\ arenas' = [i \in ArenaId |-> IF i = 0 THEN InitArena(arenas[0], Block)
                                  ELSE FreeArena(arenas[i])]
  /\ epoch' = [epoch EXCEPT ![0] = @ + 1]
  /\ current' = 0
  /\ status' = "running"
  /\ fault' = NoFault
  /\ UNCHANGED ptrs

Cleanup ==
  /\ status \in {"running", "raised"}
  /\ arenas' = [i \in ArenaId |-> FreeArena(arenas[i])]
  /\ status' = "down"
  /\ fault' = NoFault
  /\ UNCHANGED <<current, ptrs, epoch>>

Cold == [i \in ArenaId |-> IF i = 0 THEN InitArena(Blank, Block) ELSE Blank]
ColdEpoch == [i \in ArenaId |-> IF i = 0 THEN 1 ELSE 0]

(* vm_init after vm_cleanup: stack and globals are gone, generations start  *)
(* over.  References parked on the bus are not followed across this.        *)
ColdInit ==
  /\ status = "down"
  /\ arenas' = Cold
  /\ epoch' = ColdEpoch
  /\ current' = 0
  /\ status' = "running"
  /\ fault' = NoFault
  /\ ptrs' = {}

Init ==
  /\ arenas = Cold
  /\ current = 0
  /\ status = "running"
  /\ fault = NoFault
  /\ ptrs = {}
  /\ epoch = ColdEpoch

Next ==
  \/ \E i \in RegionId : CreateRegion(i)
  \/ CreateRegionFull
  \/ \E i \in ArenaId : ClearRegion(i)
  \/ ClearMainHeap
  \/ \E i \in ArenaId : SetRegion(i)
  \/ \E i \in ArenaId : SetInactiveRegion(i)
  \/ \E size \in Sizes, keep \in SUBSET ptrs : HeapAlloc(size, keep)
  \/ \E size \in Sizes : HeapOverflow(size)
  \/ \E p \in ptrs : StaleAccess(p)
  \/ Recover
  \/ SoftInit
  \/ Cleanup
  \/ ColdInit

Spec == Init /\ [][Next]_vars

-----------------------------------------------------------------------------
(* The shape of the state. *)
TypeOK ==
  /\ arenas \in [ArenaId -> Arena]
  /\ current \in ArenaId
  /\ status \in {"running", "raised", "exited", "down"}
  /\ fault \in Fault \cup {NoFault}
  /\ ptrs \subseteq Ptr
  /\ epoch \in [ArenaId -> Nat]

Live(p) == arenas[p.arena].active /\ p.epoch = epoch[p.arena]

(* The ABA guarantee of the generation check, as far as 14 bits carry it:  *)
(* a reference vm_resolve_ptr accepts was made in the slot's present       *)
(* initialisation, unless the slot went through a full lap of generations  *)
(* (GEN_MOD - 1 initialisations, whether by create_region, by the lazy     *)
(* init of heap_alloc or by vm_init) since.                                *)
StaleNeverResolves ==
  \A p \in ptrs :
    Resolves(arenas, p) =>
      \/ p.epoch = epoch[p.arena]
      \/ epoch[p.arena] - p.epoch >= GEN_MOD - 1

(* Two objects the program can reach never share a cell, and each lies     *)
(* below the head of its arena, so that the next heap_alloc cannot hand    *)
(* out its cells again.                                                    *)
LiveObjectsDisjoint ==
  \A p, q \in ptrs :
    Live(p) /\ Live(q) =>
      /\ p.off + p.size <= arenas[p.arena].head
      /\ p # q /\ p.arena = q.arena =>
           \/ p.off + p.size <= q.off
           \/ q.off + q.size <= p.off

(* vm_resolve_ptr tests `active`, never `memory`: the address it computes  *)
(* is usable only because a slot is active exactly while it has memory.    *)
ResolvedHasMemory ==
  \A i \in ArenaId : arenas[i].active <=> arenas[i].mem # NULL

(* While the VM is up its main heap exists: regions come and go, the arena *)
(* every statement falls back to (`var r::x` ends with set_region 0) stays.*)
MainHeapStays == status # "down" => arenas[0].active
=============================================================================
