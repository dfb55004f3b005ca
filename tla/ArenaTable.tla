----------------------------- MODULE ArenaTable -----------------------------
(***************************************************************************)
(* The arena table of one Mylo VM (struct MemoryArena and vm->arenas in    *)
(* vm.h, init_arena and free_arena in vm.c) and the generational pointers  *)
(* into it (PACK_PTR in defines.h), as operators on values.  Modules with  *)
(* one VM (Arenas) and with several (Workers) build their steps from it.   *)
(***************************************************************************)
EXTENDS Integers

CONSTANTS
  MAX_ARENAS,  (* Slots of the table; slot 0 is the VM's main heap.        *)
  GEN_MOD,     (* 2^PTR_GEN_BITS: generations are kept modulo this.        *)
  MAX_HEAP     (* Cells of one arena.                                      *)

ASSUME ArenaConstants ==
  /\ MAX_ARENAS \in Nat /\ MAX_ARENAS >= 2
  /\ GEN_MOD \in Nat    /\ GEN_MOD >= 2
  /\ MAX_HEAP \in Nat   /\ MAX_HEAP >= 2

ArenaId  == 0 .. MAX_ARENAS - 1
RegionId == 1 .. MAX_ARENAS - 1

(* The C pointer `memory`: NULL or the identity of an allocated block.     *)
NULL  == 0

(* An arena as memset by a cold vm_init. *)
Blank == [active |-> FALSE, gen |-> 0, head |-> 0, mem |-> NULL]

(* gen = (gen + 1) & 0x3FFF, and 0 is skipped: it is the generation of a   *)
(* slot that was never initialised.                                        *)
NextGen(g) == LET n == (g + 1) % GEN_MOD IN IF n = 0 THEN 1 ELSE n

(* init_arena: block is what calloc returns if the slot has no memory.     *)
InitArena(a, block) ==
  [active |-> TRUE,
   gen    |-> NextGen(a.gen),
   head   |-> 0,
   mem    |-> IF a.mem = NULL THEN block ELSE a.mem]

(* Mutant: a freed slot stays active. *)
FreeArenaActive(a) == [active |-> TRUE, gen |-> a.gen, head |-> 0, mem |-> NULL]

(* free_arena: the generation is left alone until the next init_arena.     *)
FreeArena(a) == [active |-> FALSE, gen |-> a.gen, head |-> 0, mem |-> NULL]

(* The slots create_region searches, and the one it takes. *)
FreeSlots(table) == {i \in RegionId : ~table[i].active}
FirstFree(table, i) ==
  i \in FreeSlots(table) /\ \A j \in FreeSlots(table) : i <= j

(* Mutant: the generation is not compared. *)
ResolvesByRegion(table, p) == table[p.arena].active /\ p.off < MAX_HEAP

(* The test vm_resolve_ptr, vm_resolve_ptr_safe and vm_resolve_type make   *)
(* before they hand out an address.                                        *)
Resolves(table, p) ==
  /\ table[p.arena].active
  /\ table[p.arena].gen = p.gen
  /\ p.off < MAX_HEAP

(* Mutant: the last cell may be filled. *)
FitsExactly(a, size) == a.head + size <= MAX_HEAP

(* heap_alloc exits instead of filling the last cell. *)
Fits(a, size) == a.head + size < MAX_HEAP

(* Mutant: every object takes one cell. *)
AdvanceByOne(a, size) == [a EXCEPT !.head = @ + 1]

(* heap_alloc takes size cells from the head. *)
Advance(a, size) == [a EXCEPT !.head = @ + size]
=============================================================================
