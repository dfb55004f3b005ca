----------------------------- MODULE ScopedHeap -----------------------------
(***************************************************************************)
(* How the VM reclaims memory by itself: a block or function remembers the *)
(* head of the current arena when it is entered, and rewinds to it when it *)
(* is left (OP_SCOPE_ENTER, OP_SCOPE_EXIT, OP_RET in vm.c).  What is to    *)
(* survive is protected by moving the remembered head up (OP_SVAR, growth  *)
(* of a map), or copied out (vm_evacuate_object).                          *)
(*                                                                         *)
(* The program is any sequence of statements: an expression leaves a value *)
(* on the stack (acc), a statement takes it.  A reference is the place of  *)
(* its object; heap says what lies there, for the objects the program can  *)
(* reach, and no code reads it but for the sizes.  Objects are arrays of   *)
(* numbers and maps to numbers: references inside objects are left out.    *)
(* Arenas says how arenas come and go; here they all exist.  A program     *)
(* that fails a test for room, in an arena or in scope_stack, stops there. *)
(***************************************************************************)
EXTENDS Integers, Sequences, SequencesExt, FiniteSets

CONSTANTS
  Arena,             (* The main heap, 0, and regions.                     *)
  MAX_HEAP,          (* Cells of one arena.                                *)
  MAX_LOOP_NESTING,  (* Length of scope_stack.                             *)
  Sizes,             (* Cells of an array.                                 *)
  MaxSlots,          (* Bound: locals and arguments of all frames.         *)
  MaxFrames,         (* Bound: frames.                                     *)
  Rules              (* What programs are known to obey.                   *)

(* lift        An object moves out by one block at a time: from a deeper   *)
(*             one, a variable is only assigned what was made there.       *)
(* escape      Globals get objects made outside all blocks and functions.  *)
(* one_region  set_region does not go back to the region of a block or     *)
(*             function that is open, and r:: is used while the main heap  *)
(*             is selected.                                                *)
(* home        In a block or function a map grows only while its own arena *)
(*             is selected.                                                *)
ASSUME HeapConstants ==
  /\ Arena \subseteq Nat /\ 0 \in Arena
  /\ MAX_HEAP \in Nat \ {0}
  /\ MAX_LOOP_NESTING \in Nat \ {0}
  /\ Sizes \subseteq Nat \ {0}
  /\ MaxSlots \in Nat /\ MaxFrames \in Nat \ {0}
  /\ Rules \subseteq {"lift", "escape", "one_region", "home"}

VARIABLES
  heads,     (* per arena: its head                                        *)
  current,   (* vm->current_arena                                          *)
  scopes,    (* scope_stack up to scope_sp                                 *)
  stack,     (* the locals and arguments of all frames                     *)
  frames,    (* per frame: the slots below it; the first is the script's   *)
  acc,       (* the value on top of the stack, or Absent                   *)
  global,    (* a global variable                                          *)
  heap,      (* per reachable reference: the object there (history)        *)
  status     (* running; returning: in the loop of OP_RET; overrun:        *)
             (* written past the end of an arena                           *)

vars == <<heads, current, scopes, stack, frames, acc, global, heap, status>>

-----------------------------------------------------------------------------
(* Values.  A map is a header and a data block; an array has no data.      *)

Number == [arena |-> 0, off |-> -1]
Absent == [arena |-> 0, off |-> -2]
At(a, off) == [arena |-> a, off |-> off]
IsObj(v) == v.off >= 0

NoData == [at |-> Number, size |-> 0]
Array(size)      == [size |-> size, data |-> NoData]
Map(at, size)    == [size |-> 1, data |-> [at |-> at, size |-> size]]
IsMap(v) == IsObj(v) /\ heap[v].data # NoData

(* What the program reaches: the rest of the heap is dropped. *)
Reached(st, gl, tmp) == {v \in {st[i] : i \in DOMAIN st} \cup {gl, tmp} : IsObj(v)}
Remember(objects) ==
  heap' = [v \in Reached(stack', global', acc') |-> objects[v]]

(* objects with one more, or another, at v. *)
With(objects, v, object) ==
  [w \in DOMAIN objects \cup {v} |-> IF w = v THEN object ELSE objects[w]]

-----------------------------------------------------------------------------
(* Scopes.                                                                 *)

Fits(size) == heads[current] + size < MAX_HEAP

Scope(slots, frame) ==
  [arena |-> current, head |-> heads[current], fp |-> frame, sp |-> slots]

(* Is s a scope of the running function? *)
Mine(s) == scopes[s].fp = Len(frames)

(* Where a local of the running function is. *)
Local(i) == Last(frames) < i /\ i <= Len(stack)

(* Mutant: the local declared last before the block is not protected. *)
AfterLast(i) == {s \in DOMAIN scopes : Mine(s) /\ i < scopes[s].sp}

(* The scopes that are opened after slot i was declared. *)
After(i) == {s \in DOMAIN scopes : Mine(s) /\ i <= scopes[s].sp}

Raise(which, head) ==
  scopes' = [s \in DOMAIN scopes |->
               IF s \in which THEN [scopes[s] EXCEPT !.head = head] ELSE scopes[s]]

-----------------------------------------------------------------------------
(* Statements: what opens and closes a block.                              *)

Running == status = "running"
Between == Running /\ acc = Absent

(* Mutant: the limit is not tested. *)
EnterUnbounded ==
  /\ Between
  /\ scopes' = Append(scopes, Scope(Len(stack), Len(frames)))
  /\ UNCHANGED <<heads, current, stack, frames, acc, global, heap, status>>

Enter ==
  /\ Between
  /\ Len(scopes) < MAX_LOOP_NESTING
  /\ scopes' = Append(scopes, Scope(Len(stack), Len(frames)))
  /\ UNCHANGED <<heads, current, stack, frames, acc, global, heap, status>>

(* The block's locals are popped first (Codegen).  The scope opened with   *)
(* the function is left by return only.                                    *)
Exit ==
  LET scope == Last(scopes)
  IN /\ Between
     /\ scopes # <<>>
     /\ Mine(Len(scopes))
     /\ Len(frames) > 1 => Len(scopes) > 1 /\ Mine(Len(scopes) - 1)
     /\ scopes' = Front(scopes)
     /\ stack' = SubSeq(stack, 1, scope.sp)
     /\ heads' = IF current = scope.arena
                 THEN [heads EXCEPT ![current] = scope.head] ELSE heads
     /\ UNCHANGED <<current, frames, acc, global, status>>
     /\ Remember(heap)

SetRegion(r) ==
  /\ Between
  /\ "one_region" \in Rules => \A s \in DOMAIN scopes : scopes[s].arena # r
  /\ current' = r
  /\ UNCHANGED <<heads, scopes, stack, frames, acc, global, heap, status>>

-----------------------------------------------------------------------------
(* Expressions.                                                            *)

(* A number, or what a variable holds. *)
Variables == {stack[i] : i \in {j \in DOMAIN stack : Local(j)}} \cup {global}

Eval(v) ==
  /\ Between
  /\ v \in Variables \cup {Number}
  /\ acc' = v
  /\ UNCHANGED <<heads, current, scopes, stack, frames, global, heap, status>>

(* An array literal, in the current arena. *)
EvalArray(size) ==
  LET v == At(current, heads[current])
  IN /\ Between
     /\ Fits(size)
     /\ heads' = [heads EXCEPT ![current] = @ + size]
     /\ acc' = v
     /\ UNCHANGED <<current, scopes, stack, frames, global, status>>
     /\ Remember(With(heap, v, Array(size)))

(* var r::x = [...] selects r, allocates, and selects the main heap. *)
EvalIn(r, size) ==
  LET v == At(r, heads[r])
  IN /\ Between
     /\ "one_region" \in Rules => current = 0
     /\ heads[r] + size < MAX_HEAP
     /\ heads' = [heads EXCEPT ![r] = @ + size]
     /\ acc' = v
     /\ current' = 0
     /\ UNCHANGED <<scopes, stack, frames, global, status>>
     /\ Remember(With(heap, v, Array(size)))

(* A map literal: the header, then a data block. *)
EvalMap ==
  LET v == At(current, heads[current])
  IN /\ Between
     /\ Fits(2)
     /\ heads' = [heads EXCEPT ![current] = @ + 2]
     /\ acc' = v
     /\ UNCHANGED <<current, scopes, stack, frames, global, status>>
     /\ Remember(With(heap, v, Map(At(current, v.off + 1), 1)))

-----------------------------------------------------------------------------
(* Statements that take a value.                                           *)

Take(v) == Running /\ acc = v /\ v # Absent /\ acc' = Absent

(* var x = ... in a function: the value stays where it is. *)
Declare ==
  /\ Take(acc)
  /\ Len(frames) > 1
  /\ Len(stack) < MaxSlots
  /\ stack' = Append(stack, acc)
  /\ UNCHANGED <<heads, current, scopes, frames, global, heap, status>>

(* OP_SVAR: the scopes of this function that the variable is older than    *)
(* and the object is not will rewind to no further than the present head.  *)
Assign(i) ==
  /\ Take(acc)
  /\ Local(i)
  /\ "lift" \in Rules /\ IsObj(acc) /\ Cardinality(After(i)) > 1 =>
       \A s \in After(i) : acc.arena = scopes[s].arena /\ acc.off >= scopes[s].head
  /\ stack' = [stack EXCEPT ![i] = acc]
  /\ Raise({s \in After(i) : /\ scopes[s].arena = current
                             /\ IsObj(acc) /\ acc.off >= scopes[s].head},
           heads[current])
  /\ UNCHANGED <<heads, current, frames, global, status>>
  /\ Remember(heap)

(* OP_SET protects nothing. *)
AssignGlobal ==
  /\ Take(acc)
  /\ "escape" \in Rules /\ IsObj(acc) =>
       \A s \in DOMAIN scopes : scopes[s].arena = acc.arena => acc.off < scopes[s].head
  /\ global' = acc
  /\ UNCHANGED <<heads, current, scopes, stack, frames, status>>
  /\ Remember(heap)

Drop ==
  /\ Take(acc)
  /\ UNCHANGED <<heads, current, scopes, stack, frames, global, status>>
  /\ Remember(heap)

(* Mutant: only the outermost scope is moved up. *)
GrowOutermost(m) ==
  LET size == 2 * heap[m].data.size
  IN /\ Between
     /\ m \in Variables
     /\ IsMap(m)
     /\ "home" \in Rules => scopes = <<>> \/ m.arena = current
     /\ Fits(size)
     /\ heads' = [heads EXCEPT ![current] = @ + size]
     /\ Raise({s \in DOMAIN scopes : /\ scopes[s].arena = current
                                     /\ scopes[s].head > m.off /\ s = 1},
              heads'[current])
     /\ UNCHANGED <<current, stack, frames, acc, global, status>>
     /\ Remember(With(heap, m, Map(At(current, heads[current]), size)))

(* Mutant: only scopes of the running function are moved up. *)
GrowMine(m) ==
  LET size == 2 * heap[m].data.size
  IN /\ Between
     /\ m \in Variables
     /\ IsMap(m)
     /\ "home" \in Rules => scopes = <<>> \/ m.arena = current
     /\ Fits(size)
     /\ heads' = [heads EXCEPT ![current] = @ + size]
     /\ Raise({s \in DOMAIN scopes : /\ scopes[s].arena = current
                                     /\ scopes[s].head > m.off /\ Mine(s)},
              heads'[current])
     /\ UNCHANGED <<current, stack, frames, acc, global, status>>
     /\ Remember(With(heap, m, Map(At(current, heads[current]), size)))

(* m[key] = number on a full map: its data moves to a block of twice the   *)
(* size, which every scope that is younger than the map has to spare.      *)
Grow(m) ==
  LET size == 2 * heap[m].data.size
  IN /\ Between
     /\ m \in Variables
     /\ IsMap(m)
     /\ "home" \in Rules => scopes = <<>> \/ m.arena = current
     /\ Fits(size)
     /\ heads' = [heads EXCEPT ![current] = @ + size]
     /\ Raise({s \in DOMAIN scopes : /\ scopes[s].arena = current
                                     /\ scopes[s].head > m.off},
              heads'[current])
     /\ UNCHANGED <<current, stack, frames, acc, global, status>>
     /\ Remember(With(heap, m, Map(At(current, heads[current]), size)))

-----------------------------------------------------------------------------
(* Calls.                                                                  *)

(* A function with one argument, and the scope it starts with. *)
Call ==
  /\ Take(acc)
  /\ Len(frames) < MaxFrames
  /\ Len(stack) < MaxSlots
  /\ Len(scopes) < MAX_LOOP_NESTING
  /\ frames' = Append(frames, Len(stack))
  /\ stack' = Append(stack, acc)
  /\ scopes' = Append(scopes, Scope(Len(stack) + 1, Len(frames) + 1))
  /\ UNCHANGED <<heads, current, global, heap, status>>

Return ==
  /\ Running
  /\ acc # Absent
  /\ Len(frames) > 1
  /\ status' = "returning"
  /\ UNCHANGED <<heads, current, scopes, stack, frames, acc, global, heap>>

(* One scope of the function, none of the caller's. *)
LeaveScope(value, newHeads) ==
  LET scope == Last(scopes)
  IN /\ scopes' = Front(scopes)
     /\ acc' = value
     /\ heads' = IF IsObj(value) /\ value.off >= scope.head THEN newHeads
                 ELSE [newHeads EXCEPT ![scope.arena] = scope.head]

Returning ==
  status = "returning" /\ scopes # <<>> /\ Mine(Len(scopes))

(* Another region was selected meanwhile. *)
ReturnElsewhere ==
  /\ Returning
  /\ current # Last(scopes).arena
  /\ scopes' = Front(scopes)
  /\ UNCHANGED <<heads, current, stack, frames, acc, global, heap, status>>

(* A number, or an object that seems older than the scope. *)
ReturnOld ==
  /\ Returning
  /\ current = Last(scopes).arena
  /\ ~IsObj(acc) \/ acc.off < Last(scopes).head
  /\ LeaveScope(acc, heads)
  /\ UNCHANGED <<current, stack, frames, global, heap, status>>

(* vm_evacuate_object: the object is copied to the head of its arena, and  *)
(* its data after it if that is not older either; nothing tests whether    *)
(* there is room.                                                          *)
Evacuate ==
  LET target == Last(scopes).head
      a      == acc.arena
      copy   == At(a, heads[a])
      next   == heads[a] + heap[acc].size
      data   == heap[acc].data
      moves  == data # NoData /\ data.at.off >= target
      end    == IF moves THEN next + data.size ELSE next
      object == IF moves THEN Map(At(a, next), data.size) ELSE heap[acc]
  IN /\ Returning
     /\ current = Last(scopes).arena
     /\ IsObj(acc) /\ acc.off >= target
     /\ IF end > MAX_HEAP
        THEN /\ status' = "overrun"
             /\ UNCHANGED <<heads, current, scopes, stack, frames, acc, global, heap>>
        ELSE /\ LeaveScope(copy, [heads EXCEPT ![a] = end])
             /\ UNCHANGED <<current, stack, frames, global, status>>
             /\ Remember(With(heap, copy, object))

(* The frame is dropped; the value is the caller's now. *)
ReturnFrame ==
  /\ status = "returning"
  /\ scopes # <<>> => ~Mine(Len(scopes))
  /\ stack' = SubSeq(stack, 1, Last(frames))
  /\ frames' = Front(frames)
  /\ status' = "running"
  /\ UNCHANGED <<heads, current, scopes, acc, global>>
  /\ Remember(heap)

Init ==
  /\ heads = [a \in Arena |-> 0]
  /\ current = 0
  /\ scopes = <<>>
  /\ stack = <<>>
  /\ frames = <<0>>
  /\ acc = Absent
  /\ global = Number
  /\ heap = [v \in {} |-> Array(1)]
  /\ status = "running"

Expression ==
  \/ \E v \in Variables \cup {Number} : Eval(v)
  \/ \E size \in Sizes : EvalArray(size)
  \/ \E r \in Arena \ {0}, size \in Sizes : EvalIn(r, size)
  \/ EvalMap

Next ==
  \/ Enter \/ Exit
  \/ \E r \in Arena : SetRegion(r)
  \/ Expression
  \/ Declare \/ (\E i \in DOMAIN stack : Assign(i)) \/ AssignGlobal \/ Drop
  \/ \E m \in DOMAIN heap : Grow(m)
  \/ Call \/ Return \/ ReturnElsewhere \/ ReturnOld \/ Evacuate \/ ReturnFrame

Spec == Init /\ [][Next]_vars
-----------------------------------------------------------------------------
(* The shape of the state. *)
Ref == [arena : Arena, off : 0 .. MAX_HEAP - 1]
Value == Ref \cup {Number}
TypeOK ==
  /\ heads \in [Arena -> 0 .. MAX_HEAP]
  /\ current \in Arena
  /\ scopes \in Seq([arena : Arena, head : 0 .. MAX_HEAP, fp : 1 .. MaxFrames,
                     sp : 0 .. MaxSlots])
  /\ Len(scopes) <= MAX_LOOP_NESTING
  /\ stack \in Seq(Value) /\ Len(stack) <= MaxSlots
  /\ frames \in Seq(0 .. MaxSlots) /\ Len(frames) \in 1 .. MaxFrames
  /\ acc \in Value \cup {Absent}
  /\ global \in Value
  /\ DOMAIN heap = Reached(stack, global, acc)
  /\ \A v \in DOMAIN heap :
       heap[v].size \in Nat \ {0} /\ heap[v].data.at \in Value
  /\ status \in {"running", "returning", "overrun"}

(* An object the next allocations will not write over, nor its data. *)
Kept(v) ==
  IsObj(v) =>
    /\ v.off + heap[v].size <= heads[v.arena]
    /\ IsMap(v) => heap[v].data.at.off + heap[v].data.size
                     <= heads[heap[v].data.at.arena]

(* No object a local or an argument of any frame refers to is reclaimed:   *)
(* not by the blocks it left, not by functions called meanwhile, not by a  *)
(* return it was copied out of, nor a map's data after the map has grown.  *)
LocalsKept ==
  status \in {"running", "returning"} =>
    /\ \A i \in DOMAIN stack : status = "running" \/ ~Local(i) => Kept(stack[i])
    /\ Kept(acc)

(* The same of globals, as long as they are not given block-local objects. *)
GlobalsKept == status \in {"running", "returning"} => Kept(global)

(* What leaving the open blocks of an arena, one after the other, gives    *)
(* back shrinks from step to step: none of them moves the head up again    *)
(* over cells that were given out meanwhile.                               *)
HeadsNested ==
  \A s, t \in DOMAIN scopes :
    s < t /\ scopes[s].arena = scopes[t].arena =>
      scopes[s].head <= scopes[t].head /\ scopes[t].head <= heads[scopes[t].arena]
=============================================================================
