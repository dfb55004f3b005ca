------------------------------ MODULE Codegen -------------------------------
(***************************************************************************)
(* How the one-pass compiler (compiler.c) nests blocks and loops, and what *)
(* the VM makes of it: the memory scopes and the stack slots of locals are *)
(* opened and closed by instructions, while statements jump across them.   *)
(*                                                                         *)
(* The behaviour first compiles one function body, or one script at top    *)
(* level, statement by statement, then runs it with conditions that fall   *)
(* either way.  An address is the index of an instruction (operands have   *)
(* none of their own); address 1 is the code's first, where a jump goes    *)
(* that was emitted with operand 0 and never patched.  Instructions that   *)
(* leave scopes and stack as they were are left out: an expression and     *)
(* the instruction that takes its value are one, and a statement that is   *)
(* only these is not there.  A condition is part of its JZ.  So programs   *)
(* are left out that take the value of a struct's element by position,     *)
(* p[0], where OP_AGET pushes none.  sp counts the values on the stack     *)
(* from the frame pointer up.                                              *)
(***************************************************************************)
EXTENDS Integers, Sequences, SequencesExt

CONSTANTS
  MAX_LOOP_NESTING,  (* Length of scope_stack.                             *)
  STACK_SIZE,        (* Slots of the value stack.                          *)
  MaxStatements,     (* Bound: statements and branches of the program.     *)
  MaxParameters,     (* Bound: parameters and arguments of the function.   *)
  MaxNames,          (* Bound: iterator variables of a for loop, at most   *)
                     (* two in the source.                                 *)
  Avoids             (* What programs do not do.                           *)

(* drift   no break or continue whose loop body has, before it, a          *)
(*         conditional for loop of its own.                                *)
ASSUME CodegenConstants ==
  /\ MAX_LOOP_NESTING \in Nat \ {0}
  /\ STACK_SIZE \in Nat \ {0}
  /\ MaxStatements \in Nat
  /\ MaxParameters \in 0 .. STACK_SIZE
  /\ MaxNames \in 1 .. 2
  /\ Avoids \subseteq {"drift"}

VARIABLES
  phase,      (* compile; run; done; overflow: a stack is full;            *)
              (* underflow: a value below the frame was popped             *)
  code,       (* vm->bytecode                                              *)
  inside_function,
  open,       (* the blocks the parser is in: its local variables          *)
  loop_stack, (* loop_stack up to loop_depth                               *)
  current_scope_depth,
  local_count,
  marks,      (* at the start and at each statement: the scopes and locals *)
              (* its place in the source calls for (history)               *)
  statements, (* statements and branches compiled                          *)
  ip, sp,     (* vm->ip, vm->sp - vm->fp + 1                               *)
  scope_sp,   (* vm->scope_sp, from the caller's up                        *)
  surplus     (* values left on the stack that no local was declared for,  *)
              (* less those taken off it that a local was declared for     *)
              (* (history)                                                 *)

compiler == <<inside_function, open, loop_stack, current_scope_depth,
              local_count, marks, statements>>
machine  == <<ip, sp, scope_sp, surplus>>
vars == <<phase, code, compiler, machine>>

-----------------------------------------------------------------------------
I(op)        == [op |-> op, arg |-> 1]
To(op, addr) == [op |-> op, arg |-> addr]
Many(n, op)  == [k \in 1 .. n |-> I(op)]

NextAddr(c) == Len(c) + 1   \* compiling_vm->code_size, with c emitted

(* Mutant: off by one. *)
PatchBehind(c, addrs, target) ==
  [k \in DOMAIN c |-> IF k \in addrs THEN [c[k] EXCEPT !.arg = target + 1]
                      ELSE c[k]]

Patch(c, addrs, target) ==
  [k \in DOMAIN c |-> IF k \in addrs THEN [c[k] EXCEPT !.arg = target] ELSE c[k]]

Lexical == IF open = <<>> THEN (IF inside_function THEN 1 ELSE 0)
           ELSE Last(open).depth

Place == [addr |-> NextAddr(code), scopes |-> Lexical, locals |-> local_count]

Statement ==
  /\ phase = "compile"
  /\ statements < MaxStatements
  /\ statements' = statements + 1
  /\ marks' = marks \cup {Place}
  /\ UNCHANGED <<phase, inside_function, machine>>

(* Enter a block: jz is its conditional jump or 0, start where its loop    *)
(* jumps back to, saved and body the saved_local_counts.                   *)
Open(kind, jz, start, body, scopes) ==
  /\ open' = Append(open, [kind |-> kind, jz |-> jz, exits |-> {}, start |-> start,
                           saved |-> local_count, body |-> body,
                           depth |-> Lexical + scopes])
  /\ local_count' = body
  /\ current_scope_depth' = current_scope_depth + scopes

In(kinds) == phase = "compile" /\ open # <<>> /\ Last(open).kind \in kinds

(* Leave it: the tracker goes down by exits. *)
Close(exits) ==
  /\ marks' = marks \cup {Place}
  /\ open' = Front(open)
  /\ local_count' = Last(open).saved
  /\ current_scope_depth' = current_scope_depth - exits
  /\ UNCHANGED <<phase, inside_function, statements, machine>>

(* What ends a block's body: its locals are popped, its scope is closed.   *)
BodyEnd == code \o Many(local_count - Last(open).body, "POP") \o <<I("EXIT")>>

(* One loop too many is an error; MAX_JUMPS_PER_LOOP of one is not reached.*)
(* lexical is what scope_depth should be (history).                        *)
push_loop(scope_depth, locals) ==
  /\ Len(loop_stack) < MAX_LOOP_NESTING
  /\ loop_stack' = Append(loop_stack,
       [breaks |-> {}, continues |-> {}, scope_depth |-> scope_depth,
        local_count |-> locals,
        lexical |-> scope_depth - current_scope_depth + Lexical])

(* The code with the innermost loop's jumps patched. *)
Patched(c, continue_addr, break_addr) ==
  Patch(Patch(c, Last(loop_stack).continues, continue_addr),
        Last(loop_stack).breaks, break_addr)

pop_loop(c, continue_addr, break_addr) ==
  /\ loop_stack' = Front(loop_stack)
  /\ code' = Patched(c, continue_addr, break_addr)

-----------------------------------------------------------------------------
(* var, region, elements.  At top level variables are globals and nothing  *)
(* of theirs is left on the stack.                                         *)

Var ==
  /\ Statement
  /\ inside_function
  /\ code' = Append(code, I("PUSH"))
  /\ local_count' = local_count + 1
  /\ UNCHANGED <<open, loop_stack, current_scope_depth>>

(* The handle is pushed into the local's slot, and SVAR takes it off the   *)
(* stack again; parse_embed does the same with its bytes.                  *)
Region ==
  /\ Statement
  /\ inside_function
  /\ code' = code \o <<I("PUSH"), I("SVAR")>>
  /\ local_count' = local_count + 1
  /\ UNCHANGED <<open, loop_stack, current_scope_depth>>

(* a[0], p.x or a[0:1] and no =: the value is read, by AGET, HGET or SLICE,*)
(* and nothing takes it.                                                   *)
Element ==
  /\ Statement
  /\ code' = Append(code, I("AGET"))
  /\ UNCHANGED <<open, loop_stack, current_scope_depth, local_count>>

-----------------------------------------------------------------------------
(* parse_if.                                                               *)

If ==
  /\ Statement
  /\ code' = code \o <<I("JZ"), I("ENTER")>>
  /\ Open("if", NextAddr(code), 0, local_count, 1)
  /\ UNCHANGED loop_stack

(* elif and else: the branch before jumps to the end; its JZ comes here.   *)
Branch(kind, condition) ==
  LET b == Last(open)
      c == Append(BodyEnd, I("JMP"))
  IN /\ In({"if"})
     /\ statements < MaxStatements
     /\ statements' = statements + 1
     /\ marks' = marks \cup {Place, [addr |-> NextAddr(c), scopes |-> b.depth - 1,
                                     locals |-> b.saved]}
     /\ code' = Patch(c, {b.jz}, NextAddr(c)) \o condition \o <<I("ENTER")>>
     /\ open' = Append(Front(open),
                  [b EXCEPT !.kind = kind, !.exits = @ \cup {Len(c)},
                            !.jz = IF condition = <<>> THEN 0 ELSE NextAddr(c)])
     /\ local_count' = b.body
     /\ UNCHANGED <<phase, inside_function, loop_stack, current_scope_depth, machine>>

ElseIf == Branch("if", <<I("JZ")>>)
Else   == Branch("else", <<>>)

CloseIf ==
  /\ In({"if", "else"})
  /\ code' = Patch(BodyEnd, Last(open).exits \cup {Last(open).jz}, NextAddr(BodyEnd))
  /\ Close(1)
  /\ UNCHANGED loop_stack

-----------------------------------------------------------------------------
(* for (x in list), for (k, v in list): of the one or two names, fresh are *)
(* new variables, which stay on the stack during the loop, as the list and *)
(* the index do.  Each round sets every name.                              *)

ForIn(names, fresh) ==
  LET kept == IF inside_function THEN fresh + 2 ELSE 0
      c    == code \o <<I("ENTER")>> \o Many(kept, "PUSH")
  IN /\ Statement
     /\ code' = Append(c, I("JZ")) \o Many(names, "IT_SET") \o <<I("ENTER")>>
     /\ Open("forin", NextAddr(c), NextAddr(c), local_count + kept, 2)
     /\ push_loop(current_scope_depth + 1, local_count + kept)

(* Mutant: the iterator variables stay. *)
CloseForInKeeping ==
  LET b == Last(open)
      c == Append(BodyEnd, To("JMP", b.start))
  IN /\ In({"forin"})
     /\ pop_loop(Append(Patch(c, {b.jz}, NextAddr(c)), I("EXIT")),
                 NextAddr(BodyEnd), NextAddr(c))
     /\ Close(2)

CloseForIn ==
  LET b == Last(open)
      c == Append(BodyEnd, To("JMP", b.start))
  IN /\ In({"forin"})
     /\ pop_loop(Patch(c, {b.jz}, NextAddr(c)) \o Many(b.body - b.saved, "POP")
                   \o <<I("EXIT")>>,
                 NextAddr(BodyEnd), NextAddr(c))
     /\ Close(2)

(* for (condition): an inner scope around condition and body.              *)
ForCond ==
  /\ Statement
  /\ code' = code \o <<I("ENTER"), I("ENTER"), I("JZ")>>
  /\ Open("forcond", Len(code) + 3, Len(code) + 2, local_count, 2)
  /\ push_loop(current_scope_depth + 1, local_count)

(* The inner scope's exit is emitted twice, once for each way out, and     *)
(* both count: the tracker goes down by three for the two it went up.      *)
CloseForCond ==
  LET b == Last(open)
      c == Append(BodyEnd, To("JMP", b.start))
      d == Append(Patch(c, {b.jz}, NextAddr(c)), I("EXIT"))
  IN /\ In({"forcond"})
     /\ pop_loop(Append(d, I("EXIT")), NextAddr(BodyEnd), NextAddr(d))
     /\ Close(3)

Forever ==
  /\ Statement
  /\ code' = Append(code, I("ENTER"))
  /\ Open("forever", 0, NextAddr(code), local_count, 1)
  /\ push_loop(current_scope_depth, local_count)

CloseForever ==
  LET c == Append(BodyEnd, To("JMP", Last(open).start))
  IN /\ In({"forever"})
     /\ pop_loop(c, Last(open).start, NextAddr(c))
     /\ Close(1)

-----------------------------------------------------------------------------
(* break, continue, return.                                                *)

(* Mutant: scopes are left open. *)
UnwindLocals(loop) == Many(local_count - loop.local_count, "POP")

(* What break and continue emit before they jump. *)
Unwind(loop) ==
  Many(current_scope_depth - loop.scope_depth, "EXIT")
    \o Many(local_count - loop.local_count, "POP")

Leave(field(_)) ==
  LET loop == Last(loop_stack)
      c    == code \o Unwind(loop) \o <<I("JMP")>>
  IN /\ loop_stack # <<>>
     /\ Statement
     /\ "drift" \in Avoids =>
          current_scope_depth - loop.scope_depth = Lexical - loop.lexical
     /\ code' = c
     /\ loop_stack' = Append(Front(loop_stack), field(Len(c)))
     /\ UNCHANGED <<open, current_scope_depth, local_count>>

Break ==
  LET Patchable(addr) == [Last(loop_stack) EXCEPT !.breaks = @ \cup {addr}]
  IN  Leave(Patchable)

Continue ==
  LET Patchable(addr) == [Last(loop_stack) EXCEPT !.continues = @ \cup {addr}]
  IN  Leave(Patchable)

Return ==
  /\ Statement
  /\ inside_function
  /\ code' = Append(code, I("RET"))
  /\ UNCHANGED <<open, loop_stack, current_scope_depth, local_count>>

(* The end of the source: return 0, or HLT. *)
Finish ==
  /\ phase = "compile"
  /\ open = <<>>
  /\ phase' = "run"
  /\ marks' = marks \cup {Place}
  /\ code' = Append(code, I(IF inside_function THEN "RET" ELSE "HLT"))
  /\ UNCHANGED <<inside_function, open, loop_stack, current_scope_depth,
                 local_count, statements, machine>>

-----------------------------------------------------------------------------
(* The VM.                                                                 *)

Fetch(op) == phase = "run" /\ code[ip].op = op /\ UNCHANGED <<code, compiler>>

Stop(how) == phase' = how /\ UNCHANGED machine

ScopeEnter ==
  /\ Fetch("ENTER")
  /\ IF scope_sp >= MAX_LOOP_NESTING THEN Stop("overflow")
     ELSE /\ scope_sp' = scope_sp + 1
          /\ ip' = ip + 1
          /\ UNCHANGED <<phase, sp, surplus>>

ScopeExit ==
  /\ Fetch("EXIT")
  /\ scope_sp' = IF scope_sp > 0 THEN scope_sp - 1 ELSE 0
  /\ ip' = ip + 1
  /\ UNCHANGED <<phase, sp, surplus>>

Push ==
  /\ Fetch("PUSH") \/ Fetch("AGET")
  /\ IF sp >= STACK_SIZE THEN Stop("overflow")
     ELSE /\ sp' = sp + 1
          /\ surplus' = IF code[ip].op = "AGET" THEN surplus + 1 ELSE surplus
          /\ ip' = ip + 1
          /\ UNCHANGED <<phase, scope_sp>>

Pop ==
  /\ Fetch("POP") \/ Fetch("SVAR") \/ Fetch("IT_SET")
  /\ IF sp = 0 THEN Stop("underflow")
     ELSE /\ sp' = sp - 1
          /\ surplus' = IF code[ip].op = "POP" THEN surplus ELSE surplus - 1
          /\ ip' = ip + 1
          /\ UNCHANGED <<phase, scope_sp>>

(* An iterator pushes the element that the instruction behind it takes, if *)
(* it knows the kind of list: of arrays of other numbers than bytes it     *)
(* pushes none, and that instruction is a Pop.  AGET of a struct pushes    *)
(* none either.                                                            *)
Even ==
  /\ Fetch("IT_SET") \/ Fetch("AGET")
  /\ ip' = ip + 1
  /\ UNCHANGED <<phase, sp, scope_sp, surplus>>

Jump ==
  /\ \/ Fetch("JMP") /\ ip' = code[ip].arg
     \/ Fetch("JZ")  /\ ip' \in {ip + 1, code[ip].arg}
  /\ UNCHANGED <<phase, sp, scope_sp, surplus>>

(* RET closes every scope of the frame and drops its locals. *)
Ret ==
  /\ Fetch("RET")
  /\ scope_sp' = 0 /\ sp' = 0
  /\ phase' = "done"
  /\ UNCHANGED <<ip, surplus>>

Halt == Fetch("HLT") /\ Stop("done")

(* A function's parameters are its first locals; OP_CALL leaves on the     *)
(* stack what arguments there are.                                         *)
Parameters == IF inside_function THEN 0 .. MaxParameters ELSE {0}

Init ==
  /\ inside_function \in BOOLEAN
  /\ phase = "compile"
  /\ code = IF inside_function THEN <<I("ENTER")>> ELSE <<>>
  /\ open = <<>>
  /\ loop_stack = <<>>
  /\ current_scope_depth = IF inside_function THEN 1 ELSE 0
  /\ local_count \in Parameters
  /\ marks = {[addr |-> 1, scopes |-> 0, locals |-> local_count]}
  /\ statements = 0
  /\ ip = 1 /\ sp \in Parameters /\ scope_sp = 0
  /\ surplus = sp - local_count

Compile ==
  \/ Var \/ Region \/ Element
  \/ If \/ ElseIf \/ Else \/ CloseIf
  \/ (\E names \in 1 .. MaxNames : \E fresh \in 0 .. names : ForIn(names, fresh)) \/ CloseForIn
  \/ ForCond \/ CloseForCond
  \/ Forever \/ CloseForever
  \/ Break \/ Continue \/ Return \/ Finish

Run == ScopeEnter \/ ScopeExit \/ Push \/ Pop \/ Even \/ Jump \/ Ret \/ Halt

Next == Compile \/ Run

Spec == Init /\ [][Next]_vars
-----------------------------------------------------------------------------
(* The shape of the state; all jumps of a finished program stay in it. *)
TypeOK ==
  /\ phase \in {"compile", "run", "done", "overflow", "underflow"}
  /\ code \in Seq([op : {"ENTER", "EXIT", "PUSH", "POP", "SVAR", "AGET", "IT_SET",
                         "JZ", "JMP", "RET", "HLT"},
                   arg : Nat \ {0}])
  /\ phase # "compile" => \A k \in DOMAIN code : code[k].arg \in DOMAIN code
  /\ current_scope_depth \in Int
  /\ local_count \in Nat
  /\ statements \in 0 .. MaxStatements
  /\ ip \in Nat /\ sp \in 0 .. STACK_SIZE
  /\ scope_sp \in 0 .. MAX_LOOP_NESTING
  /\ surplus \in Int

(* compiler.c:419, "Unwind nested memory scopes": whichever way control    *)
(* reaches a statement - through bodies, past them, by break or continue   *)
(* out of any nesting, again and again in a loop - the VM has as many      *)
(* scopes open as the source has blocks around the statement.  One too     *)
(* many, and memory is not reclaimed and scope_stack fills; one too few,   *)
(* and an enclosing block's objects are reclaimed under it.                *)
ScopesUnwound ==
  phase = "run" => \A m \in marks : m.addr = ip => scope_sp = m.scopes

(* The compiler numbers locals by local_count, the VM by where the stack   *)
(* happens to be.  At every statement the two differ by what the program   *)
(* ran so far that leaves the stack uneven, and by nothing else: one up    *)
(* for each element that was named and not assigned, one down for each     *)
(* region or embed in a function and for each iterator variable set from   *)
(* an array that OP_IT_DEF does not know, and the arguments too many or    *)
(* too few.  So without these each local is read from its own slot;        *)
(* blocks, loops and jumps out of them never shift it.                     *)
LocalsLineUp ==
  phase = "run" => \A m \in marks : m.addr = ip => sp = m.locals + surplus
=============================================================================
