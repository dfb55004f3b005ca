------------------------------- MODULE Calls -------------------------------
(***************************************************************************)
(* Functions and natives as the VM runs them.  OP_CALL slips the return    *)
(* address and the caller's fp below the arguments, OP_RET finds them      *)
(* there; call() builds the same frame; for_list, filter and param_filter  *)
(* build one with code_size as the return address and run the VM again     *)
(* from C until ip arrives there (run_vm_from).  scope_stack is shared by  *)
(* all frames, its entries told apart by fp only.                          *)
(*                                                                         *)
(* The program is any code: ip says in which function control is and how   *)
(* many calls of this activation are behind it.  Functions are called with *)
(* as many arguments as they have parameters, which no code checks; blocks *)
(* are left in the order they were entered in (Codegen).  The head stands  *)
(* for one arena; where returned objects are copied to is ScopedHeap.      *)
(*                                                                         *)
(* The program is typed into the REPL, line by line (start_repl), so it    *)
(* goes on after errors of the compiler and of the VM.                     *)
(***************************************************************************)
EXTENDS Integers, Sequences, SequencesExt, FiniteSets, FiniteSetsExt

CONSTANTS
  Fn, Arity, Num, Lists, MaxSites,  (* as in CallStack                     *)
  Native,            (* Natives that are used.                             *)
  Literals,          (* Numbers code pushes by itself.                     *)
  STACK_SIZE,        (* Bound: cells of the stack.                         *)
  MaxPushed,         (* Bound: values an activation has on it, beyond its  *)
                     (* arguments.                                         *)
  MAX_LOOP_NESTING,  (* Length of scope_stack.                             *)
  MAX_HEAP,          (* Cells of the arena.                                *)
  MaxNatives,        (* Bound: natives within each other.                  *)
  Var,               (* Global variables.                                  *)
  Errors,            (* What goes wrong: "compile", "run".                 *)
  MaxErrors          (* Bound: how often.                                  *)

ASSUME StackConstants ==
  /\ Arity \in [Fn -> Nat \ {0}]
  /\ Native \subseteq {"for_list", "filter", "param_filter"}
  /\ Num \subseteq Nat /\ 0 \in Num
  /\ Lists \subseteq Seq(Num)
  /\ MaxSites \in Nat
  /\ Fn \cap ({"script", "prompt", "end", "std"} \cup Native) = {}

ASSUME CallConstants ==
  /\ Literals \subseteq Num
  /\ STACK_SIZE \in Nat \ {0} /\ MAX_LOOP_NESTING \in Nat /\ MAX_HEAP \in Nat
  /\ MaxPushed \in Nat /\ MaxNatives \in Nat /\ MaxErrors \in Nat
  /\ Errors \subseteq {"compile", "run"}

VARIABLES
  stack,     (* up to sp                                                   *)
  fp,        (* the cell of the first argument of the running function     *)
  ip,        (* where control is                                           *)
  scopes,    (* scope_stack up to scope_sp                                 *)
  head,      (* of the arena                                               *)
  natives,   (* the natives on the C stack                                 *)
  vars,      (* per global: the cell of its object                         *)
  inside,    (* the compiler's inside_function                             *)
  acts,      (* the activations, read off the stack (history)              *)
  nest,      (* per open activation of code: the blocks it is in (history) *)
  defined,   (* globals defined by lines that succeeded (history)          *)
  errors,    (* how many there were (history)                              *)
  stale      (* one of them left something of its line behind (history)    *)

vm      == <<stack, fp, ip, scopes, head, natives>>
repl    == <<vars, inside>>
history == <<nest, defined, errors, stale>>
allvars == <<vm, repl, history, acts>>
-----------------------------------------------------------------------------
(* The abstract activations, for their values and operators. *)
Obj     == -1
Value   == Num \cup {Obj}
Targets(fn) ==
  {f \in Fn : Arity[f] = IF fn = "param_filter" THEN 2 ELSE 1} \cup {"std"}

ParamsOf(fn) == IF fn = "param_filter" THEN Literals ELSE {0}

(* Positions; the end of the code is code_size. *)
At(fn, at) == [fn |-> fn, at |-> at]
Prompt     == At("prompt", 0)
CodeEnd    == At("end", 0)
Beyond(p)  == [p EXCEPT !.at = @ + 1]

(* Cells. *)
Val(v)     == [kind |-> "val", num |-> v, ip |-> CodeEnd]
SavedIp(p) == [kind |-> "ip",  num |-> 0, ip |-> p]
SavedFp(f) == [kind |-> "fp",  num |-> f, ip |-> CodeEnd]
Vals(seq)  == [i \in DOMAIN seq |-> Val(seq[i])]

sp == Len(stack)
Room(n) == sp + n <= STACK_SIZE

native   == Last(natives)
InNative == natives # <<>> /\ ~native.running
InCode   == ip.fn \in Fn \cup {"script"} /\ ~InNative
InScript == ip.fn = "script"

(* What the running activation has pushed beyond its arguments. *)
Base   == IF InScript THEN 0 ELSE fp - 1
Pushed == sp - Base - IF InScript THEN 0 ELSE Arity[ip.fn]
HasSite == ip.at < MaxSites
HasRoom == Pushed < MaxPushed /\ Room(1)
(* The result of an element: for_list stores it, a filter the element if   *)
(* it is a number but 0. *)
Elem == native.list[native.next]
After(result) ==
  [native EXCEPT
     !.next = @ + 1, !.running = FALSE,
     !.out = IF native.fn = "for_list" THEN Append(@, result)
             ELSE IF result \notin {0, Obj} THEN Append(@, Elem) ELSE @]
-----------------------------------------------------------------------------
(* Reading the activations off the stack, from the running one down: the   *)
(* frame at f holds its caller's position and frame, and a frame that      *)
(* returns to the end of code has a native below it.                       *)

Waiting == natives # <<>> /\ native.running /\ ip = CodeEnd

Running ==
  [p |-> IF InNative THEN CodeEnd ELSE ip, f |-> fp,
   top |-> IF Waiting THEN sp - 1 ELSE sp, n |-> Len(natives)]

Below(u) ==
  CASE u.p = CodeEnd /\ u.n > 0 ->
         [u EXCEPT !.p = natives[u.n].saved_ip, !.n = @ - 1]
    [] u.p.fn \in Fn /\ u.f \in 3 .. u.top ->
         [p |-> stack[u.f - 2].ip, f |-> stack[u.f - 1].num, top |-> u.f - 3, n |-> u.n]
    [] OTHER -> [u EXCEPT !.p = Prompt]

(* From there down to the script, which comes first. *)
View == [p : [fn : Fn \cup {"script", "prompt", "end"}, at : Nat],
         f : Int, top : 0 .. sp, n : 0 .. Len(natives)]

Outermost(u) == u.p.fn \in {"script", "prompt"}

Down[u \in View] == IF Outermost(u) THEN <<u>> ELSE Append(Down[Below(u)], u)

Unwound == Down[Running]

Corrupt == -2
NumsOf(cells) == [i \in DOMAIN cells |->
                    IF cells[i].kind = "val" THEN cells[i].num ELSE Corrupt]

(* A result that waits to be collected has been delivered. *)
NativeOf(n) ==
  LET r == IF Waiting /\ n = Len(natives) THEN After(Last(stack).num) ELSE natives[n]
  IN [fn |-> r.fn, target |-> r.target, todo |-> SubSeq(r.list, r.next, Len(r.list)),
      done |-> r.out, param |-> r.param]

ActivationOf(u) ==
  CASE u.p = CodeEnd /\ u.n > 0 -> NativeOf(u.n)
    [] u.p.fn \in Fn -> [fn |-> u.p.fn, at |-> u.p.at,
                         vals |-> NumsOf(SubSeq(stack, u.f, u.top))]
    [] OTHER -> [fn |-> "script", at |-> u.p.at, vals |-> NumsOf(SubSeq(stack, 1, u.top))]

Activations == LET us == Unwound IN [i \in DOMAIN us |-> ActivationOf(us[i])]

Watch == acts' = Activations'
-----------------------------------------------------------------------------
(* Expressions and statements that do not call.                            *)

(* A literal, a new object, or what a variable of the function holds. *)
Locals == IF InScript THEN {} ELSE {stack[i].num : i \in fp .. sp}

Evaluate(v) ==
  /\ InCode /\ HasRoom
  /\ stack' = Append(stack, Val(v))
  /\ \/ v \in Literals \cup Locals /\ head' = head
     \/ v = Obj /\ head < MAX_HEAP /\ head' = head + 1
  /\ UNCHANGED <<fp, ip, scopes, natives, repl, history>> /\ Watch

Discard ==
  /\ InCode /\ Pushed > 0
  /\ stack' = Front(stack)
  /\ UNCHANGED <<fp, ip, scopes, head, natives, repl, history>> /\ Watch

(* OP_SVAR; what it protects is ScopedHeap. *)
Assign(i) ==
  /\ InCode /\ ~InScript
  /\ Pushed > 0 /\ Base + i < sp
  /\ stack' = Front([stack EXCEPT ![fp + i - 1] = Last(stack)])
  /\ UNCHANGED <<fp, ip, scopes, head, natives, repl, history>> /\ Watch

Scope(frame) == [fp |-> frame, head |-> head]

(* Mutant: the limit is not tested. *)
EnterUnbounded ==
  /\ InCode
  /\ scopes' = Append(scopes, Scope(fp))
  /\ nest' = [nest EXCEPT ![Len(nest)] = @ + 1]
  /\ UNCHANGED <<stack, fp, ip, head, natives, repl, defined, errors, stale>> /\ Watch

Enter ==
  /\ InCode
  /\ Len(scopes) < MAX_LOOP_NESTING
  /\ scopes' = Append(scopes, Scope(fp))
  /\ nest' = [nest EXCEPT ![Len(nest)] = @ + 1]
  /\ UNCHANGED <<stack, fp, ip, head, natives, repl, defined, errors, stale>> /\ Watch

(* The scope a function starts with is left by OP_RET only. *)
Leave ==
  /\ InCode
  /\ Last(nest) > IF InScript THEN 0 ELSE 1
  /\ nest' = [nest EXCEPT ![Len(nest)] = @ - 1]
  /\ IF scopes = <<>> THEN UNCHANGED <<scopes, head>>
     ELSE scopes' = Front(scopes) /\ head' = Last(scopes).head
  /\ UNCHANGED <<stack, fp, ip, natives, repl, defined, errors, stale>> /\ Watch
-----------------------------------------------------------------------------
(* Calls.                                                                  *)

(* Control goes to f, which enters its scope first. *)
Starts(f, frame) ==
  /\ Len(scopes) < MAX_LOOP_NESTING
  /\ fp' = frame
  /\ ip' = At(f, 0)
  /\ scopes' = Append(scopes, Scope(frame))
  /\ nest' = Append(nest, 1)
  /\ UNCHANGED <<head, repl, defined, errors, stale>>

(* A frame below the arguments, the last values of values. *)
Framed(values, argc, return) ==
  LET n == Len(values) - argc
  IN SubSeq(values, 1, n) \o <<SavedIp(return), SavedFp(fp)>>
       \o SubSeq(values, n + 1, n + argc)

FrameOf(values, argc) == Len(values) - argc + 3

(* OP_CALL *)
Call(f) ==
  /\ InCode /\ HasSite /\ Room(2)
  /\ Pushed >= Arity[f]
  /\ stack' = Framed(stack, Arity[f], Beyond(ip))
  /\ Starts(f, FrameOf(stack, Arity[f]))
  /\ UNCHANGED natives /\ Watch

(* call(name, [args]) pushes the arguments and builds the frame itself. *)
CallByName(f, args) ==
  LET values == stack \o Vals(args)
  IN /\ InCode /\ HasSite /\ HasRoom /\ Room(Arity[f] + 2)
     /\ stack' = Framed(values, Arity[f], Beyond(ip))
     /\ Starts(f, FrameOf(values, Arity[f]))
     /\ UNCHANGED natives /\ Watch

(* The scopes OP_RET leaves alone. *)
CallersScopes == SubSeq(scopes, 1, Max({0} \cup {s \in DOMAIN scopes : scopes[s].fp # fp}))

(* Mutant: a single scope is popped. *)
ReturnOneScope ==
  LET result == Last(stack)
  IN /\ InCode /\ ~InScript /\ Pushed > 0
     /\ scopes' = Front(scopes)
     /\ head' = Last(scopes).head
     /\ stack' = Append(SubSeq(stack, 1, fp - 3), result)
     /\ fp' = stack[fp - 1].num
     /\ ip' = stack[fp - 2].ip
     /\ nest' = Front(nest)
     /\ UNCHANGED <<natives, repl, defined, errors, stale>> /\ Watch

(* OP_RET.  An object that is returned is copied, and the head is not      *)
(* rewound, by those of the scopes that are older than it.                 *)
Return ==
  LET result == Last(stack)
      rewind == {scopes[s].head : s \in Len(CallersScopes) + 1 .. Len(scopes)}
  IN /\ InCode /\ ~InScript /\ Pushed > 0
     /\ scopes' = CallersScopes
     /\ IF result.num = Obj THEN head' \in {head} \cup rewind
        ELSE head' = IF rewind = {} THEN head
                     ELSE scopes[Len(CallersScopes) + 1].head
     /\ stack' = Append(SubSeq(stack, 1, fp - 3), result)
     /\ fp' = stack[fp - 1].num
     /\ ip' = stack[fp - 2].ip
     /\ nest' = Front(nest)
     /\ UNCHANGED <<natives, repl, defined, errors, stale>> /\ Watch
-----------------------------------------------------------------------------
(* Natives that run functions.  A native is a C function in the middle of  *)
(* its loop: `next` is the element it is about to give to the target,      *)
(* `list` and `len` were read before the loop, `out` is the list it makes. *)

(* The list is popped, and room for its results allocated. *)
Apply(fn, target, list, param) ==
  /\ InCode /\ HasSite /\ HasRoom
  /\ Len(natives) < MaxNatives
  /\ head < MAX_HEAP /\ head' = head + 1
  /\ ip' = Beyond(ip)
  /\ natives' = Append(natives,
       [fn |-> fn, target |-> target, list |-> list, param |-> param,
        next |-> 1, running |-> FALSE, saved_ip |-> ip', out |-> <<>>])
  /\ UNCHANGED <<stack, fp, scopes, repl, history>> /\ Watch

SetNative(n) == natives' = Append(Front(natives), n)

(* Mutant: a second argument moves the frame. *)
CallbackFrameLast == sp + IF native.fn = "param_filter" THEN 4 ELSE 3
CallbackFrame == sp + 3

(* run_vm_from starts the function; the frame sends it to the end of code. *)
Callback ==
  LET args == IF native.fn = "param_filter" THEN <<Elem, native.param>> ELSE <<Elem>>
  IN /\ InNative /\ native.next <= Len(native.list)
     /\ native.target # "std"
     /\ Room(2 + Len(args))
     /\ stack' = stack \o <<SavedIp(CodeEnd), SavedFp(fp)>> \o Vals(args)
     /\ Starts(native.target, CallbackFrame)
     /\ SetNative([native EXCEPT !.running = TRUE]) /\ Watch

(* The same with a function of the standard library, which pops its        *)
(* arguments and pushes one result.                                        *)
StdCallback(result) ==
  /\ InNative /\ native.next <= Len(native.list)
  /\ native.target = "std"
  /\ SetNative(After(result))
  /\ UNCHANGED <<stack, fp, ip, scopes, head, repl, history>> /\ Watch

(* run_vm_from has returned. *)
Collect ==
  /\ natives # <<>> /\ native.running
  /\ ip = CodeEnd
  /\ SetNative(After(Last(stack).num))
  /\ stack' = Front(stack)
  /\ UNCHANGED <<fp, ip, scopes, head, repl, history>> /\ Watch

(* Mutant: control stays where the last callback left it. *)
FinishWithoutIp ==
  /\ InNative /\ native.next > Len(native.list)
  /\ stack' = Append(stack, Val(Obj))
  /\ natives' = Front(natives)
  /\ UNCHANGED <<fp, ip, scopes, head, repl, history>> /\ Watch

Finish ==
  /\ InNative /\ native.next > Len(native.list)
  /\ stack' = Append(stack, Val(Obj))
  /\ ip' = native.saved_ip
  /\ natives' = Front(natives)
  /\ UNCHANGED <<fp, scopes, head, repl, history>> /\ Watch
-----------------------------------------------------------------------------
(* The REPL.                                                               *)

StartLine ==
  /\ ip = Prompt
  /\ ip' = At("script", 0)
  /\ UNCHANGED <<stack, fp, scopes, head, natives, repl, history>> /\ Watch

(* Mutant: the VM is set up anew, as after vm_init. *)
EndLineInit ==
  /\ InScript /\ Last(nest) = 0
  /\ ~InNative
  /\ stack' = <<>>
  /\ ip' = Prompt
  /\ head' = 0
  /\ UNCHANGED <<fp, scopes, natives, repl, history>> /\ Watch

(* What the line left on the stack is printed and dropped. *)
EndLine ==
  /\ InScript /\ Last(nest) = 0
  /\ ~InNative
  /\ stack' = <<>>
  /\ ip' = Prompt
  /\ UNCHANGED <<fp, scopes, head, natives, repl, history>> /\ Watch

(* var x = [...].  For the compiler x is a local if it is inside a         *)
(* function: the object stays on the stack, and goes as the line ends.     *)
DefineVar(x) ==
  /\ InScript /\ Last(nest) = 0 /\ stack = <<>> /\ ~InNative
  /\ head < MAX_HEAP /\ head' = head + 1
  /\ IF inside THEN stack' = <<Val(Obj)>> /\ UNCHANGED vars
     ELSE vars' = [vars EXCEPT ![x] = head + 1] /\ UNCHANGED stack
  /\ defined' = defined \cup {x}
  /\ UNCHANGED <<fp, ip, scopes, natives, inside, nest, errors, stale>> /\ Watch

(* A line that does not compile, in a function or not: nothing of it runs. *)
CompileError ==
  /\ "compile" \in Errors /\ errors < MaxErrors
  /\ ip = Prompt
  /\ inside' \in {inside, TRUE}
  /\ errors' = errors + 1
  /\ stale' = (stale \/ inside')
  /\ UNCHANGED <<vm, vars, nest, defined>> /\ Watch

(* longjmp to the landing pad: the stack is emptied, and the C functions   *)
(* in between are gone; nothing else is reset.                             *)
RuntimeError ==
  /\ "run" \in Errors /\ errors < MaxErrors
  /\ InCode \/ InNative
  /\ stack' = <<>>
  /\ natives' = <<>>
  /\ ip' = Prompt
  /\ nest' = <<0>>
  /\ errors' = errors + 1
  /\ stale' = (stale \/ scopes # <<>>)
  /\ UNCHANGED <<fp, scopes, head, repl, defined>> /\ Watch
-----------------------------------------------------------------------------
Init ==
  /\ stack = <<>> /\ fp = 1 /\ ip = Prompt
  /\ scopes = <<>> /\ head = 0
  /\ natives = <<>>
  /\ vars = [x \in Var |-> 0] /\ inside = FALSE
  /\ nest = <<0>> /\ defined = {} /\ errors = 0 /\ stale = FALSE
  /\ acts = Activations

Next ==
  \/ \E v \in Literals \cup {Obj} \cup Locals : Evaluate(v)
  \/ Discard \/ \E i \in 1 .. sp : Assign(i)
  \/ Enter \/ Leave
  \/ \E f \in Fn : Call(f) \/ \E args \in [1 .. Arity[f] -> Literals] : CallByName(f, args)
  \/ Return
  \/ \E n \in Native, l \in Lists :
       \E t \in Targets(n), p \in ParamsOf(n) : Apply(n, t, l, p)
  \/ Callback \/ Collect \/ Finish
  \/ \E v \in Num : StdCallback(v)
  \/ StartLine \/ EndLine \/ (\E x \in Var : DefineVar(x))
  \/ CompileError \/ RuntimeError

Spec == Init /\ [][Next]_allvars
-----------------------------------------------------------------------------
Stack == INSTANCE CallStack

(* Calls are a stack of activations: a function returns to its own caller, *)
(* whose values are all there with one result on top of them, natives get  *)
(* the results of their own callbacks, one per element and in order, and   *)
(* go on in the code that called them; after errors too.                   *)
CallsNest == Stack!Spec

(* The shape of the state. *)
Cell == [kind : {"val"}, num : Value, ip : {CodeEnd}]
   \cup [kind : {"ip"}, num : {0}, ip : [fn : Fn \cup {"script", "end"}, at : 0 .. MaxSites]]
   \cup [kind : {"fp"}, num : 1 .. STACK_SIZE, ip : {CodeEnd}]
TypeOK ==
  /\ stack \in Seq(Cell) /\ sp <= STACK_SIZE
  /\ fp \in 1 .. STACK_SIZE
  /\ ip \in [fn : Fn \cup {"script", "end", "prompt"}, at : 0 .. MaxSites]
  /\ scopes \in Seq([fp : 1 .. STACK_SIZE, head : 0 .. MAX_HEAP])
  /\ Len(scopes) <= MAX_LOOP_NESTING
  /\ head \in 0 .. MAX_HEAP
  /\ Len(natives) <= MaxNatives
  /\ vars \in [Var -> 0 .. MAX_HEAP] /\ inside \in BOOLEAN
  /\ nest \in Seq(Nat) /\ nest # <<>>
  /\ defined \subseteq Var /\ errors \in 0 .. MaxErrors /\ stale \in BOOLEAN

OwnScopes(u) == {s \in DOMAIN scopes : scopes[s].fp = u.f}

(* scope_stack holds the scopes of the open activations, each activation's *)
(* under its own fp, as many as it is in blocks, and inner ones above      *)
(* outer ones: no return takes or leaves one of another function, and none *)
(* are left for the next line.  Errors that happen outside blocks and      *)
(* functions change nothing of that.                                       *)
ScopesMatch ==
  LET us   == Unwound
      code == {i \in DOMAIN us : us[i].p # CodeEnd}
  IN ~stale =>
       /\ \A i \in code : Cardinality(OwnScopes(us[i])) = nest[i - us[i].n]
       /\ \A s \in DOMAIN scopes : \E i \in code : s \in OwnScopes(us[i])
       /\ \A s, t \in DOMAIN scopes : s < t => scopes[s].fp <= scopes[t].fp

(* What a successful line defined is there: the variable refers to its     *)
(* object, whose cell will not be given out again.                         *)
(* VariablesKept is the same for lines after which no error left anything  *)
(* behind.                                                                 *)
VariablesSurvive == \A x \in defined : vars[x] \in 1 .. head
VariablesKept == ~stale => VariablesSurvive
=============================================================================
