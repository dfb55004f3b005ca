----------------------------- MODULE CallStack -----------------------------
(***************************************************************************)
(* What calls promise: a stack of activations.  The program runs in the    *)
(* one on top, which sees its own values only; a call takes the arguments  *)
(* from the caller's and opens an activation on them, a return closes it   *)
(* and gives its last value to whoever is below.  That may be a native     *)
(* (for_list, filter, param_filter), which calls a function for one        *)
(* element after the other and goes on where its caller is when there are  *)
(* none left.  An error drops everything.  Calls shows that the frames in  *)
(* the value stack and the natives on the C stack come to this.            *)
(***************************************************************************)
EXTENDS Integers, Sequences, SequencesExt

CONSTANTS
  Fn,       (* Functions of the program.                                   *)
  Arity,    (* Their numbers of parameters.                                *)
  Native,   (* Natives that call functions.                                *)
  Num,      (* Numbers; 0 is false.                                        *)
  Lists,    (* Lists a native is applied to.                               *)
  MaxSites  (* Bound: calls an activation makes.                           *)

VARIABLE acts
-----------------------------------------------------------------------------
(* An object; which one does not matter here. *)
Obj == -1
Value == Num \cup {Obj}

Script == "script"

(* The functions a native can apply: those with its callback's parameters, *)
(* and functions of the standard library, which run at once.               *)
CallbackArity(native) == IF native = "param_filter" THEN 2 ELSE 1
Targets(native) == {f \in Fn : Arity[f] = CallbackArity(native)} \cup {"std"}

(* What a native has after the element e gave v. *)
Collected(native, done, e, v) ==
  IF native = "for_list" THEN Append(done, v)
  ELSE IF v \notin {0, Obj} THEN Append(done, e) ELSE done

(* The position `at` in fn, and the values the activation has pushed. *)
Activation(fn, at, vals) == [fn |-> fn, at |-> at, vals |-> vals]

(* A native at work: elements to do, results so far, and its parameter. *)
NativeActivation(native, target, todo, done, param) ==
  [fn |-> native, target |-> target, todo |-> todo, done |-> done, param |-> param]

Params(fn) == IF fn \in Fn THEN Arity[fn] ELSE 0

top == Last(acts)
InCode == top.fn \notin Native

(* The activation on top becomes a; or a, with b opened on it. *)
Becomes(a) == acts' = Append(Front(acts), a)
Opens(a, b) == acts' = Front(acts) \o <<a, b>>

Push(v) == [top EXCEPT !.vals = Append(@, v)]
Drop(n) == [top EXCEPT !.vals = SubSeq(@, 1, Len(@) - n)]
Beyond(act) == [act EXCEPT !.at = @ + 1]
-----------------------------------------------------------------------------
Init == acts = <<Activation(Script, 0, <<>>)>>

Evaluate(v) == InCode /\ Becomes(Push(v))

Discard == InCode /\ Len(top.vals) > Params(top.fn) /\ Becomes(Drop(1))

(* A local or parameter of the running function gets the last value. *)
Assign(i) ==
  /\ top.fn # Script
  /\ Len(top.vals) > Params(top.fn) /\ i < Len(top.vals)
  /\ Becomes([Drop(1) EXCEPT !.vals[i] = Last(top.vals)])

Call(f) ==
  LET n == Len(top.vals)
  IN /\ InCode /\ top.at < MaxSites
     /\ n - Params(top.fn) >= Arity[f]
     /\ Opens(Beyond(Drop(Arity[f])),
              Activation(f, 0, SubSeq(top.vals, n - Arity[f] + 1, n)))

(* call(name, arguments) *)
CallByName(f, args) ==
  /\ InCode /\ top.at < MaxSites
  /\ Opens(Beyond(top), Activation(f, 0, args))

Apply(native, target, list, param) ==
  /\ InCode /\ top.at < MaxSites
  /\ Opens(Beyond(top), NativeActivation(native, target, list, <<>>, param))

Deliver(native, v) ==
  [native EXCEPT !.done = Collected(native.fn, @, Head(native.todo), v),
                 !.todo = Tail(@)]

Callback ==
  /\ ~InCode /\ top.todo # <<>> /\ top.target # "std"
  /\ Opens(top, Activation(top.target, 0,
                  <<Head(top.todo)>> \o IF top.fn = "param_filter"
                                         THEN <<top.param>> ELSE <<>>))

StdCallback(v) ==
  /\ ~InCode /\ top.todo # <<>> /\ top.target = "std"
  /\ Becomes(Deliver(top, v))

Return ==
  LET v    == Last(top.vals)
      rest == Front(acts)
      next == Last(rest)
  IN /\ InCode /\ top.fn # Script
     /\ Len(top.vals) > Params(top.fn)
     /\ acts' = Append(Front(rest),
                  IF next.fn \in Native THEN Deliver(next, v)
                  ELSE [next EXCEPT !.vals = Append(@, v)])

Finish ==
  LET rest == Front(acts)
  IN /\ ~InCode /\ top.todo = <<>>
     /\ acts' = Append(Front(rest), [Last(rest) EXCEPT !.vals = Append(@, Obj)])

(* An error, or the end of a line: the next begins with nothing. *)
Restart == Init'

Next ==
  \/ \E v \in Value : Evaluate(v) \/ StdCallback(v)
  \/ Discard
  \/ InCode /\ \E i \in DOMAIN top.vals : Assign(i)
  \/ \E f \in Fn : Call(f) \/ \E args \in [1 .. Arity[f] -> Num] : CallByName(f, args)
  \/ \E n \in Native, l \in Lists, p \in Num : \E t \in Targets(n) : Apply(n, t, l, p)
  \/ Callback \/ Return \/ Finish \/ Restart

Spec == Init /\ [][Next]_acts
=============================================================================
