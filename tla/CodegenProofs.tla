---------------------------- MODULE CodegenProofs ----------------------------
(***************************************************************************)
(* What the compiler emits for any program, however long and nested, and   *)
(* what the VM makes of it: whatever conditions say, the run never leaves  *)
(* the code (TypeCorrect), has open what the source around each statement  *)
(* calls for (ScopesAreUnwound, for programs without the drift) and finds  *)
(* its locals where they are, moved only by what surplus counts            *)
(* (LocalsAreAligned).                                                     *)
(*                                                                         *)
(* An invariant of the run alone cannot say this: where a jump leads is    *)
(* decided statements later.  The compiler's invariant is about heights. A *)
(* map h gives each address of the code so far the number of scopes, or of *)
(* locals, it is reached with; it changes by what an instruction does, and *)
(* both ends of a jump have the same (Flows).  Jumps still to be patched   *)
(* are left aside (Pending); instead each is known to be as high as the    *)
(* place its block or loop will end at (BlockFits, LoopFits).  So emitting *)
(* code extends the map (Emits), and patching discharges a jump; once all  *)
(* blocks are closed the map covers every path, and the VM follows it one  *)
(* instruction at a time (Stands).  Shape says how the parser's blocks,    *)
(* the loop stack and the counters agree while this goes on.               *)
(***************************************************************************)
EXTENDS Codegen, SequenceTheorems, TLAPS

-----------------------------------------------------------------------------
(* Heights of code: what a property counts along every path.               *)

Kinds == {"jumps", "scopes", "locals"}

(* What is counted of a place with so many scopes and locals.              *)
Height(k, scopes, locals) ==
  IF k = "scopes" THEN scopes ELSE IF k = "locals" THEN locals ELSE 0

(* What an instruction adds to it.  Of locals those are counted that the   *)
(* compiler knows: surplus stands for the rest.                            *)
Effect(k, op) ==
  IF k = "scopes" THEN (IF op = "ENTER" THEN 1 ELSE IF op = "EXIT" THEN -1 ELSE 0)
  ELSE IF k = "locals" THEN (IF op = "PUSH" THEN 1 ELSE IF op = "POP" THEN -1 ELSE 0)
  ELSE 0

Ops == {"ENTER", "EXIT", "PUSH", "POP", "SVAR", "AGET", "IT_SET", "JZ", "JMP", "RET", "HLT"}
Instr == [op : Ops, arg : Nat \ {0}]
Jumps == {"JZ", "JMP"}
Stops == {"JMP", "RET", "HLT"}

(* h gives the height at each address of c, if the jumps in P are left     *)
(* aside, whose targets are not known yet.                                 *)
Flows(k, c, h, P) ==
  /\ c \in Seq(Instr)
  /\ h \in [1 .. Len(c) + 1 -> Nat]
  /\ \A i \in 1 .. Len(c) :
       /\ c[i].arg \in 1 .. Len(c) + 1
       /\ c[i].op \notin Stops => h[i + 1] = h[i] + Effect(k, c[i].op)
       /\ c[i].op \in Jumps /\ i \notin P => h[c[i].arg] = h[i]

(* g gives the addresses up to n + 1 the heights h gives them.             *)
Grows(h, g, n) == \A i \in 1 .. n + 1 : g[i] = h[i]

LEMMA GrowsFurther ==
  ASSUME NEW n \in Nat, NEW m \in Nat, n <= m, NEW h, NEW g, NEW f,
         Grows(h, g, n), Grows(g, f, m)
  PROVE  Grows(h, f, n)
BY DEF Grows

LEMMA Instructions ==
  /\ \A op \in Ops :
       I(op) \in Instr /\ I(op).op = op /\ I(op).arg = 1
  /\ \A a \in Nat \ {0} : To("JMP", a) \in Instr /\ To("JMP", a).op = "JMP"
                            /\ To("JMP", a).arg = a
BY DEF I, To, Instr, Ops

(* One more instruction, which leads to the height `to`; what is behind a  *)
(* jump is reached from elsewhere.                                         *)
Leads(k, c, h, P, x, to, Q) ==
  /\ Flows(k, c, h, P)
  /\ x \in Instr /\ x.arg \in 1 .. Len(c) + 1 /\ to \in Nat /\ P \subseteq Q
  /\ x.op \notin Stops => to = h[Len(c) + 1] + Effect(k, x.op)
  /\ x.op \in Jumps => Len(c) + 1 \in Q \/ h[x.arg] = h[Len(c) + 1]

LEMMA FlowAppend ==
  ASSUME NEW k, NEW c, NEW h, NEW P, NEW x, NEW to, NEW Q, Leads(k, c, h, P, x, to, Q)
  PROVE  /\ Len(c) \in Nat /\ Len(Append(c, x)) = Len(c) + 1
         /\ \E g : /\ Flows(k, Append(c, x), g, Q) /\ Grows(h, g, Len(c))
                   /\ g[Len(c) + 2] = to
<1> DEFINE d == Append(c, x)
           n == Len(c)
           g == [j \in 1 .. n + 2 |-> IF j <= n + 1 THEN h[j] ELSE to]
<1>a. /\ Flows(k, c, h, P) /\ P \subseteq Q
      /\ x \in Instr /\ x.arg \in 1 .. n + 1 /\ to \in Nat
      /\ x.op \notin Stops => to = h[n + 1] + Effect(k, x.op)
      /\ x.op \in Jumps => n + 1 \in Q \/ h[x.arg] = h[n + 1]
  BY DEF Leads
<1>0. c \in Seq(Instr) /\ h \in [1 .. n + 1 -> Nat]
  BY <1>a DEF Flows
<1>1. n \in Nat
  BY <1>0, LenProperties
<1>2. /\ d \in Seq(Instr) /\ Len(d) = n + 1
      /\ \A i \in 1 .. n : d[i] = c[i]
      /\ d[n + 1] = x
  BY <1>a, <1>0, AppendProperties
<1>3. /\ g \in [1 .. n + 2 -> Nat] /\ Grows(h, g, n) /\ g[n + 2] = to
      /\ \A j \in 1 .. n + 1 : g[j] = h[j]
  BY <1>a, <1>0, <1>1 DEF Grows
<1> HIDE DEF d, g
<1>4. ASSUME NEW i \in 1 .. n + 1
      PROVE  /\ d[i].arg \in 1 .. n + 2
             /\ d[i].op \notin Stops => g[i + 1] = g[i] + Effect(k, d[i].op)
             /\ d[i].op \in Jumps /\ i \notin Q => g[d[i].arg] = g[i]
  <2>1. CASE i \in 1 .. n
    <3>1. /\ c[i].arg \in 1 .. n + 1
          /\ c[i].op \notin Stops => h[i + 1] = h[i] + Effect(k, c[i].op)
          /\ c[i].op \in Jumps /\ i \notin P => h[c[i].arg] = h[i]
      BY <1>a, <2>1 DEF Flows
    <3>2. d[i] = c[i] /\ g[i] = h[i] /\ g[i + 1] = h[i + 1] /\ g[c[i].arg] = h[c[i].arg]
      BY <2>1, <3>1, <1>1, <1>2, <1>3
    <3>3. c[i].arg \in 1 .. n + 2
      BY <3>1, <1>1
    <3> QED BY <1>a, <3>1, <3>2, <3>3
  <2>2. CASE i = n + 1
    <3>1. d[i] = x /\ g[i] = h[n + 1] /\ g[i + 1] = to /\ g[x.arg] = h[x.arg]
      BY <1>a, <2>2, <1>1, <1>2, <1>3
    <3>2. x.arg \in 1 .. n + 2
      BY <1>a, <1>1
    <3> QED BY <1>a, <2>2, <3>1, <3>2
  <2> QED BY <2>1, <2>2, <1>1
<1>6. Flows(k, d, g, Q)
  BY <1>1, <1>2, <1>3, <1>4 DEF Flows
<1> QED BY <1>1, <1>2, <1>3, <1>6 DEF d

(* A number of one instruction, none of them if it is negative.            *)
LEMMA ManyIsSeq ==
  ASSUME NEW n \in Int, NEW op \in {"PUSH", "POP", "EXIT", "IT_SET"}, NEW l,
         l = IF n > 0 THEN n ELSE 0
  PROVE  /\ Many(n, op) \in Seq(Instr) /\ l \in Nat /\ Len(Many(n, op)) = l
         /\ \A i \in 1 .. l : Many(n, op)[i] = I(op)
<1>1. l \in Nat /\ 1 .. n = 1 .. l
  OBVIOUS
<1>2. Many(n, op) = [i \in 1 .. l |-> I(op)]
  BY <1>1 DEF Many
<1>3. I(op) \in Instr
  BY Instructions DEF Ops
<1>4. Many(n, op) \in Seq(Instr)
  BY <1>1, <1>2, <1>3
<1>5. Len(Many(n, op)) = l
  BY <1>1, <1>2, <1>4, LenProperties
<1> QED BY <1>1, <1>2, <1>4, <1>5

LeadsOn(k, c, h, P, n, op, to) ==
  /\ Flows(k, c, h, P)
  /\ n \in Int /\ op \in {"PUSH", "POP", "EXIT", "IT_SET"} /\ to \in Nat
  /\ \/ Effect(k, op) = 0 /\ to = h[Len(c) + 1]
     \/ Effect(k, op) = 1 /\ n >= 0 /\ to = h[Len(c) + 1] + n
     \/ Effect(k, op) = -1 /\ n >= 0 /\ to = h[Len(c) + 1] - n

LEMMA FlowMany ==
  ASSUME NEW k, NEW c, NEW h, NEW P, NEW n, NEW op, NEW to, LeadsOn(k, c, h, P, n, op, to)
  PROVE  /\ Len(c) \in Nat /\ Len(c \o Many(n, op)) \in Nat
         /\ Len(c \o Many(n, op)) >= Len(c)
         /\ \E g : /\ Flows(k, c \o Many(n, op), g, P) /\ Grows(h, g, Len(c))
                   /\ g[Len(c \o Many(n, op)) + 1] = to
<1>a. /\ Flows(k, c, h, P)
      /\ n \in Int /\ op \in {"PUSH", "POP", "EXIT", "IT_SET"} /\ to \in Nat
      /\ \/ Effect(k, op) = 0 /\ to = h[Len(c) + 1]
         \/ Effect(k, op) = 1 /\ n >= 0 /\ to = h[Len(c) + 1] + n
         \/ Effect(k, op) = -1 /\ n >= 0 /\ to = h[Len(c) + 1] - n
  BY DEF LeadsOn
<1>l. PICK l \in Nat : l = IF n > 0 THEN n ELSE 0
  BY <1>a
<1> DEFINE d == c \o Many(n, op)
           e == Effect(k, op)
           s == Len(c)
           top == h[s + 1]
           up(j) == IF e = 0 THEN top ELSE IF e = 1 THEN top + (j - s - 1) ELSE top - (j - s - 1)
           g == [j \in 1 .. s + l + 1 |-> IF j <= s + 1 THEN h[j] ELSE up(j)]
<1>0. c \in Seq(Instr) /\ h \in [1 .. s + 1 -> Nat]
  BY <1>a DEF Flows
<1>1. s \in Nat /\ l \in Nat
  BY <1>a, <1>0, LenProperties
<1>2. /\ Many(n, op) \in Seq(Instr) /\ Len(Many(n, op)) = l
      /\ \A i \in 1 .. l : Many(n, op)[i] = I(op)
  BY <1>a, <1>l, ManyIsSeq
<1>3. /\ d \in Seq(Instr) /\ Len(d) = s + l
      /\ \A i \in 1 .. s + l : d[i] = IF i <= s THEN c[i] ELSE Many(n, op)[i - s]
  BY <1>a, <1>0, <1>2, ConcatProperties
<1>4. top \in Nat
  BY <1>a, <1>0, <1>1
<1>5. I(op).op = op /\ I(op).arg = 1 /\ op \notin Stops /\ op \notin Jumps
  BY <1>a, Instructions DEF Ops, Stops, Jumps
<1>6. \A i \in s + 1 .. s + l : d[i] = I(op)
  BY <1>a, <1>1, <1>2, <1>3
<1> HIDE DEF d, e, top
<1>7. \A j \in s + 1 .. s + l + 1 : up(j) \in Nat
  BY <1>a, <1>l, <1>1, <1>4 DEF e, top
<1>8. /\ g \in [1 .. s + l + 1 -> Nat] /\ \A j \in 1 .. s + 1 : g[j] = h[j]
  BY <1>a, <1>0, <1>1, <1>7
<1>9. \A j \in s + 1 .. s + l + 1 : g[j] = up(j)
  BY <1>a, <1>1, <1>4 DEF top
<1>10. g[s + l + 1] = to
  BY <1>a, <1>l, <1>1, <1>4, <1>9 DEF e, top
<1> HIDE DEF g
<1>11. \A j \in s + 1 .. s + l : g[j + 1] = g[j] + e
  <2> SUFFICES ASSUME NEW j \in s + 1 .. s + l PROVE g[j + 1] = g[j] + e
    OBVIOUS
  <2>0. j \in Int /\ j \in s + 1 .. s + l + 1 /\ j + 1 \in s + 1 .. s + l + 1
    BY <1>a, <1>1
  <2>1. g[j] = up(j) /\ g[j + 1] = up(j + 1) /\ j \in Int
    BY <2>0, <1>9
  <2>2. e \in {0, 1, -1}
    BY <1>a DEF e
  <2> QED BY <2>1, <2>2, <1>1, <1>4
<1>12. ASSUME NEW i \in 1 .. s + l
       PROVE  /\ d[i].arg \in 1 .. s + l + 1
              /\ d[i].op \notin Stops => g[i + 1] = g[i] + Effect(k, d[i].op)
              /\ d[i].op \in Jumps /\ i \notin P => g[d[i].arg] = g[i]
  <2>1. CASE i \in 1 .. s
    <3>1. /\ c[i].arg \in 1 .. s + 1
          /\ c[i].op \notin Stops => h[i + 1] = h[i] + Effect(k, c[i].op)
          /\ c[i].op \in Jumps /\ i \notin P => h[c[i].arg] = h[i]
      BY <1>a, <2>1 DEF Flows
    <3>2. d[i] = c[i] /\ g[i] = h[i] /\ g[i + 1] = h[i + 1] /\ g[c[i].arg] = h[c[i].arg]
      <4>1. i \in 1 .. s + l /\ i <= s /\ i \in 1 .. s + 1 /\ i + 1 \in 1 .. s + 1
        BY <2>1, <1>1
      <4> QED BY <3>1, <4>1, <1>3, <1>8
    <3>3. c[i].arg \in 1 .. s + l + 1
      BY <3>1, <1>1
    <3> QED BY <3>1, <3>2, <3>3
  <2>2. CASE i \in s + 1 .. s + l
    <3>1. d[i].op = op /\ d[i].arg = 1
      BY <1>a, <2>2, <1>5, <1>6
    <3> QED BY <2>2, <3>1, <1>1, <1>5, <1>11 DEF e
  <2> QED BY <2>1, <2>2, <1>1
<1>14. Flows(k, d, g, P)
  BY <1>a, <1>1, <1>3, <1>8, <1>12 DEF Flows
<1>15. Grows(h, g, s)
  BY <1>a, <1>8 DEF Grows
<1> QED BY <1>a, <1>1, <1>3, <1>10, <1>14, <1>15 DEF d

(* Jumps get their target, at a place of their height.                     *)
LEMMA FlowPatch ==
  ASSUME NEW k, NEW c, NEW h, NEW P, Flows(k, c, h, P),
         NEW A, NEW t \in 1 .. Len(c) + 1,
         \A a \in A : a \in 1 .. Len(c) => h[a] = h[t]
  PROVE  /\ Len(Patch(c, A, t)) = Len(c)
         /\ Flows(k, Patch(c, A, t), h, P \ A)
<1> DEFINE d == Patch(c, A, t)
<1>0. c \in Seq(Instr) /\ h \in [1 .. Len(c) + 1 -> Nat]
  BY DEF Flows
<1>1. Len(c) \in Nat /\ DOMAIN c = 1 .. Len(c) /\ \A i \in 1 .. Len(c) : c[i] \in Instr
  BY <1>0, LenProperties, ElementOfSeq
<1>2. d = [i \in 1 .. Len(c) |-> IF i \in A THEN [c[i] EXCEPT !.arg = t] ELSE c[i]]
  BY <1>1 DEF Patch
<1>3. \A i \in 1 .. Len(c) : /\ d[i] \in Instr /\ d[i].op = c[i].op
                             /\ d[i].arg = IF i \in A THEN t ELSE c[i].arg
  BY <1>1, <1>2 DEF Instr
<1>4. d \in [1 .. Len(c) -> Instr]
  BY <1>2, <1>3
<1>5. d \in Seq(Instr) /\ Len(d) = Len(c)
  <2>1. d \in Seq(Instr)
    BY <1>1, <1>4
  <2>2. DOMAIN d = 1 .. Len(c)
    BY <1>4
  <2> QED BY <2>1, <2>2, <1>1, LenProperties
<1> HIDE DEF d
<1>6. ASSUME NEW i \in 1 .. Len(c)
      PROVE  /\ d[i].arg \in 1 .. Len(c) + 1
             /\ d[i].op \notin Stops => h[i + 1] = h[i] + Effect(k, d[i].op)
             /\ d[i].op \in Jumps /\ i \notin P \ A => h[d[i].arg] = h[i]
  <2>1. /\ c[i].arg \in 1 .. Len(c) + 1
        /\ c[i].op \notin Stops => h[i + 1] = h[i] + Effect(k, c[i].op)
        /\ c[i].op \in Jumps /\ i \notin P => h[c[i].arg] = h[i]
    BY DEF Flows
  <2> QED BY <2>1, <1>3
<1> QED BY <1>0, <1>5, <1>6 DEF Flows, d

-----------------------------------------------------------------------------
(* Sequences.                                                              *)

LEMMA Fronts ==
  ASSUME NEW S, NEW s \in Seq(S), s # <<>>
  PROVE  /\ Len(s) \in Nat /\ Len(s) >= 1
         /\ Front(s) \in Seq(S) /\ Len(Front(s)) = Len(s) - 1
         /\ \A i \in 1 .. Len(s) - 1 : Front(s)[i] = s[i]
         /\ Last(s) = s[Len(s)] /\ Last(s) \in S
<1>1. Len(s) \in Nat /\ Len(s) >= 1
  BY EmptySeq, LenProperties
<1>2. \A i \in 1 .. Len(s) : s[i] \in S
  BY ElementOfSeq
<1>3. 1 \in Int /\ Len(s) - 1 \in Int /\ \A i \in 1 .. Len(s) - 1 : s[i] \in S
  BY <1>1, <1>2
<1>4. /\ SubSeq(s, 1, Len(s) - 1) \in Seq(S)
      /\ Len(SubSeq(s, 1, Len(s) - 1)) = IF 1 <= Len(s) - 1 THEN Len(s) - 1 - 1 + 1 ELSE 0
      /\ \A i \in 1 .. Len(s) - 1 - 1 + 1 : SubSeq(s, 1, Len(s) - 1)[i] = s[1 + i - 1]
  BY <1>3, SubSeqProperties
<1>5. Front(s) = SubSeq(s, 1, Len(s) - 1) /\ Last(s) = s[Len(s)]
  BY DEF Front, Last
<1>6. Len(s) - 1 - 1 + 1 = Len(s) - 1
  BY <1>1
<1>7. \A i \in 1 .. Len(s) - 1 : s[1 + i - 1] = s[i]
  BY <1>1
<1>8. Len(s) \in 1 .. Len(s)
  BY <1>1
<1> QED BY <1>1, <1>2, <1>4, <1>5, <1>6, <1>7, <1>8

LEMMA Appends ==
  ASSUME NEW S, NEW s \in Seq(S), NEW x \in S
  PROVE  /\ Len(s) \in Nat
         /\ Append(s, x) \in Seq(S) /\ Len(Append(s, x)) = Len(s) + 1
         /\ \A i \in 1 .. Len(s) : Append(s, x)[i] = s[i]
         /\ Append(s, x)[Len(s) + 1] = x
BY AppendProperties, LenProperties

LEMMA OneMore ==
  ASSUME NEW S, NEW s \in Seq(S), NEW x \in S
  PROVE  s \o <<x>> = Append(s, x)
<1>1. <<x>> \in Seq(S) /\ Len(<<x>>) = 1 /\ <<x>>[1] = x
  OBVIOUS
<1>2. /\ s \o <<x>> \in Seq(S) /\ Len(s \o <<x>>) = Len(s) + 1
      /\ \A i \in 1 .. Len(s) + 1 : (s \o <<x>>)[i] = IF i <= Len(s) THEN s[i] ELSE <<x>>[i - Len(s)]
  BY <1>1, ConcatProperties
<1>3. /\ Len(s) \in Nat
      /\ Append(s, x) \in Seq(S) /\ Len(Append(s, x)) = Len(s) + 1
      /\ \A i \in 1 .. Len(s) : Append(s, x)[i] = s[i]
      /\ Append(s, x)[Len(s) + 1] = x
  BY Appends
<1>4. ASSUME NEW i \in 1 .. Len(s) + 1 PROVE (s \o <<x>>)[i] = Append(s, x)[i]
  <2>1. CASE i <= Len(s)
    BY <2>1, <1>2, <1>3
  <2>2. CASE ~ i <= Len(s)
    <3>1. i = Len(s) + 1 /\ i - Len(s) = 1
      BY <2>2, <1>3
    <3> QED BY <2>2, <3>1, <1>1, <1>2, <1>3
  <2> QED BY <2>1, <2>2
<1> QED BY <1>2, <1>3, <1>4, SeqEqual

LEMMA TwoMore ==
  ASSUME NEW S, NEW s \in Seq(S), NEW x \in S, NEW y \in S
  PROVE  s \o <<x, y>> = Append(Append(s, x), y)
<1>0. /\ <<x>> \in Seq(S) /\ <<y>> \in Seq(S) /\ Len(<<x>>) = 1 /\ <<x>>[1] = x
      /\ <<x, y>> \in Seq(S) /\ Len(<<x, y>>) = 2 /\ <<x, y>>[1] = x /\ <<x, y>>[2] = y
  OBVIOUS
<1>a. Append(<<x>>, y) \in Seq(S) /\ Len(Append(<<x>>, y)) = 2
      /\ Append(<<x>>, y)[1] = x /\ Append(<<x>>, y)[2] = y
  BY <1>0, Appends
<1>b. \A i \in 1 .. 2 : <<x, y>>[i] = Append(<<x>>, y)[i]
  BY <1>0, <1>a
<1>c. <<x, y>> = Append(<<x>>, y)
  BY <1>0, <1>a, <1>b, SeqEqual
<1>1. <<x>> \in Seq(S) /\ <<y>> \in Seq(S) /\ <<x, y>> = <<x>> \o <<y>>
  BY <1>0, <1>c, OneMore
<1>2. (s \o <<x>>) \o <<y>> = s \o (<<x>> \o <<y>>)
  BY <1>1, ConcatAssociative
<1>3. s \o <<x>> = Append(s, x) /\ Append(s, x) \in Seq(S)
  BY OneMore, Appends
<1>4. Append(s, x) \o <<y>> = Append(Append(s, x), y)
  BY <1>3, OneMore
<1> QED BY <1>1, <1>2, <1>3, <1>4

LEMMA ThreeMore ==
  ASSUME NEW S, NEW s \in Seq(S), NEW x \in S, NEW y \in S, NEW z \in S
  PROVE  s \o <<x, y, z>> = Append(Append(Append(s, x), y), z)
<1>1. <<x, y>> \in Seq(S) /\ <<z>> \in Seq(S) /\ <<x, y, z>> = <<x, y>> \o <<z>>
  OBVIOUS
<1>2. (s \o <<x, y>>) \o <<z>> = s \o (<<x, y>> \o <<z>>)
  BY <1>1, ConcatAssociative
<1>3. s \o <<x, y>> = Append(Append(s, x), y) /\ Append(Append(s, x), y) \in Seq(S)
  BY TwoMore, Appends
<1>4. Append(Append(s, x), y) \o <<z>> = Append(Append(Append(s, x), y), z)
  BY <1>3, OneMore
<1> QED BY <1>1, <1>2, <1>3, <1>4

-----------------------------------------------------------------------------
(* Emitting.  Code d with heights g goes on from code c with heights h, to *)
(* a place with so many scopes and locals; the jumps in P are left aside.  *)

Emits(k, c, h, d, g, P, scopes, locals) ==
  /\ Flows(k, d, g, P)
  /\ Len(c) \in Nat /\ Len(d) \in Nat /\ Len(c) <= Len(d)
  /\ Grows(h, g, Len(c))
  /\ g[Len(d) + 1] = Height(k, scopes, locals)

LEMMA Heights ==
  ASSUME NEW k, NEW s \in Int, NEW l \in Int
  PROVE  /\ Height(k, s, l) \in Int
         /\ s >= 0 /\ l >= 0 => Height(k, s, l) \in Nat
         /\ Height(k, s + 1, l) = Height(k, s, l) + Effect(k, "ENTER")
         /\ Height(k, s - 1, l) = Height(k, s, l) + Effect(k, "EXIT")
         /\ Height(k, s, l + 1) = Height(k, s, l) + Effect(k, "PUSH")
         /\ Height(k, s, l) = Height(k, s, l) + Effect(k, "SVAR")
         /\ Height(k, s, l) = Height(k, s, l) + Effect(k, "AGET")
         /\ Height(k, s, l) = Height(k, s, l) + Effect(k, "JZ")
BY DEF Height, Effect

(* ENTER, EXIT, PUSH, SVAR, AGET. *)
Moves(op, s, l, s2, l2) ==
  /\ op \in {"ENTER", "EXIT", "PUSH", "SVAR", "AGET"} /\ s2 \in Nat /\ l2 \in Nat
  /\ op = "ENTER" => s2 = s + 1 /\ l2 = l
  /\ op = "EXIT" => s2 = s - 1 /\ l2 = l
  /\ op = "PUSH" => s2 = s /\ l2 = l + 1
  /\ op \in {"SVAR", "AGET"} => s2 = s /\ l2 = l

LEMMA EmitStep ==
  ASSUME NEW k, NEW c, NEW h, NEW d, NEW g, NEW P, NEW s \in Int, NEW l \in Int,
         Emits(k, c, h, d, g, P, s, l),
         NEW op, NEW s2, NEW l2, Moves(op, s, l, s2, l2)
  PROVE  /\ Len(Append(d, I(op))) = Len(d) + 1
         /\ \E f : /\ Emits(k, c, h, Append(d, I(op)), f, P, s2, l2)
                   /\ Grows(g, f, Len(d))
<1>0. op \in {"ENTER", "EXIT", "PUSH", "SVAR", "AGET"} /\ s2 \in Nat /\ l2 \in Nat
  BY DEF Moves
<1>1. /\ I(op) \in Instr /\ I(op).op = op /\ I(op).arg = 1
      /\ op \notin Stops /\ op \notin Jumps
  BY <1>0, Instructions DEF Ops, Stops, Jumps
<1>2. Flows(k, d, g, P) /\ Len(d) \in Nat /\ g[Len(d) + 1] = Height(k, s, l)
  BY DEF Emits
<1>3. Height(k, s2, l2) \in Nat
  BY <1>0, Heights
<1>4. Height(k, s2, l2) = Height(k, s, l) + Effect(k, op)
  BY <1>0, Heights DEF Moves
<1>5. I(op).arg \in 1 .. Len(d) + 1
  BY <1>1, <1>2
<1>e. /\ P \subseteq P
      /\ I(op).op \notin Stops => Height(k, s2, l2) = g[Len(d) + 1] + Effect(k, I(op).op)
      /\ I(op).op \in Jumps => Len(d) + 1 \in P \/ g[I(op).arg] = g[Len(d) + 1]
  BY <1>1, <1>2, <1>4
<1>L. Leads(k, d, g, P, I(op), Height(k, s2, l2), P)
  BY <1>1, <1>2, <1>3, <1>5, <1>e DEF Leads
<1>6. /\ Len(Append(d, I(op))) = Len(d) + 1
      /\ \E f : /\ Flows(k, Append(d, I(op)), f, P) /\ Grows(g, f, Len(d))
                /\ f[Len(d) + 2] = Height(k, s2, l2)
  BY <1>L, FlowAppend
<1>7. PICK f : /\ Flows(k, Append(d, I(op)), f, P) /\ Grows(g, f, Len(d))
               /\ f[Len(d) + 2] = Height(k, s2, l2)
  BY <1>6
<1>8. Len(c) \in Nat /\ Len(c) <= Len(d) /\ Grows(h, g, Len(c))
  BY DEF Emits
<1>9. Grows(h, f, Len(c))
  BY <1>2, <1>7, <1>8, GrowsFurther
<1>10. Len(d) + 1 + 1 = Len(d) + 2 /\ Len(d) + 1 \in Nat /\ Len(c) <= Len(d) + 1
  BY <1>2, <1>8
<1>11. Emits(k, c, h, Append(d, I(op)), f, P, s2, l2)
  BY <1>6, <1>7, <1>8, <1>9, <1>10 DEF Emits
<1> QED BY <1>6, <1>7, <1>11

(* A JZ or JMP whose target is set later, or has this height.              *)
Passes(x, s, l, s2, l2) ==
  s2 \in Nat /\ l2 \in Nat /\ (x.op = "JZ" => s2 = s /\ l2 = l)

LEMMA EmitJump ==
  ASSUME NEW k, NEW c, NEW h, NEW d, NEW g, NEW P, NEW s \in Int, NEW l \in Int,
         Emits(k, c, h, d, g, P, s, l),
         NEW x \in Instr, x.op \in Jumps, x.arg \in 1 .. Len(d) + 1,
         NEW Q, P \subseteq Q,
         Len(d) + 1 \in Q \/ g[x.arg] = Height(k, s, l),
         NEW s2, NEW l2, Passes(x, s, l, s2, l2)
  PROVE  /\ Len(Append(d, x)) = Len(d) + 1
         /\ \E f : /\ Emits(k, c, h, Append(d, x), f, Q, s2, l2)
                   /\ Grows(g, f, Len(d))
<1>2. Flows(k, d, g, P) /\ Len(d) \in Nat /\ g[Len(d) + 1] = Height(k, s, l)
  BY DEF Emits
<1>3. Height(k, s2, l2) \in Nat
  BY Heights DEF Passes
<1>4. x.op \notin Stops => Height(k, s2, l2) = g[Len(d) + 1] + Effect(k, x.op)
  <2> SUFFICES ASSUME x.op \notin Stops PROVE Height(k, s2, l2) = g[Len(d) + 1] + Effect(k, x.op)
    OBVIOUS
  <2>1. x.op = "JZ" /\ s2 = s /\ l2 = l
    BY DEF Stops, Jumps, Passes
  <2>2. Effect(k, x.op) = 0 /\ Height(k, s, l) \in Int
    BY <2>1, Heights DEF Effect
  <2> QED BY <2>1, <2>2, <1>2
<1>5. x.op \in Jumps => Len(d) + 1 \in Q \/ g[x.arg] = g[Len(d) + 1]
  BY <1>2
<1>L. Leads(k, d, g, P, x, Height(k, s2, l2), Q)
  BY <1>2, <1>3, <1>4, <1>5 DEF Leads
<1>6. /\ Len(Append(d, x)) = Len(d) + 1
      /\ \E f : /\ Flows(k, Append(d, x), f, Q) /\ Grows(g, f, Len(d))
                /\ f[Len(d) + 2] = Height(k, s2, l2)
  BY <1>L, FlowAppend
<1>7. PICK f : /\ Flows(k, Append(d, x), f, Q) /\ Grows(g, f, Len(d))
               /\ f[Len(d) + 2] = Height(k, s2, l2)
  BY <1>6
<1>8. Len(c) \in Nat /\ Len(c) <= Len(d) /\ Grows(h, g, Len(c))
  BY DEF Emits
<1>9. Grows(h, f, Len(c))
  BY <1>2, <1>7, <1>8, GrowsFurther
<1>10. Len(d) + 1 + 1 = Len(d) + 2 /\ Len(d) + 1 \in Nat /\ Len(c) <= Len(d) + 1
  BY <1>2, <1>8
<1>11. Emits(k, c, h, Append(d, x), f, Q, s2, l2)
  BY <1>6, <1>7, <1>8, <1>9, <1>10 DEF Emits
<1> QED BY <1>6, <1>7, <1>11

(* RET or HLT. *)
LEMMA EmitStop ==
  ASSUME NEW k, NEW c, NEW h, NEW d, NEW g, NEW P, NEW s \in Nat, NEW l \in Nat,
         Emits(k, c, h, d, g, P, s, l),
         NEW op \in {"RET", "HLT"}
  PROVE  /\ Len(Append(d, I(op))) = Len(d) + 1
         /\ \E f : /\ Emits(k, c, h, Append(d, I(op)), f, P, s, l)
                   /\ Grows(g, f, Len(d))
<1>1. /\ I(op) \in Instr /\ I(op).op = op /\ I(op).arg = 1
      /\ op \in Stops /\ op \notin Jumps
  BY Instructions DEF Ops, Stops, Jumps
<1>2. Flows(k, d, g, P) /\ Len(d) \in Nat /\ g[Len(d) + 1] = Height(k, s, l)
  BY DEF Emits
<1>3. Height(k, s, l) \in Nat
  BY Heights
<1>5. I(op).arg \in 1 .. Len(d) + 1
  BY <1>1, <1>2
<1>e. /\ P \subseteq P
      /\ I(op).op \notin Stops => Height(k, s, l) = g[Len(d) + 1] + Effect(k, I(op).op)
      /\ I(op).op \in Jumps => Len(d) + 1 \in P \/ g[I(op).arg] = g[Len(d) + 1]
  BY <1>1, <1>2
<1>L. Leads(k, d, g, P, I(op), Height(k, s, l), P)
  BY <1>1, <1>2, <1>3, <1>5, <1>e DEF Leads
<1>6. /\ Len(Append(d, I(op))) = Len(d) + 1
      /\ \E f : /\ Flows(k, Append(d, I(op)), f, P) /\ Grows(g, f, Len(d))
                /\ f[Len(d) + 2] = Height(k, s, l)
  BY <1>L, FlowAppend
<1>7. PICK f : /\ Flows(k, Append(d, I(op)), f, P) /\ Grows(g, f, Len(d))
               /\ f[Len(d) + 2] = Height(k, s, l)
  BY <1>6
<1>8. Len(c) \in Nat /\ Len(c) <= Len(d) /\ Grows(h, g, Len(c))
  BY DEF Emits
<1>9. Grows(h, f, Len(c))
  BY <1>2, <1>7, <1>8, GrowsFurther
<1>10. Len(d) + 1 + 1 = Len(d) + 2 /\ Len(d) + 1 \in Nat /\ Len(c) <= Len(d) + 1
  BY <1>2, <1>8
<1>11. Emits(k, c, h, Append(d, I(op)), f, P, s, l)
  BY <1>6, <1>7, <1>8, <1>9, <1>10 DEF Emits
<1> QED BY <1>6, <1>7, <1>11

(* So many pushes, pops, exits or iterator variables. *)
MovesOn(k, n, op, s, l, s2, l2) ==
  /\ n \in Int /\ op \in {"PUSH", "POP", "EXIT", "IT_SET"} /\ s2 \in Nat /\ l2 \in Nat
  /\ op = "PUSH" => s2 = s /\ n >= 0 /\ l2 = l + n
  /\ op = "POP" => s2 = s /\ n >= 0 /\ l2 = l - n
  /\ op = "EXIT" => l2 = l /\ (k = "scopes" => n >= 0 /\ s2 = s - n)
  /\ op = "IT_SET" => l2 = l /\ s2 = s /\ n >= 0

LEMMA EmitMany ==
  ASSUME NEW k, NEW c, NEW h, NEW d, NEW g, NEW P, NEW s \in Int, NEW l \in Int,
         Emits(k, c, h, d, g, P, s, l),
         NEW n, NEW op, NEW s2, NEW l2, MovesOn(k, n, op, s, l, s2, l2)
  PROVE  \E f : /\ Emits(k, c, h, d \o Many(n, op), f, P, s2, l2)
                /\ Grows(g, f, Len(d))
<1>2. Flows(k, d, g, P) /\ Len(d) \in Nat /\ g[Len(d) + 1] = Height(k, s, l)
  BY DEF Emits
<1>3. Height(k, s2, l2) \in Nat
  BY Heights DEF MovesOn
<1>4. \/ Effect(k, op) = 0 /\ Height(k, s2, l2) = g[Len(d) + 1]
      \/ Effect(k, op) = 1 /\ n >= 0 /\ Height(k, s2, l2) = g[Len(d) + 1] + n
      \/ Effect(k, op) = -1 /\ n >= 0 /\ Height(k, s2, l2) = g[Len(d) + 1] - n
  BY <1>2 DEF Effect, Height, MovesOn
<1> DEFINE e == d \o Many(n, op)
<1>L. LeadsOn(k, d, g, P, n, op, Height(k, s2, l2))
  BY <1>2, <1>3, <1>4 DEF LeadsOn, MovesOn
<1>6. /\ Len(e) \in Nat /\ Len(e) >= Len(d)
      /\ \E f : /\ Flows(k, e, f, P) /\ Grows(g, f, Len(d))
                /\ f[Len(e) + 1] = Height(k, s2, l2)
  BY <1>L, FlowMany
<1> HIDE DEF e
<1>7. PICK f : /\ Flows(k, e, f, P) /\ Grows(g, f, Len(d))
               /\ f[Len(e) + 1] = Height(k, s2, l2)
  BY <1>6
<1>8. Len(c) \in Nat /\ Len(c) <= Len(d) /\ Grows(h, g, Len(c))
  BY DEF Emits
<1>9. Grows(h, f, Len(c))
  BY <1>2, <1>7, <1>8, GrowsFurther
<1>10. Len(c) <= Len(e)
  BY <1>2, <1>6, <1>8
<1>11. Emits(k, c, h, e, f, P, s2, l2)
  BY <1>6, <1>7, <1>8, <1>9, <1>10 DEF Emits
<1> QED BY <1>7, <1>11 DEF e

(* Jumps are patched, to a place of their height. *)
Level(g, n, A, t) == t \in 1 .. n + 1 /\ \A a \in A : a \in 1 .. n => g[a] = g[t]

LEMMA EmitPatch ==
  ASSUME NEW k, NEW c, NEW h, NEW d, NEW g, NEW P, NEW s, NEW l,
         Emits(k, c, h, d, g, P, s, l), NEW A, NEW t, Level(g, Len(d), A, t)
  PROVE  /\ Len(Patch(d, A, t)) = Len(d)
         /\ Emits(k, c, h, Patch(d, A, t), g, P \ A, s, l)
<1>1. Flows(k, d, g, P)
  BY DEF Emits
<1>2. t \in 1 .. Len(d) + 1 /\ \A a \in A : a \in 1 .. Len(d) => g[a] = g[t]
  BY DEF Level
<1>3. Len(Patch(d, A, t)) = Len(d) /\ Flows(k, Patch(d, A, t), g, P \ A)
  BY <1>1, <1>2, FlowPatch
<1> QED BY <1>3 DEF Emits

(* The same, instruction by instruction. *)
LEMMA EmitEnter ==
  ASSUME NEW k, NEW c, NEW h, NEW d, NEW g, NEW P, NEW s \in Nat, NEW l \in Nat,
         Emits(k, c, h, d, g, P, s, l)
  PROVE  /\ Len(Append(d, I("ENTER"))) = Len(d) + 1
         /\ \E f : /\ Emits(k, c, h, Append(d, I("ENTER")), f, P, s + 1, l)
                   /\ Grows(g, f, Len(d))
<1> DEFINE op == "ENTER"
           s2 == s + 1
<1>1. Moves(op, s, l, s2, l)
  BY DEF Moves
<1>2. s \in Int /\ l \in Int
  OBVIOUS
<1> HIDE DEF op, s2
<1>3. /\ Len(Append(d, I(op))) = Len(d) + 1
      /\ \E f : /\ Emits(k, c, h, Append(d, I(op)), f, P, s2, l)
                /\ Grows(g, f, Len(d))
  BY <1>1, <1>2, EmitStep
<1> QED BY <1>3 DEF op, s2

LEMMA EmitExit ==
  ASSUME NEW k, NEW c, NEW h, NEW d, NEW g, NEW P, NEW s \in Nat, NEW l \in Nat,
         Emits(k, c, h, d, g, P, s, l), s >= 1
  PROVE  /\ Len(Append(d, I("EXIT"))) = Len(d) + 1
         /\ \E f : /\ Emits(k, c, h, Append(d, I("EXIT")), f, P, s - 1, l)
                   /\ Grows(g, f, Len(d))
<1> DEFINE op == "EXIT"
           s2 == s - 1
<1>1. Moves(op, s, l, s2, l)
  BY DEF Moves
<1>2. s \in Int /\ l \in Int
  OBVIOUS
<1> HIDE DEF op, s2
<1>3. /\ Len(Append(d, I(op))) = Len(d) + 1
      /\ \E f : /\ Emits(k, c, h, Append(d, I(op)), f, P, s2, l)
                /\ Grows(g, f, Len(d))
  BY <1>1, <1>2, EmitStep
<1> QED BY <1>3 DEF op, s2

LEMMA EmitPush ==
  ASSUME NEW k, NEW c, NEW h, NEW d, NEW g, NEW P, NEW s \in Nat, NEW l \in Nat,
         Emits(k, c, h, d, g, P, s, l)
  PROVE  /\ Len(Append(d, I("PUSH"))) = Len(d) + 1
         /\ \E f : /\ Emits(k, c, h, Append(d, I("PUSH")), f, P, s, l + 1)
                   /\ Grows(g, f, Len(d))
<1> DEFINE op == "PUSH"
           l2 == l + 1
<1>1. Moves(op, s, l, s, l2)
  BY DEF Moves
<1>2. s \in Int /\ l \in Int
  OBVIOUS
<1> HIDE DEF op, l2
<1>3. /\ Len(Append(d, I(op))) = Len(d) + 1
      /\ \E f : /\ Emits(k, c, h, Append(d, I(op)), f, P, s, l2)
                /\ Grows(g, f, Len(d))
  BY <1>1, <1>2, EmitStep
<1> QED BY <1>3 DEF op, l2

LEMMA EmitMarked ==
  ASSUME NEW k, NEW c, NEW h, NEW d, NEW g, NEW P, NEW s \in Nat, NEW l \in Nat,
         Emits(k, c, h, d, g, P, s, l)
  PROVE  /\ Len(d) + 1 \in Nat
         /\ g[Len(d) + 1] = Height(k, s, l)
BY DEF Emits

(* A JZ, patched later. *)
LEMMA EmitBranch ==
  ASSUME NEW k, NEW c, NEW h, NEW d, NEW g, NEW P, NEW s \in Nat, NEW l \in Nat,
         Emits(k, c, h, d, g, P, s, l)
  PROVE  /\ Len(Append(d, I("JZ"))) = Len(d) + 1
         /\ \E f : /\ Emits(k, c, h, Append(d, I("JZ")), f, P \cup {Len(d) + 1}, s, l)
                   /\ Grows(g, f, Len(d))
<1> DEFINE Q == P \cup {Len(d) + 1}
           x == I("JZ")
<1>1. x \in Instr /\ x.op \in Jumps /\ x.arg = 1
  BY Instructions DEF Ops, Jumps
<1>2. Len(d) \in Nat
  BY DEF Emits
<1>3. s \in Int /\ l \in Int /\ x.arg \in 1 .. Len(d) + 1 /\ P \subseteq Q /\ Len(d) + 1 \in Q
  BY <1>1, <1>2
<1>4. Passes(x, s, l, s, l)
  BY DEF Passes
<1> HIDE DEF Q, x
<1>5. /\ Len(Append(d, x)) = Len(d) + 1
      /\ \E f : /\ Emits(k, c, h, Append(d, x), f, Q, s, l)
                /\ Grows(g, f, Len(d))
  BY <1>1, <1>3, <1>4, EmitJump
<1> QED BY <1>5 DEF Q, x

(* A JMP, patched later: behind it are so many scopes and locals. *)
LEMMA EmitLeave ==
  ASSUME NEW k, NEW c, NEW h, NEW d, NEW g, NEW P, NEW s \in Nat, NEW l \in Nat,
         Emits(k, c, h, d, g, P, s, l)
  PROVE  /\ Len(Append(d, I("JMP"))) = Len(d) + 1
         /\ \A s2, l2 \in Nat : \E f :
              /\ Emits(k, c, h, Append(d, I("JMP")), f, P \cup {Len(d) + 1}, s2, l2)
              /\ Grows(g, f, Len(d))
<1> DEFINE Q == P \cup {Len(d) + 1}
           x == I("JMP")
<1>1. x \in Instr /\ x.op \in Jumps /\ x.arg = 1 /\ x.op # "JZ"
  BY Instructions DEF Ops, Jumps
<1>2. Len(d) \in Nat
  BY DEF Emits
<1>3. s \in Int /\ l \in Int /\ x.arg \in 1 .. Len(d) + 1 /\ P \subseteq Q /\ Len(d) + 1 \in Q
  BY <1>1, <1>2
<1> HIDE DEF Q, x
<1>5. ASSUME NEW s2 \in Nat, NEW l2 \in Nat
      PROVE  /\ Len(Append(d, x)) = Len(d) + 1
             /\ \E f : /\ Emits(k, c, h, Append(d, x), f, Q, s2, l2)
                       /\ Grows(g, f, Len(d))
  <2>1. Passes(x, s, l, s2, l2)
    BY <1>1 DEF Passes
  <2> QED BY <1>1, <1>3, <2>1, EmitJump
<1>6. 0 \in Nat
  OBVIOUS
<1> QED BY <1>5, <1>6 DEF Q, x

(* A JMP back to a place of this height. *)
Back(k, d, g, a, s, l) == a \in 1 .. Len(d) + 1 /\ g[a] = Height(k, s, l)

LEMMA EmitBack ==
  ASSUME NEW k, NEW c, NEW h, NEW d, NEW g, NEW P, NEW s \in Nat, NEW l \in Nat,
         Emits(k, c, h, d, g, P, s, l),
         NEW a, Back(k, d, g, a, s, l)
  PROVE  /\ Len(Append(d, To("JMP", a))) = Len(d) + 1
         /\ \A s2, l2 \in Nat : \E f :
              /\ Emits(k, c, h, Append(d, To("JMP", a)), f, P, s2, l2)
              /\ Grows(g, f, Len(d))
<1> DEFINE x == To("JMP", a)
<1>2. Len(d) \in Nat
  BY DEF Emits
<1>b. a \in 1 .. Len(d) + 1 /\ g[a] = Height(k, s, l)
  BY DEF Back
<1>0. a \in Nat \ {0}
  BY <1>b, <1>2
<1>1. x \in Instr /\ x.op \in Jumps /\ x.arg = a /\ x.op # "JZ"
  BY <1>0, Instructions DEF Ops, Jumps
<1>3. s \in Int /\ l \in Int /\ x.arg \in 1 .. Len(d) + 1 /\ P \subseteq P
      /\ g[x.arg] = Height(k, s, l)
  BY <1>b, <1>1, <1>2
<1> HIDE DEF x
<1>5. ASSUME NEW s2 \in Nat, NEW l2 \in Nat
      PROVE  /\ Len(Append(d, x)) = Len(d) + 1
             /\ \E f : /\ Emits(k, c, h, Append(d, x), f, P, s2, l2)
                       /\ Grows(g, f, Len(d))
  <2>1. Passes(x, s, l, s2, l2)
    BY <1>1 DEF Passes
  <2> QED BY <1>1, <1>3, <2>1, EmitJump
<1>6. 0 \in Nat
  OBVIOUS
<1> QED BY <1>5, <1>6 DEF x

(* The locals above m are popped. *)
LEMMA EmitPops ==
  ASSUME NEW k, NEW c, NEW h, NEW d, NEW g, NEW P, NEW s \in Nat, NEW l \in Nat,
         Emits(k, c, h, d, g, P, s, l), NEW m \in Nat, m <= l
  PROVE  \E f : /\ Emits(k, c, h, d \o Many(l - m, "POP"), f, P, s, m)
                /\ Grows(g, f, Len(d))
<1> DEFINE n == l - m
           op == "POP"
<1>1. MovesOn(k, n, op, s, l, s, m)
  BY DEF MovesOn
<1>2. s \in Int /\ l \in Int
  OBVIOUS
<1> HIDE DEF n, op
<1>3. \E f : Emits(k, c, h, d \o Many(n, op), f, P, s, m) /\ Grows(g, f, Len(d))
  BY <1>1, <1>2, EmitMany
<1> QED BY <1>3 DEF n, op

LEMMA EmitPushes ==
  ASSUME NEW k, NEW c, NEW h, NEW d, NEW g, NEW P, NEW s \in Nat, NEW l \in Nat,
         Emits(k, c, h, d, g, P, s, l), NEW n \in Nat
  PROVE  \E f : /\ Emits(k, c, h, d \o Many(n, "PUSH"), f, P, s, l + n)
                /\ Grows(g, f, Len(d))
<1> DEFINE m == l + n
           op == "PUSH"
<1>1. MovesOn(k, n, op, s, l, s, m)
  BY DEF MovesOn
<1>2. s \in Int /\ l \in Int
  OBVIOUS
<1> HIDE DEF m, op
<1>3. \E f : Emits(k, c, h, d \o Many(n, op), f, P, s, m) /\ Grows(g, f, Len(d))
  BY <1>1, <1>2, EmitMany
<1> QED BY <1>3 DEF m, op

(* The iterator variables are set. *)
LEMMA EmitIterators ==
  ASSUME NEW k, NEW c, NEW h, NEW d, NEW g, NEW P, NEW s \in Nat, NEW l \in Nat,
         Emits(k, c, h, d, g, P, s, l), NEW n \in Nat
  PROVE  \E f : /\ Emits(k, c, h, d \o Many(n, "IT_SET"), f, P, s, l)
                /\ Grows(g, f, Len(d))
<1> DEFINE op == "IT_SET"
<1>1. MovesOn(k, n, op, s, l, s, l)
  BY DEF MovesOn
<1>2. s \in Int /\ l \in Int
  OBVIOUS
<1> HIDE DEF op
<1>3. \E f : Emits(k, c, h, d \o Many(n, op), f, P, s, l) /\ Grows(g, f, Len(d))
  BY <1>1, <1>2, EmitMany
<1> QED BY <1>3 DEF op

(* The scopes above t are left; only who counts scopes wants to know.      *)
LEMMA EmitExits ==
  ASSUME NEW k, NEW c, NEW h, NEW d, NEW g, NEW P, NEW s \in Nat, NEW l \in Nat,
         Emits(k, c, h, d, g, P, s, l), NEW n \in Int, NEW t \in Nat,
         k = "scopes" => n >= 0 /\ t = s - n
  PROVE  \E f : /\ Emits(k, c, h, d \o Many(n, "EXIT"), f, P, t, l)
                /\ Grows(g, f, Len(d))
<1> DEFINE op == "EXIT"
<1>1. MovesOn(k, n, op, s, l, t, l)
  BY DEF MovesOn
<1>2. s \in Int /\ l \in Int
  OBVIOUS
<1> HIDE DEF op
<1>3. \E f : Emits(k, c, h, d \o Many(n, op), f, P, t, l) /\ Grows(g, f, Len(d))
  BY <1>1, <1>2, EmitMany
<1> QED BY <1>3 DEF op

-----------------------------------------------------------------------------
(* Blocks and loops.  Top is Lexical, said of any blocks.                  *)

Block == [kind : {"if", "else", "forin", "forcond", "forever"}, jz : Nat,
          exits : SUBSET (Nat \ {0}), start : Nat, saved : Nat, body : Nat, depth : Nat]
Loop == [breaks : SUBSET (Nat \ {0}), continues : SUBSET (Nat \ {0}), scope_depth : Int,
         local_count : Nat, lexical : Int]

IsLoop(b) == b.kind \in {"forin", "forcond", "forever"}
Scopes(b) == IF b.kind \in {"forin", "forcond"} THEN 2 ELSE 1

Base == IF inside_function THEN 1 ELSE 0
Top(bs, base) == IF bs = <<>> THEN base ELSE Last(bs).depth

(* The fields of a block that depend on its kind. *)
Sound(b) ==
  /\ b \in Block
  /\ b.saved <= b.body /\ Scopes(b) <= b.depth
  /\ b.kind # "forin" => b.body = b.saved
  /\ b.kind \notin {"if", "else"} => b.exits = {}
  /\ b.kind \in {"else", "forever"} => b.jz = 0
  /\ IsLoop(b) => b.start # 0

(* Block b is in block o. *)
Inside(b, o) == o.depth <= b.depth - Scopes(b) /\ o.body <= b.saved

Nested(bs, base, locals) ==
  /\ bs \in Seq(Block) /\ base \in Nat /\ locals \in Nat
  /\ \A i \in 1 .. Len(bs) :
       /\ Sound(bs[i])
       /\ bs[i].depth = Scopes(bs[i]) + (IF i = 1 THEN base ELSE bs[i - 1].depth)
       /\ bs[i].body <= locals
       /\ \A j \in 1 .. i - 1 : Inside(bs[i], bs[j])

(* Loop x is compiled for block b. *)
For(x, b) == x.lexical = b.depth - 1 /\ x.local_count = b.body

(* m leads from each loop to its block. *)
Owned(bs, ls, m) ==
  /\ bs \in Seq(Block) /\ ls \in Seq(Loop)
  /\ m \in [1 .. Len(ls) -> 1 .. Len(bs)]
  /\ \A i, j \in 1 .. Len(ls) : i < j => m[i] < m[j]
  /\ \A i \in 1 .. Len(bs) : IsLoop(bs[i]) => \E j \in 1 .. Len(ls) : m[j] = i
  /\ \A j \in 1 .. Len(ls) : IsLoop(bs[m[j]]) /\ For(ls[j], bs[m[j]])

LEMMA TopIsHigh ==
  ASSUME NEW bs, NEW base, NEW l, Nested(bs, base, l)
  PROVE  /\ Top(bs, base) \in Nat
         /\ \A i \in 1 .. Len(bs) : bs[i].depth <= Top(bs, base)
<1>0. bs \in Seq(Block) /\ base \in Nat
  BY DEF Nested
<1>1. CASE bs = <<>>
  <2>1. Len(bs) = 0
    BY <1>1
  <2> QED BY <1>0, <1>1, <2>1 DEF Top
<1>2. CASE bs # <<>>
  <2>1. Len(bs) \in Nat /\ Len(bs) >= 1 /\ Last(bs) = bs[Len(bs)] /\ Last(bs) \in Block
    BY <1>0, <1>2, Fronts
  <2>2. Top(bs, base) = bs[Len(bs)].depth /\ Top(bs, base) \in Nat
    BY <1>2, <2>1 DEF Top, Block
  <2>3. ASSUME NEW i \in 1 .. Len(bs) PROVE bs[i].depth <= bs[Len(bs)].depth
    <3>1. CASE i = Len(bs)
      BY <3>1, <2>2
    <3>2. CASE i < Len(bs)
      <4>1. i \in 1 .. Len(bs) - 1 /\ Len(bs) \in 1 .. Len(bs)
        BY <3>2, <2>1
      <4>2. Inside(bs[Len(bs)], bs[i]) /\ bs[i] \in Block
        BY <4>1, <1>0, ElementOfSeq DEF Nested
      <4>3. bs[i].depth \in Nat /\ bs[Len(bs)].depth \in Nat
        BY <4>2, <2>2 DEF Block
      <4>4. Scopes(bs[Len(bs)]) \in 1 .. 2
        BY DEF Scopes
      <4> QED BY <4>2, <4>3, <4>4 DEF Inside
    <3> QED BY <3>1, <3>2, <2>1
  <2> QED BY <2>2, <2>3
<1> QED BY <1>1, <1>2

(* A block more. *)
LEMMA NestedOpen ==
  ASSUME NEW bs, NEW base, NEW l, Nested(bs, base, l),
         NEW b, Sound(b), b.depth = Top(bs, base) + Scopes(b), b.saved = l
  PROVE  /\ Nested(Append(bs, b), base, b.body)
         /\ Top(Append(bs, b), base) = b.depth
<1>0. bs \in Seq(Block) /\ base \in Nat /\ l \in Nat /\ b \in Block
  BY DEF Nested, Sound
<1> DEFINE n == Len(bs)
           cs == Append(bs, b)
<1>1. /\ n \in Nat /\ cs \in Seq(Block) /\ Len(cs) = n + 1
      /\ \A i \in 1 .. n : cs[i] = bs[i]
      /\ cs[n + 1] = b
  BY <1>0, Appends
<1>2. b.body \in Nat /\ l <= b.body /\ b.depth \in Nat
  BY <1>0 DEF Sound, Block
<1>3. Top(bs, base) \in Nat /\ \A i \in 1 .. n : bs[i].depth <= Top(bs, base)
  BY TopIsHigh
<1>4. \A i \in 1 .. n : bs[i] \in Block /\ bs[i].body \in Nat /\ bs[i].body <= l
  <2>1. \A i \in 1 .. n : bs[i] \in Block
    BY <1>0, ElementOfSeq
  <2>2. \A i \in 1 .. n : bs[i].body <= l
    BY DEF Nested
  <2> QED BY <2>1, <2>2 DEF Block
<1> HIDE DEF cs, n
<1>5. ASSUME NEW i \in 1 .. n + 1
      PROVE  /\ Sound(cs[i])
             /\ cs[i].depth = Scopes(cs[i]) + (IF i = 1 THEN base ELSE cs[i - 1].depth)
             /\ cs[i].body <= b.body
             /\ \A j \in 1 .. i - 1 : Inside(cs[i], cs[j])
  <2>1. CASE i \in 1 .. n
    <3>1. cs[i] = bs[i] /\ (i # 1 => cs[i - 1] = bs[i - 1]) /\ \A j \in 1 .. i - 1 : cs[j] = bs[j]
      BY <2>1, <1>1
    <3>2. /\ Sound(bs[i])
          /\ bs[i].depth = Scopes(bs[i]) + (IF i = 1 THEN base ELSE bs[i - 1].depth)
          /\ \A j \in 1 .. i - 1 : Inside(bs[i], bs[j])
      BY <2>1 DEF Nested, n
    <3>3. bs[i].body <= b.body
      BY <2>1, <1>0, <1>2, <1>4
    <3> QED BY <3>1, <3>2, <3>3
  <2>2. CASE i = n + 1
    <3>1. cs[i] = b
      BY <2>2, <1>1
    <3>2. b.depth = Scopes(b) + (IF i = 1 THEN base ELSE cs[i - 1].depth)
      <4>1. Scopes(b) \in Nat
        BY DEF Scopes
      <4>2. CASE i = 1
        <5>1. bs = <<>>
          BY <4>2, <2>2, <1>0, <1>1, EmptySeq DEF n
        <5> QED BY <4>1, <4>2, <5>1, <1>0 DEF Top
      <4>3. CASE i # 1
        <5>1. bs # <<>> /\ n \in 1 .. n /\ i - 1 = n
          BY <4>3, <2>2, <1>0, <1>1, EmptySeq DEF n
        <5>2. Top(bs, base) = bs[n].depth
          BY <5>1 DEF Top, Last, n
        <5>3. cs[i - 1] = bs[n]
          BY <5>1, <1>1
        <5> QED BY <4>1, <4>3, <5>2, <5>3, <1>3
      <4> QED BY <4>2, <4>3
    <3>3. ASSUME NEW j \in 1 .. i - 1 PROVE Inside(b, cs[j])
      <4>1. j \in 1 .. n /\ cs[j] = bs[j]
        BY <2>2, <1>1
      <4>2. bs[j].depth <= Top(bs, base) /\ bs[j].body <= l /\ bs[j].depth \in Nat
        BY <4>1, <1>3, <1>4 DEF Block
      <4>3. Scopes(b) \in Nat
        BY DEF Scopes
      <4> QED BY <4>1, <4>2, <4>3, <1>3 DEF Inside
    <3> QED BY <3>1, <3>2, <3>3, <1>2
  <2> QED BY <2>1, <2>2, <1>1
<1>6. Nested(cs, base, b.body)
  BY <1>0, <1>1, <1>2, <1>5 DEF Nested
<1>7. Top(cs, base) = b.depth
  <2>1. cs # <<>>
    BY <1>0, <1>1, EmptySeq
  <2> QED BY <2>1, <1>1 DEF Top, Last
<1> QED BY <1>6, <1>7 DEF cs

(* The innermost block closes. *)
LEMMA NestedClose ==
  ASSUME NEW bs, NEW base, NEW l, Nested(bs, base, l), bs # <<>>
  PROVE  /\ Sound(Last(bs)) /\ Last(bs).body <= l
         /\ Top(bs, base) = Last(bs).depth
         /\ Nested(Front(bs), base, Last(bs).saved)
         /\ Top(Front(bs), base) = Last(bs).depth - Scopes(Last(bs))
<1>0. bs \in Seq(Block) /\ base \in Nat /\ l \in Nat
  BY DEF Nested
<1> DEFINE n == Len(bs)
           cs == Front(bs)
           b == Last(bs)
<1>1. /\ n \in Nat /\ n >= 1 /\ cs \in Seq(Block) /\ Len(cs) = n - 1
      /\ \A i \in 1 .. n - 1 : cs[i] = bs[i]
      /\ b = bs[n] /\ b \in Block
  BY <1>0, Fronts
<1> HIDE DEF n, cs, b
<1>2. n \in 1 .. n
  BY <1>1
<1>3. /\ Sound(b) /\ b.body <= l
      /\ b.depth = Scopes(b) + (IF n = 1 THEN base ELSE bs[n - 1].depth)
      /\ \A j \in 1 .. n - 1 : Inside(b, bs[j])
  BY <1>1, <1>2 DEF Nested, n
<1>4. Top(bs, base) = b.depth
  BY DEF Top, b
<1>5. b.saved \in Nat /\ b.depth \in Nat
  BY <1>1 DEF Block
<1>6. ASSUME NEW i \in 1 .. n - 1
      PROVE  /\ Sound(cs[i])
             /\ cs[i].depth = Scopes(cs[i]) + (IF i = 1 THEN base ELSE cs[i - 1].depth)
             /\ cs[i].body <= b.saved
             /\ \A j \in 1 .. i - 1 : Inside(cs[i], cs[j])
  <2>1. cs[i] = bs[i] /\ (i # 1 => cs[i - 1] = bs[i - 1]) /\ \A j \in 1 .. i - 1 : cs[j] = bs[j]
    BY <1>1
  <2>2. /\ Sound(bs[i])
        /\ bs[i].depth = Scopes(bs[i]) + (IF i = 1 THEN base ELSE bs[i - 1].depth)
        /\ \A j \in 1 .. i - 1 : Inside(bs[i], bs[j])
    BY <1>1 DEF Nested, n
  <2>3. bs[i].body <= b.saved
    BY <1>3 DEF Inside
  <2> QED BY <2>1, <2>2, <2>3
<1>7. Nested(cs, base, b.saved)
  BY <1>0, <1>1, <1>5, <1>6 DEF Nested
<1>8. Top(cs, base) = b.depth - Scopes(b)
  <2>0. Scopes(b) \in Nat
    BY DEF Scopes
  <2>1. CASE n = 1
    <3>1. cs = <<>>
      BY <2>1, <1>1, EmptySeq
    <3> QED BY <2>0, <2>1, <3>1, <1>0, <1>3 DEF Top
  <2>2. CASE n # 1
    <3>1. cs # <<>> /\ n - 1 \in 1 .. n - 1
      BY <2>2, <1>1, EmptySeq
    <3>2. Top(cs, base) = bs[n - 1].depth
      BY <3>1, <1>1 DEF Top, Last
    <3>3. bs[n - 1] \in Block
      BY <1>0, <1>1, <3>1, ElementOfSeq DEF n
    <3>4. bs[n - 1].depth \in Nat
      BY <3>3 DEF Block
    <3> QED BY <2>0, <2>2, <3>2, <3>4, <1>3
  <2> QED BY <2>1, <2>2
<1> QED BY <1>3, <1>4, <1>7, <1>8 DEF cs, b

LEMMA NestedLocals ==
  ASSUME NEW bs, NEW base, NEW l, Nested(bs, base, l), NEW m \in Nat, l <= m
  PROVE  Nested(bs, base, m)
<1>1. ASSUME NEW i \in 1 .. Len(bs) PROVE bs[i].body <= m
  <2>1. bs[i] \in Block /\ bs[i].body <= l /\ l \in Nat
    BY ElementOfSeq DEF Nested
  <2> QED BY <2>1 DEF Block
<1> QED BY <1>1 DEF Nested

(* The innermost loop, and the place its block has in the source.          *)
LEMMA OwnedLast ==
  ASSUME NEW bs, NEW ls, NEW m, Owned(bs, ls, m), ls # <<>>,
         NEW base, NEW l, Nested(bs, base, l)
  PROVE  /\ Last(ls) \in Loop /\ Last(ls).lexical \in Nat
         /\ Last(ls).lexical + 1 <= Top(bs, base) /\ Last(ls).local_count <= l
<1>1. /\ ls \in Seq(Loop) /\ Len(ls) \in Nat /\ Len(ls) \in 1 .. Len(ls)
      /\ Last(ls) = ls[Len(ls)] /\ Last(ls) \in Loop
  BY Fronts DEF Owned
<1>2. m[Len(ls)] \in 1 .. Len(bs) /\ For(Last(ls), bs[m[Len(ls)]])
  BY <1>1 DEF Owned
<1> DEFINE b == bs[m[Len(ls)]]
<1>3. Sound(b) /\ b.body <= l /\ b.depth <= Top(bs, base) /\ Top(bs, base) \in Nat
  BY <1>2, TopIsHigh DEF Nested
<1> HIDE DEF b
<1>4. For(Last(ls), b)
  BY <1>2 DEF b
<1>5. b.depth \in Nat /\ Scopes(b) >= 1 /\ Scopes(b) <= b.depth /\ Scopes(b) \in Nat
  BY <1>3 DEF Sound, Block, Scopes
<1> QED BY <1>1, <1>3, <1>4, <1>5 DEF For

LEMMA OwnedOpen ==
  ASSUME NEW bs, NEW ls, NEW m, Owned(bs, ls, m), NEW b \in Block, ~ IsLoop(b)
  PROVE  Owned(Append(bs, b), ls, m)
<1> DEFINE n == Len(bs)
           cs == Append(bs, b)
<1>0. bs \in Seq(Block)
  BY DEF Owned
<1>1. /\ n \in Nat /\ cs \in Seq(Block) /\ Len(cs) = n + 1
      /\ \A i \in 1 .. n : cs[i] = bs[i]
      /\ cs[n + 1] = b
  BY <1>0, Appends
<1>2. /\ ls \in Seq(Loop)
      /\ m \in [1 .. Len(ls) -> 1 .. n]
      /\ \A i, j \in 1 .. Len(ls) : i < j => m[i] < m[j]
      /\ \A i \in 1 .. n : IsLoop(bs[i]) => \E j \in 1 .. Len(ls) : m[j] = i
      /\ \A j \in 1 .. Len(ls) : IsLoop(bs[m[j]]) /\ For(ls[j], bs[m[j]])
  BY DEF Owned
<1> HIDE DEF n, cs
<1>3. m \in [1 .. Len(ls) -> 1 .. n + 1]
  BY <1>1, <1>2
<1>4. \A j \in 1 .. Len(ls) : cs[m[j]] = bs[m[j]]
  BY <1>1, <1>2
<1>5. ASSUME NEW i \in 1 .. n + 1, IsLoop(cs[i]) PROVE \E j \in 1 .. Len(ls) : m[j] = i
  <2>1. i \in 1 .. n
    BY <1>1, <1>5
  <2> QED BY <2>1, <1>1, <1>2, <1>5
<1>6. \A j \in 1 .. Len(ls) : IsLoop(cs[m[j]]) /\ For(ls[j], cs[m[j]])
  BY <1>2, <1>4
<1>7. Owned(cs, ls, m)
  BY <1>1, <1>2, <1>3, <1>5, <1>6 DEF Owned
<1> QED BY <1>7 DEF cs

LEMMA OwnedEnter ==
  ASSUME NEW bs, NEW ls, NEW m, Owned(bs, ls, m), NEW b \in Block, IsLoop(b),
         NEW x \in Loop, For(x, b)
  PROVE  \E f : Owned(Append(bs, b), Append(ls, x), f)
<1> DEFINE n == Len(bs)
           cs == Append(bs, b)
           k == Len(ls)
           ks == Append(ls, x)
           f == [j \in 1 .. k + 1 |-> IF j <= k THEN m[j] ELSE n + 1]
<1>0. bs \in Seq(Block) /\ ls \in Seq(Loop)
  BY DEF Owned
<1>1. /\ n \in Nat /\ cs \in Seq(Block) /\ Len(cs) = n + 1
      /\ \A i \in 1 .. n : cs[i] = bs[i]
      /\ cs[n + 1] = b
  BY <1>0, Appends
<1>k. /\ k \in Nat /\ ks \in Seq(Loop) /\ Len(ks) = k + 1
      /\ \A i \in 1 .. k : ks[i] = ls[i]
      /\ ks[k + 1] = x
  BY <1>0, Appends
<1>2. /\ m \in [1 .. k -> 1 .. n]
      /\ \A i, j \in 1 .. k : i < j => m[i] < m[j]
      /\ \A i \in 1 .. n : IsLoop(bs[i]) => \E j \in 1 .. k : m[j] = i
      /\ \A j \in 1 .. k : IsLoop(bs[m[j]]) /\ For(ls[j], bs[m[j]])
  BY DEF Owned
<1> HIDE DEF n, cs, k, ks
<1>3. /\ f \in [1 .. k + 1 -> 1 .. n + 1] /\ f[k + 1] = n + 1
      /\ \A j \in 1 .. k : f[j] = m[j]
  BY <1>1, <1>k, <1>2
<1> HIDE DEF f
<1>4. \A j \in 1 .. k : cs[m[j]] = bs[m[j]] /\ m[j] \in 1 .. n
  BY <1>1, <1>2
<1>5. ASSUME NEW i \in 1 .. n + 1, IsLoop(cs[i]) PROVE \E j \in 1 .. k + 1 : f[j] = i
  <2>1. CASE i \in 1 .. n
    <3>1. PICK j \in 1 .. k : m[j] = i
      BY <2>1, <1>1, <1>2, <1>5
    <3> QED BY <3>1, <1>k, <1>3
  <2>2. CASE i = n + 1
    <3>1. k + 1 \in 1 .. k + 1
      BY <1>k
    <3> QED BY <2>2, <3>1, <1>3
  <2> QED BY <2>1, <2>2, <1>1
<1>6. ASSUME NEW j \in 1 .. k + 1 PROVE IsLoop(cs[f[j]]) /\ For(ks[j], cs[f[j]])
  <2>1. CASE j \in 1 .. k
    BY <2>1, <1>2, <1>3, <1>4, <1>k
  <2>2. CASE j = k + 1
    BY <2>2, <1>1, <1>3, <1>k
  <2> QED BY <2>1, <2>2, <1>k
<1>7. ASSUME NEW i \in 1 .. k + 1, NEW j \in 1 .. k + 1, i < j PROVE f[i] < f[j]
  <2>1. i \in 1 .. k /\ f[i] = m[i] /\ m[i] \in 1 .. n
    BY <1>7, <1>k, <1>3, <1>4
  <2>2. CASE j \in 1 .. k
    BY <2>1, <2>2, <1>7, <1>2, <1>3
  <2>3. CASE j = k + 1
    BY <2>1, <2>3, <1>1, <1>3
  <2> QED BY <2>2, <2>3, <1>k
<1>8. Owned(cs, ks, f)
  BY <1>1, <1>k, <1>3, <1>5, <1>6, <1>7 DEF Owned
<1> QED BY <1>8 DEF cs, ks

LEMMA OwnedClose ==
  ASSUME NEW bs, NEW ls, NEW m, Owned(bs, ls, m), bs # <<>>, ~ IsLoop(Last(bs))
  PROVE  Owned(Front(bs), ls, m)
<1> DEFINE n == Len(bs)
           cs == Front(bs)
<1>0. bs \in Seq(Block)
  BY DEF Owned
<1>1. /\ n \in Nat /\ n >= 1 /\ cs \in Seq(Block) /\ Len(cs) = n - 1
      /\ \A i \in 1 .. n - 1 : cs[i] = bs[i]
      /\ Last(bs) = bs[n]
  BY <1>0, Fronts
<1>2. /\ ls \in Seq(Loop)
      /\ m \in [1 .. Len(ls) -> 1 .. n]
      /\ \A i, j \in 1 .. Len(ls) : i < j => m[i] < m[j]
      /\ \A i \in 1 .. n : IsLoop(bs[i]) => \E j \in 1 .. Len(ls) : m[j] = i
      /\ \A j \in 1 .. Len(ls) : IsLoop(bs[m[j]]) /\ For(ls[j], bs[m[j]])
  BY DEF Owned
<1> HIDE DEF n, cs
<1>3. \A j \in 1 .. Len(ls) : m[j] \in 1 .. n - 1
  BY <1>1, <1>2
<1>4. m \in [1 .. Len(ls) -> 1 .. n - 1]
  BY <1>2, <1>3
<1>5. \A i \in 1 .. n - 1 : IsLoop(cs[i]) => \E j \in 1 .. Len(ls) : m[j] = i
  BY <1>1, <1>2
<1>6. \A j \in 1 .. Len(ls) : IsLoop(cs[m[j]]) /\ For(ls[j], cs[m[j]])
  BY <1>1, <1>2, <1>3
<1>7. Owned(cs, ls, m)
  BY <1>1, <1>2, <1>4, <1>5, <1>6 DEF Owned
<1> QED BY <1>7 DEF cs

LEMMA OwnedExit ==
  ASSUME NEW bs, NEW ls, NEW m, Owned(bs, ls, m), bs # <<>>, IsLoop(Last(bs))
  PROVE  /\ ls # <<>> /\ For(Last(ls), Last(bs))
         /\ \E f : Owned(Front(bs), Front(ls), f)
<1> DEFINE n == Len(bs)
           cs == Front(bs)
           k == Len(ls)
           ks == Front(ls)
           f == [j \in 1 .. k - 1 |-> m[j]]
<1>0. bs \in Seq(Block) /\ ls \in Seq(Loop)
  BY DEF Owned
<1>1. /\ n \in Nat /\ n >= 1 /\ cs \in Seq(Block) /\ Len(cs) = n - 1
      /\ \A i \in 1 .. n - 1 : cs[i] = bs[i]
      /\ Last(bs) = bs[n]
  BY <1>0, Fronts
<1>2. /\ m \in [1 .. k -> 1 .. n]
      /\ \A i, j \in 1 .. k : i < j => m[i] < m[j]
      /\ \A i \in 1 .. n : IsLoop(bs[i]) => \E j \in 1 .. k : m[j] = i
      /\ \A j \in 1 .. k : IsLoop(bs[m[j]]) /\ For(ls[j], bs[m[j]])
  BY DEF Owned
<1>3. n \in 1 .. n /\ IsLoop(bs[n]) /\ k \in Nat
  BY <1>0, <1>1, LenProperties
<1>4. PICK last \in 1 .. k : m[last] = n
  BY <1>2, <1>3
<1>5. ls # <<>>
  BY <1>0, <1>3, <1>4, EmptySeq
<1>k. /\ k \in Nat /\ k >= 1 /\ ks \in Seq(Loop) /\ Len(ks) = k - 1
      /\ \A i \in 1 .. k - 1 : ks[i] = ls[i]
      /\ Last(ls) = ls[k]
  BY <1>0, <1>5, Fronts
<1> HIDE DEF n, cs, k, ks
<1>6. last = k
  <2> SUFFICES ASSUME last < k PROVE FALSE
    BY <1>k
  <2>1. k \in 1 .. k
    BY <1>k
  <2>2. m[last] < m[k] /\ m[k] \in 1 .. n
    BY <2>1, <1>2
  <2> QED BY <2>2, <1>1, <1>4
<1>7. For(Last(ls), Last(bs))
  BY <1>1, <1>2, <1>4, <1>6, <1>k
<1>8. \A j \in 1 .. k - 1 : j \in 1 .. k /\ m[j] \in 1 .. n - 1 /\ f[j] = m[j]
  <2> SUFFICES ASSUME NEW j \in 1 .. k - 1 PROVE j \in 1 .. k /\ m[j] \in 1 .. n - 1
    OBVIOUS
  <2>1. j \in 1 .. k /\ last \in 1 .. k /\ j < last
    BY <1>6, <1>k
  <2>2. m[j] \in 1 .. n /\ m[j] < m[last]
    BY <2>1, <1>2
  <2> QED BY <2>1, <2>2, <1>1, <1>4
<1>9. f \in [1 .. k - 1 -> 1 .. n - 1]
  BY <1>8
<1> HIDE DEF f
<1>10. ASSUME NEW i \in 1 .. n - 1, IsLoop(cs[i]) PROVE \E j \in 1 .. k - 1 : f[j] = i
  <2>1. PICK j \in 1 .. k : m[j] = i
    BY <1>1, <1>2, <1>10
  <2>2. j # k
    BY <2>1, <1>1, <1>4, <1>6
  <2>3. j \in 1 .. k - 1
    BY <2>2, <1>k
  <2> QED BY <2>1, <2>3, <1>8
<1>11. \A j \in 1 .. k - 1 : IsLoop(cs[f[j]]) /\ For(ks[j], cs[f[j]])
  BY <1>1, <1>2, <1>8, <1>k
<1>12. \A i, j \in 1 .. k - 1 : i < j => f[i] < f[j]
  BY <1>2, <1>8
<1>13. Owned(cs, ks, f)
  BY <1>1, <1>k, <1>9, <1>10, <1>11, <1>12 DEF Owned
<1> QED BY <1>5, <1>7, <1>13 DEF cs, ks

(* A jump is noted in the innermost loop. *)
LEMMA OwnedJump ==
  ASSUME NEW bs, NEW ls, NEW m, Owned(bs, ls, m), ls # <<>>,
         NEW x \in Loop, x.lexical = Last(ls).lexical, x.local_count = Last(ls).local_count
  PROVE  Owned(bs, Append(Front(ls), x), m)
<1> DEFINE k == Len(ls)
           fs == Front(ls)
           ks == Append(fs, x)
<1>0. bs \in Seq(Block) /\ ls \in Seq(Loop)
  BY DEF Owned
<1>1. /\ k \in Nat /\ k >= 1 /\ fs \in Seq(Loop) /\ Len(fs) = k - 1
      /\ \A i \in 1 .. k - 1 : fs[i] = ls[i]
      /\ Last(ls) = ls[k]
  BY <1>0, Fronts
<1>2. /\ ks \in Seq(Loop) /\ Len(ks) = Len(fs) + 1
      /\ \A i \in 1 .. Len(fs) : ks[i] = fs[i]
      /\ ks[Len(fs) + 1] = x
  BY <1>1, Appends
<1> HIDE DEF k, fs, ks
<1>3. Len(ks) = k /\ ks[k] = x /\ \A i \in 1 .. k - 1 : ks[i] = ls[i]
  BY <1>1, <1>2
<1>4. /\ m \in [1 .. k -> 1 .. Len(bs)]
      /\ \A i, j \in 1 .. k : i < j => m[i] < m[j]
      /\ \A i \in 1 .. Len(bs) : IsLoop(bs[i]) => \E j \in 1 .. k : m[j] = i
      /\ \A j \in 1 .. k : IsLoop(bs[m[j]]) /\ For(ls[j], bs[m[j]])
  BY DEF Owned, k
<1>5. ASSUME NEW j \in 1 .. k PROVE For(ks[j], bs[m[j]])
  <2>1. CASE j \in 1 .. k - 1
    BY <2>1, <1>3, <1>4
  <2>2. CASE j = k
    BY <2>2, <1>1, <1>3, <1>4 DEF For
  <2> QED BY <2>1, <2>2, <1>1
<1>6. Owned(bs, ks, m)
  BY <1>0, <1>2, <1>3, <1>4, <1>5 DEF Owned
<1> QED BY <1>6 DEF ks, fs

-----------------------------------------------------------------------------
(* What blocks, loops and marks say of the heights.                        *)

BlockFits(k, h, n, b) ==
  /\ \A a \in b.exits : a \in 1 .. n /\ h[a] = Height(k, b.depth - 1, b.saved)
  /\ b.jz # 0 =>
       /\ b.jz \in 1 .. n
       /\ h[b.jz] = Height(k, IF b.kind = "forcond" THEN b.depth ELSE b.depth - 1, b.body)
  /\ IsLoop(b) => b.start \in 1 .. n /\ h[b.start] = Height(k, b.depth - 1, b.body)

LoopFits(k, h, n, x) ==
  \A a \in x.breaks \cup x.continues :
    a \in 1 .. n /\ h[a] = Height(k, x.lexical, x.local_count)

MarkFits(k, h, n, m) == m.addr \in 1 .. n + 1 /\ h[m.addr] = Height(k, m.scopes, m.locals)

BlocksFit(k, h, n, bs) == \A i \in 1 .. Len(bs) : BlockFits(k, h, n, bs[i])
LoopsFit(k, h, n, ls)  == \A i \in 1 .. Len(ls) : LoopFits(k, h, n, ls[i])
MarksFit(k, h, n, ms)  == \A m \in ms : MarkFits(k, h, n, m)

(* The jumps whose targets are not known yet; 0 is none. *)
BlockJumps(b) == b.exits \cup {b.jz}
LoopJumps(x)  == x.breaks \cup x.continues
Pending(bs, ls) ==
  {a \in Nat : \/ a = 0
               \/ \E i \in 1 .. Len(bs) : a \in BlockJumps(bs[i])
               \/ \E i \in 1 .. Len(ls) : a \in LoopJumps(ls[i])}

Fits(k, c, h, bs, ls, ms) ==
  /\ Flows(k, c, h, Pending(bs, ls))
  /\ BlocksFit(k, h, Len(c), bs)
  /\ LoopsFit(k, h, Len(c), ls)
  /\ MarksFit(k, h, Len(c), ms)

(* The code of these blocks ends at a place of so many scopes and locals.  *)
Carries(k, c, bs, ls, ms, scopes, locals) ==
  \E h : Fits(k, c, h, bs, ls, ms) /\ h[Len(c) + 1] = Height(k, scopes, locals)

LEMMA FitsOn ==
  ASSUME NEW k, NEW c, NEW h, NEW d, NEW g, NEW P, NEW s, NEW l, Emits(k, c, h, d, g, P, s, l)
  PROVE  /\ \A b : BlockFits(k, h, Len(c), b) => BlockFits(k, g, Len(d), b)
         /\ \A bs : BlocksFit(k, h, Len(c), bs) => BlocksFit(k, g, Len(d), bs)
         /\ \A ls : LoopsFit(k, h, Len(c), ls) => LoopsFit(k, g, Len(d), ls)
         /\ \A ms : MarksFit(k, h, Len(c), ms) => MarksFit(k, g, Len(d), ms)
         /\ \A m : MarkFits(k, h, Len(c), m) => MarkFits(k, g, Len(d), m)
<1>1. /\ Len(c) \in Nat /\ Len(d) \in Nat /\ Len(c) <= Len(d)
      /\ \A i \in 1 .. Len(c) + 1 : g[i] = h[i]
  BY DEF Emits, Grows
<1>2. \A a \in 1 .. Len(c) : a \in 1 .. Len(d) /\ g[a] = h[a]
  BY <1>1
<1>3. \A a \in 1 .. Len(c) + 1 : a \in 1 .. Len(d) + 1 /\ g[a] = h[a]
  BY <1>1
<1>4. \A b : BlockFits(k, h, Len(c), b) => BlockFits(k, g, Len(d), b)
  BY <1>2 DEF BlockFits
<1>5. \A x : LoopFits(k, h, Len(c), x) => LoopFits(k, g, Len(d), x)
  BY <1>2 DEF LoopFits
<1>6. \A m : MarkFits(k, h, Len(c), m) => MarkFits(k, g, Len(d), m)
  BY <1>3 DEF MarkFits
<1> QED BY <1>4, <1>5, <1>6 DEF BlocksFit, LoopsFit, MarksFit

LEMMA BlocksFitOpen ==
  ASSUME NEW k, NEW h, NEW n, NEW bs \in Seq(Block), BlocksFit(k, h, n, bs),
         NEW b \in Block, BlockFits(k, h, n, b)
  PROVE  BlocksFit(k, h, n, Append(bs, b))
<1> DEFINE cs == Append(bs, b)
<1>1. /\ Len(bs) \in Nat /\ Len(cs) = Len(bs) + 1
      /\ \A i \in 1 .. Len(bs) : cs[i] = bs[i]
      /\ cs[Len(bs) + 1] = b
  BY Appends
<1> HIDE DEF cs
<1>2. \A i \in 1 .. Len(cs) : i \in 1 .. Len(bs) \/ i = Len(bs) + 1
  BY <1>1
<1>3. BlocksFit(k, h, n, cs)
  BY <1>1, <1>2 DEF BlocksFit
<1> QED BY <1>3 DEF cs

LEMMA BlocksFitClose ==
  ASSUME NEW k, NEW h, NEW n, NEW bs \in Seq(Block), bs # <<>>, BlocksFit(k, h, n, bs)
  PROVE  BlocksFit(k, h, n, Front(bs)) /\ BlockFits(k, h, n, Last(bs))
<1>1. /\ Len(bs) \in Nat /\ Len(Front(bs)) = Len(bs) - 1 /\ Len(bs) >= 1
      /\ \A i \in 1 .. Len(bs) - 1 : Front(bs)[i] = bs[i]
      /\ Last(bs) = bs[Len(bs)]
  BY Fronts
<1>2. Len(bs) \in 1 .. Len(bs) /\ \A i \in 1 .. Len(Front(bs)) : i \in 1 .. Len(bs) - 1 /\ i \in 1 .. Len(bs)
  BY <1>1
<1> QED BY <1>1, <1>2 DEF BlocksFit

LEMMA LoopsFitEnter ==
  ASSUME NEW k, NEW h, NEW n, NEW ls \in Seq(Loop), LoopsFit(k, h, n, ls),
         NEW x \in Loop, LoopFits(k, h, n, x)
  PROVE  LoopsFit(k, h, n, Append(ls, x))
<1> DEFINE ks == Append(ls, x)
<1>1. /\ Len(ls) \in Nat /\ Len(ks) = Len(ls) + 1
      /\ \A i \in 1 .. Len(ls) : ks[i] = ls[i]
      /\ ks[Len(ls) + 1] = x
  BY Appends
<1> HIDE DEF ks
<1>2. \A i \in 1 .. Len(ks) : i \in 1 .. Len(ls) \/ i = Len(ls) + 1
  BY <1>1
<1>3. LoopsFit(k, h, n, ks)
  BY <1>1, <1>2 DEF LoopsFit
<1> QED BY <1>3 DEF ks

LEMMA LoopsFitExit ==
  ASSUME NEW k, NEW h, NEW n, NEW ls \in Seq(Loop), ls # <<>>, LoopsFit(k, h, n, ls)
  PROVE  LoopsFit(k, h, n, Front(ls)) /\ LoopFits(k, h, n, Last(ls))
<1>1. /\ Len(ls) \in Nat /\ Len(Front(ls)) = Len(ls) - 1 /\ Len(ls) >= 1
      /\ \A i \in 1 .. Len(ls) - 1 : Front(ls)[i] = ls[i]
      /\ Last(ls) = ls[Len(ls)]
  BY Fronts
<1>2. Len(ls) \in 1 .. Len(ls) /\ \A i \in 1 .. Len(Front(ls)) : i \in 1 .. Len(ls) - 1 /\ i \in 1 .. Len(ls)
  BY <1>1
<1> QED BY <1>1, <1>2 DEF LoopsFit

LEMMA PendingOpen ==
  ASSUME NEW bs \in Seq(Block), NEW ls, NEW b \in Block
  PROVE  Pending(bs, ls) \cup BlockJumps(b) \subseteq Pending(Append(bs, b), ls)
<1> DEFINE cs == Append(bs, b)
<1>1. /\ Len(bs) \in Nat /\ Len(cs) = Len(bs) + 1
      /\ \A i \in 1 .. Len(bs) : cs[i] = bs[i]
      /\ cs[Len(bs) + 1] = b
  BY Appends
<1> HIDE DEF cs
<1>2. Len(bs) + 1 \in 1 .. Len(cs) /\ \A i \in 1 .. Len(bs) : i \in 1 .. Len(cs)
  BY <1>1
<1>3. BlockJumps(b) \subseteq Nat
  BY DEF BlockJumps, Block
<1>4. Pending(bs, ls) \cup BlockJumps(b) \subseteq Pending(cs, ls)
  BY <1>1, <1>2, <1>3 DEF Pending
<1> QED BY <1>4 DEF cs

LEMMA PendingClose ==
  ASSUME NEW bs \in Seq(Block), bs # <<>>, NEW ls
  PROVE  Pending(bs, ls) \subseteq Pending(Front(bs), ls) \cup BlockJumps(Last(bs))
<1>1. /\ Len(bs) \in Nat /\ Len(Front(bs)) = Len(bs) - 1 /\ Len(bs) >= 1
      /\ \A i \in 1 .. Len(bs) - 1 : Front(bs)[i] = bs[i]
      /\ Last(bs) = bs[Len(bs)]
  BY Fronts
<1>2. \A i \in 1 .. Len(bs) : i \in 1 .. Len(Front(bs)) \/ i = Len(bs)
  BY <1>1
<1> QED BY <1>1, <1>2 DEF Pending

LEMMA PendingEnter ==
  ASSUME NEW bs, NEW ls \in Seq(Loop), NEW x \in Loop
  PROVE  Pending(bs, ls) \cup LoopJumps(x) \subseteq Pending(bs, Append(ls, x))
<1> DEFINE ks == Append(ls, x)
<1>1. /\ Len(ls) \in Nat /\ Len(ks) = Len(ls) + 1
      /\ \A i \in 1 .. Len(ls) : ks[i] = ls[i]
      /\ ks[Len(ls) + 1] = x
  BY Appends
<1> HIDE DEF ks
<1>2. Len(ls) + 1 \in 1 .. Len(ks) /\ \A i \in 1 .. Len(ls) : i \in 1 .. Len(ks)
  BY <1>1
<1>3. LoopJumps(x) \subseteq Nat
  BY DEF LoopJumps, Loop
<1>4. Pending(bs, ls) \cup LoopJumps(x) \subseteq Pending(bs, ks)
  BY <1>1, <1>2, <1>3 DEF Pending
<1> QED BY <1>4 DEF ks

LEMMA PendingExit ==
  ASSUME NEW bs, NEW ls \in Seq(Loop), ls # <<>>
  PROVE  Pending(bs, ls) \subseteq Pending(bs, Front(ls)) \cup LoopJumps(Last(ls))
<1>1. /\ Len(ls) \in Nat /\ Len(Front(ls)) = Len(ls) - 1 /\ Len(ls) >= 1
      /\ \A i \in 1 .. Len(ls) - 1 : Front(ls)[i] = ls[i]
      /\ Last(ls) = ls[Len(ls)]
  BY Fronts
<1>2. \A i \in 1 .. Len(ls) : i \in 1 .. Len(Front(ls)) \/ i = Len(ls)
  BY <1>1
<1> QED BY <1>1, <1>2 DEF Pending

(* The emitted code carries the blocks, loops and marks that fit it.       *)
LEMMA EmitCarries ==
  ASSUME NEW k, NEW c, NEW h, NEW d, NEW g, NEW P, NEW s, NEW l, Emits(k, c, h, d, g, P, s, l),
         NEW bs, NEW ls, NEW ms, P \subseteq Pending(bs, ls),
         BlocksFit(k, g, Len(d), bs), LoopsFit(k, g, Len(d), ls), MarksFit(k, g, Len(d), ms)
  PROVE  Carries(k, d, bs, ls, ms, s, l)
<1>1. Flows(k, d, g, P) /\ g[Len(d) + 1] = Height(k, s, l)
  BY DEF Emits
<1>2. Flows(k, d, g, Pending(bs, ls))
  BY <1>1 DEF Flows
<1>3. Fits(k, d, g, bs, ls, ms)
  BY <1>2 DEF Fits
<1> QED BY <1>1, <1>3 DEF Carries

LEMMA CarriesEmit ==
  ASSUME NEW k, NEW c, NEW bs, NEW ls, NEW ms, NEW s, NEW l, Carries(k, c, bs, ls, ms, s, l)
  PROVE  \E h : /\ Emits(k, c, h, c, h, Pending(bs, ls), s, l)
                /\ BlocksFit(k, h, Len(c), bs) /\ LoopsFit(k, h, Len(c), ls)
                /\ MarksFit(k, h, Len(c), ms)
<1>1. PICK h : Fits(k, c, h, bs, ls, ms) /\ h[Len(c) + 1] = Height(k, s, l)
  BY DEF Carries
<1>2. Flows(k, c, h, Pending(bs, ls)) /\ Len(c) \in Nat
  BY <1>1, LenProperties DEF Fits, Flows
<1>3. Emits(k, c, h, c, h, Pending(bs, ls), s, l)
  BY <1>1, <1>2 DEF Emits, Grows
<1> QED BY <1>1, <1>3 DEF Fits

-----------------------------------------------------------------------------
(* The parser's state.                                                     *)

Shape ==
  /\ Nested(open, Base, local_count)
  /\ \E m : Owned(open, loop_stack, m)
  /\ current_scope_depth \in Int

Carried(k) == Carries(k, code, open, loop_stack, marks, Top(open, Base), local_count)

(* What the code of the statements so far says.                            *)
Begun(k, h) ==
  /\ Emits(k, code, h, code, h, Pending(open, loop_stack), Top(open, Base), local_count)
  /\ BlocksFit(k, h, Len(code), open) /\ LoopsFit(k, h, Len(code), loop_stack)
  /\ MarksFit(k, h, Len(code), marks \cup {Place})

LEMMA ShapeTypes ==
  ASSUME Shape
  PROVE  /\ open \in Seq(Block) /\ loop_stack \in Seq(Loop) /\ local_count \in Nat
         /\ Base \in Nat /\ Top(open, Base) \in Nat /\ Lexical = Top(open, Base)
<1>1. Nested(open, Base, local_count) /\ \E m : Owned(open, loop_stack, m)
  BY DEF Shape
<1>2. Top(open, Base) \in Nat
  BY <1>1, TopIsHigh
<1>3. Lexical = Top(open, Base)
  BY DEF Lexical, Top, Base
<1> QED BY <1>1, <1>2, <1>3 DEF Nested, Owned

LEMMA Begin ==
  ASSUME NEW k, Shape, Carried(k)
  PROVE  /\ code \in Seq(Instr) /\ Len(code) \in Nat
         /\ \E h : Begun(k, h)
<1>1. PICK h : /\ Emits(k, code, h, code, h, Pending(open, loop_stack), Top(open, Base), local_count)
               /\ BlocksFit(k, h, Len(code), open) /\ LoopsFit(k, h, Len(code), loop_stack)
               /\ MarksFit(k, h, Len(code), marks)
  BY CarriesEmit DEF Carried
<1>2. code \in Seq(Instr) /\ Len(code) \in Nat
  BY <1>1 DEF Emits, Flows
<1>3. h[Len(code) + 1] = Height(k, Top(open, Base), local_count)
  BY <1>1 DEF Emits
<1>4. /\ Place.addr = Len(code) + 1 /\ Place.scopes = Top(open, Base)
      /\ Place.locals = local_count
  BY ShapeTypes DEF Place, NextAddr
<1>5. MarkFits(k, h, Len(code), Place)
  BY <1>2, <1>3, <1>4 DEF MarkFits
<1>6. MarksFit(k, h, Len(code), marks \cup {Place})
  BY <1>1, <1>5 DEF MarksFit
<1> QED BY <1>1, <1>2, <1>6 DEF Begun

(* The blocks stay. *)
LEMMA ShapeStays ==
  ASSUME Shape, open' = open, inside_function' = inside_function,
         local_count' \in Nat, local_count <= local_count', current_scope_depth' \in Int,
         \E m : Owned(open, loop_stack', m)
  PROVE  Shape' /\ Top(open', Base') = Top(open, Base)
<1>1. Base' = Base
  BY DEF Base
<1>2. Nested(open, Base, local_count')
  BY NestedLocals DEF Shape
<1>3. Nested(open', Base', local_count')
  BY <1>1, <1>2
<1>4. \E m : Owned(open', loop_stack', m)
  OBVIOUS
<1>5. Shape'
  BY <1>3, <1>4 DEF Shape
<1> QED BY <1>1, <1>5

(* A block opens. *)
LEMMA ShapeOpens ==
  ASSUME Shape, NEW b, Sound(b), b.depth = Top(open, Base) + Scopes(b), b.saved = local_count,
         open' = Append(open, b), inside_function' = inside_function,
         local_count' = b.body, current_scope_depth' \in Int,
         \/ ~ IsLoop(b) /\ loop_stack' = loop_stack
         \/ IsLoop(b) /\ \E x \in Loop : For(x, b) /\ loop_stack' = Append(loop_stack, x)
  PROVE  Shape' /\ Top(open', Base') = b.depth
<1>1. Base' = Base
  BY DEF Base
<1>2. /\ Nested(Append(open, b), Base, b.body)
      /\ Top(Append(open, b), Base) = b.depth
  BY NestedOpen DEF Shape
<1>3. Nested(open', Base', local_count') /\ Top(open', Base') = b.depth
  BY <1>1, <1>2
<1>4. PICK m : Owned(open, loop_stack, m)
  BY DEF Shape
<1>5. b \in Block
  BY DEF Sound
<1>6. \E f : Owned(open', loop_stack', f)
  <2>1. CASE ~ IsLoop(b) /\ loop_stack' = loop_stack
    BY <2>1, <1>4, <1>5, OwnedOpen
  <2>2. CASE IsLoop(b) /\ \E x \in Loop : For(x, b) /\ loop_stack' = Append(loop_stack, x)
    BY <2>2, <1>4, <1>5, OwnedEnter
  <2> QED BY <2>1, <2>2
<1>7. Shape'
  BY <1>3, <1>6 DEF Shape
<1> QED BY <1>3, <1>7

(* The innermost one closes. *)
LEMMA ShapeLast ==
  ASSUME Shape, open # <<>>
  PROVE  /\ Sound(Last(open)) /\ Last(open) \in Block /\ Last(open).body <= local_count
         /\ Top(open, Base) = Last(open).depth
         /\ IsLoop(Last(open)) => loop_stack # <<>> /\ For(Last(loop_stack), Last(open))
<1>1. PICK m : Owned(open, loop_stack, m)
  BY DEF Shape
<1>2. IsLoop(Last(open)) => loop_stack # <<>> /\ For(Last(loop_stack), Last(open))
  BY <1>1, OwnedExit
<1>3. Nested(open, Base, local_count)
  BY DEF Shape
<1>4. /\ Sound(Last(open)) /\ Last(open).body <= local_count
      /\ Top(open, Base) = Last(open).depth
  BY <1>3, NestedClose
<1> QED BY <1>2, <1>4 DEF Sound

LEMMA ShapeCloses ==
  ASSUME Shape, open # <<>>,
         open' = Front(open), inside_function' = inside_function,
         local_count' = Last(open).saved, current_scope_depth' \in Int,
         \/ ~ IsLoop(Last(open)) /\ loop_stack' = loop_stack
         \/ IsLoop(Last(open)) /\ loop_stack' = Front(loop_stack)
  PROVE  Shape' /\ Top(open', Base') = Last(open).depth - Scopes(Last(open))
<1>1. Base' = Base
  BY DEF Base
<1>2. Nested(open, Base, local_count)
  BY DEF Shape
<1>3. /\ Nested(Front(open), Base, Last(open).saved)
      /\ Top(Front(open), Base) = Last(open).depth - Scopes(Last(open))
  BY <1>2, NestedClose
<1>4. Nested(open', Base', local_count') /\ Top(open', Base') = Last(open).depth - Scopes(Last(open))
  BY <1>1, <1>3
<1>5. PICK m : Owned(open, loop_stack, m)
  BY DEF Shape
<1>6. \E f : Owned(open', loop_stack', f)
  <2>1. CASE ~ IsLoop(Last(open)) /\ loop_stack' = loop_stack
    BY <2>1, <1>5, OwnedClose
  <2>2. CASE IsLoop(Last(open)) /\ loop_stack' = Front(loop_stack)
    BY <2>2, <1>5, OwnedExit
  <2> QED BY <2>1, <2>2
<1>7. Shape'
  BY <1>4, <1>6 DEF Shape
<1> QED BY <1>4, <1>7

(* The code goes on, and the blocks, the loops and their jumps stay.       *)
LEMMA CarriedOn ==
  ASSUME NEW k, NEW h, Shape, Begun(k, h),
         NEW g, Emits(k, code, h, code', g, Pending(open, loop_stack),
                      Top(open, Base), local_count'),
         open' = open, loop_stack' = loop_stack, Base' = Base,
         marks' = marks \cup {Place}
  PROVE  Carried(k)'
<1>1. /\ BlocksFit(k, g, Len(code'), open) /\ LoopsFit(k, g, Len(code'), loop_stack)
      /\ MarksFit(k, g, Len(code'), marks \cup {Place})
  BY FitsOn DEF Begun
<1>2. Pending(open, loop_stack) \subseteq Pending(open, loop_stack)
  OBVIOUS
<1>3. Carries(k, code', open, loop_stack, marks \cup {Place}, Top(open, Base), local_count')
  BY <1>1, <1>2, EmitCarries
<1> QED BY <1>3 DEF Carried

-----------------------------------------------------------------------------
(* Statements.                                                             *)

LEMMA VarStep ==
  ASSUME NEW k, Shape, Carried(k), Var
  PROVE  Shape' /\ Carried(k)'
<1>1. /\ code' = Append(code, I("PUSH")) /\ local_count' = local_count + 1
      /\ open' = open /\ loop_stack' = loop_stack /\ inside_function' = inside_function
      /\ current_scope_depth' = current_scope_depth /\ marks' = marks \cup {Place}
  BY DEF Var, Statement
<1>2. local_count \in Nat /\ Top(open, Base) \in Nat
  BY ShapeTypes
<1>3. Shape'
  BY <1>1, <1>2, ShapeStays DEF Shape
<1>4. PICK h : Begun(k, h)
  BY Begin
<1>5. PICK g : Emits(k, code, h, Append(code, I("PUSH")), g, Pending(open, loop_stack),
                     Top(open, Base), local_count + 1)
  BY <1>2, <1>4, EmitPush DEF Begun
<1>6. Base' = Base
  BY <1>1 DEF Base
<1>7. Carried(k)'
  BY <1>1, <1>4, <1>5, <1>6, CarriedOn
<1> QED BY <1>3, <1>7

(* The region's handle is pushed and taken again: the local's slot is not  *)
(* there, and SVAR lowers surplus for it.                                  *)
LEMMA RegionStep ==
  ASSUME NEW k, Shape, Carried(k), Region
  PROVE  Shape' /\ Carried(k)'
<1>1. /\ code' = code \o <<I("PUSH"), I("SVAR")>> /\ local_count' = local_count + 1
      /\ open' = open /\ loop_stack' = loop_stack /\ inside_function' = inside_function
      /\ current_scope_depth' = current_scope_depth /\ marks' = marks \cup {Place}
  BY DEF Region, Statement
<1>2. local_count \in Nat /\ Top(open, Base) \in Nat
  BY ShapeTypes
<1>3. Shape'
  BY <1>1, <1>2, ShapeStays DEF Shape
<1>4. code \in Seq(Instr) /\ \E h : Begun(k, h)
  BY Begin
<1>5. PICK h : Begun(k, h)
  BY <1>4
<1>6. I("PUSH") \in Instr /\ I("SVAR") \in Instr
  BY Instructions DEF Ops
<1>7. code' = Append(Append(code, I("PUSH")), I("SVAR"))
  BY <1>1, <1>4, <1>6, TwoMore
<1> DEFINE c == Append(code, I("PUSH"))
           t == Top(open, Base)
<1>8. PICK g : Emits(k, code, h, c, g, Pending(open, loop_stack), t, local_count + 1)
  BY <1>2, <1>5, EmitPush DEF Begun
<1> HIDE DEF c
<1>9. /\ local_count + 1 \in Int /\ t \in Int
      /\ Moves("SVAR", t, local_count + 1, t, local_count + 1)
  BY <1>2 DEF Moves
<1>10. PICK f : Emits(k, code, h, Append(c, I("SVAR")), f, Pending(open, loop_stack), t,
                      local_count + 1)
  BY <1>8, <1>9, EmitStep
<1>11. Base' = Base
  BY <1>1 DEF Base
<1>12. Carried(k)'
  BY <1>1, <1>5, <1>7, <1>10, <1>11, CarriedOn DEF c
<1> QED BY <1>3, <1>12

(* The element's value stays, and is no local's: AGET raises surplus.      *)
LEMMA ElementStep ==
  ASSUME NEW k, Shape, Carried(k), Element
  PROVE  Shape' /\ Carried(k)'
<1>1. /\ code' = Append(code, I("AGET")) /\ local_count' = local_count
      /\ open' = open /\ loop_stack' = loop_stack /\ inside_function' = inside_function
      /\ current_scope_depth' = current_scope_depth /\ marks' = marks \cup {Place}
  BY DEF Element, Statement
<1> DEFINE t == Top(open, Base)
<1>2. local_count \in Nat /\ t \in Nat
  BY ShapeTypes
<1>3. Shape'
  BY <1>1, <1>2, ShapeStays DEF Shape
<1>4. PICK h : Begun(k, h)
  BY Begin
<1>5. local_count \in Int /\ t \in Int /\ Moves("AGET", t, local_count, t, local_count)
  BY <1>2 DEF Moves
<1>6. PICK g : Emits(k, code, h, Append(code, I("AGET")), g, Pending(open, loop_stack), t,
                     local_count)
  BY <1>4, <1>5, EmitStep DEF Begun
<1>7. Base' = Base
  BY <1>1 DEF Base
<1>8. Carried(k)'
  BY <1>1, <1>4, <1>6, <1>7, CarriedOn
<1> QED BY <1>3, <1>8

LEMMA ReturnStep ==
  ASSUME NEW k, Shape, Carried(k), Return
  PROVE  Shape' /\ Carried(k)'
<1>1. /\ code' = Append(code, I("RET")) /\ local_count' = local_count
      /\ open' = open /\ loop_stack' = loop_stack /\ inside_function' = inside_function
      /\ current_scope_depth' = current_scope_depth /\ marks' = marks \cup {Place}
  BY DEF Return, Statement
<1>2. local_count \in Nat /\ Top(open, Base) \in Nat
  BY ShapeTypes
<1>3. Shape'
  BY <1>1, <1>2, ShapeStays DEF Shape
<1>4. PICK h : Begun(k, h)
  BY Begin
<1>5. PICK g : Emits(k, code, h, Append(code, I("RET")), g, Pending(open, loop_stack),
                     Top(open, Base), local_count)
  BY <1>2, <1>4, EmitStop DEF Begun
<1>6. Base' = Base
  BY <1>1 DEF Base
<1>7. Carried(k)'
  BY <1>1, <1>4, <1>5, <1>6, CarriedOn
<1> QED BY <1>3, <1>7

-----------------------------------------------------------------------------
(* Blocks open.                                                            *)

LEMMA OpenedCarried ==
  ASSUME NEW k, NEW h, Shape, Begun(k, h),
         NEW b, b \in Block, NEW g, NEW P,
         Emits(k, code, h, code', g, P, b.depth, b.body),
         P \subseteq Pending(open, loop_stack) \cup {b.jz}, BlockFits(k, g, Len(code'), b),
         open' = Append(open, b), Top(open', Base') = b.depth, local_count' = b.body,
         \/ loop_stack' = loop_stack
         \/ \E x \in Loop : /\ x.breaks = {} /\ x.continues = {}
                            /\ loop_stack' = Append(loop_stack, x),
         marks' = marks \cup {Place}
  PROVE  Carried(k)'
<1>0. open \in Seq(Block) /\ loop_stack \in Seq(Loop)
  BY ShapeTypes
<1>1. /\ BlocksFit(k, g, Len(code'), open) /\ LoopsFit(k, g, Len(code'), loop_stack)
      /\ MarksFit(k, g, Len(code'), marks \cup {Place})
  BY FitsOn DEF Begun
<1>2. BlocksFit(k, g, Len(code'), Append(open, b))
  BY <1>0, <1>1, BlocksFitOpen
<1>3. P \subseteq Pending(Append(open, b), loop_stack)
  <2>1. Pending(open, loop_stack) \cup BlockJumps(b) \subseteq Pending(Append(open, b), loop_stack)
    BY <1>0, PendingOpen
  <2> QED BY <2>1 DEF BlockJumps
<1>4. LoopsFit(k, g, Len(code'), loop_stack') /\ P \subseteq Pending(Append(open, b), loop_stack')
  <2>1. CASE loop_stack' = loop_stack
    BY <2>1, <1>1, <1>3
  <2>2. CASE \E x \in Loop : /\ x.breaks = {} /\ x.continues = {}
                             /\ loop_stack' = Append(loop_stack, x)
    <3>1. PICK x \in Loop : /\ x.breaks = {} /\ x.continues = {}
                            /\ loop_stack' = Append(loop_stack, x)
      BY <2>2
    <3>2. LoopFits(k, g, Len(code'), x)
      BY <3>1 DEF LoopFits
    <3>3. LoopsFit(k, g, Len(code'), loop_stack')
      BY <3>1, <3>2, <1>0, <1>1, LoopsFitEnter
    <3>4. Pending(Append(open, b), loop_stack) \subseteq Pending(Append(open, b), loop_stack')
      BY <3>1, <1>0, PendingEnter
    <3> QED BY <3>3, <3>4, <1>3
  <2> QED BY <2>1, <2>2
<1>5. Carries(k, code', Append(open, b), loop_stack', marks \cup {Place}, b.depth, b.body)
  BY <1>1, <1>2, <1>4, EmitCarries
<1> QED BY <1>5 DEF Carried

LEMMA IfStep ==
  ASSUME NEW k, Shape, Carried(k), If
  PROVE  Shape' /\ Carried(k)'
<1> DEFINE n == Len(code)
           b == [kind |-> "if", jz |-> n + 1, exits |-> {}, start |-> 0,
                 saved |-> local_count, body |-> local_count, depth |-> Top(open, Base) + 1]
           c == Append(code, I("JZ"))
           d == Append(c, I("ENTER"))
<1>1. local_count \in Nat /\ Top(open, Base) \in Nat /\ Lexical = Top(open, Base)
  BY ShapeTypes
<1>2. code \in Seq(Instr) /\ n \in Nat /\ \E h : Begun(k, h)
  BY Begin
<1>3. PICK h : Begun(k, h)
  BY <1>2
<1>4. I("JZ") \in Instr /\ I("ENTER") \in Instr
  BY Instructions DEF Ops
<1>5. /\ code' = code \o <<I("JZ"), I("ENTER")>> /\ open' = Append(open, b)
      /\ local_count' = local_count /\ loop_stack' = loop_stack
      /\ inside_function' = inside_function
      /\ current_scope_depth' = current_scope_depth + 1 /\ marks' = marks \cup {Place}
  BY <1>1 DEF If, Statement, Open, NextAddr
<1>6. code' = d
  BY <1>2, <1>4, <1>5, TwoMore
<1>7. /\ Sound(b) /\ b \in Block /\ ~ IsLoop(b) /\ b.depth = Top(open, Base) + Scopes(b)
      /\ b.saved = local_count /\ b.body = local_count /\ b.depth = Top(open, Base) + 1
      /\ b.jz = n + 1 /\ b.exits = {} /\ b.kind = "if"
  BY <1>1, <1>2 DEF Sound, Block, IsLoop, Scopes
<1> HIDE DEF b
<1>8. Shape' /\ Top(open', Base') = b.depth
  BY <1>5, <1>7, ShapeOpens DEF Shape
<1>9. /\ Len(c) = n + 1
      /\ \E g : Emits(k, code, h, c, g, Pending(open, loop_stack) \cup {n + 1},
                      Top(open, Base), local_count)
  BY <1>1, <1>3, EmitBranch DEF Begun
<1>10. PICK g1 : Emits(k, code, h, c, g1, Pending(open, loop_stack) \cup {n + 1},
                       Top(open, Base), local_count)
  BY <1>9
<1> HIDE DEF c
<1>11. PICK g : Emits(k, code, h, d, g, Pending(open, loop_stack) \cup {n + 1},
                      Top(open, Base) + 1, local_count)
  BY <1>1, <1>10, EmitEnter
<1> HIDE DEF d
<1>12. h[n + 1] = Height(k, Top(open, Base), local_count)
  BY <1>3 DEF Begun, Emits
<1>13. g[n + 1] = Height(k, Top(open, Base), local_count) /\ n + 1 \in 1 .. Len(d)
  <2>1. Grows(h, g, n) /\ n + 1 \in 1 .. n + 1 /\ Len(d) \in Nat
    BY <1>2, <1>11 DEF Emits
  <2>2. Len(d) = n + 2
    <3>1. c \in Seq(Instr)
      BY <1>10 DEF Emits, Flows
    <3> QED BY <3>1, <1>2, <1>4, <1>9, Appends DEF d
  <2> QED BY <2>1, <2>2, <1>2, <1>12 DEF Grows
<1>14. BlockFits(k, g, Len(code'), b)
  <2>1. b.depth - 1 = Top(open, Base)
    BY <1>1, <1>7
  <2> QED BY <2>1, <1>6, <1>7, <1>13 DEF BlockFits
<1>15. Emits(k, code, h, code', g, Pending(open, loop_stack) \cup {b.jz}, b.depth, b.body)
  BY <1>6, <1>7, <1>11
<1>16. Pending(open, loop_stack) \cup {b.jz} \subseteq Pending(open, loop_stack) \cup {b.jz}
  OBVIOUS
<1>17. Carried(k)'
  BY <1>3, <1>5, <1>7, <1>8, <1>14, <1>15, <1>16, OpenedCarried
<1> QED BY <1>8, <1>17

(* A loop opens: x is the loop that push_loop pushes. *)
LEMMA ForeverStep ==
  ASSUME NEW k, Shape, Carried(k), Forever
  PROVE  Shape' /\ Carried(k)'
<1> DEFINE n == Len(code)
           b == [kind |-> "forever", jz |-> 0, exits |-> {}, start |-> n + 1,
                 saved |-> local_count, body |-> local_count, depth |-> Top(open, Base) + 1]
           x == [breaks |-> {}, continues |-> {}, scope_depth |-> current_scope_depth,
                 local_count |-> local_count,
                 lexical |-> current_scope_depth - current_scope_depth + Top(open, Base)]
           d == Append(code, I("ENTER"))
<1>1. /\ local_count \in Nat /\ Top(open, Base) \in Nat /\ Lexical = Top(open, Base)
      /\ current_scope_depth \in Int
  BY ShapeTypes DEF Shape
<1>2. code \in Seq(Instr) /\ n \in Nat /\ \E h : Begun(k, h)
  BY Begin
<1>3. PICK h : Begun(k, h)
  BY <1>2
<1>4. I("ENTER") \in Instr
  BY Instructions DEF Ops
<1>5. /\ code' = d /\ open' = Append(open, b)
      /\ local_count' = local_count /\ loop_stack' = Append(loop_stack, x)
      /\ inside_function' = inside_function
      /\ current_scope_depth' = current_scope_depth + 1 /\ marks' = marks \cup {Place}
  BY <1>1 DEF Forever, Statement, Open, NextAddr, push_loop
<1>7. /\ Sound(b) /\ b \in Block /\ IsLoop(b) /\ b.depth = Top(open, Base) + Scopes(b)
      /\ b.saved = local_count /\ b.body = local_count /\ b.depth = Top(open, Base) + 1
      /\ b.jz = 0 /\ b.exits = {} /\ b.kind = "forever" /\ b.start = n + 1
  BY <1>1, <1>2 DEF Sound, Block, IsLoop, Scopes
<1>8. x \in Loop /\ For(x, b) /\ x.breaks = {} /\ x.continues = {}
  BY <1>1 DEF Loop, For
<1> HIDE DEF b, x
<1>9. Shape' /\ Top(open', Base') = b.depth
  BY <1>1, <1>5, <1>7, <1>8, ShapeOpens
<1>10. /\ Len(d) = n + 1
       /\ \E g : Emits(k, code, h, d, g, Pending(open, loop_stack), Top(open, Base) + 1, local_count)
  BY <1>1, <1>3, EmitEnter DEF Begun
<1>11. PICK g : Emits(k, code, h, d, g, Pending(open, loop_stack), Top(open, Base) + 1, local_count)
  BY <1>10
<1> HIDE DEF d
<1>12. h[n + 1] = Height(k, Top(open, Base), local_count)
  BY <1>3 DEF Begun, Emits
<1>13. g[n + 1] = Height(k, Top(open, Base), local_count) /\ n + 1 \in 1 .. Len(d)
  <2>1. Grows(h, g, n) /\ n + 1 \in 1 .. n + 1
    BY <1>2, <1>11 DEF Emits
  <2> QED BY <2>1, <1>10, <1>12 DEF Grows
<1>14. BlockFits(k, g, Len(code'), b)
  <2>1. b.depth - 1 = Top(open, Base)
    BY <1>1, <1>7
  <2> QED BY <2>1, <1>5, <1>7, <1>13 DEF BlockFits
<1>15. Emits(k, code, h, code', g, Pending(open, loop_stack), b.depth, b.body)
  BY <1>5, <1>7, <1>11
<1>16. Pending(open, loop_stack) \subseteq Pending(open, loop_stack) \cup {b.jz}
  OBVIOUS
<1>17. Carried(k)'
  BY <1>3, <1>5, <1>7, <1>8, <1>9, <1>14, <1>15, <1>16, OpenedCarried
<1> QED BY <1>9, <1>17

LEMMA ForCondStep ==
  ASSUME NEW k, Shape, Carried(k), ForCond
  PROVE  Shape' /\ Carried(k)'
<1> DEFINE n == Len(code)
           t == Top(open, Base)
           P == Pending(open, loop_stack)
           b == [kind |-> "forcond", jz |-> n + 3, exits |-> {}, start |-> n + 2,
                 saved |-> local_count, body |-> local_count, depth |-> t + 2]
           x == [breaks |-> {}, continues |-> {}, scope_depth |-> current_scope_depth + 1,
                 local_count |-> local_count,
                 lexical |-> current_scope_depth + 1 - current_scope_depth + t]
           c1 == Append(code, I("ENTER"))
           c2 == Append(c1, I("ENTER"))
           d == Append(c2, I("JZ"))
<1>1. local_count \in Nat /\ t \in Nat /\ Lexical = t /\ current_scope_depth \in Int
  BY ShapeTypes DEF Shape
<1>2. code \in Seq(Instr) /\ n \in Nat /\ \E h : Begun(k, h)
  BY Begin
<1>3. PICK h : Begun(k, h)
  BY <1>2
<1>4. I("ENTER") \in Instr /\ I("JZ") \in Instr
  BY Instructions DEF Ops
<1>5. /\ code' = code \o <<I("ENTER"), I("ENTER"), I("JZ")>> /\ open' = Append(open, b)
      /\ local_count' = local_count /\ loop_stack' = Append(loop_stack, x)
      /\ inside_function' = inside_function
      /\ current_scope_depth' = current_scope_depth + 2 /\ marks' = marks \cup {Place}
  BY <1>1 DEF ForCond, Statement, Open, push_loop
<1>6. code' = d
  BY <1>2, <1>4, <1>5, ThreeMore
<1>7. /\ Sound(b) /\ b \in Block /\ IsLoop(b) /\ b.depth = t + Scopes(b)
      /\ b.saved = local_count /\ b.body = local_count /\ b.depth = t + 2
      /\ b.jz = n + 3 /\ b.exits = {} /\ b.kind = "forcond" /\ b.start = n + 2
  BY <1>1, <1>2 DEF Sound, Block, IsLoop, Scopes
<1>8. x \in Loop /\ For(x, b) /\ x.breaks = {} /\ x.continues = {}
  BY <1>1 DEF Loop, For
<1>e. Emits(k, code, h, code, h, P, t, local_count)
  BY <1>3 DEF Begun
<1> HIDE DEF b, x, t, P
<1>9. Shape' /\ Top(open', Base') = b.depth
  BY <1>1, <1>5, <1>7, <1>8, ShapeOpens DEF t
<1>10. /\ Len(c1) = n + 1
       /\ \E g : Emits(k, code, h, c1, g, P, t + 1, local_count)
  BY <1>1, <1>e, EmitEnter
<1>11. PICK g1 : Emits(k, code, h, c1, g1, P, t + 1, local_count)
  BY <1>10
<1> HIDE DEF c1
<1>12. t + 1 \in Nat /\ t + 1 + 1 = t + 2 /\ t + 2 \in Nat /\ n + 1 + 1 = n + 2 /\ n + 2 + 1 = n + 3
  BY <1>1, <1>2
<1>13. /\ Len(c2) = n + 2
       /\ \E g : Emits(k, code, h, c2, g, P, t + 2, local_count) /\ Grows(g1, g, n + 1)
  <2>1. /\ Len(c2) = Len(c1) + 1
        /\ \E g : Emits(k, code, h, c2, g, P, t + 1 + 1, local_count) /\ Grows(g1, g, Len(c1))
    BY <1>1, <1>11, <1>12, EmitEnter
  <2> QED BY <2>1, <1>10, <1>12
<1>14. PICK g2 : Emits(k, code, h, c2, g2, P, t + 2, local_count) /\ Grows(g1, g2, n + 1)
  BY <1>13
<1> HIDE DEF c2
<1>15. /\ Len(d) = n + 3
       /\ \E g : /\ Emits(k, code, h, d, g, P \cup {n + 3}, t + 2, local_count)
                 /\ Grows(g2, g, n + 2)
  <2>1. /\ Len(d) = Len(c2) + 1
        /\ \E g : /\ Emits(k, code, h, d, g, P \cup {Len(c2) + 1}, t + 2, local_count)
                  /\ Grows(g2, g, Len(c2))
    BY <1>1, <1>12, <1>14, EmitBranch
  <2> QED BY <2>1, <1>12, <1>13
<1>16. PICK g : /\ Emits(k, code, h, d, g, P \cup {n + 3}, t + 2, local_count)
                /\ Grows(g2, g, n + 2)
  BY <1>15
<1> HIDE DEF d
<1>17. g[n + 2] = Height(k, t + 1, local_count) /\ n + 2 \in 1 .. n + 3
  <2>1. g1[n + 2] = Height(k, t + 1, local_count)
    BY <1>10, <1>11, <1>12 DEF Emits
  <2>2. n + 2 \in 1 .. n + 1 + 1 /\ n + 2 \in 1 .. n + 2 + 1
    BY <1>2
  <2> QED BY <2>1, <2>2, <1>12, <1>14, <1>16 DEF Grows
<1>18. g[n + 3] = Height(k, t + 2, local_count) /\ n + 3 \in 1 .. n + 3
  <2>1. g2[n + 3] = Height(k, t + 2, local_count)
    BY <1>12, <1>13, <1>14 DEF Emits
  <2>2. n + 3 \in 1 .. n + 2 + 1
    BY <1>2
  <2> QED BY <2>1, <2>2, <1>12, <1>16 DEF Grows
<1>19. BlockFits(k, g, Len(code'), b)
  <2>1. b.depth - 1 = t + 1
    BY <1>1, <1>7
  <2> QED BY <2>1, <1>6, <1>7, <1>15, <1>17, <1>18 DEF BlockFits
<1>20. Emits(k, code, h, code', g, P \cup {b.jz}, b.depth, b.body)
  BY <1>6, <1>7, <1>16
<1>21. P \cup {b.jz} \subseteq Pending(open, loop_stack) \cup {b.jz}
  BY DEF P
<1>22. Carried(k)'
  BY <1>3, <1>5, <1>7, <1>8, <1>9, <1>19, <1>20, <1>21, OpenedCarried
<1> QED BY <1>9, <1>22

LEMMA ForInStep ==
  ASSUME NEW k, Shape, Carried(k), NEW names \in Nat, NEW fresh \in Nat,
         ForIn(names, fresh)
  PROVE  Shape' /\ Carried(k)'
<1> DEFINE n == Len(code)
           t == Top(open, Base)
           P == Pending(open, loop_stack)
           kept == IF inside_function THEN fresh + 2 ELSE 0
           l == local_count + kept
           c1 == Append(code, I("ENTER"))
           c2 == c1 \o Many(kept, "PUSH")
           c3 == Append(c2, I("JZ"))
           c4 == c3 \o Many(names, "IT_SET")
           d == Append(c4, I("ENTER"))
           z == Len(c2) + 1
           b == [kind |-> "forin", jz |-> z, exits |-> {}, start |-> z,
                 saved |-> local_count, body |-> l, depth |-> t + 2]
           x == [breaks |-> {}, continues |-> {}, scope_depth |-> current_scope_depth + 1,
                 local_count |-> l,
                 lexical |-> current_scope_depth + 1 - current_scope_depth + t]
<1>1. local_count \in Nat /\ t \in Nat /\ Lexical = t /\ current_scope_depth \in Int /\ kept \in Nat
  BY ShapeTypes DEF Shape
<1>2. code \in Seq(Instr) /\ n \in Nat /\ \E h : Begun(k, h)
  BY Begin
<1>3. PICK h : Begun(k, h)
  BY <1>2
<1>4. I("ENTER") \in Instr /\ I("JZ") \in Instr
  BY Instructions DEF Ops
<1>a. code \o <<I("ENTER")>> = c1
  BY <1>2, <1>4, OneMore
<1>5. /\ code' = c4 \o <<I("ENTER")>> /\ open' = Append(open, b)
      /\ local_count' = l /\ loop_stack' = Append(loop_stack, x)
      /\ inside_function' = inside_function
      /\ current_scope_depth' = current_scope_depth + 2 /\ marks' = marks \cup {Place}
  <2> DEFINE e == code \o <<I("ENTER")>> \o Many(kept, "PUSH")
  <2>1. e = c2
    BY <1>a
  <2>2. /\ Statement
        /\ code' = Append(e, I("JZ")) \o Many(names, "IT_SET") \o <<I("ENTER")>>
        /\ Open("forin", NextAddr(e), NextAddr(e), local_count + kept, 2)
        /\ push_loop(current_scope_depth + 1, local_count + kept)
    BY DEF ForIn
  <2>3. /\ code' = c4 \o <<I("ENTER")>>
        /\ Open("forin", z, z, l, 2) /\ push_loop(current_scope_depth + 1, l)
    BY <2>1, <2>2 DEF NextAddr
  <2> HIDE DEF e, kept, c1, c2, c3, c4, z, l
  <2>4. Open("forin", z, z, l, 2) => /\ open' = Append(open, b) /\ local_count' = l
                                     /\ current_scope_depth' = current_scope_depth + 2
    BY <1>1 DEF Open
  <2>5. push_loop(current_scope_depth + 1, l) => loop_stack' = Append(loop_stack, x)
    BY <1>1 DEF push_loop
  <2> QED BY <2>2, <2>3, <2>4, <2>5 DEF Statement
<1>e. Emits(k, code, h, code, h, P, t, local_count)
  BY <1>3 DEF Begun
<1> HIDE DEF t, P, kept, b, x
<1>10. \E g : Emits(k, code, h, c1, g, P, t + 1, local_count)
  BY <1>1, <1>e, EmitEnter
<1>11. PICK g1 : Emits(k, code, h, c1, g1, P, t + 1, local_count)
  BY <1>10
<1> HIDE DEF c1
<1>12. /\ t + 1 \in Nat /\ t + 1 + 1 = t + 2 /\ t + 2 \in Nat /\ l \in Nat
       /\ local_count <= l /\ t + 2 - 1 = t + 1
  BY <1>1
<1>13. \E g : Emits(k, code, h, c2, g, P, t + 1, l)
  BY <1>1, <1>11, <1>12, EmitPushes
<1>14. PICK g2 : Emits(k, code, h, c2, g2, P, t + 1, l)
  BY <1>13
<1>15. c2 \in Seq(Instr) /\ Len(c2) \in Nat /\ z \in Nat \ {0}
  BY <1>14 DEF Emits, Flows
<1> HIDE DEF c2, l
<1>16. /\ Len(c3) = z
       /\ \E g : Emits(k, code, h, c3, g, P \cup {z}, t + 1, l) /\ Grows(g2, g, Len(c2))
  BY <1>12, <1>14, EmitBranch
<1>17. PICK g3 : Emits(k, code, h, c3, g3, P \cup {z}, t + 1, l) /\ Grows(g2, g3, Len(c2))
  BY <1>16
<1> HIDE DEF c3
<1>26. \E g : Emits(k, code, h, c4, g, P \cup {z}, t + 1, l) /\ Grows(g3, g, Len(c3))
  BY <1>12, <1>17, EmitIterators
<1>27. PICK g4 : Emits(k, code, h, c4, g4, P \cup {z}, t + 1, l) /\ Grows(g3, g4, z)
  BY <1>16, <1>26
<1>28. c4 \in Seq(Instr) /\ Len(c4) \in Nat
  BY <1>27 DEF Emits, Flows
<1>29. Len(c4) >= z
  <2>1. Len(Many(names, "IT_SET")) \in Nat /\ Many(names, "IT_SET") \in Seq(Instr)
    <3> DEFINE l2 == IF names > 0 THEN names ELSE 0
               op == "IT_SET"
    <3>1. op \in {"PUSH", "POP", "EXIT", "IT_SET"} /\ names \in Int
      OBVIOUS
    <3>2. l2 = IF names > 0 THEN names ELSE 0
      OBVIOUS
    <3> HIDE DEF l2, op
    <3>3. Many(names, op) \in Seq(Instr) /\ l2 \in Nat /\ Len(Many(names, op)) = l2
      BY <3>1, <3>2, ManyIsSeq
    <3> QED BY <3>3 DEF op
  <2>2. c3 \in Seq(Instr) /\ z \in Nat
    BY <1>15, <1>17 DEF Emits, Flows
  <2> QED BY <2>1, <2>2, <1>16, ConcatProperties
<1> HIDE DEF c4
<1>6. code' = d
  BY <1>5, <1>28, <1>4, OneMore
<1>18. /\ Len(d) = Len(c4) + 1
       /\ \E g : Emits(k, code, h, d, g, P \cup {z}, t + 1 + 1, l) /\ Grows(g4, g, Len(c4))
  BY <1>12, <1>27, EmitEnter
<1>19. PICK g : Emits(k, code, h, d, g, P \cup {z}, t + 2, l) /\ Grows(g4, g, Len(c4))
  BY <1>12, <1>18
<1> HIDE DEF d
<1>20. g[z] = Height(k, t + 1, l) /\ z \in 1 .. Len(d)
  <2>1. g2[z] = Height(k, t + 1, l)
    BY <1>14 DEF Emits
  <2>2. /\ z \in 1 .. Len(c2) + 1 /\ z \in 1 .. z + 1 /\ z \in 1 .. Len(c4) + 1
        /\ z \in 1 .. Len(d)
    BY <1>15, <1>18, <1>28, <1>29
  <2> HIDE DEF z
  <2>3. g3[z] = g2[z] /\ g4[z] = g3[z] /\ g[z] = g4[z]
    BY <2>2, <1>17, <1>19, <1>27 DEF Grows
  <2> QED BY <2>1, <2>2, <2>3
<1> HIDE DEF z
<1>7. /\ Sound(b) /\ b \in Block /\ IsLoop(b) /\ b.depth = t + Scopes(b)
      /\ b.saved = local_count /\ b.body = l /\ b.depth = t + 2
      /\ b.jz = z /\ b.exits = {} /\ b.kind = "forin" /\ b.start = z
  BY <1>1, <1>12, <1>15 DEF Sound, Block, IsLoop, Scopes, b
<1>8. x \in Loop /\ For(x, b) /\ x.breaks = {} /\ x.continues = {}
  BY <1>1, <1>12, <1>7 DEF Loop, For, x
<1>9. Shape' /\ Top(open', Base') = b.depth
  BY <1>1, <1>5, <1>7, <1>8, ShapeOpens DEF t
<1>21. BlockFits(k, g, Len(code'), b)
  BY <1>6, <1>7, <1>12, <1>20 DEF BlockFits
<1>22. Emits(k, code, h, code', g, P \cup {b.jz}, b.depth, b.body)
  BY <1>6, <1>7, <1>19
<1>23. P \cup {b.jz} \subseteq Pending(open, loop_stack) \cup {b.jz}
  BY DEF P
<1>24. Carried(k)'
  BY <1>3, <1>5, <1>7, <1>8, <1>9, <1>21, <1>22, <1>23, OpenedCarried
<1> QED BY <1>9, <1>24

-----------------------------------------------------------------------------
(* Blocks close.                                                           *)

(* The body ends in the scope around it, without its own locals. *)
LEMMA BodyEnds ==
  ASSUME NEW k, NEW h, Shape, Begun(k, h), open # <<>>
  PROVE  /\ BodyEnd \in Seq(Instr) /\ Len(BodyEnd) \in Nat
         /\ \E g : Emits(k, code, h, BodyEnd, g, Pending(open, loop_stack),
                         Last(open).depth - 1, Last(open).body)
<1> DEFINE b == Last(open)
           P == Pending(open, loop_stack)
           c == code \o Many(local_count - b.body, "POP")
<1>1. local_count \in Nat /\ Top(open, Base) \in Nat
  BY ShapeTypes
<1>2. Sound(b) /\ b \in Block /\ b.body <= local_count /\ Top(open, Base) = b.depth
  BY ShapeLast
<1>3. b.body \in Nat /\ b.depth \in Nat /\ b.depth >= 1
  BY <1>2 DEF Sound, Block, Scopes
<1>4. Emits(k, code, h, code, h, P, b.depth, local_count)
  BY <1>2 DEF Begun
<1> HIDE DEF b, P
<1>5. PICK g1 : Emits(k, code, h, c, g1, P, b.depth, b.body)
  BY <1>1, <1>2, <1>3, <1>4, EmitPops
<1>6. BodyEnd = c \o <<I("EXIT")>>
  BY DEF BodyEnd, b
<1> HIDE DEF c
<1>7. c \in Seq(Instr) /\ I("EXIT") \in Instr
  BY <1>5, Instructions DEF Ops, Emits, Flows
<1>8. BodyEnd = Append(c, I("EXIT"))
  BY <1>6, <1>7, OneMore
<1>9. PICK g : Emits(k, code, h, Append(c, I("EXIT")), g, P, b.depth - 1, b.body)
  BY <1>3, <1>5, EmitExit
<1>10. Emits(k, code, h, BodyEnd, g, P, b.depth - 1, b.body)
  BY <1>8, <1>9
<1>11. BodyEnd \in Seq(Instr) /\ Len(BodyEnd) \in Nat
  BY <1>10 DEF Emits, Flows
<1> QED BY <1>10, <1>11 DEF b, P

LEMMA ClosedCarried ==
  ASSUME NEW k, NEW h, Shape, Begun(k, h), open # <<>>,
         NEW g, NEW P, NEW s,
         Emits(k, code, h, code', g, P, s, Last(open).saved),
         P \subseteq Pending(open', loop_stack'),
         open' = Front(open), Top(open', Base') = s, local_count' = Last(open).saved,
         \/ loop_stack' = loop_stack
         \/ loop_stack # <<>> /\ loop_stack' = Front(loop_stack),
         marks' = marks \cup {Place}
  PROVE  Carried(k)'
<1>0. open \in Seq(Block) /\ loop_stack \in Seq(Loop)
  BY ShapeTypes
<1>1. /\ BlocksFit(k, g, Len(code'), open) /\ LoopsFit(k, g, Len(code'), loop_stack)
      /\ MarksFit(k, g, Len(code'), marks \cup {Place})
  BY FitsOn DEF Begun
<1>2. BlocksFit(k, g, Len(code'), Front(open))
  BY <1>0, <1>1, BlocksFitClose
<1>3. LoopsFit(k, g, Len(code'), loop_stack')
  BY <1>0, <1>1, LoopsFitExit
<1>4. Carries(k, code', open', loop_stack', marks \cup {Place}, s, Last(open).saved)
  BY <1>1, <1>2, <1>3, EmitCarries
<1> QED BY <1>4 DEF Carried

LEMMA CloseIfStep ==
  ASSUME NEW k, Shape, Carried(k), CloseIf
  PROVE  Shape' /\ Carried(k)'
<1> DEFINE b == Last(open)
           P == Pending(open, loop_stack)
           A == b.exits \cup {b.jz}
           t == Len(BodyEnd) + 1
           s == b.depth - 1
<1>1. /\ open # <<>> /\ b.kind \in {"if", "else"}
      /\ code' = Patch(BodyEnd, A, t)
      /\ loop_stack' = loop_stack /\ open' = Front(open) /\ local_count' = b.saved
      /\ inside_function' = inside_function
      /\ current_scope_depth' = current_scope_depth - 1 /\ marks' = marks \cup {Place}
  BY DEF CloseIf, In, Close, NextAddr
<1>2. open \in Seq(Block) /\ current_scope_depth \in Int
  BY ShapeTypes DEF Shape
<1>3. Sound(b) /\ b \in Block
  BY <1>1, ShapeLast
<1>4. ~ IsLoop(b) /\ Scopes(b) = 1 /\ b.body = b.saved
  BY <1>1, <1>3 DEF IsLoop, Scopes, Sound
<1>5. Shape' /\ Top(open', Base') = b.depth - 1
  BY <1>1, <1>2, <1>4, ShapeCloses
<1>6. PICK h : Begun(k, h)
  BY Begin
<1>7. Len(BodyEnd) \in Nat /\ \E g : Emits(k, code, h, BodyEnd, g, P, b.depth - 1, b.body)
  BY <1>1, <1>6, BodyEnds
<1>8. PICK g : Emits(k, code, h, BodyEnd, g, P, b.depth - 1, b.body)
  BY <1>7
<1>9. BlockFits(k, h, Len(code), b)
  BY <1>1, <1>2, <1>6, BlocksFitClose DEF Begun
<1>10. BlockFits(k, g, Len(BodyEnd), b)
  BY <1>8, <1>9, FitsOn
<1>11. g[t] = Height(k, b.depth - 1, b.body) /\ t \in 1 .. Len(BodyEnd) + 1
  BY <1>7, <1>8 DEF Emits
<1>12. ASSUME NEW a \in A, a \in 1 .. Len(BodyEnd) PROVE g[a] = g[t]
  <2>1. CASE a \in b.exits
    BY <2>1, <1>4, <1>10, <1>11 DEF BlockFits
  <2>2. CASE a = b.jz
    <3>1. b.jz # 0 /\ b.kind # "forcond"
      BY <2>2, <1>1, <1>12, <1>7
    <3> QED BY <2>2, <3>1, <1>10, <1>11 DEF BlockFits
  <2> QED BY <2>1, <2>2
<1>13. Level(g, Len(BodyEnd), A, t)
  BY <1>11, <1>12 DEF Level
<1> HIDE DEF A, t, P
<1>14. Emits(k, code, h, code', g, P \ A, s, b.saved)
  BY <1>1, <1>4, <1>8, <1>13, EmitPatch
<1>15. P \ A \subseteq Pending(open', loop_stack')
  BY <1>1, <1>2, PendingClose DEF P, A, BlockJumps
<1> HIDE DEF s
<1>16. Carried(k)'
  <2>1. Top(open', Base') = s
    BY <1>5 DEF s
  <2>2. \/ loop_stack' = loop_stack
        \/ loop_stack # <<>> /\ loop_stack' = Front(loop_stack)
    BY <1>1
  <2> QED BY <1>1, <1>6, <1>14, <1>15, <2>1, <2>2, ClosedCarried
<1> QED BY <1>5, <1>16

(* A loop is closed: its jumps are patched.                                *)
LEMMA LoopClosed ==
  ASSUME NEW k, NEW h, Shape, Begun(k, h), open # <<>>, IsLoop(Last(open)),
         NEW c, NEW g, NEW P,
         Emits(k, code, h, c, g, P, Last(open).depth - Scopes(Last(open)), Last(open).saved),
         P \subseteq Pending(open, loop_stack), Last(open).jz = 0 \/ Last(open).jz \notin P,
         NEW ct \in 1 .. Len(c) + 1, g[ct] = Height(k, Last(open).depth - 1, Last(open).body),
         NEW bt \in 1 .. Len(c) + 1, g[bt] = Height(k, Last(open).depth - 1, Last(open).body),
         pop_loop(c, ct, bt), NEW e \in Int, Close(e)
  PROVE  Shape' /\ Carried(k)'
<1> DEFINE b == Last(open)
           x == Last(loop_stack)
           s == b.depth - Scopes(b)
           c1 == Patch(c, x.continues, ct)
<1>1. /\ code' = Patch(c1, x.breaks, bt)
      /\ loop_stack' = Front(loop_stack) /\ open' = Front(open) /\ local_count' = b.saved
      /\ inside_function' = inside_function
      /\ current_scope_depth' = current_scope_depth - e /\ marks' = marks \cup {Place}
  BY DEF pop_loop, Patched, Close
<1>2. open \in Seq(Block) /\ loop_stack \in Seq(Loop) /\ current_scope_depth \in Int
  BY ShapeTypes DEF Shape
<1>3. Sound(b) /\ b \in Block /\ loop_stack # <<>> /\ For(x, b)
  BY ShapeLast
<1>4. b.exits = {}
  BY <1>3 DEF Sound, IsLoop
<1>5. Shape' /\ Top(open', Base') = s
  BY <1>1, <1>2, ShapeCloses
<1>6. LoopFits(k, h, Len(code), x)
  BY <1>2, <1>3, LoopsFitExit DEF Begun
<1>7. LoopsFit(k, g, Len(c), loop_stack)
  BY FitsOn DEF Begun
<1>8. LoopFits(k, g, Len(c), x)
  BY <1>2, <1>3, <1>7, LoopsFitExit
<1>9. \A a \in x.breaks \cup x.continues : g[a] = Height(k, b.depth - 1, b.body)
  BY <1>3, <1>8 DEF LoopFits, For
<1>10. Level(g, Len(c), x.continues, ct) /\ Level(g, Len(c), x.breaks, bt)
  BY <1>9 DEF Level
<1> HIDE DEF x, s
<1>11. Len(c1) = Len(c) /\ Emits(k, code, h, c1, g, P \ x.continues, s, b.saved)
  BY <1>10, EmitPatch DEF s
<1> HIDE DEF c1
<1>12. Emits(k, code, h, code', g, (P \ x.continues) \ x.breaks, s, b.saved)
  BY <1>1, <1>10, <1>11, EmitPatch
<1>13. (P \ x.continues) \ x.breaks \subseteq Pending(open', loop_stack')
  <2>1. Pending(open, loop_stack) \subseteq Pending(open, Front(loop_stack)) \cup LoopJumps(x)
    BY <1>2, <1>3, PendingExit DEF x
  <2>2. Pending(open, Front(loop_stack))
          \subseteq Pending(Front(open), Front(loop_stack)) \cup BlockJumps(b)
    BY <1>2, PendingClose
  <2>3. 0 \in Pending(Front(open), Front(loop_stack))
    BY DEF Pending
  <2> QED BY <2>1, <2>2, <2>3, <1>1, <1>4 DEF LoopJumps, BlockJumps
<1>14. Carried(k)'
  BY <1>1, <1>3, <1>5, <1>12, <1>13, ClosedCarried
<1> QED BY <1>5, <1>14

LEMMA CloseForeverStep ==
  ASSUME NEW k, Shape, Carried(k), CloseForever
  PROVE  Shape' /\ Carried(k)'
<1> DEFINE b == Last(open)
           P == Pending(open, loop_stack)
           x == To("JMP", b.start)
           c == Append(BodyEnd, x)
<1>1. /\ open # <<>> /\ b.kind = "forever"
      /\ pop_loop(c, b.start, Len(c) + 1) /\ Close(1)
  BY DEF CloseForever, In, NextAddr
<1>2. open \in Seq(Block)
  BY ShapeTypes
<1>3. Sound(b) /\ b \in Block
  BY <1>1, ShapeLast
<1>4. /\ IsLoop(b) /\ Scopes(b) = 1 /\ b.body = b.saved /\ b.jz = 0
      /\ b.body \in Nat /\ b.depth \in Nat /\ b.depth >= 1
  BY <1>1, <1>3 DEF IsLoop, Scopes, Sound, Block
<1>6. PICK h : Begun(k, h)
  BY Begin
<1>7. Len(BodyEnd) \in Nat /\ \E g : Emits(k, code, h, BodyEnd, g, P, b.depth - 1, b.body)
  BY <1>1, <1>6, BodyEnds
<1>8. PICK g1 : Emits(k, code, h, BodyEnd, g1, P, b.depth - 1, b.body)
  BY <1>7
<1>9. BlockFits(k, h, Len(code), b)
  BY <1>1, <1>2, <1>6, BlocksFitClose DEF Begun
<1>10. BlockFits(k, g1, Len(BodyEnd), b)
  BY <1>8, <1>9, FitsOn
<1>11. g1[b.start] = Height(k, b.depth - 1, b.body) /\ b.start \in 1 .. Len(BodyEnd)
  BY <1>4, <1>10 DEF BlockFits
<1>12. b.start \in 1 .. Len(BodyEnd) + 1 /\ b.depth - 1 \in Nat
  BY <1>4, <1>7, <1>11
<1>13. /\ Len(c) = Len(BodyEnd) + 1
       /\ \A s2, l2 \in Nat : \E f : /\ Emits(k, code, h, c, f, P, s2, l2)
                                     /\ Grows(g1, f, Len(BodyEnd))
  <2> DEFINE t == b.depth - 1
  <2>1. /\ t \in Nat /\ Emits(k, code, h, BodyEnd, g1, P, t, b.body)
        /\ b.body \in Nat /\ Back(k, BodyEnd, g1, b.start, t, b.body)
    BY <1>4, <1>8, <1>11, <1>12 DEF Back
  <2> HIDE DEF t, P, b
  <2> QED BY <2>1, EmitBack
<1>14. PICK g : /\ Emits(k, code, h, c, g, P, b.depth - 1, b.body)
                /\ Grows(g1, g, Len(BodyEnd))
  BY <1>4, <1>12, <1>13
<1> HIDE DEF c, P
<1>15. /\ g[b.start] = Height(k, b.depth - 1, b.body) /\ b.start \in 1 .. Len(c) + 1
  BY <1>7, <1>11, <1>12, <1>13, <1>14 DEF Grows
<1>16. g[Len(c) + 1] = Height(k, b.depth - 1, b.body) /\ Len(c) + 1 \in 1 .. Len(c) + 1
  BY <1>7, <1>13, <1>14 DEF Emits
<1>17. Emits(k, code, h, c, g, P, b.depth - Scopes(b), b.saved)
  BY <1>4, <1>14
<1>18. P \subseteq Pending(open, loop_stack) /\ (b.jz = 0 \/ b.jz \notin P)
  BY <1>4 DEF P
<1>19. 1 \in Int
  OBVIOUS
<1> DEFINE bt == Len(c) + 1
<1>20. bt \in 1 .. Len(c) + 1 /\ g[bt] = Height(k, b.depth - 1, b.body) /\ pop_loop(c, b.start, bt)
  BY <1>1, <1>16
<1> HIDE DEF bt
<1> QED BY <1>1, <1>4, <1>6, <1>15, <1>17, <1>18, <1>19, <1>20, LoopClosed

LEMMA CloseForCondStep ==
  ASSUME NEW k, Shape, Carried(k), CloseForCond
  PROVE  Shape' /\ Carried(k)'
<1> DEFINE b == Last(open)
           P == Pending(open, loop_stack)
           x == To("JMP", b.start)
           c == Append(BodyEnd, x)
           r == Patch(c, {b.jz}, Len(c) + 1)
           d == Append(r, I("EXIT"))
           e == Append(d, I("EXIT"))
           ct == Len(BodyEnd) + 1
           bt == Len(d) + 1
<1>1. /\ open # <<>> /\ b.kind = "forcond"
      /\ pop_loop(e, ct, bt) /\ Close(3)
  BY DEF CloseForCond, In, NextAddr
<1>2. open \in Seq(Block)
  BY ShapeTypes
<1>3. Sound(b) /\ b \in Block
  BY <1>1, ShapeLast
<1>4. /\ IsLoop(b) /\ Scopes(b) = 2 /\ b.body = b.saved
      /\ b.body \in Nat /\ b.depth \in Nat /\ b.depth >= 2 /\ b.jz \in Nat
  BY <1>1, <1>3 DEF IsLoop, Scopes, Sound, Block
<1>6. PICK h : Begun(k, h)
  BY Begin
<1>7. Len(BodyEnd) \in Nat /\ \E g : Emits(k, code, h, BodyEnd, g, P, b.depth - 1, b.body)
  BY <1>1, <1>6, BodyEnds
<1>8. PICK g1 : Emits(k, code, h, BodyEnd, g1, P, b.depth - 1, b.body)
  BY <1>7
<1>9. BlockFits(k, h, Len(code), b)
  BY <1>1, <1>2, <1>6, BlocksFitClose DEF Begun
<1>10. BlockFits(k, g1, Len(BodyEnd), b)
  BY <1>8, <1>9, FitsOn
<1>11. /\ g1[b.start] = Height(k, b.depth - 1, b.body) /\ b.start \in 1 .. Len(BodyEnd)
       /\ b.jz # 0 => g1[b.jz] = Height(k, b.depth, b.body) /\ b.jz \in 1 .. Len(BodyEnd)
  BY <1>1, <1>4, <1>10 DEF BlockFits
<1>12. /\ b.start \in 1 .. Len(BodyEnd) + 1 /\ b.depth - 1 \in Nat /\ b.depth - 2 \in Nat
       /\ b.depth - 1 - 1 = b.depth - 2 /\ b.depth - 1 >= 1
  BY <1>4, <1>7, <1>11
<1>13. /\ Len(c) = Len(BodyEnd) + 1
       /\ \A s2, l2 \in Nat : \E f : /\ Emits(k, code, h, c, f, P, s2, l2)
                                     /\ Grows(g1, f, Len(BodyEnd))
  <2> DEFINE t == b.depth - 1
  <2>1. /\ t \in Nat /\ Emits(k, code, h, BodyEnd, g1, P, t, b.body)
        /\ b.body \in Nat /\ Back(k, BodyEnd, g1, b.start, t, b.body)
    BY <1>4, <1>8, <1>11, <1>12 DEF Back
  <2> HIDE DEF t, P, b
  <2> QED BY <2>1, EmitBack
<1>14. PICK g2 : Emits(k, code, h, c, g2, P, b.depth, b.body) /\ Grows(g1, g2, Len(BodyEnd))
  BY <1>4, <1>13
<1> HIDE DEF c, P
<1>15. Level(g2, Len(c), {b.jz}, Len(c) + 1)
  <2>1. g2[Len(c) + 1] = Height(k, b.depth, b.body) /\ Len(c) \in Nat
    BY <1>14 DEF Emits
  <2>2. ASSUME b.jz \in 1 .. Len(c) PROVE g2[b.jz] = Height(k, b.depth, b.body)
    <3>1. b.jz # 0
      BY <2>1, <2>2
    <3>2. b.jz \in 1 .. Len(BodyEnd) + 1
      BY <3>1, <1>7, <1>11
    <3> QED BY <3>1, <3>2, <1>11, <1>14 DEF Grows
  <2> QED BY <2>1, <2>2 DEF Level
<1>16. Len(r) = Len(c) /\ Emits(k, code, h, r, g2, P \ {b.jz}, b.depth, b.body)
  BY <1>14, <1>15, EmitPatch
<1> HIDE DEF r
<1>17. b.depth >= 1
  BY <1>4
<1>18. /\ Len(d) = Len(r) + 1
       /\ \E f : /\ Emits(k, code, h, d, f, P \ {b.jz}, b.depth - 1, b.body)
                 /\ Grows(g2, f, Len(r))
  BY <1>4, <1>16, <1>17, EmitExit
<1>19. PICK g3 : /\ Emits(k, code, h, d, g3, P \ {b.jz}, b.depth - 1, b.body)
                 /\ Grows(g2, g3, Len(r))
  BY <1>18
<1> HIDE DEF d
<1> DEFINE t == b.depth - 1
<1>20. /\ Len(e) = Len(d) + 1
       /\ \E f : /\ Emits(k, code, h, e, f, P \ {b.jz}, t - 1, b.body)
                 /\ Grows(g3, f, Len(d))
  <2>1. t \in Nat /\ t >= 1 /\ Emits(k, code, h, d, g3, P \ {b.jz}, t, b.body)
    BY <1>12, <1>19
  <2> HIDE DEF t
  <2> QED BY <2>1, <1>4, EmitExit
<1>21. PICK g : /\ Emits(k, code, h, e, g, P \ {b.jz}, b.depth - 2, b.body)
                /\ Grows(g3, g, Len(d))
  BY <1>12, <1>20
<1> HIDE DEF e
<1>22. /\ Len(d) = Len(BodyEnd) + 2 /\ Len(e) = Len(BodyEnd) + 3
       /\ Len(r) = Len(BodyEnd) + 1
  BY <1>7, <1>13, <1>16, <1>18, <1>20
<1>23. g[ct] = Height(k, b.depth - 1, b.body) /\ ct \in 1 .. Len(e) + 1
  <2>1. g1[ct] = Height(k, b.depth - 1, b.body)
    BY <1>8 DEF Emits
  <2>2. ct \in 1 .. Len(BodyEnd) + 1 /\ ct \in 1 .. Len(r) + 1 /\ ct \in 1 .. Len(d) + 1
        /\ ct \in 1 .. Len(e) + 1
    BY <1>7, <1>22
  <2> HIDE DEF ct
  <2> QED BY <2>1, <2>2, <1>14, <1>19, <1>21 DEF Grows
<1>24. g[bt] = Height(k, b.depth - 1, b.body) /\ bt \in 1 .. Len(e) + 1
  <2>1. g3[bt] = Height(k, b.depth - 1, b.body)
    BY <1>19 DEF Emits
  <2>2. bt \in 1 .. Len(d) + 1 /\ bt \in 1 .. Len(e) + 1
    BY <1>7, <1>22
  <2> HIDE DEF bt
  <2> QED BY <2>1, <2>2, <1>21 DEF Grows
<1> HIDE DEF ct, bt
<1> DEFINE Q == P \ {b.jz}
<1>25. Emits(k, code, h, e, g, Q, b.depth - Scopes(b), b.saved)
  BY <1>4, <1>21
<1>26. Q \subseteq Pending(open, loop_stack) /\ (b.jz = 0 \/ b.jz \notin Q)
  BY DEF P
<1>27. 3 \in Int
  OBVIOUS
<1> HIDE DEF Q
<1> QED BY <1>1, <1>4, <1>6, <1>23, <1>24, <1>25, <1>26, <1>27, LoopClosed

LEMMA CloseForInStep ==
  ASSUME NEW k, Shape, Carried(k), CloseForIn
  PROVE  Shape' /\ Carried(k)'
<1> DEFINE b == Last(open)
           P == Pending(open, loop_stack)
           x == To("JMP", b.start)
           c == Append(BodyEnd, x)
           r == Patch(c, {b.jz}, Len(c) + 1)
           q == r \o Many(b.body - b.saved, "POP")
           y == q \o <<I("EXIT")>>
           e == Append(q, I("EXIT"))
           ct == Len(BodyEnd) + 1
           bt == Len(c) + 1
           t == b.depth - 1
<1>1. /\ open # <<>> /\ b.kind = "forin"
      /\ pop_loop(y, ct, bt) /\ Close(2)
  BY DEF CloseForIn, In, NextAddr
<1>2. open \in Seq(Block)
  BY ShapeTypes
<1>3. Sound(b) /\ b \in Block
  BY <1>1, ShapeLast
<1>4. /\ IsLoop(b) /\ Scopes(b) = 2 /\ b.saved <= b.body
      /\ b.body \in Nat /\ b.saved \in Nat /\ b.depth \in Nat /\ b.depth >= 2 /\ b.jz \in Nat
      /\ t \in Nat /\ t >= 1 /\ t - 1 = b.depth - Scopes(b)
  BY <1>1, <1>3 DEF IsLoop, Scopes, Sound, Block
<1>6. PICK h : Begun(k, h)
  BY Begin
<1>7. Len(BodyEnd) \in Nat /\ \E g : Emits(k, code, h, BodyEnd, g, P, t, b.body)
  BY <1>1, <1>6, BodyEnds
<1>8. PICK g1 : Emits(k, code, h, BodyEnd, g1, P, t, b.body)
  BY <1>7
<1>9. BlockFits(k, h, Len(code), b)
  BY <1>1, <1>2, <1>6, BlocksFitClose DEF Begun
<1>10. BlockFits(k, g1, Len(BodyEnd), b)
  BY <1>8, <1>9, FitsOn
<1>11. /\ g1[b.start] = Height(k, t, b.body) /\ b.start \in 1 .. Len(BodyEnd)
       /\ b.jz # 0 => g1[b.jz] = Height(k, t, b.body) /\ b.jz \in 1 .. Len(BodyEnd)
  BY <1>1, <1>4, <1>10 DEF BlockFits
<1>12. Back(k, BodyEnd, g1, b.start, t, b.body)
  BY <1>7, <1>11 DEF Back
<1> HIDE DEF t, P
<1>13. /\ Len(c) = Len(BodyEnd) + 1
       /\ \A s2, l2 \in Nat : \E f : /\ Emits(k, code, h, c, f, P, s2, l2)
                                     /\ Grows(g1, f, Len(BodyEnd))
  BY <1>4, <1>8, <1>12, EmitBack
<1>14. PICK g2 : Emits(k, code, h, c, g2, P, t, b.body) /\ Grows(g1, g2, Len(BodyEnd))
  BY <1>4, <1>13
<1> HIDE DEF c
<1>15. Level(g2, Len(c), {b.jz}, bt)
  <2>1. g2[bt] = Height(k, t, b.body) /\ Len(c) \in Nat
    BY <1>14 DEF Emits
  <2>2. ASSUME b.jz \in 1 .. Len(c) PROVE g2[b.jz] = Height(k, t, b.body)
    <3>1. b.jz # 0
      BY <2>1, <2>2
    <3>2. b.jz \in 1 .. Len(BodyEnd) + 1
      BY <3>1, <1>7, <1>11
    <3> QED BY <3>1, <3>2, <1>11, <1>14 DEF Grows
  <2> QED BY <2>1, <2>2 DEF Level
<1>16. Len(r) = Len(c) /\ Emits(k, code, h, r, g2, P \ {b.jz}, t, b.body)
  BY <1>14, <1>15, EmitPatch
<1> HIDE DEF r
<1>17. PICK g3 : Emits(k, code, h, q, g3, P \ {b.jz}, t, b.saved) /\ Grows(g2, g3, Len(r))
  BY <1>4, <1>16, EmitPops
<1> HIDE DEF q
<1>18. q \in Seq(Instr) /\ Len(q) \in Nat /\ I("EXIT") \in Instr
  BY <1>17, Instructions DEF Ops, Emits, Flows
<1>19. y = e
  BY <1>18, OneMore
<1> HIDE DEF y
<1>20. /\ Len(e) = Len(q) + 1
       /\ \E f : Emits(k, code, h, e, f, P \ {b.jz}, t - 1, b.saved) /\ Grows(g3, f, Len(q))
  BY <1>4, <1>17, EmitExit
<1>21. PICK g : Emits(k, code, h, e, g, P \ {b.jz}, t - 1, b.saved) /\ Grows(g3, g, Len(q))
  BY <1>20
<1> HIDE DEF e
<1>22. Len(r) = Len(BodyEnd) + 1 /\ Len(c) = Len(BodyEnd) + 1 /\ Len(q) >= Len(r)
  <2>1. Len(q) >= Len(r)
    <3>1. r \in Seq(Instr) /\ b.body - b.saved \in Int
      BY <1>4, <1>16 DEF Emits, Flows
    <3> DEFINE i == b.body - b.saved
    <3>2. PICK j \in Nat : j = IF i > 0 THEN i ELSE 0
      BY <3>1
    <3>3. Many(i, "POP") \in Seq(Instr) /\ Len(Many(i, "POP")) = j
      BY <3>1, <3>2, ManyIsSeq
    <3> HIDE DEF i
    <3>4. Len(q) = Len(r) + j
      BY <3>1, <3>3, ConcatProperties DEF q, i
    <3>5. Len(r) \in Nat
      BY <1>7, <1>13, <1>16
    <3> QED BY <3>4, <3>5
  <2> QED BY <2>1, <1>13, <1>16
<1>23. g[ct] = Height(k, t, b.body) /\ ct \in 1 .. Len(e) + 1
  <2>1. g1[ct] = Height(k, t, b.body)
    BY <1>8 DEF Emits
  <2>2. ct \in 1 .. Len(BodyEnd) + 1 /\ ct \in 1 .. Len(r) + 1 /\ ct \in 1 .. Len(q) + 1
        /\ ct \in 1 .. Len(e) + 1
    BY <1>7, <1>18, <1>20, <1>22
  <2> HIDE DEF ct
  <2> QED BY <2>1, <2>2, <1>14, <1>17, <1>21 DEF Grows
<1>24. g[bt] = Height(k, t, b.body) /\ bt \in 1 .. Len(e) + 1
  <2>1. g2[bt] = Height(k, t, b.body)
    BY <1>14 DEF Emits
  <2>2. bt \in 1 .. Len(r) + 1 /\ bt \in 1 .. Len(q) + 1 /\ bt \in 1 .. Len(e) + 1
    BY <1>7, <1>18, <1>20, <1>22
  <2> HIDE DEF bt
  <2> QED BY <2>1, <2>2, <1>17, <1>21 DEF Grows
<1> HIDE DEF ct, bt
<1> DEFINE Q == P \ {b.jz}
<1>25. Emits(k, code, h, e, g, Q, b.depth - Scopes(b), b.saved)
  BY <1>4, <1>21
<1>26. Q \subseteq Pending(open, loop_stack) /\ (b.jz = 0 \/ b.jz \notin Q)
  BY DEF P
<1>27. 2 \in Int /\ pop_loop(e, ct, bt)
  BY <1>1, <1>19 DEF pop_loop
<1>28. g[ct] = Height(k, b.depth - 1, b.body) /\ g[bt] = Height(k, b.depth - 1, b.body)
  BY <1>23, <1>24 DEF t
<1> HIDE DEF Q
<1> QED BY <1>1, <1>4, <1>6, <1>23, <1>24, <1>25, <1>26, <1>27, <1>28, LoopClosed

-----------------------------------------------------------------------------
(* elif and else: one block closes, another opens.                         *)

LEMMA ShapeBranches ==
  ASSUME Shape, open # <<>>, Last(open).kind = "if",
         NEW d, Sound(d), d.kind \in {"if", "else"}, d.depth = Last(open).depth,
         d.saved = Last(open).saved,
         open' = Append(Front(open), d), inside_function' = inside_function,
         loop_stack' = loop_stack, local_count' = d.body, current_scope_depth' \in Int
  PROVE  Shape' /\ Top(open', Base') = d.depth
<1> DEFINE b == Last(open)
           cs == Front(open)
<1>1. Base' = Base
  BY DEF Base
<1>2. Nested(open, Base, local_count) /\ \E m : Owned(open, loop_stack, m)
  BY DEF Shape
<1>3. Sound(b) /\ b \in Block
  BY ShapeLast
<1>4. Nested(cs, Base, b.saved) /\ Top(cs, Base) = b.depth - Scopes(b)
  BY <1>2, NestedClose
<1>5. d \in Block /\ Scopes(b) = 1 /\ Scopes(d) = 1 /\ ~ IsLoop(b) /\ ~ IsLoop(d) /\ b.depth \in Nat
  BY <1>3 DEF Sound, Scopes, IsLoop, Block
<1> HIDE DEF b, cs
<1>6. d.depth = Top(cs, Base) + Scopes(d) /\ d.saved = b.saved
  BY <1>4, <1>5 DEF b
<1>7. Nested(Append(cs, d), Base, d.body) /\ Top(Append(cs, d), Base) = d.depth
  BY <1>4, <1>6, NestedOpen
<1>8. PICK m : Owned(open, loop_stack, m)
  BY <1>2
<1>9. Owned(cs, loop_stack, m)
  BY <1>5, <1>8, OwnedClose DEF b, cs
<1>10. Owned(Append(cs, d), loop_stack, m)
  BY <1>5, <1>9, OwnedOpen
<1>11. open' = Append(cs, d)
  BY DEF cs
<1>12. Nested(open', Base', local_count') /\ Owned(open', loop_stack', m)
       /\ Top(open', Base') = d.depth
  BY <1>1, <1>7, <1>10, <1>11
<1>13. Shape'
  BY <1>12 DEF Shape
<1> QED BY <1>12, <1>13

(* The branch before has jumped to the end, and its own JZ comes here.     *)
BranchEnd == Append(BodyEnd, I("JMP"))
Rejoined  == Patch(BranchEnd, {Last(open).jz}, Len(BranchEnd) + 1)

LEMMA BranchEnds ==
  ASSUME NEW k, NEW h, Shape, Begun(k, h), open # <<>>, Last(open).kind = "if"
  PROVE  /\ Rejoined \in Seq(Instr) /\ Len(Rejoined) = Len(BranchEnd)
         /\ Len(BranchEnd) \in Nat \ {0}
         /\ \E g : /\ Emits(k, code, h, Rejoined, g,
                            (Pending(open, loop_stack) \cup {Len(BranchEnd)}) \ {Last(open).jz},
                            Last(open).depth - 1, Last(open).body)
                   /\ g[Len(BranchEnd)] = Height(k, Last(open).depth - 1, Last(open).body)
<1> DEFINE b == Last(open)
           P == Pending(open, loop_stack)
           t == b.depth - 1
           c == BranchEnd
           r == Rejoined
<1>2. open \in Seq(Block)
  BY ShapeTypes
<1>3. Sound(b) /\ b \in Block
  BY ShapeLast
<1>4. b.body \in Nat /\ t \in Nat /\ b.kind # "forcond" /\ b.jz \in Nat
  BY <1>3 DEF Scopes, Sound, Block
<1>7. Len(BodyEnd) \in Nat /\ \E g : Emits(k, code, h, BodyEnd, g, P, t, b.body)
  BY BodyEnds
<1>8. PICK g1 : Emits(k, code, h, BodyEnd, g1, P, t, b.body)
  BY <1>7
<1>9. BlockFits(k, h, Len(code), b)
  BY <1>2, BlocksFitClose DEF Begun
<1>10. BlockFits(k, g1, Len(BodyEnd), b)
  BY <1>8, <1>9, FitsOn
<1>11. b.jz # 0 => g1[b.jz] = Height(k, t, b.body) /\ b.jz \in 1 .. Len(BodyEnd)
  BY <1>4, <1>10 DEF BlockFits
<1> HIDE DEF t, P, b
<1>13. /\ Len(c) = Len(BodyEnd) + 1
       /\ \A s2, l2 \in Nat : \E f : /\ Emits(k, code, h, c, f, P \cup {Len(BodyEnd) + 1}, s2, l2)
                                     /\ Grows(g1, f, Len(BodyEnd))
  BY <1>4, <1>8, EmitLeave DEF BranchEnd
<1>14. PICK g : /\ Emits(k, code, h, c, g, P \cup {Len(c)}, t, b.body)
                /\ Grows(g1, g, Len(BodyEnd))
  BY <1>4, <1>13
<1>15. Len(c) \in Nat \ {0}
  BY <1>7, <1>13
<1>16. Level(g, Len(c), {b.jz}, Len(c) + 1)
  <2>1. g[Len(c) + 1] = Height(k, t, b.body) /\ Len(c) \in Nat
    BY <1>14 DEF Emits
  <2>2. ASSUME b.jz \in 1 .. Len(c) PROVE g[b.jz] = Height(k, t, b.body)
    <3>1. b.jz # 0
      BY <2>1, <2>2
    <3>2. b.jz \in 1 .. Len(BodyEnd) + 1
      BY <3>1, <1>7, <1>11
    <3> QED BY <3>1, <3>2, <1>11, <1>14 DEF Grows
  <2> QED BY <2>1, <2>2 DEF Level
<1>17. /\ Len(r) = Len(c)
       /\ Emits(k, code, h, r, g, (P \cup {Len(c)}) \ {b.jz}, t, b.body)
  <2> DEFINE A == {b.jz}
             u == Len(c) + 1
             Q == P \cup {Len(c)}
             q == Patch(c, A, u)
  <2>1. r = q
    BY DEF b, Rejoined
  <2>2. Level(g, Len(c), A, u) /\ Emits(k, code, h, c, g, Q, t, b.body)
    BY <1>14, <1>16
  <2> HIDE DEF A, u, Q
  <2>3. Len(q) = Len(c) /\ Emits(k, code, h, q, g, Q \ A, t, b.body)
    BY <2>2, EmitPatch
  <2> QED BY <2>1, <2>3 DEF Q, A
<1>18. g[Len(c)] = Height(k, t, b.body)
  <2>1. g1[Len(BodyEnd) + 1] = Height(k, t, b.body)
    BY <1>8 DEF Emits
  <2>2. Len(BodyEnd) + 1 \in 1 .. Len(BodyEnd) + 1
    BY <1>7
  <2> QED BY <2>1, <2>2, <1>13, <1>14 DEF Grows
<1>19. r \in Seq(Instr)
  BY <1>17 DEF Emits, Flows
<1> QED BY <1>15, <1>17, <1>18, <1>19 DEF t, P, b

LEMMA BranchCarried ==
  ASSUME NEW k, NEW h, Shape, Begun(k, h), open # <<>>, Last(open).kind = "if",
         NEW d \in Block, NEW z, NEW g, NEW P,
         Emits(k, code, h, code', g, P, d.depth, d.body),
         P \subseteq (Pending(open, loop_stack) \ {Last(open).jz}) \cup BlockJumps(d),
         Last(open).exits \subseteq d.exits,
         BlockFits(k, g, Len(code'), d), MarkFits(k, g, Len(code'), z),
         open' = Append(Front(open), d), Top(open', Base') = d.depth, local_count' = d.body,
         loop_stack' = loop_stack, marks' = marks \cup {Place, z}
  PROVE  Carried(k)'
<1>0. open \in Seq(Block) /\ loop_stack \in Seq(Loop)
  BY ShapeTypes
<1>1. /\ BlocksFit(k, g, Len(code'), open) /\ LoopsFit(k, g, Len(code'), loop_stack)
      /\ MarksFit(k, g, Len(code'), marks \cup {Place})
  BY FitsOn DEF Begun
<1>2. BlocksFit(k, g, Len(code'), Front(open)) /\ Front(open) \in Seq(Block)
  BY <1>0, <1>1, BlocksFitClose, Fronts
<1>3. BlocksFit(k, g, Len(code'), open')
  BY <1>2, BlocksFitOpen
<1>4. P \subseteq Pending(open', loop_stack')
  <2>1. Pending(open, loop_stack) \subseteq Pending(Front(open), loop_stack) \cup BlockJumps(Last(open))
    BY <1>0, PendingClose
  <2>2. Pending(Front(open), loop_stack) \cup BlockJumps(d) \subseteq Pending(open', loop_stack')
    BY <1>2, PendingOpen
  <2> QED BY <2>1, <2>2 DEF BlockJumps
<1>5. MarksFit(k, g, Len(code'), marks')
  BY <1>1 DEF MarksFit
<1>6. Carries(k, code', open', loop_stack', marks', d.depth, d.body)
  BY <1>1, <1>3, <1>4, <1>5, EmitCarries
<1> QED BY <1>6 DEF Carried

LEMMA ElseIfStep ==
  ASSUME NEW k, Shape, Carried(k), ElseIf
  PROVE  Shape' /\ Carried(k)'
<1> DEFINE b == Last(open)
           c == Append(BodyEnd, I("JMP"))
           n == Len(c)
           r == Patch(c, {b.jz}, n + 1)
           q == Append(r, I("JZ"))
           e == Append(q, I("ENTER"))
           d == [b EXCEPT !.kind = "if", !.exits = @ \cup {n}, !.jz = n + 1]
           z == [addr |-> n + 1, scopes |-> b.depth - 1, locals |-> b.saved]
           P == (Pending(open, loop_stack) \cup {n}) \ {b.jz}
           t == b.depth - 1
<1>1. /\ open # <<>> /\ b.kind = "if"
      /\ marks' = marks \cup {Place, z}
      /\ code' = r \o <<I("JZ")>> \o <<I("ENTER")>>
      /\ open' = Append(Front(open), d)
      /\ local_count' = b.body /\ loop_stack' = loop_stack /\ inside_function' = inside_function
      /\ current_scope_depth' = current_scope_depth
  <2>1. <<I("JZ")>> # <<>>
    OBVIOUS
  <2> QED BY <2>1 DEF ElseIf, Branch, In, NextAddr
<1>2. current_scope_depth \in Int
  BY DEF Shape
<1>3. Sound(b) /\ b \in Block
  BY <1>1, ShapeLast
<1>4. PICK h : Begun(k, h)
  BY Begin
<1>5. /\ r \in Seq(Instr) /\ Len(r) = n /\ n \in Nat \ {0}
      /\ \E g : Emits(k, code, h, r, g, P, t, b.body) /\ g[n] = Height(k, t, b.body)
  BY <1>1, <1>4, BranchEnds DEF BranchEnd, Rejoined
<1>6. PICK g1 : Emits(k, code, h, r, g1, P, t, b.body) /\ g1[n] = Height(k, t, b.body)
  BY <1>5
<1> HIDE DEF c, r
<1>7. /\ d \in Block /\ d.kind = "if" /\ d.exits = b.exits \cup {n} /\ d.jz = n + 1
      /\ d.start = b.start /\ d.saved = b.saved /\ d.body = b.body /\ d.depth = b.depth
  <2>1. b.exits \cup {n} \in SUBSET (Nat \ {0}) /\ n + 1 \in Nat
    BY <1>3, <1>5 DEF Block
  <2> QED BY <2>1, <1>3 DEF Block
<1>8. /\ Sound(d) /\ ~ IsLoop(d) /\ b.body = b.saved /\ b.body \in Nat
      /\ t \in Nat /\ t + 1 = b.depth
  BY <1>1, <1>3, <1>7 DEF Sound, IsLoop, Scopes, Block
<1> HIDE DEF d, b, P, n
<1>9. Shape' /\ Top(open', Base') = d.depth
  BY <1>1, <1>2, <1>7, <1>8, ShapeBranches DEF b
<1> HIDE DEF t
<1>10. /\ Len(q) = n + 1
       /\ \E g : Emits(k, code, h, q, g, P \cup {n + 1}, t, b.body) /\ Grows(g1, g, n)
  <2>1. /\ Len(q) = Len(r) + 1
        /\ \E g : /\ Emits(k, code, h, q, g, P \cup {Len(r) + 1}, t, b.body)
                  /\ Grows(g1, g, Len(r))
    BY <1>6, <1>8, EmitBranch
  <2> QED BY <2>1, <1>5
<1>11. PICK g2 : Emits(k, code, h, q, g2, P \cup {n + 1}, t, b.body) /\ Grows(g1, g2, n)
  BY <1>10
<1>12. q \in Seq(Instr) /\ I("JZ") \in Instr /\ I("ENTER") \in Instr
  BY <1>11, Instructions DEF Ops, Emits, Flows
<1>13. code' = e
  <2>1. r \o <<I("JZ")>> = q
    BY <1>5, <1>12, OneMore
  <2>2. q \o <<I("ENTER")>> = e
    BY <1>12, OneMore
  <2> QED BY <2>1, <2>2, <1>1
<1> HIDE DEF q
<1>14. /\ Len(e) = Len(q) + 1
       /\ \E g : Emits(k, code, h, e, g, P \cup {n + 1}, t + 1, b.body) /\ Grows(g2, g, Len(q))
  BY <1>8, <1>11, EmitEnter
<1>15. PICK g : Emits(k, code, h, e, g, P \cup {n + 1}, t + 1, b.body) /\ Grows(g2, g, Len(q))
  BY <1>14
<1> HIDE DEF e
<1>16. g[n] = Height(k, t, b.body) /\ n \in 1 .. Len(e)
  <2>1. n \in 1 .. n + 1 /\ n \in 1 .. Len(q) + 1 /\ n \in 1 .. Len(e)
    BY <1>5, <1>10, <1>14
  <2> QED BY <2>1, <1>6, <1>11, <1>15 DEF Grows
<1>17. g[n + 1] = Height(k, t, b.body) /\ n + 1 \in 1 .. Len(e)
  <2>1. g1[n + 1] = Height(k, t, b.body)
    BY <1>5, <1>6 DEF Emits
  <2>2. n + 1 \in 1 .. n + 1 /\ n + 1 \in 1 .. Len(q) + 1 /\ n + 1 \in 1 .. Len(e)
    BY <1>5, <1>10, <1>14
  <2> QED BY <2>1, <2>2, <1>11, <1>15 DEF Grows
<1>18. BlockFits(k, g, Len(code'), d)
  <2>1. BlockFits(k, h, Len(code), b)
    BY <1>1, <1>4, ShapeTypes, BlocksFitClose DEF Begun, b
  <2>2. BlockFits(k, g, Len(e), b)
    BY <2>1, <1>15, FitsOn
  <2>3. d.depth - 1 = t
    BY <1>7 DEF t
  <2>4. \A a \in d.exits : a \in 1 .. Len(e) /\ g[a] = Height(k, t, d.saved)
    BY <2>2, <1>7, <1>8, <1>16 DEF BlockFits, t
  <2> QED BY <2>3, <2>4, <1>7, <1>8, <1>13, <1>17 DEF BlockFits
<1>19. MarkFits(k, g, Len(code'), z)
  <2>1. z.addr = n + 1 /\ z.scopes = t /\ z.locals = b.body
    BY <1>8 DEF t
  <2>2. n + 1 \in 1 .. Len(e) + 1
    BY <1>5, <1>17
  <2> QED BY <2>1, <2>2, <1>13, <1>17 DEF MarkFits
<1> HIDE DEF z
<1> DEFINE Q == P \cup {n + 1}
<1>20. Emits(k, code, h, code', g, Q, d.depth, d.body)
  BY <1>7, <1>8, <1>13, <1>15
<1>21. Q \subseteq (Pending(open, loop_stack) \ {b.jz}) \cup BlockJumps(d)
  BY <1>7 DEF P, BlockJumps
<1>22. b.exits \subseteq d.exits
  BY <1>7
<1> HIDE DEF Q
<1>23. local_count' = d.body
  BY <1>1, <1>7
<1>24. Carried(k)'
  BY <1>1, <1>4, <1>7, <1>9, <1>18, <1>19, <1>20, <1>21, <1>22, <1>23, BranchCarried DEF b
<1> QED BY <1>9, <1>24

LEMMA ElseStep ==
  ASSUME NEW k, Shape, Carried(k), Else
  PROVE  Shape' /\ Carried(k)'
<1> DEFINE b == Last(open)
           c == Append(BodyEnd, I("JMP"))
           n == Len(c)
           r == Patch(c, {b.jz}, n + 1)
           e == Append(r, I("ENTER"))
           d == [b EXCEPT !.kind = "else", !.exits = @ \cup {n}, !.jz = 0]
           z == [addr |-> n + 1, scopes |-> b.depth - 1, locals |-> b.saved]
           P == (Pending(open, loop_stack) \cup {n}) \ {b.jz}
           t == b.depth - 1
<1>1. /\ open # <<>> /\ b.kind = "if"
      /\ marks' = marks \cup {Place, z}
      /\ code' = r \o <<>> \o <<I("ENTER")>>
      /\ open' = Append(Front(open), d)
      /\ local_count' = b.body /\ loop_stack' = loop_stack /\ inside_function' = inside_function
      /\ current_scope_depth' = current_scope_depth
  BY DEF Else, Branch, In, NextAddr
<1>2. current_scope_depth \in Int
  BY DEF Shape
<1>3. Sound(b) /\ b \in Block
  BY <1>1, ShapeLast
<1>4. PICK h : Begun(k, h)
  BY Begin
<1>5. /\ r \in Seq(Instr) /\ Len(r) = n /\ n \in Nat \ {0}
      /\ \E g : Emits(k, code, h, r, g, P, t, b.body) /\ g[n] = Height(k, t, b.body)
  BY <1>1, <1>4, BranchEnds DEF BranchEnd, Rejoined
<1>6. PICK g1 : Emits(k, code, h, r, g1, P, t, b.body) /\ g1[n] = Height(k, t, b.body)
  BY <1>5
<1> HIDE DEF c, r
<1>7. /\ d \in Block /\ d.kind = "else" /\ d.exits = b.exits \cup {n} /\ d.jz = 0
      /\ d.start = b.start /\ d.saved = b.saved /\ d.body = b.body /\ d.depth = b.depth
  <2>1. b.exits \cup {n} \in SUBSET (Nat \ {0})
    BY <1>3, <1>5 DEF Block
  <2> QED BY <2>1, <1>3 DEF Block
<1>8. /\ Sound(d) /\ ~ IsLoop(d) /\ b.body = b.saved /\ b.body \in Nat
      /\ t \in Nat /\ t + 1 = b.depth
  BY <1>1, <1>3, <1>7 DEF Sound, IsLoop, Scopes, Block
<1> HIDE DEF d, b, P, n
<1>9. Shape' /\ Top(open', Base') = d.depth
  BY <1>1, <1>2, <1>7, <1>8, ShapeBranches DEF b
<1> HIDE DEF t
<1>12. I("ENTER") \in Instr
  BY Instructions DEF Ops
<1>13. code' = e
  <2>1. r \o <<>> = r
    BY <1>5, ConcatEmptySeq
  <2>2. r \o <<I("ENTER")>> = e
    BY <1>5, <1>12, OneMore
  <2> QED BY <2>1, <2>2, <1>1
<1>14. /\ Len(e) = Len(r) + 1
       /\ \E g : Emits(k, code, h, e, g, P, t + 1, b.body) /\ Grows(g1, g, Len(r))
  BY <1>6, <1>8, EmitEnter
<1>15. PICK g : Emits(k, code, h, e, g, P, t + 1, b.body) /\ Grows(g1, g, n)
  BY <1>5, <1>14
<1> HIDE DEF e
<1>16. g[n] = Height(k, t, b.body) /\ n \in 1 .. Len(e)
  <2>1. n \in 1 .. n + 1 /\ n \in 1 .. Len(e)
    BY <1>5, <1>14
  <2> QED BY <2>1, <1>6, <1>15 DEF Grows
<1>17. g[n + 1] = Height(k, t, b.body) /\ n + 1 \in 1 .. Len(e)
  <2>1. g1[n + 1] = Height(k, t, b.body)
    BY <1>5, <1>6 DEF Emits
  <2>2. n + 1 \in 1 .. n + 1 /\ n + 1 \in 1 .. Len(e)
    BY <1>5, <1>14
  <2> QED BY <2>1, <2>2, <1>15 DEF Grows
<1>18. BlockFits(k, g, Len(code'), d)
  <2>1. BlockFits(k, h, Len(code), b)
    BY <1>1, <1>4, ShapeTypes, BlocksFitClose DEF Begun, b
  <2>2. BlockFits(k, g, Len(e), b)
    BY <2>1, <1>15, FitsOn
  <2>3. d.depth - 1 = t
    BY <1>7 DEF t
  <2>4. \A a \in d.exits : a \in 1 .. Len(e) /\ g[a] = Height(k, t, d.saved)
    BY <2>2, <1>7, <1>8, <1>16 DEF BlockFits, t
  <2> QED BY <2>3, <2>4, <1>7, <1>8, <1>13 DEF BlockFits
<1>19. MarkFits(k, g, Len(code'), z)
  <2>1. z.addr = n + 1 /\ z.scopes = t /\ z.locals = b.body
    BY <1>8 DEF t
  <2>2. n + 1 \in 1 .. Len(e) + 1
    BY <1>5, <1>17
  <2> QED BY <2>1, <2>2, <1>13, <1>17 DEF MarkFits
<1> HIDE DEF z
<1>20. Emits(k, code, h, code', g, P, d.depth, d.body)
  BY <1>7, <1>8, <1>13, <1>15
<1>21. P \subseteq (Pending(open, loop_stack) \ {b.jz}) \cup BlockJumps(d)
  BY <1>7 DEF P, BlockJumps
<1>22. b.exits \subseteq d.exits
  BY <1>7
<1>23. local_count' = d.body
  BY <1>1, <1>7
<1>24. Carried(k)'
  BY <1>1, <1>4, <1>7, <1>9, <1>18, <1>19, <1>20, <1>21, <1>22, <1>23, BranchCarried DEF b
<1> QED BY <1>9, <1>24

-----------------------------------------------------------------------------
(* break and continue: x is the innermost loop with the jump noted.        *)

LEMMA LeaveCarried ==
  ASSUME NEW k, Shape, Carried(k), loop_stack # <<>>, Statement,
         k = "scopes" => current_scope_depth - Last(loop_stack).scope_depth
                         = Lexical - Last(loop_stack).lexical,
         NEW c, c = code \o Unwind(Last(loop_stack)) \o <<I("JMP")>>,
         NEW x, LoopJumps(x) = LoopJumps(Last(loop_stack)) \cup {Len(c)},
         x.lexical = Last(loop_stack).lexical, x.local_count = Last(loop_stack).local_count,
         Len(c) \in Nat \ {0} => x \in Loop,
         code' = c, loop_stack' = Append(Front(loop_stack), x),
         open' = open, current_scope_depth' = current_scope_depth, local_count' = local_count
  PROVE  Shape' /\ Carried(k)'
<1> DEFINE y == Last(loop_stack)
           P == Pending(open, loop_stack)
           n == current_scope_depth - y.scope_depth
           l == local_count - y.local_count
           c1 == code \o Many(n, "EXIT")
           c2 == c1 \o Many(l, "POP")
           d == Append(c2, I("JMP"))
           top == Top(open, Base)
<1>1. /\ open \in Seq(Block) /\ loop_stack \in Seq(Loop) /\ local_count \in Nat
      /\ top \in Nat /\ Lexical = top /\ current_scope_depth \in Int
  BY ShapeTypes DEF Shape
<1>2. inside_function' = inside_function /\ marks' = marks \cup {Place}
  BY DEF Statement
<1>m. PICK m : Owned(open, loop_stack, m)
  BY DEF Shape
<1>n. Nested(open, Base, local_count)
  BY DEF Shape
<1>3. /\ y \in Loop /\ y.lexical \in Nat /\ y.lexical + 1 <= top /\ y.local_count <= local_count
  BY <1>m, <1>n, OwnedLast
<1>4. y.scope_depth \in Int /\ y.local_count \in Nat /\ n \in Int /\ l \in Int /\ l >= 0
  <2> HIDE DEF y
  <2>1. y.scope_depth \in Int /\ y.local_count \in Nat
    BY <1>3 DEF Loop
  <2> QED BY <2>1, <1>1, <1>3
<1>5. code \in Seq(Instr) /\ Len(code) \in Nat /\ \E h : Begun(k, h)
  BY Begin
<1>6. PICK h : Begun(k, h)
  BY <1>5
<1>7. Emits(k, code, h, code, h, P, top, local_count)
  BY <1>6 DEF Begun
<1>8. k = "scopes" => n >= 0 /\ y.lexical = top - n
  <2> SUFFICES ASSUME k = "scopes" PROVE n >= 0 /\ y.lexical = top - n
    OBVIOUS
  <2>1. n = top - y.lexical
    BY <1>1
  <2> HIDE DEF n, y, top
  <2> QED BY <2>1, <1>1, <1>3
<1>a. c = d
  <2>1. Many(n, "EXIT") \in Seq(Instr)
    <3>1. PICK j \in Nat : j = IF n > 0 THEN n ELSE 0
      BY <1>4
    <3> HIDE DEF n
    <3> QED BY <3>1, <1>4, ManyIsSeq
  <2>2. Many(l, "POP") \in Seq(Instr)
    <3>1. PICK j \in Nat : j = IF l > 0 THEN l ELSE 0
      BY <1>4
    <3> HIDE DEF l
    <3> QED BY <3>1, <1>4, ManyIsSeq
  <2>3. Unwind(y) = Many(n, "EXIT") \o Many(l, "POP")
    BY DEF Unwind
  <2>4. code \o Unwind(y) = c2
    <3> DEFINE E == Many(n, "EXIT")
               L == Many(l, "POP")
    <3>1. E \in Seq(Instr) /\ L \in Seq(Instr) /\ Unwind(y) = E \o L /\ c2 = (code \o E) \o L
      BY <2>1, <2>2, <2>3
    <3> HIDE DEF E, L, y, c2
    <3>2. (code \o E) \o L = code \o (E \o L)
      BY <3>1, <1>5, ConcatAssociative
    <3> QED BY <3>1, <3>2
  <2>5. c2 \in Seq(Instr) /\ I("JMP") \in Instr
    BY <2>1, <2>2, <1>5, ConcatProperties, Instructions DEF Ops
  <2> HIDE DEF c2
  <2> QED BY <2>4, <2>5, OneMore
<1> HIDE DEF y, n, l, P, top
<1>9. PICK g1 : Emits(k, code, h, c1, g1, P, y.lexical, local_count)
  BY <1>1, <1>3, <1>4, <1>7, <1>8, EmitExits
<1> HIDE DEF c1
<1>10. PICK g2 : Emits(k, code, h, c2, g2, P, y.lexical, y.local_count)
  <2>1. Many(l, "POP") = Many(local_count - y.local_count, "POP")
    BY DEF l
  <2> QED BY <2>1, <1>1, <1>3, <1>4, <1>9, EmitPops
<1> HIDE DEF c2
<1>11. /\ Len(d) = Len(c2) + 1
       /\ \A s2, l2 \in Nat : \E f :
            /\ Emits(k, code, h, d, f, P \cup {Len(c2) + 1}, s2, l2)
            /\ Grows(g2, f, Len(c2))
  BY <1>3, <1>4, <1>10, EmitLeave
<1>12. PICK g : /\ Emits(k, code, h, d, g, P \cup {Len(c2) + 1}, top, local_count)
                /\ Grows(g2, g, Len(c2))
  BY <1>1, <1>11
<1>13. Len(c2) \in Nat
  BY <1>10 DEF Emits
<1> HIDE DEF d
<1>14. Len(c) = Len(c2) + 1 /\ Len(c) \in Nat \ {0} /\ x \in Loop
  BY <1>11, <1>13, <1>a
<1>15. g[Len(c)] = Height(k, y.lexical, y.local_count) /\ Len(c) \in 1 .. Len(c)
  <2>1. g2[Len(c2) + 1] = Height(k, y.lexical, y.local_count)
    BY <1>10 DEF Emits
  <2>2. Len(c2) + 1 \in 1 .. Len(c2) + 1
    BY <1>13
  <2> QED BY <2>1, <2>2, <1>12, <1>14 DEF Grows
<1>16. /\ BlocksFit(k, g, Len(d), open) /\ LoopsFit(k, g, Len(d), loop_stack)
       /\ MarksFit(k, g, Len(d), marks \cup {Place})
  BY <1>6, <1>12, FitsOn DEF Begun
<1>17. /\ Front(loop_stack) \in Seq(Loop) /\ LoopsFit(k, g, Len(c), Front(loop_stack))
       /\ LoopFits(k, g, Len(c), y)
  BY <1>1, <1>16, <1>a, LoopsFitExit, Fronts DEF y
<1>18. LoopFits(k, g, Len(c), x)
  BY <1>15, <1>17 DEF LoopFits, LoopJumps, y
<1>19. LoopsFit(k, g, Len(c), loop_stack')
  BY <1>14, <1>17, <1>18, LoopsFitEnter
<1>20. P \cup {Len(c)} \subseteq Pending(open, loop_stack')
  <2>1. P \subseteq Pending(open, Front(loop_stack)) \cup LoopJumps(y)
    BY <1>1, PendingExit DEF P, y
  <2>2. Pending(open, Front(loop_stack)) \cup LoopJumps(x) \subseteq Pending(open, loop_stack')
    BY <1>14, <1>17, PendingEnter
  <2> QED BY <2>1, <2>2 DEF y
<1>21. Emits(k, code, h, c, g, P \cup {Len(c)}, top, local_count)
  BY <1>12, <1>14, <1>a
<1>22. Carries(k, c, open, loop_stack', marks \cup {Place}, top, local_count)
  BY <1>16, <1>19, <1>20, <1>21, <1>a, EmitCarries
<1>23. Base' = Base
  BY <1>2 DEF Base
<1>24. Carried(k)'
  BY <1>2, <1>22, <1>23 DEF Carried, top
<1>25. \E f : Owned(open, loop_stack', f)
  BY <1>m, <1>14, OwnedJump
<1>26. Shape'
  BY <1>1, <1>2, <1>25, ShapeStays
<1> QED BY <1>24, <1>26

LEMMA BreakStep ==
  ASSUME NEW k, k = "scopes" => "drift" \in Avoids, Shape, Carried(k), Break
  PROVE  Shape' /\ Carried(k)'
<1> DEFINE y == Last(loop_stack)
           c == code \o Unwind(y) \o <<I("JMP")>>
           x == [y EXCEPT !.breaks = @ \cup {Len(c)}]
<1>1. /\ loop_stack # <<>> /\ Statement
      /\ "drift" \in Avoids => current_scope_depth - y.scope_depth = Lexical - y.lexical
      /\ code' = c /\ loop_stack' = Append(Front(loop_stack), x)
      /\ open' = open /\ current_scope_depth' = current_scope_depth /\ local_count' = local_count
  BY DEF Break, Leave
<1>2. y \in Loop
  BY <1>1, ShapeTypes, Fronts
<1> HIDE DEF c, y
<1>3. /\ LoopJumps(x) = LoopJumps(y) \cup {Len(c)}
      /\ x.lexical = y.lexical /\ x.local_count = y.local_count
      /\ Len(c) \in Nat \ {0} => x \in Loop
  BY <1>2 DEF Loop, LoopJumps
<1> HIDE DEF x
<1> QED BY <1>1, <1>3, LeaveCarried DEF c, y

LEMMA ContinueStep ==
  ASSUME NEW k, k = "scopes" => "drift" \in Avoids, Shape, Carried(k), Continue
  PROVE  Shape' /\ Carried(k)'
<1> DEFINE y == Last(loop_stack)
           c == code \o Unwind(y) \o <<I("JMP")>>
           x == [y EXCEPT !.continues = @ \cup {Len(c)}]
<1>1. /\ loop_stack # <<>> /\ Statement
      /\ "drift" \in Avoids => current_scope_depth - y.scope_depth = Lexical - y.lexical
      /\ code' = c /\ loop_stack' = Append(Front(loop_stack), x)
      /\ open' = open /\ current_scope_depth' = current_scope_depth /\ local_count' = local_count
  BY DEF Continue, Leave
<1>2. y \in Loop
  BY <1>1, ShapeTypes, Fronts
<1> HIDE DEF c, y
<1>3. /\ LoopJumps(x) = LoopJumps(y) \cup {Len(c)}
      /\ x.lexical = y.lexical /\ x.local_count = y.local_count
      /\ Len(c) \in Nat \ {0} => x \in Loop
  BY <1>2 DEF Loop, LoopJumps
<1> HIDE DEF x
<1> QED BY <1>1, <1>3, LeaveCarried DEF c, y

-----------------------------------------------------------------------------
(* The inductive invariant.                                                *)

(* Scopes are counted in programs that avoid the drift. *)
Applies(k) == k = "scopes" => "drift" \in Avoids

CompileInv == phase = "compile" => Shape /\ \A k \in Kinds : Applies(k) => Carried(k)

(* The VM has open what the height of its place says, surplus apart. *)
Stands(k) == \E h : /\ Flows(k, code, h, {}) /\ MarksFit(k, h, Len(code), marks)
                    /\ h[ip] = Height(k, scope_sp, sp - surplus)

(* Where the run begins: the parameters are there, but for surplus. *)
Entry == [addr |-> 1, scopes |-> 0, locals |-> sp - surplus]

Finished ==
  /\ code \in Seq(Instr) /\ Len(code) \in Nat \ {0}
  /\ \A i \in 1 .. Len(code) : code[i].arg \in 1 .. Len(code)
  /\ code[Len(code)].op \in {"RET", "HLT"}

RunInv ==
  /\ phase # "compile" => Finished
  /\ phase = "run" => ip \in 1 .. Len(code) /\ \A k \in Kinds : Applies(k) => Stands(k)

Types ==
  /\ phase \in {"compile", "run", "done", "overflow", "underflow"}
  /\ inside_function \in BOOLEAN
  /\ current_scope_depth \in Int /\ local_count \in Nat
  /\ statements \in 0 .. MaxStatements
  /\ ip \in Nat /\ sp \in 0 .. STACK_SIZE /\ scope_sp \in 0 .. MAX_LOOP_NESTING
  /\ surplus \in Int
  /\ phase = "compile" => ip = 1 /\ scope_sp = 0 /\ Entry \in marks

CodeInv == Types /\ CompileInv /\ RunInv

LEMMA InitCode == Init => CodeInv
<1> SUFFICES ASSUME Init PROVE CodeInv
  OBVIOUS
<1> USE CodegenConstants
<1>1. Types /\ sp - surplus = local_count /\ local_count \in Nat
  <2>1. /\ inside_function \in BOOLEAN /\ phase = "compile"
        /\ local_count \in Parameters /\ sp \in Parameters /\ surplus = sp - local_count
        /\ current_scope_depth = (IF inside_function THEN 1 ELSE 0)
        /\ statements = 0 /\ ip = 1 /\ scope_sp = 0
        /\ marks = {[addr |-> 1, scopes |-> 0, locals |-> local_count]}
    BY DEF Init
  <2>2. /\ 0 \in 0 .. MaxStatements /\ Parameters \subseteq 0 .. STACK_SIZE
        /\ 0 \in 0 .. MAX_LOOP_NESTING
    BY DEF Parameters
  <2>3. current_scope_depth \in Int
    BY <2>1
  <2>4. local_count \in Nat /\ sp \in 0 .. STACK_SIZE
    BY <2>1, <2>2
  <2>5. surplus \in Int /\ sp - surplus = local_count
    BY <2>1, <2>4
  <2> QED BY <2>1, <2>2, <2>3, <2>4, <2>5 DEF Types, Entry
<1>2. Shape
  <2>1. Base \in Nat
    BY DEF Base
  <2>2. Nested(<<>>, Base, local_count)
    BY <1>1, <2>1, EmptySeq DEF Nested
  <2>3. Owned(<<>>, <<>>, [i \in 1 .. 0 |-> 1])
    BY EmptySeq DEF Owned
  <2> QED BY <2>2, <2>3 DEF Init, Shape
<1>3. ASSUME NEW k \in Kinds PROVE Carried(k)
  <2> DEFINE l == local_count
             e == Height(k, 0, l)
             g == [i \in 1 .. 1 |-> e]
             ms == {[addr |-> 1, scopes |-> 0, locals |-> l]}
  <2>1. <<>> \in Seq(Instr) /\ Len(<<>>) = 0 /\ 0 + 1 = 1
    BY EmptySeq
  <2>2. l \in Nat /\ e \in Nat
    BY <1>1 DEF Height
  <2>a. open = <<>> /\ loop_stack = <<>> /\ marks = ms /\ local_count = l /\ Top(open, Base) = Base
    BY DEF Init, Top
  <2> HIDE DEF e, l
  <2>3. g \in [1 .. 0 + 1 -> Nat] /\ g[1] = e
    BY <2>2
  <2>4. \A i : i \notin 1 .. 0
    OBVIOUS
  <2> HIDE DEF g
  <2>5. Flows(k, <<>>, g, Pending(<<>>, <<>>))
    BY <2>1, <2>3, <2>4 DEF Flows
  <2>6. Emits(k, <<>>, g, <<>>, g, Pending(<<>>, <<>>), 0, l)
    BY <2>1, <2>3, <2>5 DEF Emits, Grows, e
  <2>7. \A h, n : BlocksFit(k, h, n, <<>>) /\ LoopsFit(k, h, n, <<>>)
    BY <2>1, <2>4 DEF BlocksFit, LoopsFit
  <2>8. MarksFit(k, g, Len(<<>>), ms)
    BY <2>1, <2>3 DEF MarksFit, MarkFits, e
  <2>9. Pending(<<>>, <<>>) \subseteq Pending(<<>>, <<>>)
    OBVIOUS
  <2>10. CASE ~ inside_function
    <3>1. code = <<>> /\ Base = 0
      BY <2>10 DEF Init, Base
    <3>2. Carries(k, <<>>, <<>>, <<>>, ms, 0, l)
      BY <2>6, <2>7, <2>8, <2>9, EmitCarries
    <3> QED BY <3>1, <3>2, <2>a DEF Carried
  <2>11. CASE inside_function
    <3>1. code = <<I("ENTER")>> /\ Base = 1
      BY <2>11 DEF Init, Base
    <3>2. 0 \in Nat /\ 0 + 1 = 1
      OBVIOUS
    <3>3. \E f : Emits(k, <<>>, g, Append(<<>>, I("ENTER")), f, Pending(<<>>, <<>>), 0 + 1, l)
      BY <2>2, <2>6, <3>2, EmitEnter
    <3>4. Append(<<>>, I("ENTER")) = <<I("ENTER")>>
      OBVIOUS
    <3>5. PICK f : Emits(k, <<>>, g, code, f, Pending(<<>>, <<>>), 1, l)
      BY <3>1, <3>2, <3>3, <3>4
    <3>6. MarksFit(k, f, Len(code), ms)
      BY <2>8, <3>5, FitsOn
    <3>7. Carries(k, code, <<>>, <<>>, ms, 1, l)
      BY <3>5, <3>6, <2>7, <2>9, EmitCarries
    <3> QED BY <3>1, <3>7, <2>a DEF Carried
  <2> QED BY <2>10, <2>11
<1>4. phase = "compile"
  BY DEF Init
<1> QED BY <1>1, <1>2, <1>3, <1>4 DEF CodeInv, CompileInv, RunInv

(* One statement, branch or end of a block compiled. *)
CompileStep ==
  \/ Var \/ Region \/ Element \/ If \/ ElseIf \/ Else \/ CloseIf
  \/ (\E names \in 1 .. MaxNames : \E fresh \in 0 .. names : ForIn(names, fresh)) \/ CloseForIn
  \/ ForCond \/ CloseForCond \/ Forever \/ CloseForever
  \/ Break \/ Continue \/ Return

LEMMA CompileStepCarries ==
  ASSUME NEW k, Applies(k), Shape, Carried(k), CompileStep
  PROVE  Shape' /\ Carried(k)'
<1>1. CASE Var BY <1>1, VarStep
<1>2. CASE Region BY <1>2, RegionStep
<1>3. CASE If BY <1>3, IfStep
<1>4. CASE ElseIf BY <1>4, ElseIfStep
<1>5. CASE Else BY <1>5, ElseStep
<1>6. CASE CloseIf BY <1>6, CloseIfStep
<1>7. CASE \E names \in 1 .. MaxNames : \E fresh \in 0 .. names : ForIn(names, fresh)
  BY <1>7, ForInStep, CodegenConstants
<1>8. CASE CloseForIn BY <1>8, CloseForInStep
<1>9. CASE ForCond BY <1>9, ForCondStep
<1>10. CASE CloseForCond BY <1>10, CloseForCondStep
<1>11. CASE Forever BY <1>11, ForeverStep
<1>12. CASE CloseForever BY <1>12, CloseForeverStep
<1>13. CASE Break BY <1>13, BreakStep DEF Applies
<1>14. CASE Continue BY <1>14, ContinueStep DEF Applies
<1>15. CASE Return BY <1>15, ReturnStep
<1>16. CASE Element BY <1>16, ElementStep
<1> QED BY <1>1, <1>2, <1>3, <1>4, <1>5, <1>6, <1>7, <1>8, <1>9, <1>10, <1>11, <1>12,
          <1>13, <1>14, <1>15, <1>16 DEF CompileStep

LEMMA CompileStepTypes ==
  ASSUME Types, phase = "compile", Shape, Shape', CompileStep
  PROVE  Types' /\ phase' = "compile"
<1>0. local_count' \in Nat /\ current_scope_depth' \in Int
  BY DEF Shape, Nested
<1>1. /\ phase' = phase /\ inside_function' = inside_function
      /\ ip' = ip /\ sp' = sp /\ scope_sp' = scope_sp /\ surplus' = surplus
  BY DEF CompileStep, Var, Region, Element, If, ElseIf, Else, Branch, CloseIf, ForIn, CloseForIn,
         ForCond, CloseForCond, Forever, CloseForever, Break, Continue, Leave, Return, Statement, Close,
         machine
<1>2. statements' \in 0 .. MaxStatements
  <2>1. \/ statements' = statements
        \/ statements < MaxStatements /\ statements' = statements + 1
    BY DEF CompileStep, Var, Region, Element, If, ElseIf, Else, Branch, CloseIf, ForIn, CloseForIn,
           ForCond, CloseForCond, Forever, CloseForever, Break, Continue, Leave, Return, Statement, Close
  <2>2. statements \in 0 .. MaxStatements /\ MaxStatements \in Nat
    BY CodegenConstants DEF Types
  <2> QED BY <2>1, <2>2
<1>3. marks \subseteq marks'
  BY DEF CompileStep, Var, Region, Element, If, ElseIf, Else, Branch, CloseIf, ForIn, CloseForIn,
         ForCond, CloseForCond, Forever, CloseForever, Break, Continue, Leave, Return, Statement,
         Close
<1> QED BY <1>0, <1>1, <1>2, <1>3 DEF Types, Entry

(* The last instruction: nothing is pending, and control starts at the     *)
(* code's first place.                                                     *)
LEMMA FinishStands ==
  ASSUME NEW k, Shape, Carried(k), Finish, ip = 1, scope_sp = 0, Entry \in marks
  PROVE  Stands(k)'
<1> DEFINE op == IF inside_function THEN "RET" ELSE "HLT"
<1>1. /\ open = <<>> /\ code' = Append(code, I(op)) /\ marks' = marks \cup {Place}
      /\ ip' = 1 /\ sp' = sp /\ scope_sp' = 0 /\ surplus' = surplus
  BY DEF Finish, machine
<1>2. local_count \in Nat /\ Top(open, Base) \in Nat /\ op \in {"RET", "HLT"}
  BY ShapeTypes
<1>3. PICK h : Begun(k, h)
  BY Begin
<1> HIDE DEF op
<1>4. PICK g : Emits(k, code, h, Append(code, I(op)), g, Pending(open, loop_stack),
                     Top(open, Base), local_count)
  BY <1>2, <1>3, EmitStop DEF Begun
<1>5. MarksFit(k, g, Len(code'), marks')
  BY <1>1, <1>3, <1>4, FitsOn DEF Begun
<1>6. Len(open) = 0 /\ Len(loop_stack) = 0
  <2>1. PICK m : Owned(open, loop_stack, m)
    BY DEF Shape
  <2>2. loop_stack \in Seq(Loop) /\ m \in [1 .. Len(loop_stack) -> 1 .. Len(open)]
    BY <2>1 DEF Owned
  <2>3. Len(open) = 0 /\ Len(loop_stack) \in Nat
    BY <2>2, <1>1, LenProperties
  <2>4. 1 \in 1 .. Len(loop_stack) => m[1] \in 1 .. 0
    BY <2>2, <2>3
  <2> QED BY <2>3, <2>4
<1>7. Flows(k, code', g, Pending(open, loop_stack)) /\ Len(code') \in Nat
  BY <1>1, <1>4 DEF Emits
<1>8. \A i \in 1 .. Len(code') : i \notin Pending(open, loop_stack)
  BY <1>6, <1>7 DEF Pending
<1>9. Flows(k, code', g, {})
  BY <1>7, <1>8 DEF Flows
<1>10. g[ip'] = Height(k, scope_sp', sp' - surplus')
  BY <1>1, <1>5 DEF MarksFit, MarkFits, Entry
<1> QED BY <1>5, <1>9, <1>10 DEF Stands

LEMMA FinishFinished ==
  ASSUME Shape, Carried("jumps"), Finish
  PROVE  Finished' /\ 1 \in 1 .. Len(code')
<1> DEFINE op == IF inside_function THEN "RET" ELSE "HLT"
<1>1. code' = Append(code, I(op)) /\ op \in {"RET", "HLT"}
  BY DEF Finish
<1>2. code \in Seq(Instr) /\ \E h : Begun("jumps", h)
  BY Begin
<1>3. PICK h : Begun("jumps", h)
  BY <1>2
<1>4. \A i \in 1 .. Len(code) : code[i].arg \in 1 .. Len(code) + 1
  BY <1>3 DEF Begun, Emits, Flows
<1>5. I(op) \in Instr /\ I(op).op = op /\ I(op).arg = 1
  BY <1>1, Instructions DEF Ops
<1> HIDE DEF op
<1>6. /\ Len(code) \in Nat /\ code' \in Seq(Instr) /\ Len(code') = Len(code) + 1
      /\ \A i \in 1 .. Len(code) : code'[i] = code[i]
      /\ code'[Len(code) + 1] = I(op)
  BY <1>1, <1>2, <1>5, Appends
<1>7. ASSUME NEW i \in 1 .. Len(code') PROVE code'[i].arg \in 1 .. Len(code')
  <2>1. CASE i \in 1 .. Len(code)
    BY <2>1, <1>4, <1>6
  <2>2. CASE i = Len(code) + 1
    BY <2>2, <1>5, <1>6
  <2> QED BY <2>1, <2>2, <1>6
<1>8. code'[Len(code')].op \in {"RET", "HLT"} /\ Len(code') \in Nat \ {0} /\ 1 \in 1 .. Len(code')
  BY <1>1, <1>5, <1>6
<1> QED BY <1>6, <1>7, <1>8 DEF Finished

-----------------------------------------------------------------------------
(* The VM runs.                                                            *)

RunStep == ScopeEnter \/ ScopeExit \/ Push \/ Pop \/ Even \/ Jump \/ Ret \/ Halt

LEMMA RunStepStands ==
  ASSUME NEW k \in Kinds, Types, Finished, ip \in 1 .. Len(code), Stands(k), RunStep, phase' = "run"
  PROVE  Stands(k)'
<1>1. PICK h : /\ Flows(k, code, h, {}) /\ MarksFit(k, h, Len(code), marks)
               /\ h[ip] = Height(k, scope_sp, sp - surplus)
  BY DEF Stands
<1>2. /\ code' = code /\ marks' = marks /\ phase = "run"
  BY DEF RunStep, ScopeEnter, ScopeExit, Push, Pop, Even, Jump, Ret, Halt, Fetch, compiler
<1>3. /\ sp \in Nat /\ scope_sp \in Nat /\ ip \in Nat /\ surplus \in Int
  BY CodegenConstants DEF Types
<1>4. /\ code[ip].op \notin Stops => h[ip + 1] = h[ip] + Effect(k, code[ip].op)
      /\ code[ip].op \in Jumps => h[code[ip].arg] = h[ip]
      /\ h \in [1 .. Len(code) + 1 -> Nat]
  BY <1>1 DEF Flows
<1>5. Len(code) \in Nat /\ h[ip] \in Nat /\ h[ip + 1] \in Nat
  BY <1>4 DEF Finished
<1>6. SUFFICES h[ip'] = Height(k, scope_sp', sp' - surplus')
  BY <1>1, <1>2 DEF Stands
<1>7. CASE ScopeEnter
  <2>1. /\ code[ip].op = "ENTER" /\ scope_sp' = scope_sp + 1 /\ ip' = ip + 1 /\ sp' = sp
        /\ surplus' = surplus
    BY <1>7 DEF ScopeEnter, Fetch, Stop
  <2> QED BY <2>1, <1>1, <1>3, <1>4 DEF Stops, Effect, Height
<1>8. CASE ScopeExit
  <2>1. /\ code[ip].op = "EXIT" /\ ip' = ip + 1 /\ sp' = sp /\ surplus' = surplus
        /\ scope_sp' = IF scope_sp > 0 THEN scope_sp - 1 ELSE 0
    BY <1>8 DEF ScopeExit, Fetch
  <2> QED BY <2>1, <1>1, <1>3, <1>4, <1>5 DEF Stops, Effect, Height
<1>9. CASE Push
  <2>1. /\ code[ip].op \in {"PUSH", "AGET"} /\ sp' = sp + 1 /\ ip' = ip + 1
        /\ surplus' = IF code[ip].op = "AGET" THEN surplus + 1 ELSE surplus
        /\ scope_sp' = scope_sp
    BY <1>9 DEF Push, Fetch, Stop
  <2> QED BY <2>1, <1>1, <1>3, <1>4 DEF Stops, Effect, Height
<1>10. CASE Pop
  <2>1. /\ code[ip].op \in {"POP", "SVAR", "IT_SET"} /\ sp' = sp - 1 /\ ip' = ip + 1
        /\ surplus' = IF code[ip].op = "POP" THEN surplus ELSE surplus - 1
        /\ scope_sp' = scope_sp
    BY <1>10 DEF Pop, Fetch, Stop
  <2> QED BY <2>1, <1>1, <1>3, <1>4 DEF Stops, Effect, Height
<1>11. CASE Jump
  <2>1. /\ sp' = sp /\ scope_sp' = scope_sp /\ surplus' = surplus
        /\ \/ code[ip].op = "JMP" /\ ip' = code[ip].arg
           \/ code[ip].op = "JZ" /\ ip' \in {ip + 1, code[ip].arg}
    BY <1>11 DEF Jump, Fetch
  <2>2. CASE code[ip].op \in Jumps /\ ip' = code[ip].arg
    BY <2>1, <2>2, <1>1, <1>4
  <2>3. CASE code[ip].op = "JZ" /\ ip' = ip + 1
    BY <2>1, <2>3, <1>1, <1>4, <1>5 DEF Stops, Effect
  <2> QED BY <2>1, <2>2, <2>3 DEF Jumps
<1>12. CASE Ret \/ Halt
  BY <1>12 DEF Ret, Halt, Stop
<1>13. CASE Even
  <2>1. /\ code[ip].op \in {"IT_SET", "AGET"} /\ ip' = ip + 1
        /\ sp' = sp /\ scope_sp' = scope_sp /\ surplus' = surplus
    BY <1>13 DEF Even, Fetch
  <2> QED BY <2>1, <1>1, <1>3, <1>4, <1>5 DEF Stops, Effect
<1> QED BY <1>7, <1>8, <1>9, <1>10, <1>11, <1>12, <1>13 DEF RunStep

LEMMA RunStepTypes ==
  ASSUME Types, Finished, ip \in 1 .. Len(code), RunStep
  PROVE  /\ Types' /\ phase = "run" /\ phase' # "compile"
         /\ phase' = "run" => ip' \in 1 .. Len(code)
         /\ UNCHANGED <<code, compiler>>
<1> USE CodegenConstants
<1>1. UNCHANGED <<code, compiler>> /\ phase = "run"
  BY DEF RunStep, ScopeEnter, ScopeExit, Push, Pop, Even, Jump, Ret, Halt, Fetch
<1>2. /\ inside_function' = inside_function /\ local_count' = local_count
      /\ current_scope_depth' = current_scope_depth /\ statements' = statements /\ code' = code
  BY <1>1 DEF compiler
<1>3. /\ Len(code) \in Nat /\ code[ip].arg \in 1 .. Len(code)
      /\ code[ip].op \notin {"RET", "HLT"} => ip + 1 \in 1 .. Len(code)
  BY DEF Finished
<1>4. /\ sp \in 0 .. STACK_SIZE /\ scope_sp \in 0 .. MAX_LOOP_NESTING /\ ip \in Nat
      /\ surplus \in Int
  BY DEF Types
<1>5. /\ sp' \in 0 .. STACK_SIZE /\ scope_sp' \in 0 .. MAX_LOOP_NESTING
      /\ ip' \in 1 .. Len(code) /\ surplus' \in Int
      /\ phase' \in {"run", "done", "overflow", "underflow"}
  <2>1. CASE ScopeEnter
    BY <2>1, <1>1, <1>3, <1>4 DEF ScopeEnter, Fetch, Stop, machine
  <2>2. CASE ScopeExit
    BY <2>2, <1>1, <1>3, <1>4 DEF ScopeExit, Fetch
  <2>3. CASE Push
    BY <2>3, <1>1, <1>3, <1>4 DEF Push, Fetch, Stop, machine
  <2>4. CASE Pop
    BY <2>4, <1>1, <1>3, <1>4 DEF Pop, Fetch, Stop, machine
  <2>5. CASE Jump
    BY <2>5, <1>1, <1>3, <1>4 DEF Jump, Fetch
  <2>6. CASE Ret
    BY <2>6, <1>4 DEF Ret
  <2>7. CASE Halt
    BY <2>7, <1>4 DEF Halt, Stop, machine
  <2>8. CASE Even
    BY <2>8, <1>1, <1>3, <1>4 DEF Even, Fetch
  <2> QED BY <2>1, <2>2, <2>3, <2>4, <2>5, <2>6, <2>7, <2>8 DEF RunStep
<1>6. ip' \in Nat
  BY <1>3, <1>5
<1>7. Types'
  BY <1>2, <1>5, <1>6 DEF Types
<1> QED BY <1>1, <1>5, <1>7

LEMMA NextCode == CodeInv /\ [Next]_vars => CodeInv'
<1> SUFFICES ASSUME CodeInv, [Next]_vars PROVE CodeInv'
  OBVIOUS
<1>0. Types /\ CompileInv /\ RunInv
  BY DEF CodeInv
<1>1. CASE CompileStep
  <2>1. phase = "compile"
    BY <1>1 DEF CompileStep, Var, Region, Element, If, ElseIf, Else, Branch, CloseIf, ForIn, CloseForIn,
           ForCond, CloseForCond, Forever, CloseForever, Break, Continue, Leave, Return, Statement,
           In
  <2>2. Shape /\ \A k \in Kinds : Applies(k) => Carried(k)
    BY <2>1, <1>0 DEF CompileInv
  <2>3. "jumps" \in Kinds /\ Applies("jumps")
    BY DEF Kinds, Applies
  <2>4. Shape'
    BY <1>1, <2>2, <2>3, CompileStepCarries
  <2>5. Types' /\ phase' = "compile"
    BY <1>0, <1>1, <2>1, <2>2, <2>4, CompileStepTypes
  <2>6. ASSUME NEW k \in Kinds, Applies(k)' PROVE Carried(k)'
    <3>1. Applies(k)
      BY <2>6 DEF Applies
    <3> QED BY <3>1, <1>1, <2>2, CompileStepCarries
  <2> QED BY <2>4, <2>5, <2>6 DEF CodeInv, CompileInv, RunInv
<1>2. CASE Finish
  <2>1. /\ phase = "compile" /\ phase' = "run" /\ surplus' = surplus /\ ip' = ip /\ sp' = sp
        /\ scope_sp' = scope_sp /\ inside_function' = inside_function /\ statements' = statements
        /\ local_count' = local_count /\ current_scope_depth' = current_scope_depth
    BY <1>2 DEF Finish, machine
  <2>2. Shape /\ \A k \in Kinds : Applies(k) => Carried(k)
    BY <2>1, <1>0 DEF CompileInv
  <2>3. "jumps" \in Kinds /\ Applies("jumps")
    BY DEF Kinds, Applies
  <2>4. ip = 1 /\ scope_sp = 0 /\ Entry \in marks
    BY <2>1, <1>0 DEF Types
  <2>5. Finished' /\ 1 \in 1 .. Len(code')
    BY <1>2, <2>2, <2>3, FinishFinished
  <2>6. ASSUME NEW k \in Kinds, Applies(k)' PROVE Stands(k)'
    <3>1. Applies(k)
      BY <2>6 DEF Applies
    <3> QED BY <3>1, <1>2, <2>2, <2>4, FinishStands
  <2>7. Types'
    BY <2>1, <1>0 DEF Types
  <2>8. ip' \in 1 .. Len(code')
    BY <2>1, <2>4, <2>5
  <2> QED BY <2>1, <2>5, <2>6, <2>7, <2>8 DEF CodeInv, CompileInv, RunInv
<1>3. CASE RunStep
  <2>1. phase = "run"
    BY <1>3 DEF RunStep, ScopeEnter, ScopeExit, Push, Pop, Even, Jump, Ret, Halt, Fetch
  <2>2. Finished /\ ip \in 1 .. Len(code) /\ \A k \in Kinds : Applies(k) => Stands(k)
    BY <2>1, <1>0 DEF RunInv
  <2>3. /\ Types' /\ phase' # "compile"
        /\ phase' = "run" => ip' \in 1 .. Len(code)
        /\ UNCHANGED <<code, compiler>>
    BY <1>0, <1>3, <2>2, RunStepTypes
  <2>4. code' = code
    BY <2>3 DEF compiler
  <2>5. Finished' /\ (phase' = "run" => ip' \in 1 .. Len(code'))
    BY <2>2, <2>3, <2>4 DEF Finished
  <2>6. ASSUME phase' = "run", NEW k \in Kinds, Applies(k)' PROVE Stands(k)'
    <3>1. Applies(k)
      BY <2>6 DEF Applies
    <3> QED BY <3>1, <1>0, <1>3, <2>2, <2>6, RunStepStands
  <2> QED BY <2>3, <2>5, <2>6 DEF CodeInv, CompileInv, RunInv
<1>4. CASE UNCHANGED vars
  <2>1. /\ phase' = phase /\ code' = code /\ inside_function' = inside_function /\ open' = open
        /\ loop_stack' = loop_stack /\ current_scope_depth' = current_scope_depth
        /\ local_count' = local_count /\ marks' = marks /\ surplus' = surplus
        /\ statements' = statements /\ ip' = ip /\ sp' = sp /\ scope_sp' = scope_sp
    BY <1>4 DEF vars, compiler, machine
  <2>2. Types'
    BY <2>1, <1>0 DEF Types, Entry
  <2>3. Base' = Base
    BY <2>1 DEF Base
  <2>4. Shape => Shape'
    BY <2>1, <2>3 DEF Shape
  <2>5. \A k \in Kinds : /\ Carried(k) => Carried(k)'
                         /\ Applies(k)' => Applies(k)
                         /\ Stands(k) => Stands(k)'
    BY <2>1, <2>3 DEF Carried, Applies, Stands
  <2>6. Finished => Finished'
    BY <2>1 DEF Finished
  <2>7. CompileInv'
    BY <2>1, <2>4, <2>5, <1>0 DEF CompileInv
  <2>8. RunInv'
    BY <2>1, <2>5, <2>6, <1>0 DEF RunInv
  <2> QED BY <2>2, <2>7, <2>8 DEF CodeInv
<1> QED BY <1>1, <1>2, <1>3, <1>4 DEF Next, Compile, Run, CompileStep, RunStep

LEMMA CodeHolds == Spec => []CodeInv
BY InitCode, NextCode, PTL DEF Spec

-----------------------------------------------------------------------------
(* The theorems.                                                           *)

(* The types of compiler and VM; all jumps of a finished program, patched  *)
(* or not, stay in it, whatever blocks, loops and jumps out of them it is  *)
(* made of.                                                                *)
THEOREM TypeCorrect == Spec => []TypeOK
<1>1. CodeInv => TypeOK
  <2> SUFFICES ASSUME CodeInv PROVE TypeOK
    OBVIOUS
  <2>1. Types /\ CompileInv /\ RunInv
    BY DEF CodeInv
  <2>2. code \in Seq(Instr)
    <3>1. CASE phase = "compile"
      <4>1. "jumps" \in Kinds /\ Applies("jumps")
        BY DEF Kinds, Applies
      <4>2. Shape /\ Carried("jumps")
        BY <3>1, <4>1, <2>1 DEF CompileInv
      <4> QED BY <4>2, Begin
    <3>2. CASE phase # "compile"
      BY <3>2, <2>1 DEF RunInv, Finished
    <3> QED BY <3>1, <3>2
  <2>3. phase # "compile" => \A k \in DOMAIN code : code[k].arg \in DOMAIN code
    BY <2>1, <2>2, LenProperties DEF RunInv, Finished
  <2> QED BY <2>1, <2>2, <2>3 DEF TypeOK, Types, Instr, Ops
<1> QED BY <1>1, CodeHolds, PTL

(* compiler.c:419: at every statement, reached whichever way, the VM has   *)
(* as many scopes open as the source has blocks around it, in all programs *)
(* without a break or continue behind a conditional loop in its loop.      *)
THEOREM ScopesAreUnwound ==
  ASSUME "drift" \in Avoids
  PROVE  Spec => []ScopesUnwound
<1>1. CodeInv => ScopesUnwound
  <2> SUFFICES ASSUME CodeInv, phase = "run", NEW m \in marks, m.addr = ip
               PROVE  scope_sp = m.scopes
    BY DEF ScopesUnwound
  <2>1. "scopes" \in Kinds /\ Applies("scopes")
    BY DEF Kinds, Applies
  <2>2. Stands("scopes")
    BY <2>1 DEF CodeInv, RunInv
  <2>3. PICK h : /\ h[ip] = Height("scopes", scope_sp, sp - surplus)
                 /\ MarksFit("scopes", h, Len(code), marks)
    BY <2>2 DEF Stands
  <2>4. h[m.addr] = Height("scopes", m.scopes, m.locals)
    BY <2>3 DEF MarksFit, MarkFits
  <2> QED BY <2>3, <2>4 DEF Height
<1> QED BY <1>1, CodeHolds, PTL

(* The slot the compiler numbers a local with is the one the VM has for    *)
(* it, at every statement, but for what the program ran so far that leaves *)
(* the stack uneven: elements named and not assigned, region and embed in  *)
(* functions, iterators that push nothing, arguments missing or too many.  *)
(* No block, loop or jump adds to it, in programs that drift neither.  An  *)
(* expression is one value throughout: a struct read by position is none.  *)
THEOREM LocalsAreAligned == Spec => []LocalsLineUp
<1>1. CodeInv => LocalsLineUp
  <2> SUFFICES ASSUME CodeInv, phase = "run", NEW m \in marks, m.addr = ip
               PROVE  sp = m.locals + surplus
    BY DEF LocalsLineUp
  <2>1. "locals" \in Kinds /\ Applies("locals")
    BY DEF Kinds, Applies
  <2>2. Stands("locals") /\ sp \in Int /\ surplus \in Int
    BY <2>1, CodegenConstants DEF CodeInv, RunInv, Types
  <2>3. PICK h : /\ h[ip] = Height("locals", scope_sp, sp - surplus)
                 /\ MarksFit("locals", h, Len(code), marks)
    BY <2>2 DEF Stands
  <2>4. h[m.addr] = Height("locals", m.scopes, m.locals)
    BY <2>3 DEF MarksFit, MarkFits
  <2>5. sp - surplus = m.locals
    BY <2>3, <2>4 DEF Height
  <2> QED BY <2>2, <2>5
<1> QED BY <1>1, CodeHolds, PTL
=============================================================================
