----------------------------- MODULE JobsProofs ------------------------------
(***************************************************************************)
(* Proofs about Jobs, for any number of slots, names and jobs: types, and  *)
(* the two safety invariants that job_mutex and the slot protocol give.    *)
(***************************************************************************)
EXTENDS Jobs, TLAPS

(* What the two properties rest on: numbers above `started` are unused, an *)
(* active entry is about one started job, no two entries are about the     *)
(* same one, and a finished entry carries the result of its own job.       *)
Numbered ==
  /\ \A j \in Job : j > started => threads[j].at = "none"
  /\ \A j \in Job : threads[j].at # "none" => registry[threads[j].slot].cmd # None
  /\ \A s \in Slot : registry[s].active => registry[s].cmd \in 1 .. started
  /\ \A c \in collected : c.job <= started

OwnEntry ==
  \A s \in Slot : registry[s].active =>
    /\ registry[s].name = Stored(threads[registry[s].cmd].name)
    /\ registry[s].status = 1 => registry[s].result = registry[s].cmd
    /\ \A r \in Slot : registry[r].active /\ registry[r].cmd = registry[s].cmd
                         => r = s

IInv == /\ TypeOK
        /\ Numbered
        /\ RunningJobKeepsSlot
        /\ OwnEntry
        /\ ResultMatchesName

-----------------------------------------------------------------------------
(* A name fits the registry entry whether strncpy cuts it or not, and one  *)
(* it cuts is no longer the name of any job.                               *)
LEMMA StoredName ==
  ASSUME NEW n \in Names
  PROVE  /\ Stored(n) \in Names \cup {NoName, CutName}
         /\ \A m \in Names : Stored(n) = m => n = m
  BY JobConstants DEF Stored

(* Before the first call the registry is empty and nothing was started. *)
LEMMA IInvInit == Init => IInv
<1> SUFFICES ASSUME Init PROVE IInv
  OBVIOUS
<1> USE DEF Init, EmptySlot, NoThread, None
<1>0. 1 \in Slot /\ MaxStarted \in Nat
  BY JobConstants DEF Slot
<1>1. TypeOK
  BY <1>0 DEF TypeOK, Job
<1>2. Numbered /\ RunningJobKeepsSlot /\ OwnEntry /\ ResultMatchesName
  BY DEF Numbered, RunningJobKeepsSlot, OwnEntry, ResultMatchesName
<1> QED
  BY <1>1, <1>2 DEF IInv

-----------------------------------------------------------------------------
(* system_thread keeps the invariant: the slot it takes was inactive, so   *)
(* no running job loses it, and the number it gives was never used.        *)
LEMMA SystemThreadStep ==
  ASSUME IInv, NEW n \in Names, NEW s \in Slot, NEW ok \in BOOLEAN,
         SystemThread(n, s, ok)
  PROVE  IInv'
<1> DEFINE new == started + 1
           at  == IF ok THEN "spawned" ELSE "none"
<1> USE DEF IInv, None
<1>0. MaxStarted \in Nat /\ started \in Nat /\ new \in Job /\ started' = new
  BY JobConstants DEF SystemThread, TypeOK, Job
<1>1. /\ registry' = [registry EXCEPT ![s] =
           [active |-> TRUE, name |-> Stored(n), cmd |-> new, status |-> 0,
            result |-> 0]]
      /\ threads' = [threads EXCEPT ![new] =
           [at |-> at, slot |-> s, name |-> n, ran |-> 0, gaveBack |-> 0]]
      /\ freed' = freed /\ collected' = collected
      /\ ~registry[s].active
  BY <1>0 DEF SystemThread, FirstFree
<1>2. Stored(n) \in Names \cup {NoName, CutName}
  BY StoredName
<1>3. TypeOK'
  <2>1. registry' \in [Slot -> [active : BOOLEAN, name : Names \cup {NoName, CutName},
                                cmd : 0 .. MaxStarted, status : {0, 1},
                                result : 0 .. MaxStarted]]
    BY <1>0, <1>1, <1>2 DEF TypeOK, Job
  <2>2. threads' \in [Job -> [at : {"none", "spawned", "ran", "published", "ended"},
                              slot : Slot, name : Names \cup {NoName},
                              ran : 0 .. MaxStarted, gaveBack : 0 .. MaxStarted]]
    BY <1>0, <1>1 DEF TypeOK
  <2> QED
    BY <1>0, <1>1, <2>1, <2>2 DEF TypeOK, Job
<1>4. /\ \A j \in Job : j # new => threads'[j] = threads[j]
      /\ threads'[new] = [at |-> at, slot |-> s, name |-> n, ran |-> 0, gaveBack |-> 0]
      /\ \A r \in Slot : r # s => registry'[r] = registry[r]
      /\ registry'[s] = [active |-> TRUE, name |-> Stored(n), cmd |-> new,
                         status |-> 0, result |-> 0]
  BY <1>0, <1>1 DEF TypeOK
<1>5. Numbered'
  <2>1. \A j \in Job : threads'[j].at # "none" => registry'[threads'[j].slot].cmd # 0
    BY <1>0, <1>4 DEF Numbered, TypeOK
  <2>2. \A j \in Job : j > new => threads'[j].at = "none"
    BY <1>0, <1>4 DEF Numbered, Job
  <2>3. \A r \in Slot : registry'[r].active => registry'[r].cmd \in 1 .. new
    BY <1>0, <1>4 DEF Numbered
  <2>4. \A c \in collected' : c.job <= new
    BY <1>0, <1>1 DEF Numbered, TypeOK, Job
  <2> QED
    BY <1>0, <2>1, <2>2, <2>3, <2>4 DEF Numbered
<1>6. RunningJobKeepsSlot'
  BY <1>0, <1>1, <1>4 DEF RunningJobKeepsSlot, TypeOK
<1>7. \A r \in Slot : registry[r].active => registry[r].cmd # new /\ registry[r].cmd \in Job
  BY <1>0 DEF Numbered, Job
<1>8. OwnEntry'
  BY <1>0, <1>1, <1>4, <1>7 DEF OwnEntry
<1>9. ResultMatchesName'
  <2>1. \A c \in collected : c.job # new /\ c.job \in Job
    BY <1>0 DEF Numbered, TypeOK, Job
  <2> QED
    BY <1>1, <1>4, <2>1 DEF ResultMatchesName
<1> QED
  BY <1>3, <1>5, <1>6, <1>8, <1>9

(* A job_worker step keeps the invariant: the slot it writes is its own    *)
(* until it has published.                                                 *)
LEMMA ThreadStep ==
  ASSUME IInv, NEW j \in Job, Thread(j)
  PROVE  IInv'
<1> USE DEF IInv, None
<1> DEFINE t == threads[j]
           e == registry[t.slot]
<1>0. t.slot \in Slot /\ MaxStarted \in Nat
  BY JobConstants DEF TypeOK
<1>1. CASE RunCommand(j)
  <2>1. /\ threads' = [threads EXCEPT ![j].at = "ran",
                                      ![j].ran = IF e.cmd \in freed THEN 0 ELSE e.cmd]
        /\ t.at = "spawned"
    BY <1>1 DEF RunCommand
  <2>a. UNCHANGED <<registry, started, freed, collected>>
    BY <1>1 DEF RunCommand
  <2>2. /\ \A k \in Job : k # j => threads'[k] = threads[k]
        /\ threads'[j].slot = t.slot /\ threads'[j].name = t.name
        /\ threads'[j].at = "ran" /\ threads'[j].gaveBack = t.gaveBack
        /\ threads'[j].ran \in 0 .. MaxStarted
    BY <1>0, <2>1 DEF TypeOK
  <2>3. TypeOK'
    BY <1>0, <2>1, <2>a, <2>2 DEF TypeOK
  <2>b. t.at = "spawned"
    BY <2>1
  <2>4. Numbered'
    BY <2>a, <2>b, <2>2 DEF Numbered
  <2>5. RunningJobKeepsSlot'
    BY <2>a, <2>b, <2>2 DEF RunningJobKeepsSlot
  <2>6. OwnEntry' /\ ResultMatchesName'
    <3>1. \A k \in Job : threads'[k].name = threads[k].name
      BY <2>2
    <3>2. \A s \in Slot : registry[s].active => registry[s].cmd \in Job
      BY DEF Numbered, TypeOK, Job
    <3> QED
      BY <2>a, <3>1, <3>2 DEF OwnEntry, ResultMatchesName, TypeOK
  <2> QED
    BY <2>3, <2>4, <2>5, <2>6
<1>2. CASE Publish(j)
  <2>1. /\ registry' = [registry EXCEPT ![t.slot].result = j, ![t.slot].status = 1]
        /\ threads' = [threads EXCEPT ![j].at = "published"]
        /\ t.at = "ran"
        /\ UNCHANGED <<started, freed, collected>>
    BY <1>2 DEF Publish
  <2>2. /\ \A k \in Job : k # j => threads'[k] = threads[k]
        /\ threads'[j] = [t EXCEPT !.at = "published"]
        /\ \A r \in Slot : r # t.slot => registry'[r] = registry[r]
        /\ registry'[t.slot].active = e.active /\ registry'[t.slot].cmd = e.cmd
        /\ registry'[t.slot].name = e.name
        /\ registry'[t.slot].result = j
    BY <1>0, <2>1 DEF TypeOK
  <2>3. e.active /\ e.cmd = j
    BY <2>1 DEF RunningJobKeepsSlot
  <2>4. TypeOK'
    <3>1. j \in 0 .. MaxStarted
      BY <1>0 DEF Job
    <3> QED
      BY <1>0, <2>1, <3>1 DEF TypeOK
  <2>5. \A r \in Slot : /\ registry'[r].active = registry[r].active
                        /\ registry'[r].cmd = registry[r].cmd
                        /\ registry'[r].name = registry[r].name
    BY <2>2
  <2>6. \A k \in Job : /\ threads'[k].slot = threads[k].slot
                       /\ threads'[k].name = threads[k].name
                       /\ k # j => threads'[k].at = threads[k].at
    BY <2>2 DEF TypeOK
  <2>7. Numbered'
    <3>1. t.at # "none" /\ ~(j > started)
      BY <2>1 DEF Numbered
    <3>2. \A k \in Job : threads[k].slot \in Slot
      BY DEF TypeOK
    <3>3. \A k \in Job : k > started => threads'[k].at = "none"
      BY <2>2, <3>1 DEF Numbered
    <3>4. \A k \in Job : threads'[k].at # "none" => registry'[threads'[k].slot].cmd # 0
      BY <2>2, <2>5, <2>6, <3>1, <3>2 DEF Numbered
    <3> QED
      BY <2>1, <2>5, <3>3, <3>4 DEF Numbered
  <2>8. RunningJobKeepsSlot'
    <3> SUFFICES ASSUME NEW k \in Job, threads'[k].at \in {"spawned", "ran"}
                 PROVE  LET entry == registry'[threads'[k].slot] IN
                          entry.active /\ entry.status = 0 /\ entry.cmd = k
      BY DEF RunningJobKeepsSlot
    <3>1. k # j
      BY <2>2 DEF TypeOK
    <3>2. registry[threads[k].slot].cmd = k /\ threads[k].slot \in Slot
      BY <2>2, <3>1 DEF RunningJobKeepsSlot, TypeOK
    <3>3. threads[k].slot # t.slot
      BY <2>3, <3>1, <3>2
    <3> QED
      BY <2>2, <3>1, <3>2, <3>3 DEF RunningJobKeepsSlot
  <2>9. OwnEntry'
    <3>1. \A s \in Slot : registry[s].active => registry[s].cmd \in Job
      BY DEF Numbered, TypeOK, Job
    <3>2. \A s \in Slot : registry'[s].active /\ registry'[s].status = 1
                            => registry'[s].result = registry'[s].cmd
      BY <2>2, <2>3 DEF OwnEntry
    <3> QED
      BY <2>5, <2>6, <3>1, <3>2 DEF OwnEntry
  <2>10. ResultMatchesName'
    BY <2>1, <2>5, <2>6 DEF ResultMatchesName, TypeOK
  <2> QED
    BY <2>4, <2>7, <2>8, <2>9, <2>10
<1>3. CASE FreeCommand(j)
  <2>1. /\ threads' = [threads EXCEPT ![j].at = "ended", ![j].gaveBack = e.cmd]
        /\ freed' = freed \cup {e.cmd}
        /\ t.at = "published"
        /\ UNCHANGED <<registry, started, collected>>
    BY <1>3 DEF FreeCommand
  <2>2. /\ \A k \in Job : k # j => threads'[k] = threads[k]
        /\ threads'[j].slot = t.slot /\ threads'[j].name = t.name
        /\ threads'[j].at = "ended" /\ threads'[j].ran = t.ran
        /\ threads'[j].gaveBack = e.cmd
    BY <1>0, <2>1 DEF TypeOK
  <2>3. e.cmd \in Job
    BY <1>0, <2>1 DEF Numbered, TypeOK, Job
  <2>4. TypeOK'
    BY <1>0, <2>1, <2>2, <2>3 DEF TypeOK, Job
  <2>5. Numbered'
    BY <2>1, <2>2 DEF Numbered
  <2>6. RunningJobKeepsSlot'
    BY <2>1, <2>2 DEF RunningJobKeepsSlot
  <2>7. OwnEntry' /\ ResultMatchesName'
    <3>1. \A k \in Job : threads'[k].name = threads[k].name
      BY <2>2
    <3>2. \A s \in Slot : registry[s].active => registry[s].cmd \in Job
      BY DEF Numbered, TypeOK, Job
    <3> QED
      BY <2>1, <3>1, <3>2 DEF OwnEntry, ResultMatchesName, TypeOK
  <2> QED
    BY <2>4, <2>5, <2>6, <2>7
<1> QED
  BY <1>1, <1>2, <1>3 DEF Thread

(* get_job keeps the invariant: the entry it retires is finished, so it    *)
(* holds its own job's result and no thread will come back to it.          *)
LEMMA GetJobStep ==
  ASSUME IInv, NEW n \in Names, NEW s \in Slot, GetJob(n, s)
  PROVE  IInv'
<1> USE DEF IInv, None
<1> DEFINE e == registry[s]
           c == [name |-> n, job |-> e.result]
<1>1. /\ e.active /\ e.name = n /\ e.status = 1
      /\ collected' = collected \cup {c}
      /\ registry' = [registry EXCEPT ![s].active = FALSE]
      /\ UNCHANGED <<threads, started, freed>>
  BY DEF GetJob, FirstMatch, Matches
<1>2. /\ \A r \in Slot : r # s => registry'[r] = registry[r]
      /\ registry'[s] = [e EXCEPT !.active = FALSE]
  BY <1>1 DEF TypeOK
<1>3. e.result = e.cmd /\ e.cmd \in Job /\ e.cmd <= started
  BY <1>1 DEF OwnEntry, Numbered, TypeOK, Job
<1>4. threads[e.cmd].name = n
  <2>1. Stored(threads[e.cmd].name) = n
    BY <1>1 DEF OwnEntry
  <2>2. CASE threads[e.cmd].name \in Names
    BY <2>1, <2>2, StoredName
  <2>3. CASE threads[e.cmd].name = NoName
    BY <2>1, <2>3, JobConstants DEF Stored
  <2> QED
    BY <1>3, <2>2, <2>3 DEF TypeOK
<1>5. TypeOK'
  <2>1. registry' \in [Slot -> [active : BOOLEAN, name : Names \cup {NoName, CutName},
                                cmd : 0 .. MaxStarted, status : {0, 1},
                                result : 0 .. MaxStarted]]
    <3> HIDE DEF e, c
    <3>1. registry' = [registry EXCEPT ![s].active = FALSE]
      BY <1>1
    <3> QED
      BY <3>1 DEF TypeOK
  <2>2. collected' \subseteq [name : Names, job : Job]
    BY <1>1, <1>3 DEF TypeOK
  <2> QED
    BY <1>1, <2>1, <2>2 DEF TypeOK
<1>6. Numbered'
  <2>1. \A j \in Job : registry'[threads[j].slot].cmd = registry[threads[j].slot].cmd
    BY <1>2 DEF TypeOK
  <2> QED
    BY <1>1, <1>2, <1>3, <2>1 DEF Numbered, TypeOK
<1>7. RunningJobKeepsSlot'
  <2> SUFFICES ASSUME NEW k \in Job, threads[k].at \in {"spawned", "ran"}
               PROVE  registry'[threads[k].slot] = registry[threads[k].slot]
    BY <1>1 DEF RunningJobKeepsSlot
  <2>1. threads[k].slot # s /\ threads[k].slot \in Slot
    BY <1>1 DEF RunningJobKeepsSlot, TypeOK
  <2> QED
    BY <1>2, <2>1
<1>8. OwnEntry'
  BY <1>1, <1>2 DEF OwnEntry, TypeOK
<1>9. ResultMatchesName'
  <2>1. \A d \in collected' : threads'[d.job].name = d.name
    BY <1>1, <1>3, <1>4 DEF ResultMatchesName
  <2>2. \A r \in Slot : registry'[r].active =>
          r # s /\ registry'[r] = registry[r] /\ registry[r].cmd # e.cmd
    BY <1>1, <1>2 DEF OwnEntry, TypeOK
  <2> QED
    BY <1>1, <1>3, <2>1, <2>2 DEF ResultMatchesName
<1> QED
  BY <1>5, <1>6, <1>7, <1>8, <1>9

-----------------------------------------------------------------------------
(* IInv holds in every state of every behaviour. *)
THEOREM Invariance == Spec => []IInv
<1>1. Init => IInv
  BY IInvInit
<1>2. IInv /\ [Next]_vars => IInv'
  <2> SUFFICES ASSUME IInv, [Next]_vars PROVE IInv'
    OBVIOUS
  <2>1. CASE Next
    BY <2>1, SystemThreadStep, GetJobStep, ThreadStep DEF Next
  <2>2. CASE UNCHANGED vars
    BY <2>2 DEF vars, IInv, TypeOK, Numbered, RunningJobKeepsSlot, OwnEntry,
                ResultMatchesName
  <2> QED
    BY <2>1, <2>2
<1> QED
  BY <1>1, <1>2, PTL DEF Spec

(* The registry, the threads and the results keep their shape. *)
THEOREM TypeCorrect == Spec => []TypeOK
<1>1. IInv => TypeOK
  BY DEF IInv
<1> QED
  BY <1>1, Invariance, PTL

(* However many threads and callers there are, the slot of a job that has  *)
(* not published is never given to another one.                            *)
THEOREM SlotKept == Spec => []RunningJobKeepsSlot
<1>1. IInv => RunningJobKeepsSlot
  BY DEF IInv
<1> QED
  BY <1>1, Invariance, PTL

(* get_job never hands out another name's result, nor a result twice. *)
THEOREM ResultsMatch == Spec => []ResultMatchesName
<1>1. IInv => ResultMatchesName
  BY DEF IInv
<1> QED
  BY <1>1, Invariance, PTL
=============================================================================
