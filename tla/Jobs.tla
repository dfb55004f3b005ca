-------------------------------- MODULE Jobs --------------------------------
(***************************************************************************)
(* system_thread and get_job (mylolib.c, os_job.h): shell commands run by  *)
(* detached threads and handed over through job_registry.  Everything a    *)
(* caller does happens under job_mutex, so a call is one step, of whatever *)
(* VM; a job_worker thread takes three: run the command, publish the       *)
(* result under the mutex, and free the command after it.                  *)
(*                                                                         *)
(* A job is the number of the system_thread call that started it; the      *)
(* block strdup returns for its command has the same number.               *)
(***************************************************************************)
EXTENDS Integers

CONSTANTS
  MAX_JOBS,     (* Slots of job_registry.                                  *)
  Names,        (* Names programs give their jobs.                         *)
  LongNames,    (* Those strncpy cuts at 63 characters.                    *)
  CutName,      (* What it leaves of them: nobody asks for that.           *)
  NoName,       (* The name of an entry that was never used.               *)
  MaxStarted    (* Bound: jobs ever started.                               *)

ASSUME JobConstants ==
  /\ MAX_JOBS \in Nat \ {0}
  /\ LongNames \subseteq Names
  /\ CutName \notin Names /\ NoName \notin Names
  /\ MaxStarted \in Nat \ {0}

Slot == 1 .. MAX_JOBS
Job  == 1 .. MaxStarted
None == 0

VARIABLES
  registry,   (* job_registry; cmd and result name the job they belong to  *)
  threads,    (* per job: its thread, and what it ran and freed (history)  *)
  started,    (* number of jobs started                                    *)
  freed,      (* command blocks given back to malloc                       *)
  collected   (* results get_job returned: the name asked and the job      *)

vars == <<registry, threads, started, freed, collected>>

EmptySlot == [active |-> FALSE, name |-> NoName, cmd |-> None, status |-> 0,
              result |-> None]
NoThread  == [at |-> "none", slot |-> 1, name |-> NoName, ran |-> None,
              gaveBack |-> None]

(* A cut name is no longer equal to the one get_job is asked for. *)
Stored(n) == IF n \in LongNames THEN CutName ELSE n

FirstFree(s) ==
  ~registry[s].active /\ \A r \in Slot : ~registry[r].active => s <= r

Matches(s, n) == registry[s].active /\ registry[s].name = n
FirstMatch(s, n) == Matches(s, n) /\ \A r \in Slot : Matches(r, n) => s <= r

(* system_thread: with no free slot it answers 0 and changes nothing.      *)
(* What pthread_create says is ignored.                                    *)
SystemThread(n, s, ok) ==
  /\ started < MaxStarted
  /\ FirstFree(s)
  /\ started' = started + 1
  /\ registry' = [registry EXCEPT ![s] =
       [active |-> TRUE, name |-> Stored(n), cmd |-> started', status |-> 0,
        result |-> None]]
  /\ threads' = [threads EXCEPT ![started'] =
       [at |-> IF ok THEN "spawned" ELSE "none", slot |-> s, name |-> n,
        ran |-> None, gaveBack |-> None]]
  /\ UNCHANGED <<freed, collected>>

(* internal_exec_command(job->cmd): what a freed block reads as is none of *)
(* the commands.                                                           *)
RunCommand(j) ==
  LET cmd == registry[threads[j].slot].cmd IN
  /\ threads[j].at = "spawned"
  /\ threads' = [threads EXCEPT ![j].at = "ran",
                                ![j].ran = IF cmd \in freed THEN None ELSE cmd]
  /\ UNCHANGED <<registry, started, freed, collected>>

(* Mutants: half of the result is published. *)
PublishStatus(j) ==
  /\ threads[j].at = "ran"
  /\ registry' = [registry EXCEPT ![threads[j].slot].status = 1]
  /\ threads' = [threads EXCEPT ![j].at = "published"]
  /\ UNCHANGED <<started, freed, collected>>

PublishResult(j) ==
  /\ threads[j].at = "ran"
  /\ registry' = [registry EXCEPT ![threads[j].slot].result = j]
  /\ threads' = [threads EXCEPT ![j].at = "published"]
  /\ UNCHANGED <<started, freed, collected>>

Publish(j) ==
  /\ threads[j].at = "ran"
  /\ registry' = [registry EXCEPT ![threads[j].slot].result = j,
                                  ![threads[j].slot].status = 1]
  /\ threads' = [threads EXCEPT ![j].at = "published"]
  /\ UNCHANGED <<started, freed, collected>>

(* free(job->cmd), outside the mutex: whatever the slot holds now. *)
FreeCommand(j) ==
  LET cmd == registry[threads[j].slot].cmd IN
  /\ threads[j].at = "published"
  /\ freed' = freed \cup {cmd}
  /\ threads' = [threads EXCEPT ![j].at = "ended", ![j].gaveBack = cmd]
  /\ UNCHANGED <<registry, started, collected>>

(* Mutants: a running job is collected; a collected job stays registered. *)
GetJobRunning(n, s) ==
  /\ FirstMatch(s, n)
  /\ collected' = collected \cup {[name |-> n, job |-> registry[s].result]}
  /\ registry' = [registry EXCEPT ![s].active = FALSE]
  /\ UNCHANGED <<threads, started, freed>>

GetJobAgain(n, s) ==
  /\ FirstMatch(s, n)
  /\ registry[s].status = 1
  /\ collected' = collected \cup {[name |-> n, job |-> registry[s].result]}
  /\ UNCHANGED <<registry, threads, started, freed>>

(* get_job on a finished job.  On a running one it answers 1, on a name it *)
(* does not find -1, and changes nothing.                                  *)
GetJob(n, s) ==
  /\ FirstMatch(s, n)
  /\ registry[s].status = 1
  /\ collected' = collected \cup {[name |-> n, job |-> registry[s].result]}
  /\ registry' = [registry EXCEPT ![s].active = FALSE]
  /\ UNCHANGED <<threads, started, freed>>

Init ==
  /\ registry = [s \in Slot |-> EmptySlot]
  /\ threads = [j \in Job |-> NoThread]
  /\ started = 0
  /\ freed = {}
  /\ collected = {}

Thread(j) == RunCommand(j) \/ Publish(j) \/ FreeCommand(j)

Next ==
  \/ \E n \in Names, s \in Slot, ok \in BOOLEAN : SystemThread(n, s, ok)
  \/ \E n \in Names, s \in Slot : GetJob(n, s)
  \/ \E j \in Job : Thread(j)

(* Commands end and threads are scheduled; programs keep polling. *)
Fairness ==
  /\ \A j \in Job : WF_vars(Thread(j))
  /\ \A n \in Names : WF_vars(\E s \in Slot : GetJob(n, s))

Spec == Init /\ [][Next]_vars /\ Fairness
-----------------------------------------------------------------------------
(* The shape of the state. *)
TypeOK ==
  /\ registry \in [Slot -> [active : BOOLEAN, name : Names \cup {NoName, CutName},
                            cmd : 0 .. MaxStarted, status : {0, 1},
                            result : 0 .. MaxStarted]]
  /\ threads \in [Job -> [at : {"none", "spawned", "ran", "published", "ended"},
                          slot : Slot, name : Names \cup {NoName},
                          ran : 0 .. MaxStarted, gaveBack : 0 .. MaxStarted]]
  /\ started \in 0 .. MaxStarted
  /\ freed \subseteq Job
  /\ collected \subseteq [name : Names, job : Job]

(* A slot is not given away while a thread still owes it a result: until   *)
(* it publishes, the slot is active, unfinished and about its own job, so  *)
(* results never land in another job's entry.                              *)
RunningJobKeepsSlot ==
  \A j \in Job : threads[j].at \in {"spawned", "ran"} =>
    LET entry == registry[threads[j].slot] IN
      entry.active /\ entry.status = 0 /\ entry.cmd = j

(* get_job(n) hands out results of jobs started as n only, each to one     *)
(* call, and never the output of a job twice.                              *)
ResultMatchesName ==
  /\ \A c \in collected : threads[c.job].name = c.name
  /\ \A s \in Slot : registry[s].active =>
       \A c \in collected : c.job # registry[s].cmd

(* A program that keeps polling gets the result of every job, unless       *)
(* another job is registered under the same name or the name is cut.       *)
Shadowed(j) ==
  \/ threads[j].name \in LongNames
  \/ \E s \in Slot : /\ registry[s].active /\ registry[s].cmd # j
                     /\ registry[s].name = Stored(threads[j].name)
ResultsReachCaller ==
  \A j \in Job : (threads[j].at = "spawned")
                   ~> (Shadowed(j) \/ \E c \in collected : c.job = j)

(* mylolib.c:1495: "Free the command string copy" -- the thread's own.     *)
FreesOwnCommand ==
  \A j \in Job : threads[j].at = "ended" => threads[j].gaveBack = j
=============================================================================
