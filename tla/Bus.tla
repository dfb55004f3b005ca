--------------------------------- MODULE Bus --------------------------------
(***************************************************************************)
(* bus_set and bus_get (mylolib.c): the array global_bus with its count,   *)
(* init_bus, which runs before the lock is taken, and the two natives,     *)
(* which search and then read or write under bus_lock.  Clients are VMs on *)
(* threads of their own.                                                   *)
(***************************************************************************)
EXTENDS Integers, FiniteSets

CONSTANTS
  Clients,          (* VMs using the bus.                                  *)
  Keys, BadKey,     (* String keys, and a key that is not a string.        *)
  Values,           (* Typed values: [type, data].                         *)
  MAX_BUS_ENTRIES,  (* Length of global_bus.                               *)
  FirstAlone,       (* Is the first call over before any other begins?     *)
  Absent, Pending, Nothing

ASSUME BusConstants ==
  /\ MAX_BUS_ENTRIES \in Nat \ {0}
  /\ FirstAlone \in BOOLEAN
  /\ BadKey \notin Keys
  /\ Absent \notin Values

VARIABLES
  global_bus,   (* the entries: key (or Nothing for NULL) and value        *)
  bus_count,    (* entries in use                                          *)
  initialized,  (* bus_initialized                                         *)
  lock,         (* holder of bus_lock, or Nothing                          *)
  pc,           (* per client: where it is in the native                   *)
  call,         (* per client: the call it is in, or Nothing               *)
  idx,          (* per client: the entry its search found, or 0            *)
  reply         (* per client: what the native pushed, or Pending          *)

vars == <<global_bus, bus_count, initialized, lock, pc, call, idx, reply>>

Index == 1 .. MAX_BUS_ENTRIES
Empty == [key |-> Nothing, val |-> Absent]

(* Only T_OBJ and T_STR keep their type, everything else becomes a number. *)
Kept(v) == IF v.type \in {"str", "obj"} THEN v ELSE [v EXCEPT !.type = "num"]

(* Mutant: the last entry is not searched. *)
FoundButLast(k) == {i \in 1 .. bus_count - 1 : global_bus[i].key = k}

Found(k) == {i \in 1 .. bus_count : global_bus[i].key = k}
Lookup(k) == IF Found(k) = {} THEN 0
             ELSE CHOOSE i \in Found(k) : \A j \in Found(k) : i <= j

Goto(c, from, to) == pc[c] = from /\ pc' = [pc EXCEPT ![c] = to]

Number(n) == [type |-> "num", data |-> n]

Answer(c, value) == reply' = [reply EXCEPT ![c] = value]

Calls == [kind : {"set"}, key : Keys \cup {BadKey}, val : Values]
           \cup [kind : {"get"}, key : Keys]

(* What stands for NULL, for no answer yet and for no entry is nothing a   *)
(* client, a key, a call or a value could be.                              *)
ASSUME BusMarkers ==
  /\ Nothing \notin Clients \cup Keys \cup Calls
  /\ \A v \in Values : Kept(v) # Absent /\ Kept(v) # Pending
  /\ Number(0) # Pending /\ Number(1) # Pending

(* The native is called and init_bus reads the flag. *)
Enter(c, op) ==
  /\ Goto(c, "idle", IF initialized THEN "ready" ELSE "init")
  /\ FirstAlone /\ ~initialized => \A d \in Clients : pc[d] = "idle"
  /\ call' = [call EXCEPT ![c] = op]
  /\ reply' = [reply EXCEPT ![c] = Pending]
  /\ UNCHANGED <<global_bus, bus_count, initialized, lock, idx>>

(* The memset of init_bus; bus_count is not reset. *)
ClearBus(c) ==
  /\ Goto(c, "init", "flag")
  /\ global_bus' = [i \in Index |-> Empty]
  /\ UNCHANGED <<bus_count, initialized, lock, call, idx, reply>>

SetFlag(c) ==
  /\ Goto(c, "flag", "ready")
  /\ initialized' = TRUE
  /\ UNCHANGED <<global_bus, bus_count, lock, call, idx, reply>>

RejectKey(c) ==
  /\ Goto(c, "ready", "return")
  /\ call[c].key = BadKey
  /\ Answer(c, Number(0))
  /\ UNCHANGED <<global_bus, bus_count, initialized, lock, call, idx>>

(* Mutant: the search does not wait for the lock. *)
SearchUnlocked(c) ==
  /\ Goto(c, "ready", "locked")
  /\ call[c].key # BadKey
  /\ lock' = c
  /\ idx' = [idx EXCEPT ![c] = Lookup(call[c].key)]
  /\ UNCHANGED <<global_bus, bus_count, initialized, call, reply>>

(* LOCK_BUS and the search. *)
Search(c) ==
  /\ Goto(c, "ready", "locked")
  /\ call[c].key # BadKey
  /\ lock = Nothing
  /\ lock' = c
  /\ idx' = [idx EXCEPT ![c] = Lookup(call[c].key)]
  /\ UNCHANGED <<global_bus, bus_count, initialized, call, reply>>

(* bus_set, the rest of the critical section. *)
Overwrite(c) ==
  /\ Goto(c, "locked", "unlock")
  /\ call[c].kind = "set" /\ idx[c] # 0
  /\ global_bus' = [global_bus EXCEPT ![idx[c]].val = Kept(call[c].val)]
  /\ Answer(c, Number(1))
  /\ UNCHANGED <<bus_count, initialized, lock, call, idx>>

(* Mutant: no bound. *)
InsertUnbounded(c) ==
  /\ Goto(c, "locked", "unlock")
  /\ call[c].kind = "set" /\ idx[c] = 0
  /\ bus_count' = bus_count + 1
  /\ global_bus' = [global_bus EXCEPT ![bus_count + 1] =
                      [key |-> call[c].key, val |-> Kept(call[c].val)]]
  /\ Answer(c, Number(1))
  /\ UNCHANGED <<initialized, lock, call, idx>>

Insert(c) ==
  /\ Goto(c, "locked", "unlock")
  /\ call[c].kind = "set" /\ idx[c] = 0
  /\ bus_count < MAX_BUS_ENTRIES
  /\ bus_count' = bus_count + 1
  /\ global_bus' = [global_bus EXCEPT ![bus_count + 1] =
                      [key |-> call[c].key, val |-> Kept(call[c].val)]]
  /\ Answer(c, Number(1))
  /\ UNCHANGED <<initialized, lock, call, idx>>

(* Mutant: returns without UNLOCK_BUS. *)
FullWithoutUnlock(c) ==
  /\ Goto(c, "locked", "return")
  /\ call[c].kind = "set" /\ idx[c] = 0
  /\ bus_count >= MAX_BUS_ENTRIES
  /\ Answer(c, Number(0))
  /\ UNCHANGED <<global_bus, bus_count, initialized, lock, call, idx>>

Full(c) ==
  /\ Goto(c, "locked", "unlock")
  /\ call[c].kind = "set" /\ idx[c] = 0
  /\ bus_count >= MAX_BUS_ENTRIES
  /\ Answer(c, Number(0))
  /\ UNCHANGED <<global_bus, bus_count, initialized, lock, call, idx>>

(* bus_get, the rest of the critical section. *)
Read(c) ==
  /\ Goto(c, "locked", "unlock")
  /\ call[c].kind = "get"
  /\ Answer(c, IF idx[c] = 0 THEN Number(0) ELSE global_bus[idx[c]].val)
  /\ UNCHANGED <<global_bus, bus_count, initialized, lock, call, idx>>

Unlock(c) ==
  /\ Goto(c, "unlock", "return")
  /\ lock' = Nothing
  /\ UNCHANGED <<global_bus, bus_count, initialized, call, idx, reply>>

Return(c) ==
  /\ Goto(c, "return", "idle")
  /\ call' = [call EXCEPT ![c] = Nothing]
  /\ UNCHANGED <<global_bus, bus_count, initialized, lock, idx, reply>>

Init ==
  /\ global_bus = [i \in Index |-> Empty]
  /\ bus_count = 0
  /\ initialized = FALSE
  /\ lock = Nothing
  /\ pc = [c \in Clients |-> "idle"]
  /\ call = [c \in Clients |-> Nothing]
  /\ idx = [c \in Clients |-> 0]
  /\ reply = [c \in Clients |-> Pending]

InNative(c) ==
  \/ ClearBus(c) \/ SetFlag(c) \/ RejectKey(c) \/ Search(c)
  \/ Overwrite(c) \/ Insert(c) \/ Full(c) \/ Read(c)
  \/ Unlock(c) \/ Return(c)

Next == \E c \in Clients : (\E op \in Calls : Enter(c, op)) \/ InNative(c)

(* Threads are scheduled.  Nothing is assumed about who gets the mutex.    *)
Fairness == \A c \in Clients : WF_vars(InNative(c))

Spec == Init /\ [][Next]_vars /\ Fairness
-----------------------------------------------------------------------------
(* The shape of the state. *)
TypeOK ==
  /\ global_bus \in [Index -> [key : Keys \cup {Nothing},
                               val : {Kept(v) : v \in Values} \cup {Absent}]]
  /\ bus_count \in 0 .. MAX_BUS_ENTRIES
  /\ initialized \in BOOLEAN
  /\ lock \in Clients \cup {Nothing}
  /\ pc \in [Clients -> {"idle", "init", "flag", "ready", "locked", "unlock",
                         "return"}]
  /\ call \in [Clients -> Calls \cup {Nothing}]
  /\ idx \in [Clients -> 0 .. MAX_BUS_ENTRIES]
  /\ reply \in [Clients -> {Kept(v) : v \in Values} 
                         \cup {Number(0), Number(1), Absent, Pending}]

(* The bus as a key-value store: the first entry with the key counts. *)
KV == INSTANCE KeyValue WITH
        store <- [k \in Keys |-> IF Lookup(k) = 0 THEN Absent
                                 ELSE global_bus[Lookup(k)].val],
        Capacity <- MAX_BUS_ENTRIES

(* standardlib_reference.md:980, "thread-safe": every interleaving of the  *)
(* natives is one of atomic calls on a key-value store, answers included.  *)
ThreadSafe == KV!KVSpec

(* A key occupies one entry, so MAX_BUS_ENTRIES different keys fit.        *)
OneEntryPerKey ==
  \A i, j \in 1 .. bus_count :
    /\ global_bus[i].key # Nothing
    /\ i # j => global_bus[i].key # global_bus[j].key

(* Every way through the natives gives bus_lock back, the refusals too.    *)
LockReleased == \A c \in Clients : (lock = c) ~> (lock # c)
=============================================================================
