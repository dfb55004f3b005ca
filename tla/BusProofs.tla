----------------------------- MODULE BusProofs ------------------------------
(***************************************************************************)
(* Proofs about Bus, for any number of clients, keys, values and entries,  *)
(* if the first call is over before any other begins: a key has one entry, *)
(* and the natives under bus_lock implement the atomic KeyValue.           *)
(***************************************************************************)
EXTENDS Bus, FiniteSetTheorems, TLAPS

Stored == {Kept(v) : v \in Values}

(* The shape of the state, as far as the argument needs it. *)
Shape ==
  /\ global_bus \in [Index -> [key : Keys \cup {Nothing}, val : Stored \cup {Absent}]]
  /\ bus_count \in 0 .. MAX_BUS_ENTRIES
  /\ initialized \in BOOLEAN
  /\ lock \in Clients \cup {Nothing}
  /\ pc \in [Clients -> {"idle", "init", "flag", "ready", "locked", "unlock", "return"}]
  /\ call \in [Clients -> Calls \cup {Nothing}]
  /\ idx \in [Clients -> 0 .. MAX_BUS_ENTRIES]
  /\ reply \in [Clients -> Stored \cup {Number(0), Number(1), Absent, Pending}]

(* A client is in a call as long as its pc is in the native, and has the   *)
(* answer once it is past the step that gives it.                          *)
InCall ==
  \A c \in Clients :
    /\ pc[c] = "idle" <=> call[c] = Nothing
    /\ pc[c] \in {"init", "flag", "ready", "locked"} => reply[c] = Pending
    /\ pc[c] \in {"unlock", "return"} => reply[c] # Pending

(* The first call initialises the bus while no other is there. *)
InitAlone ==
  /\ \A c \in Clients : pc[c] \in {"init", "flag"} =>
       ~initialized /\ \A d \in Clients : d # c => pc[d] = "idle"
  /\ ~initialized => /\ bus_count = 0
                     /\ \A c \in Clients : pc[c] \in {"idle", "init", "flag"}

(* bus_lock is held by the one client that is between LOCK and UNLOCK.     *)
Exclusive == \A c \in Clients : pc[c] \in {"locked", "unlock"} => lock = c

(* The entries in use, each with a key of its own and a value. *)
Filled ==
  /\ \A i \in 1 .. bus_count : /\ global_bus[i].key \in Keys
                               /\ global_bus[i].val \in Stored
  /\ \A i, j \in 1 .. bus_count : global_bus[i].key = global_bus[j].key => i = j

(* What the search found is still so when the holder of the lock uses it.  *)
SearchHolds ==
  \A c \in Clients : pc[c] = "locked" =>
    /\ call[c].key \in Keys
    /\ idx[c] \in 0 .. bus_count
    /\ idx[c] # 0 => global_bus[idx[c]].key = call[c].key
    /\ idx[c] = 0 => \A i \in 1 .. bus_count : global_bus[i].key # call[c].key

IInv == Shape /\ InCall /\ InitAlone /\ Exclusive /\ Filled /\ SearchHolds

-----------------------------------------------------------------------------
(* The search.                                                             *)

(* It finds the entry with the key, of which there is one at most. *)
LEMMA LookupValue ==
  ASSUME Shape, Filled, NEW k
  PROVE  /\ Lookup(k) \in 0 .. bus_count
         /\ Lookup(k) # 0 => global_bus[Lookup(k)].key = k
         /\ Lookup(k) = 0 => \A i \in 1 .. bus_count : global_bus[i].key # k
<1>0. bus_count \in Nat
  BY BusConstants DEF Shape
<1>1. CASE Found(k) = {}
  BY <1>0, <1>1 DEF Lookup, Found
<1>2. CASE Found(k) # {}
  <2>1. PICK i \in Found(k) : TRUE
    BY <1>2
  <2>2. i \in 1 .. bus_count /\ \A j \in Found(k) : i = j
    BY <2>1 DEF Found, Filled
  <2>3. \E n \in Found(k) : \A j \in Found(k) : n <= j
    BY <2>1, <2>2, <1>0
  <2>4. Lookup(k) \in Found(k)
    BY <1>2, <2>3 DEF Lookup
  <2> QED BY <2>4, <1>0 DEF Found
<1> QED BY <1>1, <1>2

(* A key that an entry has is found there. *)
LEMMA LookupAt ==
  ASSUME Shape, Filled, NEW i \in 1 .. bus_count
  PROVE  Lookup(global_bus[i].key) = i
<1>0. bus_count \in Nat
  BY BusConstants DEF Shape
<1> QED BY <1>0, LookupValue DEF Filled

-----------------------------------------------------------------------------
LEMMA IInvInit == Init => IInv
<1> SUFFICES ASSUME Init PROVE IInv
  OBVIOUS
<1>1. Shape
  <2>1. Empty \in [key : Keys \cup {Nothing}, val : Stored \cup {Absent}]
    BY DEF Empty
  <2>2. 0 \in 0 .. MAX_BUS_ENTRIES
    BY BusConstants
  <2> HIDE DEF Empty
  <2> QED BY <2>1, <2>2 DEF Init, Shape
<1>2. InCall /\ InitAlone /\ Exclusive /\ Filled /\ SearchHolds
  BY DEF Init, InCall, InitAlone, Exclusive, Filled, SearchHolds
<1> QED BY <1>1, <1>2 DEF IInv

(* The steps that leave the entries alone. *)
LEMMA SameEntries ==
  ASSUME Filled, UNCHANGED <<global_bus, bus_count>>
  PROVE  Filled'
BY DEF Filled

LEMMA EnterStep ==
  ASSUME IInv, FirstAlone, NEW c \in Clients, NEW op \in Calls, Enter(c, op)
  PROVE  IInv'
<1> USE DEF IInv, Enter, Goto
<1>1. Shape'
  BY DEF Shape
<1>2. InCall'
  BY BusMarkers DEF Shape, InCall
<1>3. InitAlone'
  BY DEF Shape, InitAlone
<1>4. Exclusive' /\ SearchHolds'
  BY DEF Shape, Exclusive, SearchHolds
<1> QED BY <1>1, <1>2, <1>3, <1>4, SameEntries

LEMMA ClearBusStep ==
  ASSUME IInv, NEW c \in Clients, ClearBus(c)
  PROVE  IInv' /\ bus_count = 0 /\ bus_count' = 0
<1> USE DEF IInv, ClearBus, Goto
<1>1. bus_count = 0 /\ bus_count' = 0
  BY DEF InitAlone
<1>2. Shape'
  BY DEF Shape, Empty
<1>3. InCall'
  BY DEF Shape, InCall
<1>4. InitAlone'
  BY DEF Shape, InitAlone
<1>5. Exclusive'
  BY DEF Shape, Exclusive
<1>6. Filled'
  BY <1>1 DEF Filled
<1>7. SearchHolds'
  BY DEF Shape, SearchHolds, InitAlone
<1> QED BY <1>1, <1>2, <1>3, <1>4, <1>5, <1>6, <1>7

LEMMA SetFlagStep ==
  ASSUME IInv, NEW c \in Clients, SetFlag(c)
  PROVE  IInv'
<1> USE DEF IInv, SetFlag, Goto
<1>1. Shape' /\ InCall'
  BY DEF Shape, InCall
<1>2. InitAlone'
  BY DEF Shape, InitAlone
<1>3. Exclusive' /\ SearchHolds'
  BY DEF Shape, Exclusive, SearchHolds
<1> QED BY <1>1, <1>2, <1>3, SameEntries

LEMMA RejectKeyStep ==
  ASSUME IInv, NEW c \in Clients, RejectKey(c)
  PROVE  IInv'
<1> USE DEF IInv, RejectKey, Goto, Answer
<1>1. Shape'
  BY DEF Shape
<1>2. InCall'
  BY BusMarkers DEF Shape, InCall
<1>3. InitAlone'
  BY DEF Shape, InitAlone
<1>4. Exclusive' /\ SearchHolds'
  BY DEF Shape, Exclusive, SearchHolds
<1> QED BY <1>1, <1>2, <1>3, <1>4, SameEntries

(* A call has a key, and one that is not BadKey is in Keys. *)
LEMMA CallKey ==
  ASSUME Shape, InCall, NEW c \in Clients, pc[c] # "idle"
  PROVE  /\ call[c] \in Calls
         /\ call[c].key # BadKey => call[c].key \in Keys
         /\ call[c].kind \in {"set", "get"}
         /\ call[c].kind = "get" => call[c].key \in Keys
         /\ call[c].kind = "set" => call[c].val \in Values
<1>1. call[c] \in Calls
  BY DEF Shape, InCall
<1> QED BY <1>1 DEF Calls

(* The lock was free, so nobody else is between LOCK and UNLOCK. *)
LEMMA SearchStep ==
  ASSUME IInv, NEW c \in Clients, Search(c)
  PROVE  IInv'
<1> USE DEF IInv, Search, Goto
<1> DEFINE k == call[c].key
<1>1. Lookup(k) \in 0 .. bus_count
      /\ (Lookup(k) # 0 => global_bus[Lookup(k)].key = k)
      /\ (Lookup(k) = 0 => \A i \in 1 .. bus_count : global_bus[i].key # k)
  BY LookupValue
<1>2. Lookup(k) \in 0 .. MAX_BUS_ENTRIES
  BY <1>1, BusConstants DEF Shape
<1>3. \A d \in Clients : pc[d] \notin {"locked", "unlock"}
  BY BusMarkers DEF Exclusive
<1>4. k \in Keys
  BY CallKey
<1>5. Shape'
  BY <1>2 DEF Shape
<1>6. InCall' /\ InitAlone'
  BY DEF Shape, InCall, InitAlone
<1>7. Exclusive'
  BY <1>3 DEF Shape, Exclusive
<1>8. SearchHolds'
  <2>1. \A d \in Clients : pc'[d] = "locked" => d = c
    BY <1>3 DEF Shape
  <2>2. idx'[c] = Lookup(k) /\ call'[c].key = k
    BY DEF Shape
  <2> QED BY <1>1, <1>4, <2>1, <2>2 DEF SearchHolds
<1> QED BY <1>5, <1>6, <1>7, <1>8, SameEntries

(* What all steps from "locked" to "unlock" have in common: the answer is  *)
(* given, and nobody else is in the critical section.                      *)
LEMMA Critical ==
  ASSUME IInv, NEW c \in Clients, Goto(c, "locked", "unlock"),
         NEW a \in Stored \cup {Number(0), Number(1), Absent},
         a # Pending, Answer(c, a),
         UNCHANGED <<initialized, lock, call, idx>>,
         bus_count' # 0 => initialized,
         global_bus' \in [Index -> [key : Keys \cup {Nothing}, val : Stored \cup {Absent}]],
         bus_count' \in 0 .. MAX_BUS_ENTRIES
  PROVE  Shape' /\ InCall' /\ InitAlone' /\ Exclusive' /\ SearchHolds'
<1> USE DEF IInv, Goto, Answer
<1>1. initialized
  BY DEF InitAlone
<1>2. \A d \in Clients : pc[d] = "locked" => d = c
  BY DEF Exclusive
<1>3. Shape'
  BY DEF Shape
<1>4. InCall'
  BY DEF Shape, InCall
<1>5. InitAlone'
  BY <1>1 DEF Shape, InitAlone
<1>6. Exclusive'
  BY DEF Shape, Exclusive
<1>7. SearchHolds'
  BY <1>2 DEF Shape, SearchHolds
<1> QED BY <1>3, <1>4, <1>5, <1>6, <1>7

(* In the critical section the bus is initialised. *)
LEMMA LockedInitialised ==
  ASSUME IInv, NEW c \in Clients, pc[c] = "locked"
  PROVE  initialized
BY DEF IInv, InitAlone

LEMMA OverwriteStep ==
  ASSUME IInv, NEW c \in Clients, Overwrite(c)
  PROVE  /\ IInv'
         /\ idx[c] \in 1 .. bus_count
         /\ Kept(call[c].val) \in Stored
         /\ global_bus'[idx[c]] = [global_bus[idx[c]] EXCEPT !.val = Kept(call[c].val)]
         /\ \A j \in 1 .. bus_count : j # idx[c] => global_bus'[j] = global_bus[j]
         /\ \A j \in 1 .. bus_count : global_bus'[j].key = global_bus[j].key
<1> USE DEF IInv
<1> DEFINE i == idx[c]
           w == Kept(call[c].val)
<1>1. /\ pc[c] = "locked" /\ i # 0 /\ bus_count' = bus_count
      /\ global_bus' = [global_bus EXCEPT ![i].val = w]
  BY DEF Overwrite, Goto
<1>2. i \in 1 .. bus_count /\ i \in Index /\ \A j \in 1 .. bus_count : j \in Index
  BY <1>1, BusConstants DEF SearchHolds, Shape, Index
<1>3. w \in Stored
  BY <1>1, CallKey DEF Overwrite, Stored
<1> HIDE DEF w, i
<1>4. global_bus' \in [Index -> [key : Keys \cup {Nothing}, val : Stored \cup {Absent}]]
  BY <1>1, <1>2, <1>3 DEF Shape
<1>5. /\ global_bus'[i] = [global_bus[i] EXCEPT !.val = w]
      /\ \A j \in 1 .. bus_count : j # i => global_bus'[j] = global_bus[j]
  BY <1>1, <1>2 DEF Shape
<1>6. \A j \in 1 .. bus_count : /\ global_bus'[j].key = global_bus[j].key
                                /\ global_bus'[j].val = w \/ global_bus'[j].val = global_bus[j].val
  BY <1>2, <1>5 DEF Shape
<1>7. Filled'
  BY <1>1, <1>3, <1>6 DEF Filled
<1>8. Shape' /\ InCall' /\ InitAlone' /\ Exclusive' /\ SearchHolds'
  BY <1>1, <1>4, Critical, LockedInitialised, BusMarkers DEF Overwrite, Shape
<1> QED BY <1>2, <1>3, <1>5, <1>6, <1>7, <1>8 DEF i, w

LEMMA InsertStep ==
  ASSUME IInv, NEW c \in Clients, Insert(c)
  PROVE  /\ IInv'
         /\ Kept(call[c].val) \in Stored
         /\ bus_count' = bus_count + 1
         /\ global_bus'[bus_count + 1] = [key |-> call[c].key, val |-> Kept(call[c].val)]
         /\ \A j \in 1 .. bus_count : global_bus'[j] = global_bus[j]
<1> USE DEF IInv
<1> DEFINE n == bus_count + 1
           w == Kept(call[c].val)
<1>1. /\ pc[c] = "locked" /\ idx[c] = 0 /\ bus_count < MAX_BUS_ENTRIES /\ bus_count' = n
      /\ global_bus' = [global_bus EXCEPT ![n] = [key |-> call[c].key, val |-> w]]
  BY DEF Insert, Goto
<1>2. /\ n \in Index /\ (\A j \in 1 .. bus_count : j \in Index /\ j # n)
      /\ n \in 0 .. MAX_BUS_ENTRIES
      /\ \A j \in 1 .. n : j = n \/ j \in 1 .. bus_count
  BY <1>1, BusConstants DEF Shape, Index
<1>3. w \in Stored /\ call[c].key \in Keys
  BY <1>1, CallKey DEF Insert, Stored, SearchHolds
<1> HIDE DEF w, n
<1>4. global_bus' \in [Index -> [key : Keys \cup {Nothing}, val : Stored \cup {Absent}]]
  BY <1>1, <1>2, <1>3 DEF Shape
<1>5. /\ global_bus'[n] = [key |-> call[c].key, val |-> w]
      /\ \A j \in 1 .. bus_count : global_bus'[j] = global_bus[j]
  BY <1>1, <1>2 DEF Shape
<1>6. \A j \in 1 .. bus_count : global_bus[j].key # call[c].key
  BY <1>1 DEF SearchHolds
<1>7. Filled'
  BY <1>1, <1>2, <1>3, <1>5, <1>6 DEF Filled
<1>8. Shape' /\ InCall' /\ InitAlone' /\ Exclusive' /\ SearchHolds'
  BY <1>1, <1>2, <1>4, Critical, LockedInitialised, BusMarkers DEF Insert
<1> QED BY <1>1, <1>3, <1>5, <1>7, <1>8 DEF n, w

LEMMA FullStep ==
  ASSUME IInv, NEW c \in Clients, Full(c)
  PROVE  IInv'
<1> USE DEF IInv
<1>1. Shape' /\ InCall' /\ InitAlone' /\ Exclusive' /\ SearchHolds'
  BY Critical, LockedInitialised, BusMarkers DEF Full, Goto, Shape
<1> QED BY <1>1, SameEntries DEF Full

LEMMA ReadStep ==
  ASSUME IInv, NEW c \in Clients, Read(c)
  PROVE  /\ IInv'
         /\ idx[c] # 0 => global_bus[idx[c]].val \in Stored
<1> USE DEF IInv
<1> DEFINE a == IF idx[c] = 0 THEN Number(0) ELSE global_bus[idx[c]].val
<1>1. pc[c] = "locked" /\ Answer(c, a)
  BY DEF Read, Goto
<1>2. idx[c] # 0 => idx[c] \in 1 .. bus_count
  BY <1>1, BusConstants DEF SearchHolds, Shape
<1>3. idx[c] # 0 => global_bus[idx[c]].val \in Stored
  BY <1>2 DEF Filled
<1>4. a \in Stored \cup {Number(0), Number(1), Absent} /\ a # Pending
  BY <1>3, BusMarkers DEF Stored
<1> HIDE DEF a
<1>5. Shape' /\ InCall' /\ InitAlone' /\ Exclusive' /\ SearchHolds'
  BY <1>1, <1>4, Critical, LockedInitialised DEF Read, Shape
<1> QED BY <1>3, <1>5, SameEntries DEF Read

LEMMA UnlockStep ==
  ASSUME IInv, NEW c \in Clients, Unlock(c)
  PROVE  IInv'
<1> USE DEF IInv, Unlock, Goto
<1>1. \A d \in Clients : d # c => pc[d] \notin {"locked", "unlock"}
  BY DEF Exclusive
<1>2. Shape' /\ InCall' /\ InitAlone'
  BY DEF Shape, InCall, InitAlone
<1>3. Exclusive' /\ SearchHolds'
  BY <1>1 DEF Shape, Exclusive, SearchHolds
<1> QED BY <1>2, <1>3, SameEntries

LEMMA ReturnStep ==
  ASSUME IInv, NEW c \in Clients, Return(c)
  PROVE  IInv'
<1> USE DEF IInv, Return, Goto
<1>1. Shape' /\ InCall' /\ InitAlone'
  BY DEF Shape, InCall, InitAlone
<1>2. Exclusive' /\ SearchHolds'
  BY DEF Shape, Exclusive, SearchHolds
<1> QED BY <1>1, <1>2, SameEntries

LEMMA IInvStep == FirstAlone /\ IInv /\ [Next]_vars => IInv'
<1> SUFFICES ASSUME FirstAlone, IInv, [Next]_vars PROVE IInv'
  OBVIOUS
<1>1. CASE UNCHANGED vars
  BY <1>1 DEF vars, IInv, Shape, InCall, InitAlone, Exclusive, Filled, SearchHolds
<1>2. ASSUME NEW c \in Clients, NEW op \in Calls, Enter(c, op) PROVE IInv'
  BY <1>2, EnterStep
<1>3. ASSUME NEW c \in Clients, InNative(c) PROVE IInv'
  BY <1>3, ClearBusStep, SetFlagStep, RejectKeyStep, SearchStep, OverwriteStep,
     InsertStep, FullStep, ReadStep, UnlockStep, ReturnStep DEF InNative
<1> QED BY <1>1, <1>2, <1>3 DEF Next

(* The state keeps its shape: the count stays within global_bus, and an    *)
(* answer is a stored value, a number or Absent.                           *)
THEOREM TypeCorrect ==
  ASSUME FirstAlone
  PROVE  Spec => []TypeOK
<1>1. IInv => TypeOK
  BY DEF IInv, Shape, TypeOK, Stored
<1> QED BY IInvInit, IInvStep, <1>1, PTL DEF Spec

(* If the first call is over before any other begins, bus_set never gives  *)
(* a key a second entry: its search and its write are one critical section.*)
THEOREM KeysHaveOneEntry ==
  ASSUME FirstAlone
  PROVE  Spec => []OneEntryPerKey
<1>1. IInv => OneEntryPerKey
  BY BusMarkers DEF IInv, Filled, OneEntryPerKey
<1> QED BY IInvInit, IInvStep, <1>1, PTL DEF Spec

-----------------------------------------------------------------------------
(* The refinement: the calls of KeyValue take effect in the steps of the   *)
(* critical section that answer.                                           *)

(* The store of the INSTANCE KV. *)
Store == [k \in Keys |-> IF Lookup(k) = 0 THEN Absent ELSE global_bus[Lookup(k)].val]

StoredKeys == {k \in Keys : Store[k] # Absent}

(* A key is in the store iff it has an entry, and has the entry's value. *)
LEMMA StoreValue ==
  ASSUME IInv
  PROVE  /\ \A i \in 1 .. bus_count : /\ global_bus[i].key \in StoredKeys
                                     /\ Store[global_bus[i].key] = global_bus[i].val
         /\ \A k \in StoredKeys : Lookup(k) \in 1 .. bus_count /\ global_bus[Lookup(k)].key = k
         /\ \A k \in Keys \ StoredKeys : \A i \in 1 .. bus_count : global_bus[i].key # k
<1> USE DEF IInv
<1>0. bus_count \in Nat
  BY BusConstants DEF Shape
<1>1. ASSUME NEW i \in 1 .. bus_count
      PROVE  /\ global_bus[i].key \in StoredKeys
             /\ Store[global_bus[i].key] = global_bus[i].val
  <2>1. global_bus[i].key \in Keys /\ global_bus[i].val \in Stored
    BY DEF Filled
  <2>2. Lookup(global_bus[i].key) = i /\ i # 0
    BY <1>0, LookupAt
  <2>3. global_bus[i].val # Absent
    BY <2>1, BusMarkers DEF Stored
  <2> QED BY <2>1, <2>2, <2>3 DEF Store, StoredKeys
<1>2. ASSUME NEW k \in StoredKeys
      PROVE  Lookup(k) \in 1 .. bus_count /\ global_bus[Lookup(k)].key = k
  <2>1. k \in Keys /\ Lookup(k) # 0
    BY DEF StoredKeys, Store
  <2> QED BY <1>0, <2>1, LookupValue
<1>3. \A k \in Keys \ StoredKeys : \A i \in 1 .. bus_count : global_bus[i].key # k
  BY <1>1
<1> QED BY <1>1, <1>2, <1>3

(* The store holds as many keys as there are entries in use. *)
LEMMA StoreSize == IInv => Cardinality(StoredKeys) = bus_count
<1> SUFFICES ASSUME IInv PROVE Cardinality(StoredKeys) = bus_count
  OBVIOUS
<1>0. bus_count \in Nat
  BY BusConstants DEF IInv, Shape
<1> DEFINE f == [i \in 1 .. bus_count |-> global_bus[i].key]
<1>1. f \in [1 .. bus_count -> StoredKeys]
  BY StoreValue
<1>2. \A i, j \in 1 .. bus_count : f[i] = f[j] => i = j
  BY DEF IInv, Filled
<1>3. \A k \in StoredKeys : \E i \in 1 .. bus_count : f[i] = k
  BY StoreValue
<1> HIDE DEF f
<1>4. ExistsBijection(1 .. bus_count, StoredKeys)
  <2>1. f \in Injection(1 .. bus_count, StoredKeys)
    BY <1>1, <1>2 DEF Injection, IsInjective
  <2>2. f \in Surjection(1 .. bus_count, StoredKeys)
    BY <1>1, <1>3 DEF Surjection
  <2> QED BY <2>1, <2>2 DEF ExistsBijection, Bijection
<1>5. IsFiniteSet(1 .. bus_count) /\ Cardinality(1 .. bus_count) = bus_count
  BY <1>0, FS_Interval
<1> QED BY <1>4, <1>5, FS_Bijection

(* An unwritten bus is an unwritten store. *)
LEMMA SameStore ==
  ASSUME UNCHANGED <<global_bus, bus_count>>
  PROVE  Store' = Store
BY DEF Store, Lookup, Found

(* What bus_set does to the store, for the key it was called with. *)
LEMMA StoreAfterOverwrite ==
  ASSUME IInv, NEW c \in Clients, Overwrite(c)
  PROVE  /\ call[c].key \in StoredKeys
         /\ Store' = [Store EXCEPT ![call[c].key] = Kept(call[c].val)]
<1> DEFINE i == idx[c]
           k == call[c].key
           w == Kept(call[c].val)
<1>1. /\ IInv' /\ i \in 1 .. bus_count /\ w \in Stored
      /\ global_bus'[i].val = w /\ global_bus'[i].key = k
      /\ \A j \in 1 .. bus_count : j # i => global_bus'[j] = global_bus[j]
      /\ bus_count' = bus_count /\ k \in Keys /\ global_bus[i].key = k
  <2>1. pc[c] = "locked" /\ i # 0 /\ bus_count' = bus_count
    BY DEF Overwrite, Goto
  <2>2. /\ IInv' /\ i \in 1 .. bus_count /\ w \in Stored
        /\ global_bus'[i] = [global_bus[i] EXCEPT !.val = w]
        /\ \A j \in 1 .. bus_count : j # i => global_bus'[j] = global_bus[j]
    BY OverwriteStep
  <2>3. global_bus[i].key = k /\ k \in Keys
    BY <2>1 DEF IInv, SearchHolds
  <2>4. global_bus[i] \in [key : Keys \cup {Nothing}, val : Stored \cup {Absent}]
    BY <2>2, BusConstants DEF IInv, Shape, Index
  <2> HIDE DEF i, k, w
  <2>5. [global_bus[i] EXCEPT !.val = w].val = w
        /\ [global_bus[i] EXCEPT !.val = w].key = global_bus[i].key
    BY <2>4
  <2> QED BY <2>1, <2>2, <2>3, <2>5
<1> HIDE DEF i, k, w
<1>2. k \in StoredKeys
  BY <1>1, StoreValue
<1>3. ASSUME NEW l \in Keys PROVE Lookup(l)' = Lookup(l)
  <2>1. Found(l)' = Found(l)
    BY <1>1 DEF Found
  <2> QED BY <2>1 DEF Lookup
<1>4. Lookup(k) = i /\ i # 0
  BY <1>1, LookupAt, BusConstants DEF IInv, Shape
<1>5. ASSUME NEW l \in Keys, l # k, Lookup(l) # 0
      PROVE  global_bus'[Lookup(l)] = global_bus[Lookup(l)]
  BY <1>1, <1>5, LookupValue, BusConstants DEF IInv, Shape
<1>6. Store' = [Store EXCEPT ![k] = w]
  BY <1>1, <1>3, <1>4, <1>5 DEF Store
<1> QED BY <1>2, <1>6 DEF k, w

LEMMA StoreAfterInsert ==
  ASSUME IInv, NEW c \in Clients, Insert(c)
  PROVE  /\ call[c].key \in Keys
         /\ Cardinality(StoredKeys) < MAX_BUS_ENTRIES
         /\ Store' = [Store EXCEPT ![call[c].key] = Kept(call[c].val)]
<1> DEFINE n == bus_count + 1
           k == call[c].key
           w == Kept(call[c].val)
<1>1. /\ bus_count \in Nat /\ pc[c] = "locked" /\ idx[c] = 0
      /\ bus_count < MAX_BUS_ENTRIES
  BY BusConstants DEF Insert, Goto, IInv, Shape
<1>2. k \in Keys /\ \A j \in 1 .. bus_count : global_bus[j].key # k
  BY <1>1 DEF IInv, SearchHolds
<1>3. /\ IInv' /\ bus_count' = n
      /\ global_bus'[n] = [key |-> k, val |-> w]
      /\ \A j \in 1 .. bus_count : global_bus'[j] = global_bus[j]
  BY InsertStep
<1>4. n \in 1 .. n /\ n # 0 /\ \A j \in 1 .. n : j = n \/ j \in 1 .. bus_count
  BY <1>1
<1>5. Cardinality(StoredKeys) < MAX_BUS_ENTRIES
  BY <1>1, StoreSize
<1> HIDE DEF n, k, w
<1>6. ASSUME NEW l \in Keys, l = k PROVE Lookup(l)' = n
  <2>1. Found(l)' = {n}
    BY <1>2, <1>3, <1>4, <1>6, <1>1 DEF Found, n
  <2>2. n <= n
    BY <1>1 DEF n
  <2> QED BY <2>1, <2>2 DEF Lookup
<1>7. ASSUME NEW l \in Keys, l # k PROVE Lookup(l)' = Lookup(l)
  <2>1. Found(l)' = Found(l)
    BY <1>3, <1>4, <1>7, <1>1 DEF Found, n
  <2> QED BY <2>1 DEF Lookup
<1>8. ASSUME NEW l \in Keys, Lookup(l) # 0
      PROVE  global_bus'[Lookup(l)] = global_bus[Lookup(l)]
  BY <1>1, <1>3, <1>8, LookupValue DEF IInv
<1>9. \A l \in Keys :
        (IF Lookup(l)' = 0 THEN Absent ELSE global_bus'[Lookup(l)'].val)
          = IF l = k THEN w ELSE Store[l]
  <2>1. ASSUME NEW l \in Keys, l = k
        PROVE  (IF Lookup(l)' = 0 THEN Absent ELSE global_bus'[Lookup(l)'].val) = w
    BY <2>1, <1>3, <1>4, <1>6
  <2>2. ASSUME NEW l \in Keys, l # k
        PROVE  (IF Lookup(l)' = 0 THEN Absent ELSE global_bus'[Lookup(l)'].val) = Store[l]
    BY <2>2, <1>7, <1>8 DEF Store
  <2> QED BY <2>1, <2>2
<1>10. Store' = [Store EXCEPT ![k] = w]
  BY <1>2, <1>9 DEF Store
<1> QED BY <1>2, <1>5, <1>10 DEF k, w

(* Every call of KeyValue is on this store. *)
LEMMA StoreIsKV ==
  /\ KV!Stored = StoredKeys
  /\ Store = [k \in Keys |-> IF Lookup(k) = 0 THEN Absent ELSE global_bus[Lookup(k)].val]
BY DEF KV!Stored, StoredKeys, Store

(* KeyValue has its own copy of the library. *)
LEMMA KVCardinality == \A S : KV!Cardinality(S) = Cardinality(S)
BY DEF KV!Cardinality, Cardinality

LEMMA KVInitMaps == Init => KV!KVInit
<1> SUFFICES ASSUME Init PROVE KV!KVInit
  OBVIOUS
<1>1. \A k \in Keys : Lookup(k) = 0
  BY DEF Init, Lookup, Found
<1> QED BY <1>1 DEF Init, KV!KVInit

(* Each step is a step of KeyValue, or leaves its variables alone. *)
LEMMA KVStepMaps ==
  ASSUME FirstAlone, IInv, [Next]_vars
  PROVE  [KV!KVNext]_<<Store, call, reply>>
<1> DEFINE Step == KV!KVNext
           Same == UNCHANGED <<Store, call, reply>>
<1>1. ASSUME UNCHANGED vars PROVE Same
  BY <1>1, SameStore DEF vars
<1>2. ASSUME NEW c \in Clients, NEW op \in Calls, Enter(c, op) PROVE Step
  <2>1. Store' = Store /\ call[c] = Nothing
    BY <1>2, SameStore DEF Enter, Goto, IInv, InCall
  <2>2. KV!Begin(c, op)
    BY <1>2, <2>1 DEF Enter, KV!Begin, Store
  <2> QED BY <2>2 DEF KV!KVNext, KV!Calls, Calls
<1>3. ASSUME NEW c \in Clients, ClearBus(c) PROVE Same
  <2>1. bus_count = 0 /\ bus_count' = 0
    BY <1>3, ClearBusStep
  <2>2. \A k \in Keys : Lookup(k) = 0 /\ Lookup(k)' = 0
    BY <2>1 DEF Lookup, Found
  <2> QED BY <1>3, <2>2 DEF ClearBus, Store
<1>4. ASSUME NEW c \in Clients, SetFlag(c) \/ Search(c) \/ Unlock(c) PROVE Same
  BY <1>4, SameStore DEF SetFlag, Search, Unlock
<1>5. ASSUME NEW c \in Clients, RejectKey(c) PROVE Step
  <2>1. Store' = Store /\ pc[c] = "ready" /\ call[c].key = BadKey /\ reply[c] = Pending
        /\ call[c] # Nothing /\ call[c].kind = "set" /\ BadKey \notin Keys
    BY <1>5, SameStore, CallKey, BusConstants DEF RejectKey, Goto, IInv, InCall
  <2>2. ~KV!Accepts(call[c].key)
    BY <2>1 DEF KV!Accepts, KV!Stored
  <2>3. KV!Refuse(c)
    BY <1>5, <2>1, <2>2 DEF RejectKey, Answer, KV!Refuse, Store, KV!Number, Number
  <2> QED BY <2>3 DEF KV!KVNext
<1>6. ASSUME NEW c \in Clients, pc[c] = "locked"
      PROVE  call[c] # Nothing /\ reply[c] = Pending /\ call[c].key \in Keys
  BY <1>6 DEF IInv, InCall, SearchHolds
<1>7. ASSUME NEW c \in Clients, Overwrite(c) PROVE Step
  <2>1. /\ call[c].key \in StoredKeys
        /\ Store' = [Store EXCEPT ![call[c].key] = Kept(call[c].val)]
    BY <1>7, StoreAfterOverwrite
  <2>2. KV!Accepts(call[c].key)
    BY <2>1, StoreIsKV, KVCardinality DEF KV!Accepts
  <2>3. KV!Set(c)
    BY <1>6, <1>7, <2>1, <2>2
       DEF Overwrite, Goto, Answer, KV!Set, Store, KV!Number, Number
  <2> QED BY <2>3 DEF KV!KVNext
<1>8. ASSUME NEW c \in Clients, Insert(c) PROVE Step
  <2>1. /\ call[c].key \in Keys /\ Cardinality(StoredKeys) < MAX_BUS_ENTRIES
        /\ Store' = [Store EXCEPT ![call[c].key] = Kept(call[c].val)]
    BY <1>8, StoreAfterInsert
  <2>2. KV!Accepts(call[c].key)
    BY <2>1, StoreIsKV, KVCardinality DEF KV!Accepts
  <2>3. KV!Set(c)
    BY <1>6, <1>8, <2>1, <2>2
       DEF Insert, Goto, Answer, KV!Set, Store, KV!Number, Number
  <2> QED BY <2>3 DEF KV!KVNext
<1>9. ASSUME NEW c \in Clients, Full(c) PROVE Step
  <2>1. /\ pc[c] = "locked" /\ idx[c] = 0 /\ bus_count >= MAX_BUS_ENTRIES
        /\ Store' = Store
    BY <1>9, SameStore DEF Full, Goto
  <2>2. call[c].key \notin StoredKeys
    BY <2>1, StoreValue DEF IInv, SearchHolds
  <2>3. ~(Cardinality(StoredKeys) < MAX_BUS_ENTRIES)
    BY <2>1, StoreSize, BusConstants DEF IInv, Shape
  <2>4. ~KV!Accepts(call[c].key)
    BY <2>2, <2>3, StoreIsKV, KVCardinality DEF KV!Accepts
  <2>5. KV!Refuse(c)
    BY <1>6, <1>9, <2>1, <2>4 DEF Full, Answer, KV!Refuse, Store, KV!Number, Number
  <2> QED BY <2>5 DEF KV!KVNext
<1>10. ASSUME NEW c \in Clients, Read(c) PROVE Step
  <2> DEFINE k == call[c].key
  <2>1. /\ pc[c] = "locked" /\ Store' = Store /\ k \in Keys
    BY <1>6, <1>10, SameStore DEF Read, Goto
  <2>2. /\ k \in StoredKeys => idx[c] # 0 /\ Store[k] = global_bus[idx[c]].val
        /\ k \notin StoredKeys => idx[c] = 0
    BY <2>1, StoreValue, BusConstants DEF IInv, SearchHolds, Shape
  <2>3. reply' = [reply EXCEPT ![c] = IF k \in StoredKeys THEN Store[k] ELSE Number(0)]
    BY <1>10, <2>2 DEF Read, Answer
  <2>4. KV!Get(c)
    BY <1>6, <1>10, <2>1, <2>3, StoreIsKV
       DEF Read, KV!Get, KV!Number, Number, Store
  <2> QED BY <2>4 DEF KV!KVNext
<1>11. ASSUME NEW c \in Clients, Return(c) PROVE Step
  <2>1. Store' = Store /\ call[c] # Nothing /\ reply[c] # Pending
    BY <1>11, SameStore DEF Return, Goto, IInv, InCall
  <2>2. KV!End(c)
    BY <1>11, <2>1 DEF Return, KV!End, Store
  <2> QED BY <2>2 DEF KV!KVNext
<1> HIDE DEF Step, Same
<1>12. ASSUME NEW c \in Clients, InNative(c) PROVE Step \/ Same
  BY <1>12, <1>3, <1>4, <1>5, <1>7, <1>8, <1>9, <1>10, <1>11 DEF InNative
<1>13. Step \/ Same
  BY <1>1, <1>2, <1>12 DEF Next
<1> QED BY <1>13 DEF Step, Same

(* standardlib_reference.md:980, for any number of clients and keys: every *)
(* interleaving of bus_set and bus_get is one of calls that happen at one  *)
(* moment, if the first call is over before any other begins.              *)
THEOREM BusIsThreadSafe ==
  ASSUME FirstAlone
  PROVE  Spec => ThreadSafe
<1>1. IInv /\ [Next]_vars => [KV!KVNext]_KV!kvVars
  BY KVStepMaps DEF KV!kvVars, Store
<1> QED BY IInvInit, IInvStep, KVInitMaps, <1>1, PTL DEF Spec, ThreadSafe, KV!KVSpec
=============================================================================
