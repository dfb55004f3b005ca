------------------------------ MODULE KeyValue ------------------------------
(***************************************************************************)
(* What the Universal Bus promises (standardlib_reference.md, "a           *)
(* thread-safe, global key-value store that allows all VM instances to     *)
(* communicate"): a map of bounded size on which every call of every       *)
(* client takes effect at one moment between its start and its return.     *)
(***************************************************************************)
EXTENDS FiniteSets, Integers

CONSTANTS
  Clients,   (* The VMs, each on a thread of its own.                      *)
  Keys,      (* Strings used as keys.                                      *)
  BadKey,    (* A key that is not a string.                                *)
  Values,    (* What programs store.                                       *)
  Kept(_),   (* The value the store keeps of one it is given.              *)
  Capacity,  (* How many keys the store holds.                             *)
  Absent, Pending, Nothing

VARIABLES
  store,     (* per key: its value, or Absent                              *)
  call,      (* per client: the call it is in, or Nothing                  *)
  reply      (* per client: the answer of that call, or Pending            *)

kvVars == <<store, call, reply>>

Number(n) == [type |-> "num", data |-> n]

Calls == [kind : {"set"}, key : Keys \cup {BadKey}, val : Values]
           \cup [kind : {"get"}, key : Keys]

Stored == {k \in Keys : store[k] # Absent}

Accepts(k) == k \in Stored \/ (k \in Keys /\ Cardinality(Stored) < Capacity)

Begin(c, op) ==
  /\ call[c] = Nothing
  /\ call' = [call EXCEPT ![c] = op]
  /\ reply' = [reply EXCEPT ![c] = Pending]
  /\ UNCHANGED store

Set(c) ==
  /\ call[c] # Nothing /\ call[c].kind = "set" /\ reply[c] = Pending
  /\ Accepts(call[c].key)
  /\ store' = [store EXCEPT ![call[c].key] = Kept(call[c].val)]
  /\ reply' = [reply EXCEPT ![c] = Number(1)]
  /\ UNCHANGED call

(* The store is full, or the key is not a string. *)
Refuse(c) ==
  /\ call[c] # Nothing /\ call[c].kind = "set" /\ reply[c] = Pending
  /\ ~Accepts(call[c].key)
  /\ reply' = [reply EXCEPT ![c] = Number(0)]
  /\ UNCHANGED <<store, call>>

Get(c) ==
  /\ call[c] # Nothing /\ call[c].kind = "get" /\ reply[c] = Pending
  /\ reply' = [reply EXCEPT ![c] = IF call[c].key \in Stored
                                   THEN store[call[c].key] ELSE Number(0)]
  /\ UNCHANGED <<store, call>>

End(c) ==
  /\ call[c] # Nothing /\ reply[c] # Pending
  /\ call' = [call EXCEPT ![c] = Nothing]
  /\ UNCHANGED <<store, reply>>

KVInit ==
  /\ store = [k \in Keys |-> Absent]
  /\ call = [c \in Clients |-> Nothing]
  /\ reply = [c \in Clients |-> Pending]

KVNext ==
  \E c \in Clients :
    \/ \E op \in Calls : Begin(c, op)
    \/ Set(c) \/ Refuse(c) \/ Get(c) \/ End(c)

KVSpec == KVInit /\ [][KVNext]_kvVars
=============================================================================
