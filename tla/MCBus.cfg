\* Two clients, three keys for two entries; the first call is over before the
\* second client starts.
CONSTANTS
  Clients = {c1, c2}
  Keys = {k1, k2, k3}
  BadKey = BadKey
  Values <- TwoValues
  MAX_BUS_ENTRIES = 2
  FirstAlone = TRUE
  Absent = Absent
  Pending = Pending
  Nothing = Nothing
SPECIFICATION Spec
INVARIANTS
  TypeOK
  OneEntryPerKey
PROPERTIES
  ThreadSafe
  LockReleased
