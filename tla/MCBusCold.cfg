CONSTANTS
  Clients = {c1, c2}
  Keys = {k1}
  BadKey = BadKey
  Values <- TwoValues
  MAX_BUS_ENTRIES = 2
  FirstAlone = FALSE
  Absent = Absent
  Pending = Pending
  Nothing = Nothing
SPECIFICATION Spec
PROPERTY ThreadSafe
