\* Three starts, two clients, two kills or stops.
SPECIFICATION Spec
CONSTANTS
  d1 = d1
  d2 = d2
  d3 = d3
  Daemons = {d1, d2, d3}
  Old = Old
  Clients = {k1, k2}
  Kills = 2
  None = None
  Empty = Empty
INVARIANTS TypeOK LockHolds
PROPERTY StartsRecover
CHECK_DEADLOCK FALSE
