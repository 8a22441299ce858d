\* Three writes to two steps, a ring of two events, two requests, one outage
\* or crash, besides one at the start.
SPECIFICATION Spec
SYMMETRY StepSymmetry
CONSTANTS
  s1 = s1
  s2 = s2
  Steps = {s1, s2}
  Commands = {1, 2}
  MaxEntries = 2
  Attempts = 1
  RecentSteps = 1
  MaxWrites = 3
  MaxFaults = 1
INVARIANTS TypeOK TransitionsKept PurgedRowsReported  
CHECK_DEADLOCK FALSE
