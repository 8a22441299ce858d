\* Every file of up to three nodes, one of them inline, two steps each.
SPECIFICATION Spec
CONSTANTS
  n1 = n1
  n2 = n2
  n3 = n3
  Nodes = {n1, n2, n3}
  Inline = {n3}
  Steps = 2
  Polls = 2
  Crashes = 1
INVARIANTS TypeOK PlanIsLayering NeedsCompleted
PROPERTY DriverSettles
CHECK_DEADLOCK FALSE
