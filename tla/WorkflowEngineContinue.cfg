\* A task that Stop and Continue leave with two workers; a step with a writes list.
CONSTANTS
  Tasks = {t1}
  Workers = {w1, w2}
  None = None
  NumSteps = 2
  Manual = {}
  Guarded = {}
  Watched = {1}
  Sandboxed = {}
  Verdicts = {}
  MaxAttempts = 2
  MaxCorrections = 1
  LeaseTime = 1
  HitlTimeout = 1
  Crashes = 0
  Stops = 1
  Continues = 1
SPECIFICATION Spec
INVARIANTS SleepersHaveWorkers
PROPERTIES ImplementsWorkflow
