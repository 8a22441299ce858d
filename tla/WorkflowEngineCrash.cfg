\* One worker, a guarded step, one crash of the daemon or of the host.
CONSTANTS
  Tasks = {t1}
  Workers = {w1}
  None = None
  NumSteps = 2
  Manual = {}
  Guarded = {1}
  Watched = {}
  Sandboxed = {}
  Verdicts = {"APPROVED", "REJECTED"}
  MaxAttempts = 2
  MaxCorrections = 2
  LeaseTime = 1
  HitlTimeout = 1
  Crashes = 1
  Stops = 0
  Continues = 0
SPECIFICATION Spec
INVARIANTS TypeOK NoDoubleExecution
PROPERTIES FinishedStepsNotRedone ImplementsWorkflow
