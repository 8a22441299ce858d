\* One task, one worker, no guard: corrections, quota and stale-HEAD failures;
\* the first step has a sandbox.
CONSTANTS
  Tasks = {t1}
  Workers = {w1}
  None = None
  NumSteps = 3
  Manual = {2}
  Guarded = {}
  Watched = {}
  Sandboxed = {1}
  Verdicts = {}
  MaxAttempts = 3
  MaxCorrections = 2
  LeaseTime = 2
  HitlTimeout = 1
  Crashes = 0
  Stops = 0
  Continues = 0
SPECIFICATION FairSpec
PROPERTIES TasksSettle
