\* Two tasks of one queue that may wait for the same event from two steps, with
\* an attempt that retry_task adds.  Without set_task_checkpoint_state: nothing
\* checked here depends on it.
CONSTANTS
  Tasks = {t1, t2}
  Steps = {s1, s2}
  Events = {e1}
  Payloads = {p1}
  CkptStates = {}
  None = None
  MaxAttempts = 2
  AttemptCap = 3
  ClaimTimeout = 1
  ExtendBy = 1
  RetryDelay = 1
  AwaitTimeouts = {0, 1}
  SleepDelays = {1}
SPECIFICATION Spec
SYMMETRY QueueSymmetry
INVARIANTS OneLiveRun TaskMatchesRun NoLostWakeup WaitsAreForSleepers
PROPERTIES ImplementsDurableTask
