\* One task, two payloads and a delayed retry, under fair polling;
\* retry_task may grant it a third attempt.
CONSTANTS
  Tasks = {t1}
  Steps = {s1}
  Events = {e1}
  Payloads = {p1, p2}
  CkptStates = {p1}
  None = None
  MaxAttempts = 2
  AttemptCap = 3
  ClaimTimeout = 1
  ExtendBy = 1
  RetryDelay = 1
  AwaitTimeouts = {0, 1}
  SleepDelays = {1}
SPECIFICATION FairSpec
INVARIANTS TypeOK AttemptsBounded
PROPERTIES  EndedRunsStay CheckpointFence SleepersWake ExpiredLeasesRecovered
