\* Two guarded steps, one verdict event.
CONSTANTS
  Tasks = {t1}
  Workers = {w1}
  None = None
  NumSteps = 2
  Manual = {}
  Guarded = {1, 2}
  Watched = {}
  Sandboxed = {}
  Verdicts = {"APPROVED"}
  MaxAttempts = 2
  MaxCorrections = 1
  LeaseTime = 1
  HitlTimeout = 1
  Crashes = 0
  Stops = 0
  Continues = 0
SPECIFICATION Spec
PROPERTIES ApprovedRerunsPass
