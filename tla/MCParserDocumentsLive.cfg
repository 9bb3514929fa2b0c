\* Two documents, retried attempts, no reprocessing; no symmetry (liveness).
CONSTANTS
  Docs = {d1, d2}
  SetupMode = "sample"
  MaxAttempts = 2
  MaxPending = 2
  MaxSuggestions = 2
  MaxJobs = 1
  MaxVersions = 2
SPECIFICATION FairSpec
PROPERTY EveryJobSettles
CHECK_DEADLOCK FALSE
