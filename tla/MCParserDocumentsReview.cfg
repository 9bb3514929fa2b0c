\* A parser with preset fields, one document with two runs to review.
CONSTANTS
  Docs = {d1}
  SetupMode = "preset"
  MaxAttempts = 1
  MaxPending = 1
  MaxSuggestions = 1
  MaxJobs = 2
  MaxVersions = 1
SPECIFICATION Spec
INVARIANT ProcessedIsApproved
CHECK_DEADLOCK FALSE
