\* Two documents of a parser that starts with a sample; one attempt each, so that what
\* varies is who uploads, deletes, retries, saves and finishes first.
CONSTANTS
  Docs = {d1, d2}
  SetupMode = "sample"
  MaxAttempts = 1
  MaxPending = 2
  MaxSuggestions = 2
  MaxJobs = 2
  MaxVersions = 2
SPECIFICATION Spec
SYMMETRY Symmetric
INVARIANT TypeOK
INVARIANT OneActiveJob
INVARIANT HeldWorkFollowsSetup
INVARIANT SuggestingIsAlive
INVARIANT NoPlaceholderRuns
CHECK_DEADLOCK FALSE
