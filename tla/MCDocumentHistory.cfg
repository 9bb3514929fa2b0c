\* One document and its history: jobs of two attempts each, reviews of earlier runs while
\* a newer attempt is interrupted and recovered, drafts that outlive the saved fields. A
\* file of three pages split under two request ids by two invocations at a time. And two
\* editors of the parser's templates that share one browser's storage and make two saves.
CONSTANTS
  Docs = {d1}
  SetupMode = "sample"
  MaxAttempts = 2
  MaxPending = 2
  MaxSuggestions = 2
  MaxJobs = 2
  MaxVersions = 3
  Length = 3
  Marked = {2}
  Sizes = {2}
  Firsts = {2}
  Lasts = {2}
  Requests = {q1, q2}
  Splitters = {w1, w2}
  MaxDocuments = 4
  Editors = {w1, w2}
  Saves = {q1, q2}
  None = None
  MaxRevision = 2
  MaxSchema = 1
SPECIFICATION HistorySpec
SYMMETRY Alike
INVARIANT StatusTellsJob
INVARIANT PagesAreAsTold
INVARIANT AnswersFitRequests
INVARIANT ShownIsTrue
INVARIANT NoSaveForgotten
PROPERTY DraftsApplyToTheirBase
CHECK_DEADLOCK FALSE
