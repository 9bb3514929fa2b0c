CONSTANTS
  Attempts = {t1, t2}
  MaxParts = 2
  MaxActive = 1
  MaxTries = 1
  MaxUnsure = 1
  MaxCrashes = 1
  None = None
  Uploads = {u1, u2}
  Finalizers = {t1, t2}
  BatchPlans = {p1, p2}
  Unbound = Unbound
  MaxTakeovers = 2
  Copiers = {t1, t2}
  Cleaners = {m1, m2}
  MaxSuggestAttempts = 2
  Operators = {o1, o2, o3}
  Backups = {u1, u2}
  Keys = {k1, k2}
SPECIFICATION StorageSpec
SYMMETRY Alike
INVARIANT OriginalsKept
INVARIANT EveryObjectIsFound
INVARIANT OneOutcome
INVARIANT BytesStayReserved
INVARIANT UploadsAreDecidedOnce
INVARIANT CopyMatchesRow
INVARIANT RunsOnlyActivated
CHECK_DEADLOCK FALSE
