\* Two approvals, three attempts by two workers, two authorizations; three attempts of the
\* monitor's runs, two of which may fail at any step, and a tick two handlers may dispatch.
CONSTANTS
  Approvals = {a1, a2}
  Workers = {w1, w2}
  Tabs = {t1}
  MaxRows = 2
  MaxAttempts = 3
  MaxGrants = 2
  NoApproval = NoApproval
  NoWrite = NoWrite
  MaxTurns = 3
  Threshold = 2
  MaxTicks = 1
  MaxFaults = 2
SPECIFICATION OutsideSpec
SYMMETRY Symmetric
INVARIANT RangesDisjoint
INVARIANT OneRangePerApproval
INVARIANT EveryNoticeOnce
PROPERTY ConnectionsAreNewest
CHECK_DEADLOCK FALSE
