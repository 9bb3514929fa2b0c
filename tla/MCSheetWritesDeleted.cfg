\* One approval whose document is deleted while an attempt is about to reserve its rows.
CONSTANTS
  Approvals = {a1}
  Workers = {w1}
  Tabs = {t1}
  MaxRows = 1
  MaxAttempts = 1
  MaxGrants = 1
  NoApproval = NoApproval
  NoWrite = NoWrite
SPECIFICATION Spec
INVARIANT DeletedHasNoReservation
CHECK_DEADLOCK FALSE
