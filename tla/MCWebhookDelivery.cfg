\* One row (no statement relates two rows), two workers, a replay and a crash.
CONSTANTS
  Events = {e1}
  Workers = {w1, w2}
  MaxAttempts = 3
  MaxReplays = 1
  MaxInterrupts = 1
  NoEvent = NoEvent
SPECIFICATION FairSpec
INVARIANT DeletedIsForgotten
PROPERTY ImplementsContract
PROPERTY EveryEventSettles
