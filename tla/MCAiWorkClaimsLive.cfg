\* Two rows, crashes and aborted claims up to MaxInterrupts; no symmetry (liveness).
CONSTANTS
  Rows = {1, 2}
  Workers = {w1, w2}
  MaxAttempts = 2
  Caps = {1, 2}
  MaxInterrupts = 1
  NoOne = NoOne
  Api = Api
SPECIFICATION FairSpec
PROPERTY EveryRowSettles
PROPERTY DeleteProceeds
