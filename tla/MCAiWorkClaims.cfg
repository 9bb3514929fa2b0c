\* Three rows compete for one or two slots; leases expire at any time.
CONSTANTS
  Rows = {1, 2, 3}
  Workers = {w1, w2}
  MaxAttempts = 2
  Caps = {1, 2}
  MaxInterrupts = 0
  NoOne = NoOne
  Api = Api
SPECIFICATION Spec
SYMMETRY Symmetric
PROPERTY CapacityRespected
PROPERTY ClaimsInOrder
PROPERTY ImplementsQueue
