CONSTANTS
  Attempts = {t1}
  MaxParts = 2
  MaxActive = 1
  MaxTries = 1
  MaxUnsure = 1
  MaxCrashes = 1
  Hosts = {h1, h2}
  Extraction = {core, suggestion}
  OtherLanes = {delivery}
  LaneCapacity = 1
  MaxArrivals = 2
  MaxSetbacks = 1
  None = None
SPECIFICATION LiveSpec
PROPERTY OrphansGo
PROPERTY EveryLaneDrains
CHECK_DEADLOCK FALSE
