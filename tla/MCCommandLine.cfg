\* A terminal that is attached, and three bytes typed on it.
SPECIFICATION CommandSpec
CONSTANTS
  prefix = prefix
  d = d
  x = x
  Prefix <- prefix
  DetachKey <- d
  Letter <- Letters
  MaxTyped = 3
  Session <- Sessions
  Matching <- Second
  Command <- OnlyAttach
  MaxKeys = 2
  MaxQueue = 1
INVARIANTS
  DoubledIsOne
CHECK_DEADLOCK FALSE
