\* ptyd's starts and stops (three processes, started in any order, each of
\* which dies at any point); or creates, exits, sweeps, refills and failed spawns
\* around a pool of two; or one run of any command against a ptyd whose two
\* sessions come and go.
SPECIFICATION LifecycleSpec
CONSTANTS
  p1 = p1
  p2 = p2
  p3 = p3
  None = None
  Debris = Debris
  Process <- ThreeProcesses
  i1 = i1
  i2 = i2
  i3 = i3
  i4 = i4
  Id <- FourIds
  warmPoolEnabled = TRUE
  warmPoolSize = 2
  warmPoolMaxIdle = 1
  MaxSessions = 2
  MaxNow = 4
  prefix = prefix
  d = d
  x = x
  Prefix <- prefix
  DetachKey <- d
  Letter <- Letters
  MaxTyped = 3
  Session <- Sessions
  Matching <- Second
  Command <- Commands
  MaxKeys = 2
  MaxQueue = 1
INVARIANTS
  FilesAreOwn
  PoolBounded
  NoOrphanShell
  InputExact
  ShowsPtyd
PROPERTIES
  FailsForAnother
  FillsWhenQuiet
  NeverHangs
CHECK_DEADLOCK FALSE
