\* Two processes, each started while the other may start or stop.
SPECIFICATION StartupSpec
CONSTANTS
  p1 = p1
  p2 = p2
  p3 = p3
  None = None
  Debris = Debris
  Process <- TwoProcesses
INVARIANTS
  OneServing
CHECK_DEADLOCK TRUE
