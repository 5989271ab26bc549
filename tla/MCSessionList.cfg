\* One call that fails or is refused.
SPECIFICATION Spec
CONSTANTS
  s1 = s1
  s2 = s2
  n1 = n1
  Session <- TwoSessions
  Name <- OneName
  DefaultName = n1
  MaxChannel = 2
  MaxCalls = 1
SYMMETRY Interchangeable
INVARIANTS
  NoGhost
CHECK_DEADLOCK TRUE
