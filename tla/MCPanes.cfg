\* Lists, drags, splits, closes and page loads around two panes and three
\* sessions; or two terminals mounted in up to two panes, one of them with
\* output.
SPECIFICATION WindowSpec
CONSTANTS
  s1 = s1
  s2 = s2
  s3 = s3
  p1 = p1
  p2 = p2
  t1 = t1
  t2 = t2
  None = None
  Session <- ThreeSessions
  Pane <- TwoPanes
  MaxPanes = 2
  Shell <- TwoShells
  Slot <- ThreeSessions
  Busy <- OneShell
  Nowhere = Nowhere
  MaxPane = 2
  MaxLine = 1
SYMMETRY Interchangeable
INVARIANTS
  OneViewEach
  PaneShows
PROPERTIES
  NoNeedlessHole
CHECK_DEADLOCK TRUE
