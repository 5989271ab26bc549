\* Losses, timeouts and events around the list call, with one session; or the
\* frames of one connection, cut into any chunks.
SPECIFICATION LinkSpec
CONSTANTS
  s1 = s1
  m1 = m1
  m2 = m2
  NoSession = NoSession
  Id <- OneId
  Meta <- TwoMetas
  MaxWire = 3
  LengthBytes = 2
  MaxAsked = 2
  MaxTold = 1
INVARIANTS
  CacheCatchesUp
  BrowsersFollow
  FramesExact
PROPERTIES
  ComesBack
CHECK_DEADLOCK FALSE
