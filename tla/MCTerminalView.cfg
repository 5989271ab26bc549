\* Output, input, sizes and sockets that come and go; every step that can happen does.
SPECIFICATION ViewSpec
CONSTANTS
  Size <- ThreeSizes
  MaxSize = 2
  resizePolicy = "active"
  MAX_WS_BACKLOG = 1
  MaxOutput = 2
  MaxInput = 1
  MaxConnections = 2
  MaxFlight = 2
INVARIANTS
  ScreenExact
  InputKept
  SizesAgree
PROPERTIES
  CatchesUp
CHECK_DEADLOCK FALSE
