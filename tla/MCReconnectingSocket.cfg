\* Sockets that hang, close and come back, with every deadline (timers fire when they are due); a page
\* that is opened, loses calls, and is signed out; keys, the mouse and the leader's time.
SPECIFICATION PageSpec
CONSTANTS
  ConnectTimeout = 2
  SyncTimeout = 2
  PingInterval = 1
  PongTimeout <- PongTimeouts
  RetryDelay <- RetryDelays
  MaxNetEvents = 2
  InUse <- Keymaps
  Pressed <- Chords
  LeaderTimeout = 3
INVARIANTS
  NeverStranded
  WorkspaceLive
PROPERTIES
  DeadRouteNoticed
  LeaderHeld
CHECK_DEADLOCK TRUE
