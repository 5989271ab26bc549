\* Two requests and two answers under way at once, on the edge of the grace
\* period; or one address at the threshold while two links come and go;
\* or two sockets of a device that is removed, while they hang and lose ptyd.
SPECIFICATION GatewaySpec
CONSTANTS
  s1 = s1
  s2 = s2
  s3 = s3
  s4 = s4
  s5 = s5
  Secret <- FiveSecrets
  NoSecret = NoSecret
  Gone = Gone
  RotateAfter = 5
  Grace = 4
  Delay = 2
  MaxTraffic = 2
  k1 = k1
  k2 = k2
  home = home
  d1 = d1
  w1 = w1
  w2 = w2
  Device <- OneDevice
  Ws <- TwoSockets
  Address <- OneHome
  Link <- TwoLinks
  Token = Token
  Threshold = 2
  Lockout = 3
  LinkTtl = 2
  m1 = m1
  m2 = m2
  Minter <- Minters
SYMMETRY Alike
INVARIANTS
  NeverRefused
  RemovedForGood
  LinksExact
  GuessesBounded
  SocketsFollow
CHECK_DEADLOCK TRUE
