\* Two clients and one session: every window, policy and order of requests.
SPECIFICATION FairSpec
CONSTANTS
  c1 = c1
  c2 = c2
  s1 = s1
  Conn <- TwoConns
  Id <- OneId
  RawSize <- Windows
  DefaultSize <- Default
  MinSize <- Smallest
  MaxSize <- Largest
  Policy <- Policies
INVARIANTS
  OwnedViewers
  ClientsCurrent
  SizeFollowsViewers
PROPERTIES
  FileCatchesUp
CHECK_DEADLOCK TRUE
