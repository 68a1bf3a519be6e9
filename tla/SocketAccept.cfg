SPECIFICATION FairSpec
CONSTANTS
  c1 = c1
  c2 = c2
  c3 = c3
  Conns = {c1, c2, c3}
  Key <- MCKey
  MaxFd = 2
  Portions <- MCPortions
  Users = {"u"}
  None = None
INVARIANTS MapsFollowKernel
PROPERTIES CallsReachNamed LoopClosesOnlyDead BacklogServed CloseReported
CHECK_DEADLOCK FALSE
