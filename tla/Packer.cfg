SPECIFICATION FairSpec
CONSTANTS
  HeaderLen = 2
  Lengths <- MCLengths
  Garbage <- MCGarbage
  INT_MAX = 7
  MaxSent = 3
  MaxRead = 7
  MaxConns = 2
INVARIANTS NothingHeldBack FitsBuffer
CHECK_DEADLOCK FALSE
PROPERTIES ImplementsChannel UnPackReturns
