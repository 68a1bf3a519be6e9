SPECIFICATION Spec
CONSTANTS
  a1 = a1
  a2 = a2
  d = d
  k1 = k1
  k2 = k2
  None = None
  Accepted = {a1, a2}
  Dialled = {d}
  Addr <- MCAddr
  LPort <- MCLPort
  Keys = {k1, k2}
  LongKeys = {k2}
INVARIANTS KeyDecides SessionsMatch
CONSTRAINT OneUnasked
CHECK_DEADLOCK FALSE
