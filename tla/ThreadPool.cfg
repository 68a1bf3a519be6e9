SPECIFICATION FairSpec
CONSTANTS
  w1 = w1
  w2 = w2
  t1 = t1
  t2 = t2
  None = None
  Workers = {w1, w2}
  Tasks = {t1, t2}
INVARIANTS StopQuiesces
CHECK_DEADLOCK FALSE
PROPERTIES ImplementsTaskPool TaskEnds StopReturns
