SPECIFICATION FairSpec
CONSTANTS
  r1 = r1
  r2 = r2
  r3 = r3
  Net = Net
  None = None
  Requests = {r1, r2, r3}
  Handlers = 2
  MaxId = 2
INVARIANTS RequestIdsDistinct AnswerIsForRequest
CHECK_DEADLOCK FALSE
PROPERTIES AnswerArrives AsyncCallReturns
