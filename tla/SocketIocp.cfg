SPECIFICATION FairSpec
CONSTANTS
  Workers = {t1, t2}
  Writers = {"a"}
  Quota <- MCQuota
  Size <- MCSize
  Portions = 2
  Disconnects = 1
  nullptr = nullptr
INVARIANTS NeverTwice  FreedOnce
PROPERTIES  DataHeard EndTold
CHECK_DEADLOCK FALSE
