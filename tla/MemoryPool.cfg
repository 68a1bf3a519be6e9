SPECIFICATION FairSpec
CONSTANTS
    t1 = t1  t2 = t2
    Threads = {t1, t2}
    Sizes = {3, 4}
    Align = 4
    IncreaseNum = 2
    MaxHeld = 3
    Foreign = Foreign
    None = None
INVARIANTS OnePlace BlocksFit
CHECK_DEADLOCK FALSE
PROPERTIES CallsReturn
