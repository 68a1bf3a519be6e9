SPECIFICATION ArraysSpec
CONSTANTS
    q1 = q1  s1 = s1  s2 = s2
    Queues = {q1}
    Statics = {s1, s2}
    Base = 2
    MAX_MSG_LENGTH = 8
    Bits <- MCBits
    Strings <- MCStrings
    MaxItems = 2
    None = None
INVARIANTS BytesAreItems ReadsBack
SYMMETRY StaticSymmetry
CONSTRAINT OneTorn
CHECK_DEADLOCK FALSE
