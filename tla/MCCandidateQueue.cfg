SPECIFICATION Spec
CONSTANTS
    Sessions = {s1, s2}
    Keys = {k1}
    NoKey = NoKey
    MaxSeq = 4
    MaxLimit = 2
INVARIANTS QueueSafe
PROPERTIES TableSpec
