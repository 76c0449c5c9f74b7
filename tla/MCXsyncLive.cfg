SPECIFICATION MCSpec
CONSTANTS
    Procs = {p1, p2}
    k1 = k1
    k2 = k2
    v1 = v1
    Keys = {k1, k2}
    Values = {v1, v2}
    Absent = Absent
    Hashes <- MCHashes
    PerBucket = 1
    MinLen = 1
    ShrinkFraction = 2
    Stride = 1
    MaxHelpers = 1
    MaxCalls = 2
PROPERTY CallsReturn
