CONSTANTS
    Calls = {c1, c2}
    UUIDs = {u1}
    Names = {n1}
    Sources = {s1}
    Empty = Empty
    NoRow = NoRow
    NoDir = NoDir
    Partial = Partial
    Blank = Blank
    Cut = Cut
    Free = Free
    None = None
    MaxStamp = 3
    MaxCalls = 3
SPECIFICATION MCFairSpec
PROPERTIES CallsReturn
CHECK_DEADLOCK FALSE
