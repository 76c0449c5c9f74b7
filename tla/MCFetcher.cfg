CONSTANTS
    d1 = d1  d2 = d2  d3 = d3
    Docs <- MCDocs
    Bad  <- MCBad
    None = None
    MaxFetchers = 2
    MaxChanges = 1
    MaxFaults = 1
    MaxExtra = 1
SPECIFICATION MCSpec
INVARIANTS TypeOK ContentsAreHash FileParses
PROPERTIES SuccessIsFresh Converges
CHECK_DEADLOCK FALSE
