CONSTANTS
    Calls = {c1, c2}
    UUIDs = {u1}
    Names = {n1, n2}
    Sources = {s1, s2}
    Empty = Empty
    NoRow = NoRow
    NoDir = NoDir
    Partial = Partial
    Blank = Blank
    Cut = Cut
    Free = Free
    None = None
    MaxStamp = 2
    MaxCalls = 4
SPECIFICATION MCSpec
INVARIANTS TypeOK ImportedFilesAccepted ImportedContentOwn DeletedStaysDeleted
PROPERTIES CommitPublishesRow
SYMMETRY Perms
CHECK_DEADLOCK FALSE
