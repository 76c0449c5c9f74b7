CONSTANTS
    a = a  b = b
    Names <- MCNames
    Lists <- MCLists
    Updates <- Shorter
    NoName = NoName
    NoCaller = NoCaller
    Callers = {c1, c2}  Dialler = c1
    Kinds = {"select", "fallback", "url-test", "round-robin", "consistent-hashing"}
    Delays = {1, 3}
    MaxDelay = 7
    Tolerance = 1
    MaxFailedTimes = 2
    MaxVersion = 1
    MaxEvents = 2
SPECIFICATION MCSpec
INVARIANTS TypeOK CacheFresh SetWins
PROPERTIES ChoosesWell Recovers
CHECK_DEADLOCK FALSE
