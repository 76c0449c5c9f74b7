CONSTANTS
    a = a  b = b
    Names <- MCNames
    Lists <- Same
    Updates <- Same
    NoName = NoName
    NoCaller = NoCaller
    Callers = {c1}  Dialler = c1
    Kinds = {"url-test"}
    Delays = {1, 3}
    MaxDelay = 7
    Tolerance = 1
    MaxFailedTimes = 2
    MaxVersion = 1
    MaxEvents = 2
SPECIFICATION MCSpec
PROPERTIES UsesTested
CHECK_DEADLOCK FALSE
