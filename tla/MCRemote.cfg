CONSTANTS
    Calls = {c1, c2}
    MaxKills = 2
    MaxOpens = 2
SPECIFICATION MCFairSpec
INVARIANTS TypeOK NoLostWaiter BinderKept
PROPERTIES CallsEnd
CHECK_DEADLOCK FALSE
