CONSTANTS
    MaxBus = 2
    MaxKills = 0
    MaxStarts = 1
    MaxSwitches = 1
    MaxOpens = 0
SPECIFICATION MCFairSpec
INVARIANTS TypeOK IntentSurvives
PROPERTIES StopEnds
CHECK_DEADLOCK FALSE
