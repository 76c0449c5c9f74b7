CONSTANTS
    MaxBus = 2
    MaxKills = 2
    MaxStarts = 2
    MaxSwitches = 0
    MaxOpens = 1
SPECIFICATION MCFairSpec
INVARIANTS MarkerHonest
PROPERTIES StopHitsOwnTunnel AppLearnsOfStop
CHECK_DEADLOCK FALSE
