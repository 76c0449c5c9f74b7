SPECIFICATION Spec
CONSTANTS
    h1 = h1  h2 = h2  h3 = h3  c1 = c1  c2 = c2
    Hosts   <- MCHosts
    Callers <- MCCallers
    Lasts   <- MCLasts
    NoHost  = none
    First   = 2
    Size    = 2
    MaxPools = 2
    MaxSpoilt = 1
SYMMETRY Symmetry
VIEW Alive
CONSTRAINT Bounded
INVARIANTS AddressesBelong CachesAgree
PROPERTY ShutdownKeeps
CHECK_DEADLOCK FALSE
