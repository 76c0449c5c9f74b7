------------------------- MODULE MCServiceLifecycle -------------------------
(* ServiceLifecycle with bounds on what the user does.                       *)
EXTENDS ServiceLifecycle

CONSTANTS
    MaxStarts,      \* starts by the user
    MaxSwitches,    \* switches between VPN and proxy mode
    MaxOpens        \* openings of the app

ASSUME MCBoundsAssumption == {MaxStarts, MaxSwitches, MaxOpens} \subseteq Nat

VARIABLES
    starts, switches, opens     \* what the user has done so far

MCInit == Init /\ starts = 0 /\ switches = 0 /\ opens = 0

MCStart  == /\ UserStart
            /\ starts < MaxStarts /\ starts' = starts + 1
            /\ UNCHANGED <<switches, opens>>
MCStop   == UserStop /\ UNCHANGED <<starts, switches, opens>>
MCSwitch == /\ SetEnableVpn
            /\ switches < MaxSwitches /\ switches' = switches + 1
            /\ UNCHANGED <<starts, opens>>
MCOpen   == /\ BecomeVisible
            /\ opens < MaxOpens /\ opens' = opens + 1
            /\ UNCHANGED <<starts, switches>>
MCRest   == /\ \/ BecomeInvisible \/ MainProcess \/ System
               \/ TunOnCreate \/ ClashOnCreate \/ TunStep \/ EnterLoop
               \/ \E k \in Kinds : ServiceStep(k) \/ ProfileLoaded(k) \/ LoadException(k)
            /\ UNCHANGED <<starts, switches, opens>>

MCNext == MCStart \/ MCStop \/ MCSwitch \/ MCOpen \/ MCRest

MCSpec == MCInit /\ [][MCNext]_<<vars, starts, switches, opens>>

MCFairSpec == MCSpec /\ Fairness

=============================================================================
