-------------------------- MODULE MCRemoteResource --------------------------
(* RemoteResource with a bound on how often the app becomes visible.         *)
EXTENDS RemoteResource

CONSTANT MaxOpens   \* times that the app becomes visible

ASSUME MaxOpensAssumption == MaxOpens \in Nat

VARIABLE opens

MCInit == Init /\ opens = 0

MCBind   == Bind /\ opens < MaxOpens /\ opens' = opens + 1
MCUnbind == Unbind /\ UNCHANGED opens
MCRest   == Rest /\ UNCHANGED opens

MCNext == MCBind \/ MCUnbind \/ MCRest

MCSpec == MCInit /\ [][MCNext]_<<vars, opens>>

MCFairSpec == MCSpec /\ Fairness

=============================================================================
