-------------------------- MODULE MCProfileManager --------------------------
(* ProfileManager with a bound on the number of calls that are started.     *)
EXTENDS ProfileManager, TLC

CONSTANT MaxCalls   \* calls started in a behaviour

VARIABLE started    \* calls started so far

MCInit == Init /\ started = 0

MCStart(c) == Start(c) /\ started < MaxCalls /\ started' = started + 1
MCStep(c)  == Step(c) /\ UNCHANGED started
MCWrite(u) == WriteFile(u) /\ UNCHANGED started
MCKill     == Kill /\ UNCHANGED started

MCNext == \/ \E c \in Calls : MCStart(c) \/ MCStep(c)
          \/ \E u \in UUIDs : MCWrite(u)
          \/ MCKill

MCSpec == MCInit /\ [][MCNext]_<<vars, started>>

MCFairSpec == MCSpec /\ \A c \in Calls : SF_<<vars, started>>(MCStep(c))

Perms == Permutations(Calls) \cup Permutations(Names) \cup Permutations(Sources)
            \cup Permutations(UUIDs)

=============================================================================
