---------------------------- MODULE MCProxyGroup ----------------------------
(* ProxyGroup with one goroutine that dials again and again, and a bound on *)
(* what the other goroutines, the user, the servers and the source of the   *)
(* provider do, together.                                                   *)
EXTENDS ProxyGroup

CONSTANTS MaxEvents, Dialler, Updates, a, b

VARIABLE events     \* other dials, changes of servers, of the selection and of the list so far

MCNames == {a, b}
MCLists == {<<a, b>>, <<b>>, <<>>}
Shorter == {<<b>>, <<>>}
Same    == {<<a, b>>}

mcvars == <<vars, events>>

\* The second proxy is the faster one; a selection is one that the group would not make itself.
MCInit == /\ Init /\ events = 0
          /\ real = [n \in Names |-> IF n = a THEN 3 ELSE 1]
          /\ provider.names = <<a, b>>
          /\ selected # IF kind = "fallback" THEN a ELSE b
          /\ kind \in {"round-robin", "consistent-hashing"} => selected = NoName

Runs == \/ Dial(Dialler) \/ (\E c \in Callers : Continue(c))
        \/ Expire \/ Checks \/ GroupCheckEnd

Events == \/ \E l \in Updates : SetProxies(l)
          \/ \E c \in Callers \ {Dialler} : Dial(c) \/ Unfix(c) \/ \E n \in Names : Set(c, n)
          \/ \E n \in Names, d \in Delays \cup {0} : World(n, d)

MCRuns   == Runs /\ UNCHANGED events
MCEvents == events < MaxEvents /\ Events /\ events' = events + 1

MCSpec == MCInit /\ [][MCRuns \/ MCEvents]_mcvars /\ Fairness
=============================================================================
