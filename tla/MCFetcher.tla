----------------------------- MODULE MCFetcher -----------------------------
(* Fetcher with bounds on what happens around it.                           *)
EXTENDS Fetcher

CONSTANTS MaxChanges, MaxFaults, MaxExtra, d1, d2, d3

VARIABLES changes, faults, extra    \* changes of the server, failures and kills, and
                                    \* updates begun by the REST interface or an old
                                    \* pull loop so far

MCDocs == {d1, d2, d3}
MCBad  == {d3}

mcvars == <<vars, changes, faults, extra>>

\* d1 and d2 are interchangeable: the first of them to appear is d1.  Without ETags there is
\* no file at the start and the document is good; with a file at the start it is good, too.
MCInit == /\ Init /\ file # d2 /\ (server = d2 => file = d1) /\ (server = d3 => file = None)
          /\ (etag \/ (file = None /\ server = d1))
          /\ changes = 0 /\ faults = 0 /\ extra = 0

ExtraBegins == \E i \in DOMAIN call, p \in Procs :
                  /\ At(i, p, "idle") /\ call'[i][p].at = "sent"
                  /\ p = "rest" \/ i # Current

\* Closing a fetcher only keeps it from further updates.
Closes == \E i \in DOMAIN fetchers : Close(i)

MCStep   == /\ Step
            /\ Closes => extra < MaxExtra
            /\ extra' = IF ExtraBegins THEN extra + 1 ELSE extra
            /\ extra' <= MaxExtra
            /\ UNCHANGED <<changes, faults>>
MCReload == Reload /\ UNCHANGED <<changes, faults, extra>>
MCChange == /\ changes < MaxChanges /\ ServerChanges
            /\ changes' = changes + 1 /\ UNCHANGED <<faults, extra>>
MCFault  == /\ faults < MaxFaults /\ (Failure \/ Kill)
            /\ faults' = faults + 1 /\ UNCHANGED <<changes, extra>>

MCSpec == MCInit /\ [][MCStep \/ MCReload \/ MCChange \/ MCFault]_mcvars /\ Fairness
=============================================================================
