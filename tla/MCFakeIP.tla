------------------------------ MODULE MCFakeIP ------------------------------
(* FakeIP with a bounded number of reloads in the life of a process, up to  *)
(* the first overlap that the mutex does not exclude, and with a bounded     *)
(* number of addresses that failed writes have spoilt.                      *)
EXTENDS FakeIP

CONSTANTS MaxPools, MaxSpoilt, h1, h2, h3, c1, c2

MCHosts   == {h1, h2, h3}
MCCallers == {c1, c2}
MCLasts   == {3, 5}
Symmetry  == Permutations(MCHosts) \cup Permutations(MCCallers)

Late(c) == pc[c] # "idle" /\ q[c].pool # cur

\* In memory a pool and its successor, once it has been cloned, share only entries that neither
\* of them writes: while a Lookup is late on the old one, none is under way on the new one.  In
\* the cache file they overlap.
Apart == ~persistent /\ (\E c \in Callers : Late(c)) =>
             \A c \in Callers : pc[c] # "idle" => Late(c)

\* Two Lookups compete for the mutex of a pool in memory; on the cache file a second one is let
\* in only where the mutex does not help, when there are two pools.
Alone == persistent /\ Len(pools) = 1 =>
             \A c, d \in Callers : pc[c] # "idle" /\ pc[d] # "idle" => c = d

Bounded == /\ Len(pools) <= MaxPools /\ ~raced /\ Apart
           /\ Cardinality(spoilt) <= MaxSpoilt /\ (spoilt # {} => Len(pools) = 1)
           /\ Alone

\* A pool that has been replaced, and that no Lookup and no flush works on any more, is never
\* read again: states that differ in it alone count as one.  So do states that differ in the
\* order of the entries of the file, of which a bucket has none.
Dead(i) == /\ i < cur
           /\ \A c \in Callers : pc[c] # "idle" => q[c].pool # i
           /\ flush.at # "idle" => flush.pool # i

Alive == <<persistent, [i \in DOMAIN pools |-> IF Dead(i) THEN NewPool(First) ELSE pools[i]],
           [file EXCEPT !.cacheIP = Range(@), !.cacheHost = Range(@)], cur, pc, q, flush, reload,
           raced, spoilt>>
=============================================================================
