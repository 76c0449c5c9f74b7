------------------------------ MODULE LruCache ------------------------------
(***************************************************************************)
(* common/lru/lrucache.go as operators on the list of its entries, least   *)
(* recently used first.  Every method takes the mutex of the cache, so it  *)
(* is one step of its caller.  The caches of the fake-ip pool have a size  *)
(* and no maximum age: nothing expires.                                    *)
(***************************************************************************)
EXTENDS Naturals, Sequences, SequencesExt

Exist(c, k) == \E i \in DOMAIN c : c[i].key = k

\* The place in the list of a key that exists, which the map of the cache keeps.
Position(c, k) == CHOOSE i \in DOMAIN c : c[i].key = k

Value(c, k) == c[Position(c, k)].val

Delete(c, k) == IF Exist(c, k) THEN RemoveAt(c, Position(c, k)) ELSE c

\* Get moves the entry to the back.
Touch(c, k) ==
    IF Exist(c, k) THEN Append(Delete(c, k), [key |-> k, val |-> Value(c, k)]) ELSE c

\* Set moves an existing entry to the back; a new one may push out the oldest.
Set(c, k, v, size) ==
    LET new == Append(Delete(c, k), [key |-> k, val |-> v])
    IN  IF Len(new) > size THEN Tail(new) ELSE new

\* The copy shares its entries with the original.  Set writes into an entry only when the key
\* exists, which the pools, who delete before they set, never do.
CloneTo(c) == c

=============================================================================
