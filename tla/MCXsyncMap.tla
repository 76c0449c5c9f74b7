----------------------------- MODULE MCXsyncMap -----------------------------
(***************************************************************************)
(* A bound on the number of calls, and small hash functions: one that      *)
(* keeps the keys apart in a table of two buckets, one that does not.      *)
(***************************************************************************)
EXTENDS XsyncMap, TLC

CONSTANTS MaxCalls, k1, k2, v1

VARIABLE calls
mcVars == <<vars, calls>>

MCHashes == {[h1 |-> (k1 :> 0 @@ k2 :> 1), h2 |-> (k1 :> 1 @@ k2 :> 1)],
             [h1 |-> (k1 :> 0 @@ k2 :> 2), h2 |-> (k1 :> 1 @@ k2 :> 2)]}

\* A table of the given length that holds the given keys and nothing else.
Filled(len, ks) ==
    LET put(b, k) == AppendToBucket(b, [key |-> k, val |-> v1])
    IN  [NewTable(len) EXCEPT
           !.chains = [b \in 0..len - 1 |->
                         FoldSet(LAMBDA k, c : put(c, k), EmptyBucket,
                                 {k \in ks : BucketOf(k, len) = b})],
           !.size = Cardinality(ks)]

\* The map in use, about to grow or about to shrink.
MCInit ==
    /\ hash \in Hashes
    /\ tables \in {<<Filled(MinLen, {k1})>>, <<Filled(2 * MinLen, {k1, k2})>>}
    /\ InitRest
    /\ calls = 0

MCInvoke ==
    /\ calls < MaxCalls
    /\ \E p \in Procs, c \in Abs!Invocations :
         (c.op \in {"Store", "LoadOrStore"} => c.val # v1) /\ Invoke(p, c)
    /\ Witness
    /\ calls' = calls + 1

MCWork == (\E p \in Procs : Work(p)) /\ Witness /\ UNCHANGED calls

MCDone == calls = MaxCalls /\ (\A p \in Procs : pc[p] = "idle") /\ UNCHANGED mcVars

MCNext == MCInvoke \/ MCWork \/ MCDone

MCSpec == MCInit /\ [][MCNext]_mcVars /\ Fairness

Symmetry == Permutations(Procs)
=============================================================================
