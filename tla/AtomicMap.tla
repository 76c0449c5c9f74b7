------------------------------ MODULE AtomicMap ------------------------------
(***************************************************************************)
(* What a concurrent map promises its callers, without tables, buckets or  *)
(* locks.  A call that writes takes effect once, at one moment between its *)
(* beginning and its end.  A call that only looks returns, for each key,   *)
(* something that the key was mapped to at some moment of the call.        *)
(*                                                                         *)
(* The result of a call is what it found under its key, Absent included;   *)
(* the result of Range is what it found under each key; Store has none.    *)
(***************************************************************************)

CONSTANTS Procs, Keys, Values, Absent

VARIABLES
    contents,   \* key -> value or Absent
    call,       \* process -> the call in progress, or Idle
    seen,       \* process -> key -> what the key was mapped to since the call began
    res         \* process -> <<what the call will return>>, or Pending

absVars == <<contents, call, seen, res>>

Idle    == [op |-> "idle"]
Pending == <<>>

WriteOps == {"Store", "LoadOrStore", "LoadAndDelete"}

Mapped   == Values \cup {Absent}
Invocations ==
    [op : {"Load", "LoadAndDelete"}, key : Keys]
        \cup [op : {"Store", "LoadOrStore"}, key : Keys, val : Values]
        \cup [op : {"Range"}]

\* What the map holds under the key of a writing call after it, if it held old before.
After(c, old) ==
    CASE c.op = "LoadAndDelete"                   -> Absent
      [] c.op = "LoadOrStore" /\ old # Absent     -> old
      [] OTHER                                    -> c.val

\* What a call may return without having changed the map.
LooksAt(c, r, s) ==
    \/ c.op = "Load" /\ r \in s[c.key]
    \/ c.op = "LoadOrStore" /\ r # Absent /\ r \in s[c.key]
    \/ c.op = "LoadAndDelete" /\ r = Absent /\ r \in s[c.key]
    \/ c.op = "Range" /\ r \in [Keys -> Mapped] /\ \A k \in Keys : r[k] \in s[k]

\* The calls in progress see the new contents too.
Observe ==
    seen' = [p \in Procs |->
               IF call[p] = Idle THEN seen[p]
               ELSE [k \in Keys |-> seen[p][k] \cup {contents'[k]}]]

AInit ==
    /\ contents \in [Keys -> Mapped]
    /\ call = [p \in Procs |-> Idle]
    /\ seen = [p \in Procs |-> [k \in Keys |-> {}]]
    /\ res  = [p \in Procs |-> Pending]

Invoke(p, c) ==
    /\ call[p] = Idle
    /\ call' = [call EXCEPT ![p] = c]
    /\ seen' = [seen EXCEPT ![p] = [k \in Keys |-> {contents[k]}]]
    /\ UNCHANGED <<contents, res>>

\* A writing call takes effect.
Write(p) ==
    /\ call[p] # Idle /\ call[p].op \in WriteOps /\ res[p] = Pending
    /\ res' = [res EXCEPT ![p] = <<IF call[p].op = "Store" THEN Absent ELSE contents[call[p].key]>>]
    /\ contents' = [contents EXCEPT ![call[p].key] = After(call[p], @)]
    /\ Observe
    /\ UNCHANGED call

Look(p) ==
    /\ call[p] # Idle /\ res[p] = Pending
    /\ \E r \in Mapped \cup [Keys -> Mapped] :
         /\ LooksAt(call[p], r, seen[p])
         /\ res' = [res EXCEPT ![p] = <<r>>]
    /\ UNCHANGED <<contents, call, seen>>

Return(p) ==
    /\ call[p] # Idle /\ res[p] # Pending
    /\ call' = [call EXCEPT ![p] = Idle]
    /\ seen' = [seen EXCEPT ![p] = [k \in Keys |-> {}]]
    /\ res'  = [res EXCEPT ![p] = Pending]
    /\ UNCHANGED contents

ANext ==
    \E p \in Procs :
        \/ \E c \in Invocations : Invoke(p, c)
        \/ Write(p) \/ Look(p) \/ Return(p)

ASpec == AInit /\ [][ANext]_absVars
==============================================================================
