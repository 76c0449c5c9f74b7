------------------------------ MODULE XsyncMap ------------------------------
(***************************************************************************)
(* common/xsync/map.go: the concurrent hash map under the NAT table, the   *)
(* connection table of the statistics and the health states of proxies.    *)
(*                                                                         *)
(* Lookups take no lock.  Writers lock the root bucket of their chain.  A  *)
(* writer that finds the table too full or nearly empty becomes the owner  *)
(* of a resize; writers that meet a resize help to move buckets and then   *)
(* wait for its end.                                                       *)
(*                                                                         *)
(* Every atomic load, store and compare-and-swap that another goroutine    *)
(* can tell apart is a step.  Taking a mutex is merged with the step after *)
(* it and releasing one with the step before it, which changes no result.  *)
(* A chain of buckets is the sequence of its slots, PerBucket to a bucket. *)
(* The striped counter of a table is one number.                           *)
(*                                                                         *)
(* Not modelled, because the program does not call them: Clear,            *)
(* DeleteMatching, RangeRelaxed and the forms of Compute that cancel.      *)
(***************************************************************************)
EXTENDS Integers, Sequences, FiniteSets, FiniteSetsExt

CONSTANTS
    Procs,          \* goroutines
    Keys, Values,
    Absent,         \* no entry (nil)
    Hashes,         \* the hash functions a seed may give: records of h1 and h2 over Keys
    PerBucket,      \* entriesPerMapBucket
    MinLen,         \* minTableLen
    ShrinkFraction, \* mapShrinkFraction
    Stride,         \* buckets that a helper claims at a time
    MaxHelpers      \* maxResizeHelpers

Nobody == "nobody"
NoTable == 0

ASSUME XsyncAssumption ==
    /\ Absent \notin Keys \cup Values /\ Nobody \notin Procs
    /\ PerBucket \in Nat \ {0} /\ MinLen \in Nat \ {0} /\ Stride \in Nat \ {0}
    /\ ShrinkFraction \in Nat \ {0} /\ MaxHelpers \in Nat \ {0}
    /\ \A h \in Hashes : h.h1 \in [Keys -> Nat] /\ h.h2 \in [Keys -> Nat \ {0}]

VARIABLES
    hash,       \* the hash function, fixed by the seed of the first table
    tables,     \* all tables ever made: [chains, mu, size]
    table,      \* m.table, an index of tables
    nextTable,  \* m.nextTable, an index of tables or NoTable
    ctl,        \* m.resizeCtl: [seq, helpers]
    resizeIdx,  \* m.resizeIdx
    resizeMu,   \* holder of m.resizeMu
    pc,         \* goroutine -> label
    call,       \* goroutine -> the call in progress
    loc,        \* goroutine -> its local variables
    res,        \* goroutine -> <<what the call returns>>, once that is settled
    seen        \* history: goroutine -> key -> what the key was mapped to since the call began

shared == <<hash, tables, table, nextTable, ctl, resizeIdx, resizeMu>>
vars   == <<shared, pc, call, loc, res, seen>>

-----------------------------------------------------------------------------
(* Tables, chains and slots.                                                *)

EmptySlot == [meta |-> 0, key |-> Absent, val |-> Absent]
EmptyBucket == [i \in 1..PerBucket |-> EmptySlot]

NewTable(len) ==
    [chains |-> [b \in 0..len - 1 |-> EmptyBucket],
     mu     |-> [b \in 0..len - 1 |-> Nobody],
     size   |-> 0]

TableLen(t) == Cardinality(DOMAIN tables[t].chains)

\* The root bucket of a key in a table with len buckets.
BucketOf(k, len) == hash.h1[k] % len

Bidx(p) == BucketOf(call[p].key, TableLen(loc[p].tbl))
Chain(p) == tables[loc[p].tbl].chains[Bidx(p)]

Holds(slot, k) == slot.meta = hash.h2[k] /\ slot.key = k

\* The slots of the n-th bucket of a chain.
BucketSlots(chain, n) == {i \in DOMAIN chain : (i - 1) \div PerBucket = n - 1}

\* appendToBucket: into the first free slot, or into a new bucket.
AppendToBucket(chain, e) ==
    LET free == {i \in DOMAIN chain : chain[i].key = Absent}
        slot == [meta |-> hash.h2[e.key], key |-> e.key, val |-> e.val]
    IN  IF free # {} THEN [chain EXCEPT ![Min(free)] = slot]
        ELSE chain \o [EmptyBucket EXCEPT ![1] = slot]

\* transferBucketUnsafe: the entries of a chain that belong into bucket d of the new table.
Transferred(chain, dest, d, len) ==
    LET moves(e) == e.key # Absent /\ BucketOf(e.key, len) = d
        after[i \in 0..Len(chain)] ==
            IF i = 0 THEN dest
            ELSE IF moves(chain[i]) THEN AppendToBucket(after[i - 1], chain[i])
            ELSE after[i - 1]
    IN  after[Len(chain)]

\* What the map holds: an entry counts from the store that completes it to the store that
\* takes its meta byte away.
Lookup(k) ==
    LET chain == tables[table].chains[BucketOf(k, TableLen(table))]
        at    == {i \in DOMAIN chain : Holds(chain[i], k)}
    IN  IF at = {} THEN Absent ELSE chain[Min(at)].val

Abs == INSTANCE AtomicMap WITH contents <- [k \in Keys |-> Lookup(k)]

-----------------------------------------------------------------------------
(* Local variables and control.                                             *)

NoLocals ==
    [tbl |-> NoTable,   \* table
     n   |-> 0,         \* the bucket of the chain (lookup) or of the table (Range)
     cand |-> {},       \* the slots that the meta word names
     slot |-> 0, delta |-> 0, emptied |-> FALSE,
     hint |-> "none", seq |-> 0, owner |-> FALSE,
     old |-> NoTable, new |-> NoTable, i |-> 0, src |-> 0, end |-> 0,
     copy |-> <<>>,     \* destination buckets as transferBucketUnsafe leaves them
     found |-> [k \in Keys |-> Absent]]

Goto(p, l)   == pc' = [pc EXCEPT ![p] = l]
Local(p, f)  == loc' = [loc EXCEPT ![p] = f]
Odd(n)       == n % 2 = 1

\* rootb.mu of the bucket of p's key
Locked(p)    == tables[loc[p].tbl].mu[Bidx(p)]
Lock(p)      == tables' = [tables EXCEPT ![loc[p].tbl].mu[Bidx(p)] = p]
Unlock(p)    == tables' = [tables EXCEPT ![loc[p].tbl].mu[Bidx(p)] = Nobody]
WriteChain(p, chain, holder) ==
    tables' = [tables EXCEPT ![loc[p].tbl].chains[Bidx(p)] = chain,
                             ![loc[p].tbl].mu[Bidx(p)] = holder]

Settle(p, r) == res' = [res EXCEPT ![p] = <<r>>]

\* Where a goroutine goes when resize or helpResize returns.
AfterResize(p) == IF loc[p].hint = "shrink" THEN "return" ELSE "table"

Invoke(p, c) ==
    /\ pc[p] = "idle"
    /\ call' = [call EXCEPT ![p] = c]
    /\ Goto(p, "table")
    /\ UNCHANGED <<shared, loc, res>>

Return(p) ==
    /\ pc[p] = "return"
    /\ call' = [call EXCEPT ![p] = Abs!Idle]
    /\ res'  = [res EXCEPT ![p] = <<>>]
    /\ Local(p, NoLocals)
    /\ Goto(p, "idle")
    /\ UNCHANGED shared

\* table := m.table.Load()
ReadTable(p) ==
    /\ pc[p] = "table"
    /\ Local(p, [NoLocals EXCEPT !.tbl = table, !.n = IF call[p].op = "Range" THEN 0 ELSE 1])
    /\ Goto(p, CASE call[p].op = "Range" -> "range"
                 [] call[p].op = "Store" -> "lock"
                 [] OTHER                -> "meta")
    /\ UNCHANGED <<shared, call, res>>

-----------------------------------------------------------------------------
(* Lookups without a lock: Load, and the first part of doCompute.           *)

ReadMeta(p) ==
    /\ pc[p] = "meta"
    /\ Local(p, [loc[p] EXCEPT !.cand = {i \in BucketSlots(Chain(p), loc[p].n) :
                                           Chain(p)[i].meta = hash.h2[call[p].key]}])
    /\ Goto(p, "entry")
    /\ UNCHANGED <<shared, call, res>>

ReadEntry(p) ==
    /\ pc[p] = "entry" /\ loc[p].cand # {}
    /\ LET e == Chain(p)[Min(loc[p].cand)]
       IN  CASE e.key # call[p].key ->
                   /\ Local(p, [loc[p] EXCEPT !.cand = @ \ {Min(@)}])
                   /\ UNCHANGED <<pc, res>>
             [] e.key = call[p].key /\ call[p].op = "LoadAndDelete" ->
                   Goto(p, "lock") /\ UNCHANGED <<loc, res>>
             [] OTHER ->
                   Settle(p, e.val) /\ Goto(p, "return") /\ UNCHANGED loc
    /\ UNCHANGED <<shared, call>>

\* bptr := atomic.LoadPointer(&b.next)
ReadNext(p) ==
    /\ pc[p] = "entry" /\ loc[p].cand = {}
    /\ IF loc[p].n * PerBucket < Len(Chain(p))
         THEN /\ Local(p, [loc[p] EXCEPT !.n = @ + 1])
              /\ Goto(p, "meta")
              /\ UNCHANGED res
         ELSE /\ IF call[p].op = "LoadOrStore"
                   THEN Goto(p, "lock") /\ UNCHANGED res
                   ELSE Goto(p, "return") /\ Settle(p, Absent)
              /\ UNCHANGED loc
    /\ UNCHANGED <<shared, call>>

-----------------------------------------------------------------------------
(* Store and doCompute under the lock of the root bucket.                   *)

\* Mutant: a resize that is under way is not noticed.
LockRootBlind(p) ==
    /\ pc[p] = "lock" /\ Locked(p) = Nobody
    /\ Lock(p) /\ Goto(p, "newer") /\ UNCHANGED loc
    /\ UNCHANGED <<hash, table, nextTable, ctl, resizeIdx, resizeMu, call, res>>

\* rootb.mu.Lock(), and the first of the two checks.
LockRoot(p) ==
    /\ pc[p] = "lock" /\ Locked(p) = Nobody
    /\ IF Odd(ctl.seq)
         THEN /\ Local(p, [loc[p] EXCEPT !.seq = ctl.seq])
              /\ Goto(p, "help.table")
              /\ UNCHANGED tables
         ELSE Lock(p) /\ Goto(p, "newer") /\ UNCHANGED loc
    /\ UNCHANGED <<hash, table, nextTable, ctl, resizeIdx, resizeMu, call, res>>

\* newerTableExists
CheckNewer(p) ==
    /\ pc[p] = "newer"
    /\ IF table # loc[p].tbl
         THEN Unlock(p) /\ Goto(p, "table")
         ELSE Goto(p, "search") /\ UNCHANGED tables
    /\ UNCHANGED <<hash, table, nextTable, ctl, resizeIdx, resizeMu, call, loc, res>>

GrowThreshold(t)   == (TableLen(t) * PerBucket * 3) \div 4
ShrinkThreshold(t) == (TableLen(t) * PerBucket) \div ShrinkFraction

\* The walk along the chain, which nobody else can change, and what it decides.
Search(p) ==
    LET chain == Chain(p)
        hit   == {i \in DOMAIN chain : Holds(chain[i], call[p].key)}
        free  == {i \in DOMAIN chain : chain[i].meta = 0}
        Give(r) == Unlock(p) /\ Settle(p, r) /\ Goto(p, "return") /\ UNCHANGED loc
        Take(i, l) == /\ Local(p, [loc[p] EXCEPT !.slot = i])
                      /\ Goto(p, l)
                      /\ UNCHANGED <<tables, res>>
    IN  /\ pc[p] = "search"
        /\ CASE hit # {} /\ call[p].op = "LoadOrStore"   -> Give(chain[Min(hit)].val)
             [] hit # {} /\ call[p].op = "LoadAndDelete" -> Take(Min(hit), "delete.meta")
             [] hit # {} /\ call[p].op = "Store"         -> Take(Min(hit), "update")
             [] hit = {} /\ free = {} /\ tables[loc[p].tbl].size > GrowThreshold(loc[p].tbl) ->
                   /\ Unlock(p)
                   /\ Local(p, [loc[p] EXCEPT !.hint = "grow"])
                   /\ Goto(p, "resize.seq")
                   /\ UNCHANGED res
             [] OTHER ->
                   IF call[p].op = "LoadAndDelete" THEN Give(Absent)
                   ELSE IF free # {} THEN Take(Min(free), "insert.meta")
                   ELSE Take(Len(chain) + 1, "append")
        /\ UNCHANGED <<hash, table, nextTable, ctl, resizeIdx, resizeMu, call>>

Slot(p) == [meta |-> hash.h2[call[p].key], key |-> call[p].key, val |-> call[p].val]

Update(p) ==
    /\ pc[p] = "update"
    /\ WriteChain(p, [Chain(p) EXCEPT ![loc[p].slot] = Slot(p)], Nobody)
    /\ Settle(p, Absent)
    /\ Goto(p, "return")
    /\ UNCHANGED <<hash, table, nextTable, ctl, resizeIdx, resizeMu, call, loc>>

InsertMeta(p) ==
    /\ pc[p] = "insert.meta"
    /\ WriteChain(p, [Chain(p) EXCEPT ![loc[p].slot].meta = hash.h2[call[p].key]], p)
    /\ Goto(p, "insert.entry")
    /\ UNCHANGED <<hash, table, nextTable, ctl, resizeIdx, resizeMu, call, loc, res>>

InsertEntry(p) ==
    /\ pc[p] = "insert.entry"
    /\ WriteChain(p, [Chain(p) EXCEPT ![loc[p].slot] = Slot(p)], Nobody)
    /\ Settle(p, Absent)
    /\ Local(p, [loc[p] EXCEPT !.delta = 1])
    /\ Goto(p, "addSize")
    /\ UNCHANGED <<hash, table, nextTable, ctl, resizeIdx, resizeMu, call>>

AppendBucket(p) ==
    /\ pc[p] = "append"
    /\ WriteChain(p, Chain(p) \o [EmptyBucket EXCEPT ![1] = Slot(p)], Nobody)
    /\ Settle(p, Absent)
    /\ Local(p, [loc[p] EXCEPT !.delta = 1])
    /\ Goto(p, "addSize")
    /\ UNCHANGED <<hash, table, nextTable, ctl, resizeIdx, resizeMu, call>>

DeleteMeta(p) ==
    /\ pc[p] = "delete.meta"
    /\ WriteChain(p, [Chain(p) EXCEPT ![loc[p].slot].meta = 0], p)
    /\ Settle(p, Chain(p)[loc[p].slot].val)
    /\ Goto(p, "delete.entry")
    /\ UNCHANGED <<hash, table, nextTable, ctl, resizeIdx, resizeMu, call, loc>>

DeleteEntry(p) ==
    LET slot   == loc[p].slot
        bucket == BucketSlots(Chain(p), (slot - 1) \div PerBucket + 1)
    IN  /\ pc[p] = "delete.entry"
        /\ WriteChain(p, [Chain(p) EXCEPT ![slot] = EmptySlot], Nobody)
        /\ Local(p, [loc[p] EXCEPT !.delta = -1,
                       !.emptied = \A i \in bucket : Chain(p)[i].meta = 0])
        /\ Goto(p, "addSize")
        /\ UNCHANGED <<hash, table, nextTable, ctl, resizeIdx, resizeMu, call, res>>

\* Mutant: the counter of the current table is changed.
AddSizeCurrent(p) ==
    /\ pc[p] = "addSize"
    /\ tables' = [tables EXCEPT ![table].size = @ + loc[p].delta]
    /\ IF loc[p].emptied
         THEN Local(p, [loc[p] EXCEPT !.hint = "shrink"]) /\ Goto(p, "resize.fast")
         ELSE Goto(p, "return") /\ UNCHANGED loc
    /\ UNCHANGED <<hash, table, nextTable, ctl, resizeIdx, resizeMu, call, res>>

\* table.addSize, on the table that the call worked on; then the attempt to shrink.
AddSize(p) ==
    /\ pc[p] = "addSize"
    /\ tables' = [tables EXCEPT ![loc[p].tbl].size = @ + loc[p].delta]
    /\ IF loc[p].emptied
         THEN Local(p, [loc[p] EXCEPT !.hint = "shrink"]) /\ Goto(p, "resize.fast")
         ELSE Goto(p, "return") /\ UNCHANGED loc
    /\ UNCHANGED <<hash, table, nextTable, ctl, resizeIdx, resizeMu, call, res>>

-----------------------------------------------------------------------------
(* resize: one goroutine owns it.                                           *)

\* The fast path of a shrink attempt.
ResizeFast(p) ==
    /\ pc[p] = "resize.fast"
    /\ IF \/ TableLen(loc[p].tbl) = MinLen
          \/ tables[loc[p].tbl].size > ShrinkThreshold(loc[p].tbl)
         THEN Goto(p, "return")
         ELSE Goto(p, "resize.seq")
    /\ UNCHANGED <<shared, call, loc, res>>

ResizeSeq(p) ==
    /\ pc[p] = "resize.seq"
    /\ Local(p, [loc[p] EXCEPT !.seq = ctl.seq])
    /\ Goto(p, IF Odd(ctl.seq) THEN "help.table" ELSE "resize.cas")
    /\ UNCHANGED <<shared, call, res>>

ResizeCas(p) ==
    /\ pc[p] = "resize.cas"
    /\ IF ctl = [seq |-> loc[p].seq, helpers |-> 0]
         THEN ctl' = [ctl EXCEPT !.seq = @ + 1] /\ Goto(p, "resize.new")
         ELSE Goto(p, "help.table") /\ UNCHANGED ctl
    /\ UNCHANGED <<hash, tables, table, nextTable, resizeIdx, resizeMu, call, loc, res>>

\* The new table, and resizeIdx reset before the table is offered to helpers.
ResizeNew(p) ==
    LET len    == TableLen(table)
        shrink == len > MinLen /\ tables[table].size <= ShrinkThreshold(table)
        newLen == IF loc[p].hint = "grow" THEN 2 * len ELSE len \div 2
    IN  /\ pc[p] = "resize.new"
        /\ IF loc[p].hint = "grow" \/ shrink
             THEN /\ tables' = Append(tables, NewTable(newLen))
                  /\ resizeIdx' = 0
                  /\ Local(p, [loc[p] EXCEPT !.old = table, !.new = Len(tables) + 1,
                                             !.owner = TRUE])
                  /\ Goto(p, "resize.next")
             ELSE Goto(p, "resize.giveUp") /\ UNCHANGED <<tables, resizeIdx, loc>>
        /\ UNCHANGED <<hash, table, nextTable, ctl, resizeMu, call, res>>

\* resizeCond.Broadcast(): the sleepers try again.
Broadcast(p, l) ==
    pc' = [q \in Procs |-> IF q = p THEN l ELSE IF pc[q] = "sleep" THEN "wait" ELSE pc[q]]

\* There is nothing to shrink: end the resize as if it had been done.
ResizeGiveUp(p) ==
    /\ pc[p] = "resize.giveUp" /\ resizeMu = Nobody
    /\ ctl' = [seq |-> loc[p].seq + 2, helpers |-> 0]
    /\ Broadcast(p, AfterResize(p))
    /\ UNCHANGED <<hash, tables, table, nextTable, resizeIdx, resizeMu, call, loc, res>>

ResizeNext(p) ==
    /\ pc[p] = "resize.next"
    /\ nextTable' = loc[p].new
    /\ Goto(p, "claim")
    /\ UNCHANGED <<hash, tables, table, ctl, resizeIdx, resizeMu, call, loc, res>>

\* Wait until no helper is registered.
ResizeWait(p) ==
    /\ pc[p] = "resize.wait" /\ ctl.helpers = 0
    /\ Goto(p, "resize.publish")
    /\ UNCHANGED <<shared, call, loc, res>>

ResizePublish(p) ==
    /\ pc[p] = "resize.publish"
    /\ table' = loc[p].new
    /\ Goto(p, "resize.clear")
    /\ UNCHANGED <<hash, tables, nextTable, ctl, resizeIdx, resizeMu, call, loc, res>>

ResizeClear(p) ==
    /\ pc[p] = "resize.clear"
    /\ nextTable' = NoTable
    /\ Goto(p, "resize.mu")
    /\ UNCHANGED <<hash, tables, table, ctl, resizeIdx, resizeMu, call, loc, res>>

ResizeMu(p) ==
    /\ pc[p] = "resize.mu" /\ resizeMu = Nobody
    /\ resizeMu' = p
    /\ Goto(p, "resize.end")
    /\ UNCHANGED <<hash, tables, table, nextTable, ctl, resizeIdx, call, loc, res>>

\* The compare-and-swap that also waits for helpers that registered too late.
ResizeEnd(p) ==
    /\ pc[p] = "resize.end"
    /\ ctl = [seq |-> loc[p].seq + 1, helpers |-> 0]
    /\ ctl' = [seq |-> loc[p].seq + 2, helpers |-> 0]
    /\ Broadcast(p, AfterResize(p))
    /\ resizeMu' = Nobody
    /\ UNCHANGED <<hash, tables, table, nextTable, resizeIdx, call, loc, res>>

-----------------------------------------------------------------------------
(* transfer: the owner and the helpers move ranges of buckets.              *)

BaseLen(p) == IF TableLen(loc[p].old) < TableLen(loc[p].new)
              THEN TableLen(loc[p].old) ELSE TableLen(loc[p].new)

\* Mutant: a helper reads the index without advancing it.
ClaimShared(p) ==
    /\ pc[p] = "claim"
    /\ resizeIdx' = IF loc[p].owner THEN resizeIdx + Stride ELSE resizeIdx
    /\ IF resizeIdx >= BaseLen(p)
         THEN /\ Goto(p, IF loc[p].owner THEN "resize.wait" ELSE "help.leave")
              /\ UNCHANGED loc
         ELSE /\ Local(p, [loc[p] EXCEPT !.i = resizeIdx, !.src = resizeIdx,
                             !.end = Min({resizeIdx + Stride, BaseLen(p)})])
              /\ Goto(p, "copy")
    /\ UNCHANGED <<hash, tables, table, nextTable, ctl, resizeMu, call, res>>

\* nextIdx := m.resizeIdx.Add(stride)
Claim(p) ==
    /\ pc[p] = "claim"
    /\ resizeIdx' = resizeIdx + Stride
    /\ IF resizeIdx >= BaseLen(p)
         THEN /\ Goto(p, IF loc[p].owner THEN "resize.wait" ELSE "help.leave")
              /\ UNCHANGED loc
         ELSE /\ Local(p, [loc[p] EXCEPT !.i = resizeIdx, !.src = resizeIdx,
                             !.end = Min({resizeIdx + Stride, BaseLen(p)})])
              /\ Goto(p, "copy")
    /\ UNCHANGED <<hash, tables, table, nextTable, ctl, resizeMu, call, res>>

\* The destination buckets of a source bucket: it is moved without their locks.
Dests(p) == {d \in DOMAIN tables[loc[p].new].chains : d % BaseLen(p) = loc[p].src % BaseLen(p)}

CopyBegin(p) ==
    /\ pc[p] = "copy" /\ tables[loc[p].old].mu[loc[p].src] = Nobody
    /\ tables' = [tables EXCEPT ![loc[p].old].mu[loc[p].src] = p]
    /\ Local(p, [loc[p] EXCEPT !.copy =
          [d \in Dests(p) |-> Transferred(tables[loc[p].old].chains[loc[p].src],
                                          tables[loc[p].new].chains[d], d,
                                          TableLen(loc[p].new))]])
    /\ Goto(p, "copied")
    /\ UNCHANGED <<hash, table, nextTable, ctl, resizeIdx, resizeMu, call, res>>

\* The copies are counted in the new table, whose size nobody reads before it is published.
CopyEnd(p) ==
    LET old    == loc[p].old
        new    == loc[p].new
        chain  == tables[old].chains[loc[p].src]
        copied == Cardinality({i \in DOMAIN chain : chain[i].key # Absent})
        src    == loc[p].src + BaseLen(p)
        i      == loc[p].i + 1
    IN  /\ pc[p] = "copied"
        /\ tables' = [tables EXCEPT
                        ![old].mu[loc[p].src] = Nobody,
                        ![new].size = @ + copied,
                        ![new].chains = [d \in DOMAIN @ |-> IF d \in DOMAIN loc[p].copy
                                                            THEN loc[p].copy[d] ELSE @[d]]]
        /\ CASE src < TableLen(old) ->
                  Local(p, [loc[p] EXCEPT !.src = src, !.copy = <<>>]) /\ Goto(p, "copy")
             [] src >= TableLen(old) /\ i < loc[p].end ->
                  Local(p, [loc[p] EXCEPT !.i = i, !.src = i, !.copy = <<>>]) /\ Goto(p, "copy")
             [] OTHER ->
                  Local(p, [loc[p] EXCEPT !.copy = <<>>]) /\ Goto(p, "claim")
        /\ UNCHANGED <<hash, table, nextTable, ctl, resizeIdx, resizeMu, call, res>>

-----------------------------------------------------------------------------
(* helpResize and waitForResize.                                            *)

HelpTable(p) ==
    /\ pc[p] = "help.table"
    /\ Local(p, [loc[p] EXCEPT !.old = table])
    /\ Goto(p, "help.next")
    /\ UNCHANGED <<shared, call, res>>

HelpNext(p) ==
    /\ pc[p] = "help.next"
    /\ Local(p, [loc[p] EXCEPT !.new = nextTable])
    /\ Goto(p, "help.check")
    /\ UNCHANGED <<shared, call, res>>

\* Mutant: the table is looked at before the sequence number.
HelpCheckLate(p) ==
    /\ pc[p] = "help.check"
    /\ Goto(p, IF loc[p].new \in {NoTable, loc[p].old} THEN "help.table"
               ELSE IF ctl.seq # loc[p].seq THEN AfterResize(p)
               ELSE "help.join")
    /\ UNCHANGED <<shared, call, loc, res>>

HelpCheck(p) ==
    /\ pc[p] = "help.check"
    /\ Goto(p, IF ctl.seq # loc[p].seq THEN AfterResize(p)
               ELSE IF loc[p].new \in {NoTable, loc[p].old} THEN "help.table"
               ELSE "help.join")
    /\ UNCHANGED <<shared, call, loc, res>>

\* Mutant: a helper registers without looking at the sequence number again.
HelpJoinLate(p) ==
    /\ pc[p] = "help.join"
    /\ IF ctl.helpers >= MaxHelpers
         THEN Goto(p, "wait") /\ UNCHANGED ctl
         ELSE Goto(p, "claim") /\ ctl' = [ctl EXCEPT !.helpers = @ + 1]
    /\ UNCHANGED <<hash, tables, table, nextTable, resizeIdx, resizeMu, call, loc, res>>

HelpJoin(p) ==
    /\ pc[p] = "help.join"
    /\ IF ctl.seq # loc[p].seq \/ ctl.helpers >= MaxHelpers
         THEN Goto(p, "wait") /\ UNCHANGED ctl
         ELSE Goto(p, "claim") /\ ctl' = [ctl EXCEPT !.helpers = @ + 1]
    /\ UNCHANGED <<hash, tables, table, nextTable, resizeIdx, resizeMu, call, loc, res>>

HelpLeave(p) ==
    /\ pc[p] = "help.leave"
    /\ ctl' = [ctl EXCEPT !.helpers = @ - 1]
    /\ Goto(p, "wait")
    /\ UNCHANGED <<hash, tables, table, nextTable, resizeIdx, resizeMu, call, loc, res>>

\* The check and the sleep are one step: both happen under resizeMu.
WaitForResize(p) ==
    /\ pc[p] = "wait" /\ resizeMu = Nobody
    /\ Goto(p, IF Odd(ctl.seq) THEN "sleep" ELSE AfterResize(p))
    /\ UNCHANGED <<shared, call, loc, res>>

-----------------------------------------------------------------------------
(* Range: one bucket at a time, under its lock.                             *)

RangeBucket(p) ==
    /\ pc[p] = "range" /\ loc[p].n < TableLen(loc[p].tbl)
    /\ tables[loc[p].tbl].mu[loc[p].n] = Nobody
    /\ LET chain == tables[loc[p].tbl].chains[loc[p].n]
           at(k) == {i \in DOMAIN chain : chain[i].key = k}
       IN  Local(p, [loc[p] EXCEPT !.n = @ + 1,
             !.found = [k \in Keys |-> IF at(k) = {} THEN @[k] ELSE chain[Max(at(k))].val]])
    /\ UNCHANGED <<shared, pc, call, res>>

RangeEnd(p) ==
    /\ pc[p] = "range" /\ loc[p].n = TableLen(loc[p].tbl)
    /\ Settle(p, loc[p].found)
    /\ Goto(p, "return")
    /\ UNCHANGED <<shared, call, loc>>

-----------------------------------------------------------------------------

InitRest ==
    /\ table = 1 /\ nextTable = NoTable
    /\ ctl = [seq |-> 0, helpers |-> 0]
    /\ resizeIdx = 0 /\ resizeMu = Nobody
    /\ pc   = [p \in Procs |-> "idle"]
    /\ call = [p \in Procs |-> Abs!Idle]
    /\ loc  = [p \in Procs |-> NoLocals]
    /\ res  = [p \in Procs |-> <<>>]
    /\ seen = [p \in Procs |-> [k \in Keys |-> {}]]

Init == hash \in Hashes /\ tables = <<NewTable(MinLen)>> /\ InitRest

LookupSteps(p) == ReadTable(p) \/ ReadMeta(p) \/ ReadEntry(p) \/ ReadNext(p)
                  \/ RangeBucket(p) \/ RangeEnd(p) \/ Return(p)
WriteSteps(p)  == LockRoot(p) \/ CheckNewer(p) \/ Search(p) \/ Update(p) \/ InsertMeta(p)
                  \/ InsertEntry(p) \/ AppendBucket(p) \/ DeleteMeta(p) \/ DeleteEntry(p)
                  \/ AddSize(p)
ResizeSteps(p) == ResizeFast(p) \/ ResizeSeq(p) \/ ResizeCas(p) \/ ResizeNew(p)
                  \/ ResizeGiveUp(p) \/ ResizeNext(p) \/ ResizeWait(p) \/ ResizePublish(p)
                  \/ ResizeClear(p) \/ ResizeMu(p) \/ ResizeEnd(p)
HelpSteps(p)   == Claim(p) \/ CopyBegin(p) \/ CopyEnd(p) \/ HelpTable(p) \/ HelpNext(p)
                  \/ HelpCheck(p) \/ HelpJoin(p) \/ HelpLeave(p) \/ WaitForResize(p)

Work(p) == (LookupSteps(p) \/ WriteSteps(p) \/ ResizeSteps(p) \/ HelpSteps(p)) /\ UNCHANGED hash

\* Every step extends what the calls in progress may have seen.
Witness ==
    seen' = [p \in Procs |-> [k \in Keys |->
               IF call'[p] = Abs!Idle THEN {}
               ELSE (IF call[p] = Abs!Idle THEN {} ELSE seen[p][k]) \cup {Lookup(k)'}]]

Next == /\ \E p \in Procs : Work(p) \/ \E c \in Abs!Invocations : Invoke(p, c)
        /\ Witness

Spec == Init /\ [][Next]_vars
-----------------------------------------------------------------------------
(* Properties.                                                              *)

Entries(t) == {x \in UNION {{b} \X DOMAIN tables[t].chains[b] : b \in DOMAIN tables[t].chains} :
                  tables[t].chains[x[1]][x[2]].key # Absent}

\* Every entry is in the bucket of its key, and no table ever holds a key twice, also while
\* several goroutines fill it without taking its locks (transferBucketUnsafe), and while calls
\* retry after a resize.
OnePlace ==
    \A t \in DOMAIN tables : \A x, y \in Entries(t) :
        LET e == tables[t].chains[x[1]][x[2]]
        IN  /\ BucketOf(e.key, TableLen(t)) = x[1] /\ e.meta \in {0, hash.h2[e.key]}
            /\ tables[t].chains[y[1]][y[2]].key = e.key => x = y

Registered(p) == ~loc[p].owner /\ pc[p] \in {"claim", "copy", "copied", "help.leave"}

\* The helper count in resizeCtl is the number of goroutines that move buckets for the
\* owner, through late registrations and shrink attempts that are given up; and they all
\* work for the resize that is under way.
HelpersCounted ==
    /\ ctl.helpers = Cardinality({p \in Procs : Registered(p)})
    /\ \A p \in Procs : Registered(p) => loc[p].seq = ctl.seq /\ Odd(ctl.seq)

\* Size(): the counter of a table differs from the number of its entries only by the
\* addSize calls that are still to come, whichever table has become the current one.
SizeExact ==
    \A t \in DOMAIN tables :
        LET late(d) == Cardinality({p \in Procs : /\ pc[p] = "addSize"
                                                  /\ loc[p].tbl = t /\ loc[p].delta = d})
        IN  tables[t].size + late(1) - late(-1) = Cardinality(Entries(t))

\* The map behaves as a map in which every write happens at one moment and every lookup
\* and Range returns what was there at some moment of the call (AtomicMap).
Linearizable == Abs!ASpec

Fairness == \A p \in Procs : WF_vars(Work(p) /\ Witness)

FairSpec == Spec /\ Fairness

\* Every call returns: no wake-up of a waiting writer is lost, the owner of a resize does
\* not wait for a helper for ever, and a retry ends.
CallsReturn == \A p \in Procs : pc[p] # "idle" ~> pc[p] = "idle"
=============================================================================
