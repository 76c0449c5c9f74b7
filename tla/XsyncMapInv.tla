---------------------------- MODULE XsyncMapInv ----------------------------
(***************************************************************************)
(* The inductive invariant of the concurrent map, and the words in which   *)
(* XsyncMap_proofs says what its steps do.                                 *)
(*                                                                         *)
(* ControlInv: the lower bits of resizeCtl count the goroutines that move  *)
(* buckets for the resize under way (HelpersCounted).  The count alone is  *)
(* not inductive: a helper compares the whole word, so what it has read    *)
(* before is only worth something while the sequence number is the same.   *)
(* ControlInv adds that a resize has one owner and that the number is odd  *)
(* meanwhile (OwnerInv), that the number only grows and that helpers carry *)
(* an odd one (SeqInv), and that before the owner has offered its table    *)
(* nobody can join (OfferInv).  The steps that read and write buckets      *)
(* touch none of this (Away).                                              *)
(*                                                                         *)
(* PlaceInv: where the entries are (OnePlace).  It adds what a call has    *)
(* read (CallsOK), which two tables a resize works on and when its last    *)
(* bucket has been moved (StageInv), that goroutines claim disjoint sets   *)
(* of buckets (ClaimsOK), who holds which lock (LocksOK), that a writer    *)
(* that has passed newerTableExists works on the current table, on a       *)
(* bucket that is not yet moved (WritersOK), that a chain has no key twice *)
(* (ChainsOK), and that the new table holds exactly the entries of the     *)
(* buckets that have been moved (CopiesOK).                                *)
(*                                                                         *)
(* SizeInv: what the counters count (SizeExact).  As no table holds a key  *)
(* twice, its entries are counted by their keys; a bucket that is moved    *)
(* adds keys that the new table does not have.                             *)
(***************************************************************************)
EXTENDS XsyncMap

\* The local variables of a goroutine are a record with the fields of NoLocals.
Fields(l) ==
    l = [tbl |-> l.tbl, n |-> l.n, cand |-> l.cand, slot |-> l.slot, delta |-> l.delta,
         emptied |-> l.emptied, hint |-> l.hint, seq |-> l.seq, owner |-> l.owner,
         old |-> l.old, new |-> l.new, i |-> l.i, src |-> l.src, end |-> l.end,
         copy |-> l.copy, found |-> l.found]

Shape ==
    /\ pc = [p \in Procs |-> pc[p]]
    /\ loc = [p \in Procs |-> loc[p]]
    /\ \A p \in Procs : Fields(loc[p]) /\ loc[p].seq \in Nat /\ loc[p].owner \in BOOLEAN
    /\ ctl \in [seq : Nat, helpers : Nat]

\* Labels of the owner of a resize, before and after it moves buckets.
Offering  == {"resize.new", "resize.giveUp", "resize.next"}
Finishing == {"resize.wait", "resize.publish", "resize.clear", "resize.mu", "resize.end"}
Moving    == {"claim", "copy", "copied"}
Helping   == {"help.table", "help.next", "help.check", "help.join"}

Owns(p) == \/ pc[p] \in Offering \cup Finishing
           \/ loc[p].owner /\ pc[p] \in Moving

\* A resize has one owner, who made the sequence number odd.
OwnerInv ==
    /\ \A p \in Procs : Owns(p) => Odd(ctl.seq) /\ ctl.seq = loc[p].seq + 1
    /\ \A p, q \in Procs : Owns(p) /\ Owns(q) => p = q
    /\ \A p \in Procs : loc[p].owner => Owns(p) \/ pc[p] \in {"table", "return"}
    /\ \A p \in Procs : pc[p] = "resize.next" => loc[p].owner

\* The sequence number only grows, and a helper never has an even one that is current.
SeqInv ==
    \A p \in Procs :
        /\ loc[p].seq <= ctl.seq
        /\ pc[p] = "resize.cas" => ~Odd(loc[p].seq)
        /\ pc[p] \in Helping => Odd(loc[p].seq) \/ loc[p].seq < ctl.seq

\* A goroutine has seen that the resize under way has a new table.
HasTable(p) == /\ loc[p].seq = ctl.seq
               /\ \/ pc[p] = "help.join"
                  \/ pc[p] = "help.check" /\ loc[p].new # NoTable

\* Before the owner has offered the new table there is none to be seen.
OfferInv ==
    /\ \A p \in Procs : pc[p] \in {"resize.mu", "resize.end"} => nextTable = NoTable
    /\ ~Odd(ctl.seq) => nextTable = NoTable
    /\ (\E p \in Procs : pc[p] \in Offering) =>
            nextTable = NoTable /\ \A q \in Procs : ~HasTable(q) /\ ~Registered(q)

Helpers == {p \in Procs : Registered(p)}

\* There are finitely many helpers, and resizeCtl counts them.
CountInv == IsFiniteSet(Helpers) /\ HelpersCounted

ControlInv == Shape /\ OwnerInv /\ SeqInv /\ OfferInv /\ CountInv

\* A step that neither starts, helps nor ends a resize.
Away(p) ==
    /\ pc'[p] \notin Offering \cup Finishing \cup Moving \cup Helping \cup {"resize.cas", "help.leave"}
    /\ pc[p] \notin Offering \cup Finishing \cup Moving \cup Helping \cup {"resize.cas", "help.leave"}
    /\ loc'[p].seq \in {0, loc[p].seq}
    /\ loc'[p].owner => pc'[p] \in {"table", "return"}
    /\ \A q \in Procs \ {p} : pc'[q] = pc[q] /\ loc'[q] = loc[q]
    /\ UNCHANGED <<ctl, nextTable>>

\* The local variables m differ from l in nothing that resizes look at.
Same(m, l) == Fields(m) /\ m.seq = l.seq /\ m.owner = l.owner /\ m.new = l.new

\* The local variables of an owner that has made the new table.
Started(m, l) == Fields(m) /\ m.seq = l.seq /\ m.owner

Others(p) == \A q \in Procs \ {p} : pc'[q] = pc[q] /\ loc'[q] = loc[q]

-----------------------------------------------------------------------------
(* The invariant of the tables.                                             *)

Slots == [meta : Nat, key : Keys \cup {Absent}, val : Values \cup {Absent}]

\* Tables with n buckets.
TablesOf(n) ==
    [chains : [0..n - 1 -> Seq(Slots)], mu : [0..n - 1 -> Procs \cup {Nobody}], size : Int]

\* The lengths that resizes reach: minTableLen, doubled any number of times.
LenOK(n) ==
    \A S \in SUBSET Nat : MinLen \in S /\ (\A m \in S : 2 * m \in S) => n \in S

\* A chain of a table, and the holder of its lock.
Count    == Len(tables)
C(t, b)  == tables[t].chains[b]
Mu(t, b) == tables[t].mu[b]

TabsOK ==
    /\ tables \in Seq(UNION {TablesOf(n) : n \in Nat})
    /\ \A t \in 1..Count :
          /\ TableLen(t) \in Nat \ {0} /\ LenOK(TableLen(t))
          /\ tables[t] \in TablesOf(TableLen(t))

TablesOK == hash \in Hashes /\ TabsOK /\ table \in 1..Count /\ resizeIdx \in Nat

\* The tables after a step that changes one table.
Changed(t, r) ==
    /\ TabsOK' /\ Count' = Count /\ tables'[t] = r
    /\ \A u \in 1..Count : TableLen(u)' = TableLen(u) /\ (u # t => tables'[u] = tables[u])

\* The tables after a store to a chain and its lock.
Wrote(t, b, c, h) ==
    /\ TabsOK' /\ Count' = Count
    /\ C(t, b)' = c /\ Mu(t, b)' = h
    /\ \A u \in 1..Count : TableLen(u)' = TableLen(u) /\ tables'[u].size = tables[u].size
    /\ \A u \in 1..Count : \A d \in 0..TableLen(u) - 1 :
          u # t \/ d # b => C(u, d)' = C(u, d) /\ Mu(u, d)' = Mu(u, d)

-----------------------------------------------------------------------------
(* Chains, and what transferBucketUnsafe does with them.                    *)

HasKey(c, k) == \E i \in DOMAIN c : c[i].key = k
In(c, k, v)  == \E i \in DOMAIN c : c[i].key = k /\ c[i].val = v

\* Every entry of a chain belongs there, and no key is in it twice.
ChainOK(c, b, n) ==
    /\ \A i \in DOMAIN c : c[i].key # Absent => /\ BucketOf(c[i].key, n) = b
                                                /\ c[i].meta \in {0, hash.h2[c[i].key]}
                                                /\ c[i].val \in Values
    /\ \A i, j \in DOMAIN c : c[i].key = c[j].key /\ c[i].key # Absent => i = j

\* No store is half done.
Tidy(e)    == e.key = Absent <=> e.meta = 0
AllTidy(c) == \A i \in DOMAIN c : Tidy(c[i])

EntryOf(k, v) == [meta |-> hash.h2[k], key |-> k, val |-> v]

\* The chain r holds what c holds, and v under k.
Gained(r, c, b, n, k, v) ==
    /\ r \in Seq(Slots) /\ ChainOK(r, b, n) /\ (AllTidy(c) => AllTidy(r))
    /\ \A j \in Keys, w \in Values : In(r, j, w) <=> (j # k /\ In(c, j, w)) \/ (j = k /\ w = v)

\* A chain to which a bucket with one entry is added.
Longer(c, k, v) == c \o [EmptyBucket EXCEPT ![1] = EntryOf(k, v)]

\* A chain with another meta byte.
Marked(c, s, m) == [c EXCEPT ![s].meta = m]

\* The entry e goes to bucket d of a table with len buckets.
Goes(e, d, len) == e.key # Absent /\ BucketOf(e.key, len) = d

\* f[i] is the destination after the first i slots of the source.
Pass(f, m, c, dest, d, len) ==
    f = [i \in 0..m |-> IF i = 0 THEN dest
                        ELSE IF Goes(c[i], d, len) THEN AppendToBucket(f[i - 1], c[i])
                        ELSE f[i - 1]]

\* The destination r after the first j slots of the chain c.
Partly(r, dest, c, j, d, len) ==
    /\ r \in Seq(Slots) /\ ChainOK(r, d, len) /\ AllTidy(r)
    /\ \A k \in Keys, v \in Values :
          In(r, k, v) <=> \/ In(dest, k, v)
                          \/ BucketOf(k, len) = d /\ \E i \in 1..j : c[i].key = k /\ c[i].val = v

\* The destination r when the whole chain has been moved.
Merged(r, dest, c, d, len) ==
    /\ r \in Seq(Slots) /\ ChainOK(r, d, len) /\ AllTidy(r)
    /\ \A k \in Keys, v \in Values :
          In(r, k, v) <=> In(dest, k, v) \/ (BucketOf(k, len) = d /\ In(c, k, v))

-----------------------------------------------------------------------------
(* The local variables of a goroutine after an assignment, by groups.       *)

KeepT(m, l) == m.tbl = l.tbl /\ m.slot = l.slot /\ m.delta = l.delta /\ m.emptied = l.emptied /\ m.hint = l.hint
KeepR(m, l) == m.n = l.n /\ m.cand = l.cand /\ m.found = l.found
KeepS(m, l) == m.seq = l.seq /\ m.owner = l.owner /\ m.old = l.old /\ m.new = l.new
KeepC(m, l) == m.i = l.i /\ m.src = l.src /\ m.end = l.end /\ m.copy = l.copy

Visited(l, v, w) == [l EXCEPT !.n = v, !.found = w]

Deleted(l, v, w) == [l EXCEPT !.delta = v, !.emptied = w]

Owning(l, v, w) == [l EXCEPT !.old = v, !.new = w, !.owner = TRUE]

Claimed(l, v, w, x) == [l EXCEPT !.i = v, !.src = w, !.end = x]

Again(l, v) == [l EXCEPT !.src = v, !.copy = <<>>]

Onward(l, v) == [l EXCEPT !.i = v, !.src = v, !.copy = <<>>]

Nothing == [k \in Keys |-> Absent]

Starting(v, w) == [NoLocals EXCEPT !.tbl = v, !.n = w]

\* The tables and the index of a resize stay as they are.
Still == UNCHANGED <<hash, tables, table, resizeIdx>>

\* A step of p that changes neither its call nor those of others.
Own(p, l, m) == /\ pc'[p] = l /\ loc'[p] = m /\ call' = call
                /\ \A q \in Procs \ {p} : pc'[q] = pc[q] /\ loc'[q] = loc[q]

\* What the walk along the chain finds.
Hits(p)  == {i \in DOMAIN Chain(p) : Holds(Chain(p)[i], call[p].key)}
Frees(p) == {i \in DOMAIN Chain(p) : Chain(p)[i].meta = 0}

\* The walk ends without a store: the call returns r, or a resize is needed.
Gives(p, r) == Unlock(p) /\ Settle(p, r) /\ Own(p, "return", loc[p])

\* The walk ends with a store to slot i.
Takes(p, i, l) ==
    /\ UNCHANGED <<tables, res>>
    /\ \E m : /\ Own(p, l, m) /\ KeepS(m, loc[p]) /\ m.slot = i /\ m.tbl = loc[p].tbl /\ m.hint = loc[p].hint
              /\ m.emptied = loc[p].emptied

\* How a goroutine goes on when it has moved a bucket.
GoesOn(p, l, m) ==
    /\ Own(p, l, m) /\ KeepT(m, loc[p]) /\ KeepS(m, loc[p]) /\ m.end = loc[p].end
    /\ \/ /\ loc[p].src + BaseLen(p) < TableLen(loc[p].old)
          /\ l = "copy" /\ m.i = loc[p].i /\ m.src = loc[p].src + BaseLen(p)
       \/ /\ loc[p].src + BaseLen(p) >= TableLen(loc[p].old) /\ loc[p].i + 1 < loc[p].end
          /\ l = "copy" /\ m.i = loc[p].i + 1 /\ m.src = loc[p].i + 1
       \/ /\ ~(loc[p].src + BaseLen(p) < TableLen(loc[p].old))
          /\ ~(loc[p].src + BaseLen(p) >= TableLen(loc[p].old) /\ loc[p].i + 1 < loc[p].end)
          /\ l = "claim"

\* The tables when a bucket has been moved.
Moves(p) ==
    LET old    == loc[p].old
        new    == loc[p].new
        chain  == tables[old].chains[loc[p].src]
        copied == Cardinality({i \in DOMAIN chain : chain[i].key # Absent})
    IN  tables' = [tables EXCEPT
                     ![old].mu[loc[p].src] = Nobody,
                     ![new].size = @ + copied,
                     ![new].chains = [d \in DOMAIN @ |-> IF d \in DOMAIN loc[p].copy
                                                         THEN loc[p].copy[d] ELSE @[d]]]

-----------------------------------------------------------------------------
(* The invariant of the entries.                                            *)

\* Labels of lookups, of writers that hold the lock of a bucket, and of goroutines that
\* move buckets.
Reading   == {"meta", "entry"}
Writing   == {"newer", "search", "update", "insert.meta", "insert.entry", "append",
              "delete.meta", "delete.entry"}
Copying   == {"copy", "copied"}
Busy      == Writing \cup Copying
UsesTable == Reading \cup Writing \cup {"lock", "range", "addSize", "resize.fast"}

\* What a label says about the call.
CallOK(p) ==
    /\ pc[p] = "idle" => call[p] = Abs!Idle
    /\ pc[p] # "idle" => /\ call[p].op \in Abs!WriteOps \cup {"Load", "Range"}
                         /\ call[p].op # "Range" => call[p].key \in Keys
                         /\ call[p].op \in {"Store", "LoadOrStore"} => call[p].val \in Values
    /\ pc[p] = "range" => call[p].op = "Range"
    /\ pc[p] \in Reading => call[p].op \in {"Load", "LoadOrStore", "LoadAndDelete"}
    /\ pc[p] \notin Reading \cup {"idle", "table", "range", "return"} => call[p].op \in Abs!WriteOps
    /\ pc[p] = "update" => call[p].op = "Store"
    /\ pc[p] \in {"insert.meta", "insert.entry", "append"} => call[p].op \in {"Store", "LoadOrStore"}
    /\ pc[p] \in {"delete.meta", "delete.entry"} => call[p].op = "LoadAndDelete"
    /\ pc[p] \in UsesTable => loc[p].tbl \in 1..table

CallsOK == call = [p \in Procs |-> call[p]] /\ \A p \in Procs : CallOK(p)

\* p owns a resize that has a new table which is not published.
Builds(p) == \/ pc[p] \in {"resize.next", "resize.wait", "resize.publish"}
             \/ loc[p].owner /\ pc[p] \in Moving

BuildOK ==
    /\ \A p \in Procs : Builds(p) => Count = table + 1 /\ loc[p].old = table /\ loc[p].new = Count
    /\ (\A p \in Procs : ~Builds(p)) => Count = table
    /\ nextTable \in {NoTable, Count}
    /\ Count = table + 1 => TableLen(Count) = 2 * TableLen(table) \/ TableLen(table) = 2 * TableLen(Count)

\* What a helper has read is of the newest resize, as long as the sequence number is current.
HelpOK(p) ==
    /\ pc[p] = "help.next" /\ loc[p].seq = ctl.seq =>
          /\ loc[p].old \in {Count - 1, Count}
          /\ (\E q \in Procs : pc[q] = "resize.new") => loc[p].old = Count
    /\ pc[p] = "help.check" /\ loc[p].seq = ctl.seq /\ loc[p].new \notin {NoTable, loc[p].old} =>
          loc[p].old = Count - 1 /\ loc[p].new = Count
    /\ pc[p] = "help.join" /\ loc[p].seq = ctl.seq => loc[p].old = Count - 1 /\ loc[p].new = Count
    /\ Registered(p) => loc[p].old = Count - 1 /\ loc[p].new = Count
    /\ pc[p] \in {"help.next", "help.check", "help.join"} \/ Registered(p) => loc[p].old \in Nat \ {0}
HelpsOK == \A p \in Procs : HelpOK(p)

\* The length of the shorter one of the two newest tables.
Prev == IF Count = 1 THEN 1 ELSE Count - 1
Base == IF TableLen(Prev) < TableLen(Count) THEN TableLen(Prev) ELSE TableLen(Count)

\* The owner of a resize may still claim buckets.
Opens(p) == pc[p] = "resize.next" \/ (loc[p].owner /\ pc[p] \in Moving)

\* Once the owner finds nothing to claim, nobody does; and the table is published after the
\* last bucket has been moved.
DoneOK ==
    /\ Count > 1 /\ (\A p \in Procs : ~Opens(p)) => Base <= resizeIdx
    /\ (\E p \in Procs : pc[p] = "resize.publish") => \A q \in Procs : pc[q] \notin Copying

StageInv == BuildOK /\ HelpsOK /\ DoneOK

\* The buckets of both tables with the same remainder exchange their entries only among
\* themselves.
Class(b) == b % Base

\* p moves the classes from loc[p].i to loc[p].end, and is at bucket loc[p].src.
ClaimOK(p) ==
    pc[p] \in Copying =>
        /\ Count = table + 1 /\ loc[p].old = table /\ loc[p].new = Count
        /\ loc[p].i \in Nat /\ loc[p].end \in Nat /\ loc[p].i < loc[p].end
        /\ loc[p].end <= Base /\ loc[p].end <= resizeIdx
        /\ loc[p].src \in 0..TableLen(table) - 1 /\ Class(loc[p].src) = loc[p].i

\* Nobody else moves them.
ClaimsOK ==
    /\ \A p \in Procs : ClaimOK(p)
    /\ \A p, q \in Procs : p # q /\ pc[p] \in Copying /\ pc[q] \in Copying =>
          loc[p].end <= loc[q].i \/ loc[q].end <= loc[p].i

\* q has still to move bucket b; bucket b has been moved.
Pending(q, b) == /\ pc[q] \in Copying /\ loc[q].i <= Class(b) /\ Class(b) < loc[q].end
                 /\ ~(Class(b) = loc[q].i /\ b < loc[q].src)
Moved(b) == Class(b) < resizeIdx /\ \A q \in Procs : ~Pending(q, b)

LocksOK ==
    /\ \A p \in Procs : pc[p] \in Writing => Mu(loc[p].tbl, Bidx(p)) = p
    /\ \A p \in Procs : pc[p] = "copied" => Mu(loc[p].old, loc[p].src) = p

\* A writer that has passed the check for a newer table works on the current one, on a bucket
\* that has not been moved, and what it found in the chain is still there.
WriterOK(p) ==
    LET c == Chain(p)
        k == call[p].key
        s == loc[p].slot
    IN  /\ pc[p] \in Writing \ {"newer"} => loc[p].tbl = table
        /\ pc[p] \in Writing /\ loc[p].tbl = table /\ Count = table + 1 => ~Moved(Bidx(p))
        /\ pc[p] \in {"update", "delete.meta"} => s \in DOMAIN c /\ Holds(c[s], k)
        /\ pc[p] = "insert.meta" => s \in DOMAIN c /\ c[s].key = Absent /\ c[s].meta = 0 /\ ~HasKey(c, k)
        /\ pc[p] = "insert.entry" => s \in DOMAIN c /\ c[s].key = Absent /\ c[s].meta = hash.h2[k] /\ ~HasKey(c, k)
        /\ pc[p] = "append" => ~HasKey(c, k)
        /\ pc[p] = "delete.entry" => s \in DOMAIN c /\ c[s].key = k /\ c[s].meta = 0
WritersOK == \A p \in Procs : WriterOK(p)

\* p is between the two stores to slot i of a chain.
Touches(p, t, b, i) == /\ pc[p] \in {"insert.entry", "delete.entry"}
                       /\ loc[p].tbl = t /\ Bidx(p) = b /\ loc[p].slot = i
ChainsOK ==
    \A t \in 1..Count : \A b \in 0..TableLen(t) - 1 :
        /\ ChainOK(C(t, b), b, TableLen(t))
        /\ \A i \in DOMAIN C(t, b) : Tidy(C(t, b)[i]) \/ \E p \in Procs : Touches(p, t, b, i)

\* The copies hold what the destinations hold, and the entries of the bucket that belong there.
CopyOK(p) ==
    pc[p] = "copied" =>
        /\ DOMAIN loc[p].copy = Dests(p)
        /\ \A d \in Dests(p) : Merged(loc[p].copy[d], C(loc[p].new, d), C(loc[p].old, loc[p].src),
                                      d, TableLen(loc[p].new))

\* The new table holds the entries of the buckets that have been moved.
CopiedOK ==
    Count = table + 1 =>
        \A k \in Keys : \A v \in Values :
            In(C(Count, BucketOf(k, TableLen(Count))), k, v) <=>
               /\ Moved(BucketOf(k, TableLen(table)))
               /\ In(C(table, BucketOf(k, TableLen(table))), k, v)

CopiesOK == (\A p \in Procs : CopyOK(p)) /\ CopiedOK

DataInv == ClaimsOK /\ LocksOK /\ WritersOK /\ ChainsOK /\ CopiesOK

PlaceInv == TablesOK /\ CallsOK /\ StageInv /\ DataInv

\* The lengths of the tables, and which one is the current one, stay as they are.
SameLens ==
    /\ UNCHANGED <<hash, table>> /\ Count' = Count
    /\ \A t \in 1..Count : /\ TableLen(t)' = TableLen(t)
                            /\ DOMAIN tables'[t].chains = DOMAIN tables[t].chains

\* Chains and locks stay as they are.
SameTables ==
    /\ SameLens
    /\ \A t \in 1..Count : \A b \in 0..TableLen(t) - 1 : C(t, b)' = C(t, b) /\ Mu(t, b)' = Mu(t, b)

\* The goroutine q goes on with what it does to the tables.
Kept(q) == pc[q] \in Busy \/ pc'[q] \in Busy =>
              pc'[q] = pc[q] /\ loc'[q] = loc[q] /\ call'[q] = call[q]

\* The chain b of table t is of no concern to the goroutines other than p: they neither have
\* its lock nor move a bucket to it.
Alone(p, t, b) == \/ t <= table /\ Mu(t, b) \in {p, Nobody}
                  \/ /\ t = Count /\ Count = table + 1
                     /\ \A q \in Procs \ {p} : pc[q] = "copied" => b \notin Dests(q)

\* A step of p that changes at most the chains in W, which are pairs of a table and a bucket.
Frame(p, W) ==
    /\ SameLens
    /\ \A u \in 1..Count : \A d \in 0..TableLen(u) - 1 :
          IF <<u, d>> \in W THEN Alone(p, u, d) ELSE C(u, d)' = C(u, d) /\ Mu(u, d)' = Mu(u, d)
    /\ \A q \in Procs \ {p} : Kept(q)

\* The chains that a step of p may have changed are in order, and so is p itself.
FrameOK(p, W) ==
    /\ \A t \in 1..Count : \A b \in 0..TableLen(t) - 1 : <<t, b>> \in W =>
          /\ ChainOK(C(t, b)', b, TableLen(t))
          /\ \A i \in DOMAIN C(t, b)' : \/ Tidy(C(t, b)'[i])
                                        \/ /\ pc'[p] \in {"insert.entry", "delete.entry"}
                                           /\ loc'[p].tbl = t /\ Bidx(p)' = b /\ loc'[p].slot = i
    /\ pc[p] \in {"insert.entry", "delete.entry"} => <<loc[p].tbl, Bidx(p)>> \in W
    /\ pc'[p] \in Writing => Mu(loc[p].tbl, Bidx(p))' = p /\ WriterOK(p)'
    /\ pc'[p] = "copied" => Mu(loc[p].old, loc[p].src)' = p
    /\ CopyOK(p)'
    /\ \A d \in 0..TableLen(table) - 1 : Moved(d)' => Moved(d) \/ Mu(table, d) = p

\* A step of p that changes at most the chain b of table t, and moves nothing.
Stores(p, t, b) ==
    /\ SameLens /\ resizeIdx' = resizeIdx
    /\ \A u \in 1..Count : \A d \in 0..TableLen(u) - 1 :
          u # t \/ d # b => C(u, d)' = C(u, d) /\ Mu(u, d)' = Mu(u, d)
    /\ \A q \in Procs \ {p} : Kept(q)
    /\ pc[p] \notin Copying /\ pc'[p] \notin Copying
    /\ t \in 1..Count /\ b \in 0..TableLen(t) - 1 => t <= table /\ Mu(t, b) \in {p, Nobody}

\* The chain that a step may have changed is in order, and so is the writer that did it.
StoreOK(p, t, b) ==
    /\ t \in 1..Count /\ b \in 0..TableLen(t) - 1 =>
          /\ ChainOK(C(t, b)', b, TableLen(t))
          /\ \A i \in DOMAIN C(t, b)' : \/ Tidy(C(t, b)'[i])
                                        \/ /\ pc'[p] \in {"insert.entry", "delete.entry"}
                                           /\ loc'[p].tbl = t /\ Bidx(p)' = b /\ loc'[p].slot = i
          /\ \/ \A k \in Keys, v \in Values : In(C(t, b)', k, v) <=> In(C(t, b), k, v)
             \/ t = table /\ (Count = table + 1 => ~Moved(b))
    /\ pc[p] \in {"insert.entry", "delete.entry"} => loc[p].tbl = t /\ Bidx(p) = b
    /\ pc'[p] \in Writing => Mu(loc[p].tbl, Bidx(p))' = p /\ WriterOK(p)'

\* The goroutines other than p.
OthersSame(p) == \A q \in Procs \ {p} : pc'[q] = pc[q] /\ loc'[q] = loc[q] /\ call'[q] = call[q]

\* What a label says about the call, after a step within the call.
LabelOK(l, c, t) ==
    /\ l # "idle" /\ c.op \in Abs!WriteOps \cup {"Load", "Range"}
    /\ c.op # "Range" => c.key \in Keys
    /\ c.op \in {"Store", "LoadOrStore"} => c.val \in Values
    /\ l = "range" => c.op = "Range"
    /\ l \in Reading => c.op \in {"Load", "LoadOrStore", "LoadAndDelete"}
    /\ l \notin Reading \cup {"table", "range", "return"} => c.op \in Abs!WriteOps
    /\ l = "update" => c.op = "Store"
    /\ l \in {"insert.meta", "insert.entry", "append"} => c.op \in {"Store", "LoadOrStore"}
    /\ l \in {"delete.meta", "delete.entry"} => c.op = "LoadAndDelete"
    /\ l \in UsesTable => t \in 1..table

\* What a writer at label l needs of its chain.
Ready(l, t, s, c, k) ==
    /\ l # "newer" => t = table
    /\ l \in {"update", "delete.meta"} => s \in DOMAIN c /\ Holds(c[s], k)
    /\ l = "insert.meta" => s \in DOMAIN c /\ c[s].key = Absent /\ c[s].meta = 0 /\ ~HasKey(c, k)
    /\ l = "insert.entry" => s \in DOMAIN c /\ c[s].key = Absent /\ c[s].meta = hash.h2[k] /\ ~HasKey(c, k)
    /\ l = "append" => ~HasKey(c, k)
    /\ l = "delete.entry" => s \in DOMAIN c /\ c[s].key = k /\ c[s].meta = 0

\* The chain c that a writer leaves behind, with the lock held by h, is in order.
Leaves(p, l, m, c, h) ==
    /\ ChainOK(c, Bidx(p), TableLen(loc[p].tbl))
    /\ \A i \in DOMAIN c : Tidy(c[i]) \/ (l \in {"insert.entry", "delete.entry"} /\ m.slot = i)
    /\ \/ \A k \in Keys, v \in Values : In(c, k, v) <=> In(Chain(p), k, v)
       \/ pc[p] # "newer"
    /\ l \in Writing => h = p /\ Ready(l, m.tbl, m.slot, c, call[p].key)

\* What addSize will be called with.
DeltaOK == \A p \in Procs : pc[p] = "addSize" => loc[p].delta \in {1, -1}

\* The number of entries of a chain.
Filled(c) == Cardinality({i \in DOMAIN c : c[i].key # Absent})

\* The tables after the bucket b of table t has been moved to the chains f of table n.
Moving2(t, b, n, f) ==
    /\ TabsOK' /\ Count' = Count
    /\ \A u \in 1..Count : /\ TableLen(u)' = TableLen(u)
                            /\ DOMAIN tables'[u].chains = DOMAIN tables[u].chains
                            /\ tables'[u].size = tables[u].size + (IF u = n THEN Filled(C(t, b)) ELSE 0)
    /\ \A u \in 1..Count : \A d \in 0..TableLen(u) - 1 :
          /\ C(u, d)' = IF u = n /\ d \in DOMAIN f THEN f[d] ELSE C(u, d)
          /\ Mu(u, d)' = IF u = t /\ d = b THEN Nobody ELSE Mu(u, d)

\* The stores that do it.
MovesTo(t, b, n, f) ==
    tables' = [tables EXCEPT ![t].mu[b] = Nobody,
                             ![n].size = @ + Filled(C(t, b)),
                             ![n].chains = [d \in DOMAIN @ |-> IF d \in DOMAIN f THEN f[d] ELSE @[d]]]

\* Where a goroutine that has moved bucket s of a claim from i to e goes on: at bucket u of the
\* claim from j, or it has done with the claim.
NextBucket(l, s, i, e, j, u, n) ==
    \/ s + Base < n /\ l = "copy" /\ j = i /\ u = s + Base
    \/ n <= s + Base /\ i + 1 < e /\ l = "copy" /\ j = i + 1 /\ u = i + 1
    \/ n <= s + Base /\ e <= i + 1 /\ l = "claim"

\* The tables after a table with n buckets has been made.
Made(n) ==
    /\ TabsOK' /\ Count' = Count + 1
    /\ \A u \in 1..Count : TableLen(u)' = TableLen(u) /\ tables'[u] = tables[u]
    /\ \A u \in {Count + 1} : /\ TableLen(u)' = n /\ tables'[u] = NewTable(n)
                              /\ \A d \in 0..n - 1 : C(u, d)' = EmptyBucket /\ Mu(u, d)' = Nobody

-----------------------------------------------------------------------------
(* The counters.                                                            *)

\* The keys that table t holds, and the calls of addSize(x) on it that are still to come.
Held(t)    == {k \in Keys : HasKey(C(t, BucketOf(k, TableLen(t))), k)}
Late(t, x) == {p \in Procs : pc[p] = "addSize" /\ loc[p].tbl = t /\ loc[p].delta = x}

\* As no table holds a key twice, its entries are counted by their keys.
SizeOK(t) ==
    /\ IsFiniteSet(Held(t)) /\ IsFiniteSet(Late(t, 1)) /\ IsFiniteSet(Late(t, -1))
    /\ tables[t].size + Cardinality(Late(t, 1)) - Cardinality(Late(t, -1)) = Cardinality(Held(t))

SizeInv == DeltaOK /\ \A t \in 1..Count : SizeOK(t)

\* A store to a chain and to its lock, seen from the counters.
Stored(t, b, r) ==
    /\ Count' = Count
    /\ \A u \in 1..Count :
          /\ TableLen(u)' = TableLen(u) /\ tables'[u].size = tables[u].size
          /\ \A d \in 0..TableLen(u) - 1 : C(u, d)' = IF u = t /\ d = b THEN r ELSE C(u, d)

\* A store to a lock changes neither chains nor counters.
Untouched ==
    /\ Count' = Count
    /\ \A u \in 1..Count : /\ TableLen(u)' = TableLen(u) /\ tables'[u].size = tables[u].size
                            /\ \A d : C(u, d)' = C(u, d)

\* The keys of a chain, and the number of its entries.
KeysOf(c) == {k \in Keys : HasKey(c, k)}

=============================================================================
