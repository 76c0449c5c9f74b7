-------------------------- MODULE XsyncMap_proofs --------------------------
(***************************************************************************)
(* Proofs about the concurrent map, for any goroutines, keys, sizes and    *)
(* hash functions, in the three layers of the invariant of XsyncMapInv:    *)
(* ControlInv (HelpersCounted), PlaceInv (OnePlace), SizeInv (SizeExact).  *)
(***************************************************************************)
EXTENDS XsyncMapInv, FiniteSetTheorems, SequenceTheorems, TLAPS
\* The two assignments of lookups and of writers to their local variables.
LEMMA SameForms ==
    ASSUME NEW l, Fields(l), NEW v, NEW w
    PROVE  /\ Same([l EXCEPT !.n = v, !.found = w], l)
           /\ Same([l EXCEPT !.delta = v, !.emptied = w], l)
<1>1. PICK k : k = [l EXCEPT !.n = v] OBVIOUS
<1>2. Same(k, l) BY <1>1 DEF Same, Fields
<1>3. [l EXCEPT !.n = v, !.found = w] = [k EXCEPT !.found = w] BY <1>1
<1>4. Same([k EXCEPT !.found = w], k) BY <1>2 DEF Same, Fields
<1>5. PICK d : d = [l EXCEPT !.delta = v] OBVIOUS
<1>6. Same(d, l) BY <1>5 DEF Same, Fields
<1>7. [l EXCEPT !.delta = v, !.emptied = w] = [d EXCEPT !.emptied = w] BY <1>5
<1>8. Same([d EXCEPT !.emptied = w], d) BY <1>6 DEF Same, Fields
<1>9. QED BY <1>2, <1>3, <1>4, <1>6, <1>7, <1>8 DEF Same

\* A step that changes the label and the local variables of one goroutine.
LEMMA OneLocal ==
    ASSUME Shape, NEW p \in Procs, NEW l, NEW m, Fields(m), m.seq \in Nat, m.owner \in BOOLEAN,
           pc' = [pc EXCEPT ![p] = l], loc' = [loc EXCEPT ![p] = m], ctl' = ctl
    PROVE  /\ Shape' /\ pc'[p] = l /\ loc'[p] = m
           /\ \A q \in Procs \ {p} : pc'[q] = pc[q] /\ loc'[q] = loc[q]
BY DEF Shape

\* Lookups, writes under the lock of a bucket, and waiting for a resize.
LEMMA AwayStep ==
    ASSUME Shape, OwnerInv, NEW p \in Procs,
           \/ \E c \in Abs!Invocations : Invoke(p, c)
           \/ Return(p)
           \/ ReadTable(p)
           \/ ReadMeta(p)
           \/ ReadEntry(p)
           \/ ReadNext(p)
           \/ RangeBucket(p)
           \/ RangeEnd(p)
           \/ CheckNewer(p)
           \/ Search(p)
           \/ Update(p)
           \/ InsertMeta(p)
           \/ InsertEntry(p)
           \/ AppendBucket(p)
           \/ DeleteMeta(p)
           \/ DeleteEntry(p)
           \/ AddSize(p)
           \/ ResizeFast(p)
           \/ WaitForResize(p)
    PROVE  Shape' /\ Away(p)
<1> USE DEF Shape, Fields, OwnerInv, Owns, Away, Offering, Finishing, Moving, Helping, shared,
      Goto, Local, NoLocals
<1>0. ASSUME NEW c \in Abs!Invocations, Invoke(p, c) PROVE Shape' /\ Away(p)
  BY <1>0 DEF Invoke
<1>1. ASSUME Return(p) PROVE Shape' /\ Away(p)
  BY <1>1, Zenon DEF Return
<1>2. ASSUME ReadTable(p) PROVE Shape' /\ Away(p)
  <2> HIDE DEF Shape, Fields, OwnerInv, Owns, Away, NoLocals
  <2>1. PICK v, w, l : /\ loc' = [loc EXCEPT ![p] = [NoLocals EXCEPT !.tbl = v, !.n = w]]
                       /\ pc' = [pc EXCEPT ![p] = l] /\ l \in {"range", "lock", "meta"}
    BY <1>2 DEF ReadTable
  <2>2. PICK m : m = [NoLocals EXCEPT !.tbl = v, !.n = w] OBVIOUS
  <2>3. Fields(m) /\ m.seq = 0 /\ m.owner = FALSE
    BY <2>2 DEF Fields, NoLocals
  <2>4. pc[p] = "table" /\ UNCHANGED <<ctl, nextTable>>
    BY <1>2 DEF ReadTable
  <2>8. Shape' /\ pc'[p] = l /\ loc'[p] = m /\ \A q \in Procs \ {p} : pc'[q] = pc[q] /\ loc'[q] = loc[q]
    <3>1. loc' = [loc EXCEPT ![p] = m] /\ pc' = [pc EXCEPT ![p] = l] BY <2>1, <2>2
    <3>2. m.seq \in Nat BY <2>3
    <3>3. m.owner \in BOOLEAN BY <2>3, Zenon
    <3>4. QED BY <2>3, <2>4, <3>1, <3>2, <3>3, OneLocal
  <2>9. QED BY <2>1, <2>2, <2>3, <2>4, <2>8 DEF OwnerInv, Owns, Away
<1>3. ASSUME ReadMeta(p) PROVE Shape' /\ Away(p)
  <2> HIDE DEF Shape, Fields, OwnerInv, Owns, Away, NoLocals
  <2>0. Fields(loc[p]) /\ loc[p].seq \in Nat /\ loc[p].owner \in BOOLEAN
    BY DEF Shape
  <2>1. PICK v : loc' = [loc EXCEPT ![p] = [loc[p] EXCEPT !.cand = v]]
    BY <1>3 DEF ReadMeta
  <2>2. PICK m : m = [loc[p] EXCEPT !.cand = v] OBVIOUS
  <2>3. Fields(m) /\ m.seq = loc[p].seq /\ m.owner = loc[p].owner
    BY <2>0, <2>2, SameForms DEF Same, Fields
  <2>4. pc[p] = "meta" /\ pc' = [pc EXCEPT ![p] = "entry"] /\ UNCHANGED <<ctl, nextTable>>
    BY <1>3 DEF ReadMeta
  <2>8. Shape' /\ pc'[p] = "entry" /\ loc'[p] = m /\ \A q \in Procs \ {p} : pc'[q] = pc[q] /\ loc'[q] = loc[q]
    <3>1. loc' = [loc EXCEPT ![p] = m] BY <2>1, <2>2
    <3>2. m.seq \in Nat /\ m.owner \in BOOLEAN BY <2>0, <2>3
    <3>3. QED BY <2>3, <2>4, <3>1, <3>2, OneLocal
  <2>9. QED BY <2>0, <2>1, <2>2, <2>3, <2>4, <2>8 DEF OwnerInv, Owns, Away
<1>4. ASSUME ReadEntry(p) PROVE Shape' /\ Away(p)
  BY <1>4 DEF ReadEntry, Settle
<1>5. ASSUME ReadNext(p) PROVE Shape' /\ Away(p)
  <2> HIDE DEF Shape, Fields, OwnerInv, Owns, Away, NoLocals
  <2>0. Fields(loc[p]) /\ loc[p].seq \in Nat /\ loc[p].owner \in BOOLEAN
    BY DEF Shape
  <2>1. \/ loc' = [loc EXCEPT ![p] = loc[p]]
        \/ \E v : loc' = [loc EXCEPT ![p] = [loc[p] EXCEPT !.n = v]]
    BY <1>5 DEF ReadNext, Shape
  <2>2. PICK m : loc' = [loc EXCEPT ![p] = m] /\ Same(m, loc[p])
    BY <2>0, <2>1 DEF Same, Fields
  <2>3. PICK l : pc' = [pc EXCEPT ![p] = l] /\ l \in {"return", "meta", "lock"}
    BY <1>5 DEF ReadNext
  <2>4. pc[p] = "entry" /\ UNCHANGED <<ctl, nextTable>>
    BY <1>5 DEF ReadNext
  <2>5. Fields(m) /\ m.seq = loc[p].seq /\ m.owner = loc[p].owner
    BY <2>2 DEF Same
  <2>8. Shape' /\ pc'[p] = l /\ loc'[p] = m /\ \A q \in Procs \ {p} : pc'[q] = pc[q] /\ loc'[q] = loc[q]
    BY <2>0, <2>2, <2>3, <2>4, <2>5, OneLocal
  <2>9. QED BY <2>0, <2>2, <2>3, <2>4, <2>5, <2>8 DEF OwnerInv, Owns, Away
<1>6. ASSUME RangeBucket(p) PROVE Shape' /\ Away(p)
  <2> HIDE DEF Shape, Fields, OwnerInv, Owns, Away, NoLocals
  <2>0. Fields(loc[p]) /\ loc[p].seq \in Nat /\ loc[p].owner \in BOOLEAN
    BY DEF Shape
  <2>1. PICK v, w : loc' = [loc EXCEPT ![p] = [loc[p] EXCEPT !.n = v, !.found = w]]
    BY <1>6, Zenon DEF RangeBucket
  <2>2. PICK m : m = [loc[p] EXCEPT !.n = v, !.found = w] OBVIOUS
  <2>3. Fields(m) /\ m.seq = loc[p].seq /\ m.owner = loc[p].owner
    BY <2>0, <2>2, SameForms DEF Same, Fields
  <2>4. pc[p] = "range" /\ pc' = [pc EXCEPT ![p] = "range"] /\ UNCHANGED <<ctl, nextTable>>
    BY <1>6, Zenon DEF RangeBucket, Shape
  <2>8. Shape' /\ pc'[p] = "range" /\ loc'[p] = m /\ \A q \in Procs \ {p} : pc'[q] = pc[q] /\ loc'[q] = loc[q]
    <3>1. loc' = [loc EXCEPT ![p] = m] BY <2>1, <2>2
    <3>2. m.seq \in Nat /\ m.owner \in BOOLEAN BY <2>0, <2>3
    <3>3. QED BY <2>3, <2>4, <3>1, <3>2, OneLocal
  <2>9. QED BY <2>0, <2>1, <2>2, <2>3, <2>4, <2>8 DEF OwnerInv, Owns, Away
<1>7. ASSUME RangeEnd(p) PROVE Shape' /\ Away(p)
  BY <1>7 DEF RangeEnd, Settle
<1>8. ASSUME CheckNewer(p) PROVE Shape' /\ Away(p)
  BY <1>8 DEF CheckNewer
<1>9. ASSUME Search(p) PROVE Shape' /\ Away(p)
  <2> HIDE DEF Shape, Fields, OwnerInv, Owns, Away, NoLocals
  <2>0. Fields(loc[p]) /\ loc[p].seq \in Nat /\ loc[p].owner \in BOOLEAN
    BY DEF Shape
  <2>1. \/ loc' = [loc EXCEPT ![p] = loc[p]]
        \/ \E v : loc' = [loc EXCEPT ![p] = [loc[p] EXCEPT !.slot = v]]
        \/ loc' = [loc EXCEPT ![p] = [loc[p] EXCEPT !.hint = "grow"]]
    BY <1>9 DEF Search, Shape
  <2>2. PICK m : loc' = [loc EXCEPT ![p] = m] /\ Same(m, loc[p])
    BY <2>0, <2>1 DEF Same, Fields
  <2>3. PICK l : /\ pc' = [pc EXCEPT ![p] = l]
                 /\ l \in {"return", "delete.meta", "update", "resize.seq", "insert.meta", "append"}
    BY <1>9 DEF Search
  <2>4. pc[p] = "search" /\ UNCHANGED <<ctl, nextTable>>
    BY <1>9 DEF Search
  <2>5. Fields(m) /\ m.seq = loc[p].seq /\ m.owner = loc[p].owner
    BY <2>2 DEF Same
  <2>8. Shape' /\ pc'[p] = l /\ loc'[p] = m /\ \A q \in Procs \ {p} : pc'[q] = pc[q] /\ loc'[q] = loc[q]
    BY <2>0, <2>2, <2>3, <2>4, <2>5, OneLocal
  <2>9. QED BY <2>0, <2>2, <2>3, <2>4, <2>5, <2>8 DEF OwnerInv, Owns, Away
<1>10. ASSUME Update(p) PROVE Shape' /\ Away(p)
  BY <1>10 DEF Update, Settle
<1>11. ASSUME InsertMeta(p) PROVE Shape' /\ Away(p)
  BY <1>11 DEF InsertMeta
<1>12. ASSUME InsertEntry(p) PROVE Shape' /\ Away(p)
  <2> HIDE DEF Shape, Fields, OwnerInv, Owns, Away, NoLocals
  <2>0. Fields(loc[p]) /\ loc[p].seq \in Nat /\ loc[p].owner \in BOOLEAN
    BY DEF Shape
  <2>1. loc' = [loc EXCEPT ![p] = [loc[p] EXCEPT !.delta = 1]]
    BY <1>12 DEF InsertEntry
  <2>2. PICK m : m = [loc[p] EXCEPT !.delta = 1] OBVIOUS
  <2>3. Fields(m) /\ m.seq = loc[p].seq /\ m.owner = loc[p].owner
    BY <2>0, <2>2, SameForms DEF Same, Fields
  <2>4. pc[p] = "insert.entry" /\ pc' = [pc EXCEPT ![p] = "addSize"] /\ UNCHANGED <<ctl, nextTable>>
    BY <1>12 DEF InsertEntry
  <2>8. Shape' /\ pc'[p] = "addSize" /\ loc'[p] = m /\ \A q \in Procs \ {p} : pc'[q] = pc[q] /\ loc'[q] = loc[q]
    <3>1. loc' = [loc EXCEPT ![p] = m] BY <2>1, <2>2
    <3>2. m.seq \in Nat /\ m.owner \in BOOLEAN BY <2>0, <2>3
    <3>3. QED BY <2>3, <2>4, <3>1, <3>2, OneLocal
  <2>9. QED BY <2>0, <2>1, <2>2, <2>3, <2>4, <2>8 DEF OwnerInv, Owns, Away
<1>13. ASSUME AppendBucket(p) PROVE Shape' /\ Away(p)
  <2> HIDE DEF Shape, Fields, OwnerInv, Owns, Away, NoLocals
  <2>0. Fields(loc[p]) /\ loc[p].seq \in Nat /\ loc[p].owner \in BOOLEAN
    BY DEF Shape
  <2>1. loc' = [loc EXCEPT ![p] = [loc[p] EXCEPT !.delta = 1]]
    BY <1>13 DEF AppendBucket
  <2>2. PICK m : m = [loc[p] EXCEPT !.delta = 1] OBVIOUS
  <2>3. Fields(m) /\ m.seq = loc[p].seq /\ m.owner = loc[p].owner
    BY <2>0, <2>2, SameForms DEF Same, Fields
  <2>4. pc[p] = "append" /\ pc' = [pc EXCEPT ![p] = "addSize"] /\ UNCHANGED <<ctl, nextTable>>
    BY <1>13 DEF AppendBucket
  <2>8. Shape' /\ pc'[p] = "addSize" /\ loc'[p] = m /\ \A q \in Procs \ {p} : pc'[q] = pc[q] /\ loc'[q] = loc[q]
    <3>1. loc' = [loc EXCEPT ![p] = m] BY <2>1, <2>2
    <3>2. m.seq \in Nat /\ m.owner \in BOOLEAN BY <2>0, <2>3
    <3>3. QED BY <2>3, <2>4, <3>1, <3>2, OneLocal
  <2>9. QED BY <2>0, <2>1, <2>2, <2>3, <2>4, <2>8 DEF OwnerInv, Owns, Away
<1>14. ASSUME DeleteMeta(p) PROVE Shape' /\ Away(p)
  BY <1>14 DEF DeleteMeta, Settle
<1>15. ASSUME DeleteEntry(p) PROVE Shape' /\ Away(p)
  <2> HIDE DEF Shape, Fields, OwnerInv, Owns, Away, NoLocals
  <2>0. Fields(loc[p]) /\ loc[p].seq \in Nat /\ loc[p].owner \in BOOLEAN
    BY DEF Shape
  <2>1. PICK v : loc' = [loc EXCEPT ![p] = [loc[p] EXCEPT !.delta = -1, !.emptied = v]]
    BY <1>15 DEF DeleteEntry
  <2>2. PICK m : m = [loc[p] EXCEPT !.delta = -1, !.emptied = v] OBVIOUS
  <2>3. Fields(m) /\ m.seq = loc[p].seq /\ m.owner = loc[p].owner
    BY <2>0, <2>2, SameForms DEF Same, Fields
  <2>4. pc[p] = "delete.entry" /\ pc' = [pc EXCEPT ![p] = "addSize"] /\ UNCHANGED <<ctl, nextTable>>
    BY <1>15 DEF DeleteEntry
  <2>8. Shape' /\ pc'[p] = "addSize" /\ loc'[p] = m /\ \A q \in Procs \ {p} : pc'[q] = pc[q] /\ loc'[q] = loc[q]
    <3>1. loc' = [loc EXCEPT ![p] = m] BY <2>1, <2>2
    <3>2. m.seq \in Nat /\ m.owner \in BOOLEAN BY <2>0, <2>3
    <3>3. QED BY <2>3, <2>4, <3>1, <3>2, OneLocal
  <2>9. QED BY <2>0, <2>1, <2>2, <2>3, <2>4, <2>8 DEF OwnerInv, Owns, Away
<1>16. ASSUME AddSize(p) PROVE Shape' /\ Away(p)
  BY <1>16 DEF AddSize
<1>17. ASSUME ResizeFast(p) PROVE Shape' /\ Away(p)
  BY <1>17 DEF ResizeFast
<1>18. ASSUME WaitForResize(p) PROVE Shape' /\ Away(p)
  BY <1>18 DEF WaitForResize, AfterResize
<1> HIDE DEF Shape, Away
<1> QED BY <1>0, <1>1, <1>2, <1>3, <1>4, <1>5, <1>6, <1>7, <1>8, <1>9, <1>10, <1>11, <1>12,
  <1>13, <1>14, <1>15, <1>16, <1>17, <1>18

\* The assignment with which resize begins.
LEMMA StartForm ==
    ASSUME NEW l, Fields(l), NEW a, NEW b PROVE Started([l EXCEPT !.old = a, !.new = b, !.owner = TRUE], l)
<1>1. PICK m1 : m1 = [l EXCEPT !.old = a] OBVIOUS
<1>2. Fields(m1) /\ m1.seq = l.seq /\ m1.owner = l.owner /\ m1.new = l.new
  BY <1>1 DEF Fields
<1>3. PICK m2 : m2 = [m1 EXCEPT !.new = b] OBVIOUS
<1>4. Fields(m2) /\ m2.seq = m1.seq /\ m2.owner = m1.owner /\ m2.new = b
  BY <1>3, <1>2 DEF Fields
<1>5. PICK m3 : m3 = [m2 EXCEPT !.owner = TRUE] OBVIOUS
<1>6. Fields(m3) /\ m3.seq = m2.seq /\ m3.owner = TRUE /\ m3.new = m2.new
  BY <1>5, <1>4 DEF Fields
<1>7. [l EXCEPT !.old = a, !.new = b, !.owner = TRUE] = m3
  BY <1>1, <1>3, <1>5
<1>8. QED BY <1>2, <1>4, <1>6, <1>7 DEF Started

\* A claimed range of buckets, and the buckets of a range.
LEMMA RangeForm ==
    ASSUME NEW l, Fields(l), NEW a, NEW b, NEW c PROVE Same([l EXCEPT !.i = a, !.src = b, !.end = c], l)
<1>1. PICK m1 : m1 = [l EXCEPT !.i = a] OBVIOUS
<1>2. Fields(m1) /\ m1.seq = l.seq /\ m1.owner = l.owner /\ m1.new = l.new
  BY <1>1 DEF Fields
<1>3. PICK m2 : m2 = [m1 EXCEPT !.src = b] OBVIOUS
<1>4. Fields(m2) /\ m2.seq = m1.seq /\ m2.owner = m1.owner /\ m2.new = m1.new
  BY <1>3, <1>2 DEF Fields
<1>5. PICK m3 : m3 = [m2 EXCEPT !.end = c] OBVIOUS
<1>6. Fields(m3) /\ m3.seq = m2.seq /\ m3.owner = m2.owner /\ m3.new = m2.new
  BY <1>5, <1>4 DEF Fields
<1>7. [l EXCEPT !.i = a, !.src = b, !.end = c] = m3
  BY <1>1, <1>3, <1>5
<1>8. QED BY <1>2, <1>4, <1>6, <1>7 DEF Same

\* The next bucket of a range.
LEMMA NextForm ==
    ASSUME NEW l, Fields(l), NEW a, NEW b, NEW c PROVE Same([l EXCEPT !.i = a, !.src = b, !.copy = c], l)
<1>1. PICK m1 : m1 = [l EXCEPT !.i = a] OBVIOUS
<1>2. Fields(m1) /\ m1.seq = l.seq /\ m1.owner = l.owner /\ m1.new = l.new
  BY <1>1 DEF Fields
<1>3. PICK m2 : m2 = [m1 EXCEPT !.src = b] OBVIOUS
<1>4. Fields(m2) /\ m2.seq = m1.seq /\ m2.owner = m1.owner /\ m2.new = m1.new
  BY <1>3, <1>2 DEF Fields
<1>5. PICK m3 : m3 = [m2 EXCEPT !.copy = c] OBVIOUS
<1>6. Fields(m3) /\ m3.seq = m2.seq /\ m3.owner = m2.owner /\ m3.new = m2.new
  BY <1>5, <1>4 DEF Fields
<1>7. [l EXCEPT !.i = a, !.src = b, !.copy = c] = m3
  BY <1>1, <1>3, <1>5
<1>8. QED BY <1>2, <1>4, <1>6, <1>7 DEF Same

\* The next bucket that shares the destination.
LEMMA AgainForm ==
    ASSUME NEW l, Fields(l), NEW a, NEW b PROVE Same([l EXCEPT !.src = a, !.copy = b], l)
<1>1. PICK m1 : m1 = [l EXCEPT !.src = a] OBVIOUS
<1>2. Fields(m1) /\ m1.seq = l.seq /\ m1.owner = l.owner /\ m1.new = l.new
  BY <1>1 DEF Fields
<1>3. PICK m2 : m2 = [m1 EXCEPT !.copy = b] OBVIOUS
<1>4. Fields(m2) /\ m2.seq = m1.seq /\ m2.owner = m1.owner /\ m2.new = m1.new
  BY <1>3, <1>2 DEF Fields
<1>5. [l EXCEPT !.src = a, !.copy = b] = m2
  BY <1>1, <1>3
<1>6. QED BY <1>2, <1>4, <1>5 DEF Same

-----------------------------------------------------------------------------
(* The steps of resizes and helpers, one lemma for each.                    *)

\* A step of one goroutine after which it has the local variables m.
LEMMA OneStep ==
    ASSUME Shape, NEW p \in Procs, NEW l, NEW m, Fields(m), m.seq \in Nat, m.owner \in BOOLEAN,
           pc' = [pc EXCEPT ![p] = l], loc' = [loc EXCEPT ![p] = m],
           ctl' \in [seq : Nat, helpers : Nat]
    PROVE  Shape' /\ pc'[p] = l /\ loc'[p] = m /\ Others(p)
BY DEF Shape, Others

\* A step that leaves the helpers as they are.
LEMMA SameCount ==
    ASSUME CountInv, Helpers' = Helpers, ctl' = ctl, \A p \in Helpers : loc'[p].seq = loc[p].seq
    PROVE  CountInv'
BY DEF CountInv, HelpersCounted, Helpers

\* The new table is offered.
LEMMA ResizeNextControl ==
    ASSUME ControlInv, NEW p \in Procs, ResizeNext(p) PROVE ControlInv'
<1> USE DEF ControlInv
<1>1. /\ Shape' /\ Others(p)
      /\ pc[p] = "resize.next" /\ pc'[p] = "claim"
      /\ loc'[p] = loc[p]
      /\ ctl' = ctl
  BY DEF ResizeNext, Goto, shared, Shape, Others
<1>0. Fields(loc[p]) /\ loc[p].seq \in Nat /\ loc[p].owner \in BOOLEAN /\ ctl.seq \in Nat
  BY DEF Shape
<1>2. OwnerInv'
  BY <1>0, <1>1 DEF OwnerInv, Owns, Offering, Finishing, Moving, Others
<1>3. SeqInv'
  BY <1>0, <1>1 DEF SeqInv, Helping, Others
<1>4. OfferInv'
  BY <1>0, <1>1 DEF OfferInv, OwnerInv, Owns, SeqInv, HasTable, Registered, Offering, Finishing, Moving, Helping, Others
<1>5. Helpers' = Helpers /\ \A q \in Helpers : loc'[q].seq = loc[q].seq
  BY <1>0, <1>1 DEF Helpers, Registered, Others, OwnerInv, Owns, Offering, Finishing, Moving
<1>6. CountInv'
  BY <1>1, <1>5, SameCount
<1>7. QED BY <1>1, <1>2, <1>3, <1>4, <1>6

\* All buckets are claimed, and no helper is left.
LEMMA ResizeWaitControl ==
    ASSUME ControlInv, NEW p \in Procs, ResizeWait(p) PROVE ControlInv'
<1> USE DEF ControlInv
<1>1. /\ Shape' /\ Others(p)
      /\ pc[p] = "resize.wait" /\ pc'[p] = "resize.publish"
      /\ loc'[p] = loc[p]
      /\ UNCHANGED <<ctl, nextTable>>
  BY DEF ResizeWait, Goto, shared, Shape, Others
<1>0. Fields(loc[p]) /\ loc[p].seq \in Nat /\ loc[p].owner \in BOOLEAN /\ ctl.seq \in Nat
  BY DEF Shape
<1>2. OwnerInv'
  BY <1>0, <1>1 DEF OwnerInv, Owns, Offering, Finishing, Moving, Others
<1>3. SeqInv'
  BY <1>0, <1>1 DEF SeqInv, Helping, Others
<1>4. OfferInv'
  BY <1>0, <1>1 DEF OfferInv, OwnerInv, Owns, SeqInv, HasTable, Registered, Offering, Finishing, Moving, Helping, Others
<1>5. Helpers' = Helpers /\ \A q \in Helpers : loc'[q].seq = loc[q].seq
  BY <1>0, <1>1 DEF Helpers, Registered, Others, OwnerInv, Owns, Offering, Finishing, Moving
<1>6. CountInv'
  BY <1>1, <1>5, SameCount
<1>7. QED BY <1>1, <1>2, <1>3, <1>4, <1>6

\* The new table becomes the current one.
LEMMA ResizePublishControl ==
    ASSUME ControlInv, NEW p \in Procs, ResizePublish(p) PROVE ControlInv'
<1> USE DEF ControlInv
<1>1. /\ Shape' /\ Others(p)
      /\ pc[p] = "resize.publish" /\ pc'[p] = "resize.clear"
      /\ loc'[p] = loc[p]
      /\ UNCHANGED <<ctl, nextTable>>
  BY DEF ResizePublish, Goto, shared, Shape, Others
<1>0. Fields(loc[p]) /\ loc[p].seq \in Nat /\ loc[p].owner \in BOOLEAN /\ ctl.seq \in Nat
  BY DEF Shape
<1>2. OwnerInv'
  BY <1>0, <1>1 DEF OwnerInv, Owns, Offering, Finishing, Moving, Others
<1>3. SeqInv'
  BY <1>0, <1>1 DEF SeqInv, Helping, Others
<1>4. OfferInv'
  BY <1>0, <1>1 DEF OfferInv, OwnerInv, Owns, SeqInv, HasTable, Registered, Offering, Finishing, Moving, Helping, Others
<1>5. Helpers' = Helpers /\ \A q \in Helpers : loc'[q].seq = loc[q].seq
  BY <1>0, <1>1 DEF Helpers, Registered, Others, OwnerInv, Owns, Offering, Finishing, Moving
<1>6. CountInv'
  BY <1>1, <1>5, SameCount
<1>7. QED BY <1>1, <1>2, <1>3, <1>4, <1>6

\* The new table is no longer offered.
LEMMA ResizeClearControl ==
    ASSUME ControlInv, NEW p \in Procs, ResizeClear(p) PROVE ControlInv'
<1> USE DEF ControlInv
<1>1. /\ Shape' /\ Others(p)
      /\ pc[p] = "resize.clear" /\ pc'[p] = "resize.mu"
      /\ loc'[p] = loc[p]
      /\ ctl' = ctl /\ nextTable' = NoTable
  BY DEF ResizeClear, Goto, shared, Shape, Others
<1>0. Fields(loc[p]) /\ loc[p].seq \in Nat /\ loc[p].owner \in BOOLEAN /\ ctl.seq \in Nat
  BY DEF Shape
<1>2. OwnerInv'
  BY <1>0, <1>1 DEF OwnerInv, Owns, Offering, Finishing, Moving, Others
<1>3. SeqInv'
  BY <1>0, <1>1 DEF SeqInv, Helping, Others
<1>4. OfferInv'
  BY <1>0, <1>1 DEF OfferInv, OwnerInv, Owns, SeqInv, HasTable, Registered, Offering, Finishing, Moving, Helping, Others
<1>5. Helpers' = Helpers /\ \A q \in Helpers : loc'[q].seq = loc[q].seq
  BY <1>0, <1>1 DEF Helpers, Registered, Others, OwnerInv, Owns, Offering, Finishing, Moving
<1>6. CountInv'
  BY <1>1, <1>5, SameCount
<1>7. QED BY <1>1, <1>2, <1>3, <1>4, <1>6

\* The owner takes resizeMu.
LEMMA ResizeMuControl ==
    ASSUME ControlInv, NEW p \in Procs, ResizeMu(p) PROVE ControlInv'
<1> USE DEF ControlInv
<1>1. /\ Shape' /\ Others(p)
      /\ pc[p] = "resize.mu" /\ pc'[p] = "resize.end"
      /\ loc'[p] = loc[p]
      /\ UNCHANGED <<ctl, nextTable>>
  BY DEF ResizeMu, Goto, shared, Shape, Others
<1>0. Fields(loc[p]) /\ loc[p].seq \in Nat /\ loc[p].owner \in BOOLEAN /\ ctl.seq \in Nat
  BY DEF Shape
<1>2. OwnerInv'
  BY <1>0, <1>1 DEF OwnerInv, Owns, Offering, Finishing, Moving, Others
<1>3. SeqInv'
  BY <1>0, <1>1 DEF SeqInv, Helping, Others
<1>4. OfferInv'
  BY <1>0, <1>1 DEF OfferInv, OwnerInv, Owns, SeqInv, HasTable, Registered, Offering, Finishing, Moving, Helping, Others
<1>5. Helpers' = Helpers /\ \A q \in Helpers : loc'[q].seq = loc[q].seq
  BY <1>0, <1>1 DEF Helpers, Registered, Others, OwnerInv, Owns, Offering, Finishing, Moving
<1>6. CountInv'
  BY <1>1, <1>5, SameCount
<1>7. QED BY <1>1, <1>2, <1>3, <1>4, <1>6

\* A helper looks at what it has read.
LEMMA HelpCheckControl ==
    ASSUME ControlInv, NEW p \in Procs, HelpCheck(p) PROVE ControlInv'
<1> USE DEF ControlInv
<1>1. /\ Shape' /\ Others(p)
      /\ pc[p] = "help.check" /\ pc'[p]  \in {"return", "table", "help.table", "help.join"}
      /\ pc'[p] = "help.join" => loc[p].seq = ctl.seq /\ loc[p].new # NoTable
      /\ loc'[p] = loc[p]
      /\ UNCHANGED <<ctl, nextTable>>
  BY DEF HelpCheck, Goto, shared, Shape, Others, AfterResize
<1>0. Fields(loc[p]) /\ loc[p].seq \in Nat /\ loc[p].owner \in BOOLEAN /\ ctl.seq \in Nat
  BY DEF Shape
<1>2. OwnerInv'
  BY <1>0, <1>1 DEF OwnerInv, Owns, Offering, Finishing, Moving, Others
<1>3. SeqInv'
  BY <1>0, <1>1 DEF SeqInv, Helping, Others
<1>4. OfferInv'
  BY <1>0, <1>1 DEF OfferInv, OwnerInv, Owns, SeqInv, HasTable, Registered, Offering, Finishing, Moving, Helping, Others
<1>5. Helpers' = Helpers /\ \A q \in Helpers : loc'[q].seq = loc[q].seq
  BY <1>0, <1>1 DEF Helpers, Registered, Others, OwnerInv, Owns, Offering, Finishing, Moving
<1>6. CountInv'
  BY <1>1, <1>5, SameCount
<1>7. QED BY <1>1, <1>2, <1>3, <1>4, <1>6

\* A helper reads the current table.
LEMMA HelpTableControl ==
    ASSUME ControlInv, NEW p \in Procs, HelpTable(p) PROVE ControlInv'
<1> USE DEF ControlInv
<1>1. /\ Shape' /\ Others(p)
      /\ pc[p] = "help.table" /\ pc'[p] = "help.next"
      /\ loc'[p].seq = loc[p].seq /\ loc'[p].owner = loc[p].owner
      /\ UNCHANGED <<ctl, nextTable>>
  <2>0. Fields(loc[p]) /\ loc[p].seq \in Nat /\ loc[p].owner \in BOOLEAN /\ ctl \in [seq : Nat, helpers : Nat]
    BY DEF Shape
  <2>1. loc' = [loc EXCEPT ![p] = [loc[p] EXCEPT !.old = table]]
    BY DEF HelpTable, Local
  <2>2. PICK m : m = [loc[p] EXCEPT !.old = table] OBVIOUS
  <2>3. Fields(m) /\ m.seq = loc[p].seq /\ m.owner = loc[p].owner
    BY <2>0, <2>2 DEF Same, Fields
  <2>4. PICK l : pc' = [pc EXCEPT ![p] = l] /\ l = "help.next"
    BY DEF HelpTable, Goto, shared
  <2>5. pc[p] = "help.table" /\ UNCHANGED <<ctl, nextTable>>
    BY DEF HelpTable, shared
  <2>6. m.seq \in Nat /\ m.owner \in BOOLEAN
    BY <2>0, <2>3
  <2>7. loc' = [loc EXCEPT ![p] = m]
    BY <2>1, <2>2
  <2>8. Shape' /\ pc'[p] = l /\ loc'[p] = m /\ Others(p)
    BY <2>0, <2>3, <2>4, <2>5, <2>6, <2>7, OneStep
  <2>9. QED BY <2>3, <2>4, <2>5, <2>8
<1>0. Fields(loc[p]) /\ loc[p].seq \in Nat /\ loc[p].owner \in BOOLEAN /\ ctl.seq \in Nat
  BY DEF Shape
<1>2. OwnerInv'
  BY <1>0, <1>1 DEF OwnerInv, Owns, Offering, Finishing, Moving, Others
<1>3. SeqInv'
  BY <1>0, <1>1 DEF SeqInv, Helping, Others
<1>4. OfferInv'
  BY <1>0, <1>1 DEF OfferInv, OwnerInv, Owns, SeqInv, HasTable, Registered, Offering, Finishing, Moving, Helping, Others
<1>5. Helpers' = Helpers /\ \A q \in Helpers : loc'[q].seq = loc[q].seq
  BY <1>0, <1>1 DEF Helpers, Registered, Others, OwnerInv, Owns, Offering, Finishing, Moving
<1>6. CountInv'
  BY <1>1, <1>5, SameCount
<1>7. QED BY <1>1, <1>2, <1>3, <1>4, <1>6

\* A helper reads the table that is offered.
LEMMA HelpNextControl ==
    ASSUME ControlInv, NEW p \in Procs, HelpNext(p) PROVE ControlInv'
<1> USE DEF ControlInv
<1>1. /\ Shape' /\ Others(p)
      /\ pc[p] = "help.next" /\ pc'[p] = "help.check"
      /\ loc'[p].seq = loc[p].seq /\ loc'[p].owner = loc[p].owner /\ loc'[p].new = nextTable
      /\ UNCHANGED <<ctl, nextTable>>
  <2>0. Fields(loc[p]) /\ loc[p].seq \in Nat /\ loc[p].owner \in BOOLEAN /\ ctl \in [seq : Nat, helpers : Nat]
    BY DEF Shape
  <2>1. loc' = [loc EXCEPT ![p] = [loc[p] EXCEPT !.new = nextTable]]
    BY DEF HelpNext, Local
  <2>2. PICK m : m = [loc[p] EXCEPT !.new = nextTable] OBVIOUS
  <2>3. Fields(m) /\ m.seq = loc[p].seq /\ m.owner = loc[p].owner /\ m.new = nextTable
    BY <2>0, <2>2 DEF Same, Fields
  <2>4. PICK l : pc' = [pc EXCEPT ![p] = l] /\ l = "help.check"
    BY DEF HelpNext, Goto, shared
  <2>5. pc[p] = "help.next" /\ UNCHANGED <<ctl, nextTable>>
    BY DEF HelpNext, shared
  <2>6. m.seq \in Nat /\ m.owner \in BOOLEAN
    BY <2>0, <2>3
  <2>7. loc' = [loc EXCEPT ![p] = m]
    BY <2>1, <2>2
  <2>8. Shape' /\ pc'[p] = l /\ loc'[p] = m /\ Others(p)
    BY <2>0, <2>3, <2>4, <2>5, <2>6, <2>7, OneStep
  <2>9. QED BY <2>3, <2>4, <2>5, <2>8
<1>0. Fields(loc[p]) /\ loc[p].seq \in Nat /\ loc[p].owner \in BOOLEAN /\ ctl.seq \in Nat
  BY DEF Shape
<1>2. OwnerInv'
  BY <1>0, <1>1 DEF OwnerInv, Owns, Offering, Finishing, Moving, Others
<1>3. SeqInv'
  BY <1>0, <1>1 DEF SeqInv, Helping, Others
<1>4. OfferInv'
  BY <1>0, <1>1 DEF OfferInv, OwnerInv, Owns, SeqInv, HasTable, Registered, Offering, Finishing, Moving, Helping, Others
<1>5. Helpers' = Helpers /\ \A q \in Helpers : loc'[q].seq = loc[q].seq
  BY <1>0, <1>1 DEF Helpers, Registered, Others, OwnerInv, Owns, Offering, Finishing, Moving
<1>6. CountInv'
  BY <1>1, <1>5, SameCount
<1>7. QED BY <1>1, <1>2, <1>3, <1>4, <1>6

\* The sequence number before a resize.
LEMMA ResizeSeqControl ==
    ASSUME ControlInv, NEW p \in Procs, ResizeSeq(p) PROVE ControlInv'
<1> USE DEF ControlInv
<1>1. /\ Shape' /\ Others(p)
      /\ pc[p] = "resize.seq" /\ pc'[p] = IF Odd(ctl.seq) THEN "help.table" ELSE "resize.cas"
      /\ loc'[p].seq = ctl.seq /\ loc'[p].owner = loc[p].owner
      /\ UNCHANGED <<ctl, nextTable>>
  <2>0. Fields(loc[p]) /\ loc[p].seq \in Nat /\ loc[p].owner \in BOOLEAN /\ ctl \in [seq : Nat, helpers : Nat]
    BY DEF Shape
  <2>1. loc' = [loc EXCEPT ![p] = [loc[p] EXCEPT !.seq = ctl.seq]]
    BY DEF ResizeSeq, Local
  <2>2. PICK m : m = [loc[p] EXCEPT !.seq = ctl.seq] OBVIOUS
  <2>3. Fields(m) /\ m.seq = ctl.seq /\ m.owner = loc[p].owner
    BY <2>0, <2>2 DEF Same, Fields
  <2>4. PICK l : pc' = [pc EXCEPT ![p] = l] /\ l = IF Odd(ctl.seq) THEN "help.table" ELSE "resize.cas"
    BY DEF ResizeSeq, Goto, shared
  <2>5. pc[p] = "resize.seq" /\ UNCHANGED <<ctl, nextTable>>
    BY DEF ResizeSeq, shared
  <2>6. m.seq \in Nat /\ m.owner \in BOOLEAN
    BY <2>0, <2>3
  <2>7. loc' = [loc EXCEPT ![p] = m]
    BY <2>1, <2>2
  <2>8. Shape' /\ pc'[p] = l /\ loc'[p] = m /\ Others(p)
    BY <2>0, <2>3, <2>4, <2>5, <2>6, <2>7, OneStep
  <2>9. QED BY <2>3, <2>4, <2>5, <2>8
<1>0. Fields(loc[p]) /\ loc[p].seq \in Nat /\ loc[p].owner \in BOOLEAN /\ ctl.seq \in Nat
  BY DEF Shape
<1>2. OwnerInv'
  BY <1>0, <1>1 DEF OwnerInv, Owns, Offering, Finishing, Moving, Others
<1>3. SeqInv'
  BY <1>0, <1>1 DEF SeqInv, Helping, Others
<1>4. OfferInv'
  BY <1>0, <1>1 DEF OfferInv, OwnerInv, Owns, SeqInv, HasTable, Registered, Offering, Finishing, Moving, Helping, Others
<1>5. Helpers' = Helpers /\ \A q \in Helpers : loc'[q].seq = loc[q].seq
  BY <1>0, <1>1 DEF Helpers, Registered, Others, OwnerInv, Owns, Offering, Finishing, Moving
<1>6. CountInv'
  BY <1>1, <1>5, SameCount
<1>7. QED BY <1>1, <1>2, <1>3, <1>4, <1>6

\* A bucket is locked and copied.
LEMMA CopyBeginControl ==
    ASSUME ControlInv, NEW p \in Procs, CopyBegin(p) PROVE ControlInv'
<1> USE DEF ControlInv
<1>1. /\ Shape' /\ Others(p)
      /\ pc[p] = "copy" /\ pc'[p] = "copied"
      /\ loc'[p].seq = loc[p].seq /\ loc'[p].owner = loc[p].owner
      /\ UNCHANGED <<ctl, nextTable>>
  <2>0. Fields(loc[p]) /\ loc[p].seq \in Nat /\ loc[p].owner \in BOOLEAN /\ ctl \in [seq : Nat, helpers : Nat]
    BY DEF Shape
  <2>1. PICK v : loc' = [loc EXCEPT ![p] = [loc[p] EXCEPT !.copy = v]]
    BY DEF CopyBegin, Local
  <2>2. PICK m : m = [loc[p] EXCEPT !.copy = v] OBVIOUS
  <2>3. Fields(m) /\ m.seq = loc[p].seq /\ m.owner = loc[p].owner
    BY <2>0, <2>2 DEF Same, Fields
  <2>4. PICK l : pc' = [pc EXCEPT ![p] = l] /\ l = "copied"
    BY DEF CopyBegin, Goto, shared
  <2>5. pc[p] = "copy" /\ UNCHANGED <<ctl, nextTable>>
    BY DEF CopyBegin, shared
  <2>6. m.seq \in Nat /\ m.owner \in BOOLEAN
    BY <2>0, <2>3
  <2>7. loc' = [loc EXCEPT ![p] = m]
    BY <2>1, <2>2
  <2>8. Shape' /\ pc'[p] = l /\ loc'[p] = m /\ Others(p)
    BY <2>0, <2>3, <2>4, <2>5, <2>6, <2>7, OneStep
  <2>9. QED BY <2>3, <2>4, <2>5, <2>8
<1>0. Fields(loc[p]) /\ loc[p].seq \in Nat /\ loc[p].owner \in BOOLEAN /\ ctl.seq \in Nat
  BY DEF Shape
<1>2. OwnerInv'
  BY <1>0, <1>1 DEF OwnerInv, Owns, Offering, Finishing, Moving, Others
<1>3. SeqInv'
  BY <1>0, <1>1 DEF SeqInv, Helping, Others
<1>4. OfferInv'
  BY <1>0, <1>1 DEF OfferInv, OwnerInv, Owns, SeqInv, HasTable, Registered, Offering, Finishing, Moving, Helping, Others
<1>5. Helpers' = Helpers /\ \A q \in Helpers : loc'[q].seq = loc[q].seq
  BY <1>0, <1>1 DEF Helpers, Registered, Others, OwnerInv, Owns, Offering, Finishing, Moving
<1>6. CountInv'
  BY <1>1, <1>5, SameCount
<1>7. QED BY <1>1, <1>2, <1>3, <1>4, <1>6

\* A writer has the lock of its bucket, or finds a resize under way.
LEMMA LockRootControl ==
    ASSUME ControlInv, NEW p \in Procs, LockRoot(p) PROVE ControlInv'
<1> USE DEF ControlInv
<1>1. /\ Shape' /\ Others(p)
      /\ pc[p] = "lock" /\ pc'[p] \in {"newer", "help.table"}
      /\ loc'[p].owner = loc[p].owner
      /\ IF pc'[p] = "newer" THEN loc'[p].seq = loc[p].seq
         ELSE Odd(ctl.seq) /\ loc'[p].seq = ctl.seq
      /\ UNCHANGED <<ctl, nextTable>>
  <2>0. Fields(loc[p]) /\ loc[p].seq \in Nat /\ loc[p].owner \in BOOLEAN /\ ctl \in [seq : Nat, helpers : Nat]
    BY DEF Shape
  <2>1. pc[p] = "lock" /\ UNCHANGED <<ctl, nextTable>>
    BY DEF LockRoot
  <2>2. CASE Odd(ctl.seq)
    <3>1. loc' = [loc EXCEPT ![p] = [loc[p] EXCEPT !.seq = ctl.seq]] /\ pc' = [pc EXCEPT ![p] = "help.table"]
      BY <2>2 DEF LockRoot, Local, Goto
    <3>2. PICK m : m = [loc[p] EXCEPT !.seq = ctl.seq] OBVIOUS
    <3>3. Fields(m) /\ m.seq = ctl.seq /\ m.owner = loc[p].owner
      BY <2>0, <3>2 DEF Fields
    <3>4. loc' = [loc EXCEPT ![p] = m] BY <3>1, <3>2
    <3>5. Shape' /\ pc'[p] = "help.table" /\ loc'[p] = m /\ Others(p)
      BY <2>0, <2>1, <3>1, <3>3, <3>4, OneStep
    <3>6. QED BY <2>1, <2>2, <3>3, <3>5
  <2>3. CASE ~Odd(ctl.seq)
    BY <2>1, <2>3 DEF LockRoot, Goto, Shape, Others
  <2>4. QED BY <2>2, <2>3
<1>0. Fields(loc[p]) /\ loc[p].seq \in Nat /\ loc[p].owner \in BOOLEAN /\ ctl.seq \in Nat
  BY DEF Shape
<1>2. OwnerInv'
  BY <1>0, <1>1 DEF OwnerInv, Owns, Offering, Finishing, Moving, Others
<1>3. SeqInv'
  BY <1>0, <1>1 DEF SeqInv, Helping, Others
<1>4. OfferInv'
  BY <1>0, <1>1 DEF OfferInv, OwnerInv, Owns, SeqInv, HasTable, Registered, Offering, Finishing, Moving, Helping, Others
<1>5. Helpers' = Helpers /\ \A q \in Helpers : loc'[q].seq = loc[q].seq
  BY <1>0, <1>1 DEF Helpers, Registered, Others, OwnerInv, Owns, Offering, Finishing, Moving
<1>6. CountInv'
  BY <1>1, <1>5, SameCount
<1>7. QED BY <1>1, <1>2, <1>3, <1>4, <1>6

\* The owner makes the new table, or gives up.
LEMMA ResizeNewControl ==
    ASSUME ControlInv, NEW p \in Procs, ResizeNew(p) PROVE ControlInv'
<1> USE DEF ControlInv
<1>1. /\ Shape' /\ Others(p)
      /\ pc[p] = "resize.new" /\ pc'[p] \in {"resize.next", "resize.giveUp"}
      /\ loc'[p].seq = loc[p].seq /\ (pc'[p] = "resize.next" => loc'[p].owner)
      /\ (pc'[p] = "resize.giveUp" => loc'[p] = loc[p])
      /\ UNCHANGED <<ctl, nextTable>>
  <2>0. Fields(loc[p]) /\ loc[p].seq \in Nat /\ loc[p].owner \in BOOLEAN /\ ctl \in [seq : Nat, helpers : Nat]
    BY DEF Shape
  <2>1. pc[p] = "resize.new" /\ UNCHANGED <<ctl, nextTable>>
    BY DEF ResizeNew
  <2>2. \/ /\ pc' = [pc EXCEPT ![p] = "resize.next"]
           /\ loc' = [loc EXCEPT ![p] = [loc[p] EXCEPT !.old = table, !.new = Len(tables) + 1, !.owner = TRUE]]
        \/ pc' = [pc EXCEPT ![p] = "resize.giveUp"] /\ loc' = loc
    BY DEF ResizeNew, Local, Goto
  <2>3. CASE pc' = [pc EXCEPT ![p] = "resize.giveUp"] /\ loc' = loc
    BY <2>0, <2>1, <2>3 DEF Shape, Others
  <2>4. CASE /\ pc' = [pc EXCEPT ![p] = "resize.next"]
             /\ loc' = [loc EXCEPT ![p] = [loc[p] EXCEPT !.old = table, !.new = Len(tables) + 1, !.owner = TRUE]]
    <3>1. PICK m : m = [loc[p] EXCEPT !.old = table, !.new = Len(tables) + 1, !.owner = TRUE] OBVIOUS
    <3>2. Fields(m) /\ m.seq = loc[p].seq /\ m.owner = TRUE
      <4>1. Started(m, loc[p]) BY <2>0, <3>1, StartForm
      <4>2. QED BY <4>1 DEF Started
    <3>3. loc' = [loc EXCEPT ![p] = m] BY <2>4, <3>1
    <3>4. Shape' /\ pc'[p] = "resize.next" /\ loc'[p] = m /\ Others(p)
      BY <2>0, <2>1, <2>4, <3>2, <3>3, OneStep
    <3>5. pc'[p] # "resize.giveUp" BY <3>4
    <3>6. QED BY <2>1, <3>2, <3>4, <3>5
  <2>5. QED BY <2>2, <2>3, <2>4
<1>0. Fields(loc[p]) /\ loc[p].seq \in Nat /\ loc[p].owner \in BOOLEAN /\ ctl.seq \in Nat
  BY DEF Shape
<1>2. OwnerInv'
  BY <1>0, <1>1 DEF OwnerInv, Owns, Offering, Finishing, Moving, Others
<1>3. SeqInv'
  BY <1>0, <1>1 DEF SeqInv, Helping, Others
<1>4. OfferInv'
  BY <1>0, <1>1 DEF OfferInv, OwnerInv, Owns, SeqInv, HasTable, Registered, Offering, Finishing, Moving, Helping, Others
<1>5. Helpers' = Helpers /\ \A q \in Helpers : loc'[q].seq = loc[q].seq
  BY <1>0, <1>1 DEF Helpers, Registered, Others, OwnerInv, Owns, Offering, Finishing, Moving
<1>6. CountInv'
  BY <1>1, <1>5, SameCount
<1>7. QED BY <1>1, <1>2, <1>3, <1>4, <1>6

\* A range of buckets is claimed, or there is none left.
LEMMA ClaimControl ==
    ASSUME ControlInv, NEW p \in Procs, Claim(p) PROVE ControlInv'
<1> USE DEF ControlInv
<1>1. /\ Shape' /\ Others(p)
      /\ pc[p] = "claim" /\ pc'[p] \in {"copy", "resize.wait", "help.leave"}
      /\ loc'[p].seq = loc[p].seq /\ loc'[p].owner = loc[p].owner
      /\ (pc'[p] = "resize.wait" => loc[p].owner) /\ (pc'[p] = "help.leave" => ~loc[p].owner)
      /\ UNCHANGED <<ctl, nextTable>>
  <2>0. Fields(loc[p]) /\ loc[p].seq \in Nat /\ loc[p].owner \in BOOLEAN /\ ctl \in [seq : Nat, helpers : Nat]
    BY DEF Shape
  <2>1. pc[p] = "claim" /\ UNCHANGED <<ctl, nextTable>>
    BY DEF Claim
  <2>2. CASE resizeIdx >= BaseLen(p)
    BY <2>1, <2>2 DEF Claim, Goto, Shape, Others
  <2>3. CASE ~(resizeIdx >= BaseLen(p))
    <3>1. PICK v : /\ loc' = [loc EXCEPT ![p] = [loc[p] EXCEPT !.i = resizeIdx, !.src = resizeIdx, !.end = v]]
                   /\ pc' = [pc EXCEPT ![p] = "copy"]
      BY <2>3 DEF Claim, Local, Goto
    <3>2. PICK m : m = [loc[p] EXCEPT !.i = resizeIdx, !.src = resizeIdx, !.end = v] OBVIOUS
    <3>3. Fields(m) /\ m.seq = loc[p].seq /\ m.owner = loc[p].owner
      <4>1. Same(m, loc[p]) BY <2>0, <3>2, RangeForm
      <4>2. QED BY <4>1 DEF Same
    <3>4. loc' = [loc EXCEPT ![p] = m] BY <3>1, <3>2
    <3>5. Shape' /\ pc'[p] = "copy" /\ loc'[p] = m /\ Others(p)
      BY <2>0, <2>1, <3>1, <3>3, <3>4, OneStep
    <3>6. QED BY <2>1, <3>3, <3>5
  <2>4. QED BY <2>2, <2>3
<1>0. Fields(loc[p]) /\ loc[p].seq \in Nat /\ loc[p].owner \in BOOLEAN /\ ctl.seq \in Nat
  BY DEF Shape
<1>2. OwnerInv'
  BY <1>0, <1>1 DEF OwnerInv, Owns, Offering, Finishing, Moving, Others
<1>3. SeqInv'
  BY <1>0, <1>1 DEF SeqInv, Helping, Others
<1>4. OfferInv'
  BY <1>0, <1>1 DEF OfferInv, OwnerInv, Owns, SeqInv, HasTable, Registered, Offering, Finishing, Moving, Helping, Others
<1>5. Helpers' = Helpers /\ \A q \in Helpers : loc'[q].seq = loc[q].seq
  BY <1>0, <1>1 DEF Helpers, Registered, Others, OwnerInv, Owns, Offering, Finishing, Moving
<1>6. CountInv'
  BY <1>1, <1>5, SameCount
<1>7. QED BY <1>1, <1>2, <1>3, <1>4, <1>6

\* A bucket is moved.
LEMMA CopyEndControl ==
    ASSUME ControlInv, NEW p \in Procs, CopyEnd(p) PROVE ControlInv'
<1> USE DEF ControlInv
<1>1. /\ Shape' /\ Others(p)
      /\ pc[p] = "copied" /\ pc'[p] \in {"copy", "claim"}
      /\ loc'[p].seq = loc[p].seq /\ loc'[p].owner = loc[p].owner
      /\ UNCHANGED <<ctl, nextTable>>
  <2>0. Fields(loc[p]) /\ loc[p].seq \in Nat /\ loc[p].owner \in BOOLEAN /\ ctl \in [seq : Nat, helpers : Nat]
    BY DEF Shape
  <2>1. pc[p] = "copied" /\ UNCHANGED <<ctl, nextTable>>
    BY Zenon DEF CopyEnd
  <2>2. PICK l : pc' = [pc EXCEPT ![p] = l] /\ l \in {"copy", "claim"}
    BY Zenon DEF CopyEnd, Goto
  <2>3. \/ \E v : loc' = [loc EXCEPT ![p] = [loc[p] EXCEPT !.src = v, !.copy = <<>>]]
        \/ \E v : loc' = [loc EXCEPT ![p] = [loc[p] EXCEPT !.i = v, !.src = v, !.copy = <<>>]]
        \/ loc' = [loc EXCEPT ![p] = [loc[p] EXCEPT !.copy = <<>>]]
    BY Zenon DEF CopyEnd, Local
  <2>4. PICK m : loc' = [loc EXCEPT ![p] = m] /\ Same(m, loc[p])
    <3>1. Same([loc[p] EXCEPT !.copy = <<>>], loc[p])
      BY <2>0 DEF Same, Fields
    <3>2. \A v : /\ Same([loc[p] EXCEPT !.src = v, !.copy = <<>>], loc[p])
                 /\ Same([loc[p] EXCEPT !.i = v, !.src = v, !.copy = <<>>], loc[p])
      BY <2>0, NextForm, AgainForm
    <3>3. QED BY <2>3, <3>1, <3>2
  <2>5. Fields(m) /\ m.seq = loc[p].seq /\ m.owner = loc[p].owner
    BY <2>4 DEF Same
  <2>6. Shape' /\ pc'[p] = l /\ loc'[p] = m /\ Others(p)
    BY <2>0, <2>1, <2>2, <2>4, <2>5, OneStep
  <2>7. QED BY <2>1, <2>2, <2>5, <2>6
<1>0. Fields(loc[p]) /\ loc[p].seq \in Nat /\ loc[p].owner \in BOOLEAN /\ ctl.seq \in Nat
  BY DEF Shape
<1>2. OwnerInv'
  BY <1>0, <1>1 DEF OwnerInv, Owns, Offering, Finishing, Moving, Others
<1>3. SeqInv'
  BY <1>0, <1>1 DEF SeqInv, Helping, Others
<1>4. OfferInv'
  BY <1>0, <1>1 DEF OfferInv, OwnerInv, Owns, SeqInv, HasTable, Registered, Offering, Finishing, Moving, Helping, Others
<1>5. Helpers' = Helpers /\ \A q \in Helpers : loc'[q].seq = loc[q].seq
  BY <1>0, <1>1 DEF Helpers, Registered, Others, OwnerInv, Owns, Offering, Finishing, Moving
<1>6. CountInv'
  BY <1>1, <1>5, SameCount
<1>7. QED BY <1>1, <1>2, <1>3, <1>4, <1>6

\* With an even sequence number, and when the count is zero, there is no helper.
LEMMA NoHelpers ==
    ASSUME Shape, CountInv, ~Odd(ctl.seq) \/ ctl.helpers = 0
    PROVE  Helpers = {} /\ ctl.helpers = 0
<1>1. CASE ~Odd(ctl.seq)
  <2>1. Helpers = {}
    BY <1>1 DEF CountInv, HelpersCounted, Helpers
  <2>2. QED BY <2>1, FS_EmptySet DEF CountInv, HelpersCounted, Helpers
<1>2. CASE ctl.helpers = 0
  BY <1>2, FS_EmptySet DEF CountInv, HelpersCounted, Helpers
<1>3. QED BY <1>1, <1>2

\* A step after which there is no helper, and none is counted.
LEMMA EmptyCount ==
    ASSUME Helpers' = {}, ctl'.helpers = 0 PROVE CountInv'
<1>1. IsFiniteSet(Helpers') /\ Cardinality(Helpers') = 0
  BY FS_EmptySet
<1>2. QED BY <1>1 DEF CountInv, HelpersCounted, Helpers

\* One goroutine becomes the owner of a resize; the others will help it.
LEMMA ResizeCasControl ==
    ASSUME ControlInv, NEW p \in Procs, ResizeCas(p) PROVE ControlInv'
<1> USE DEF ControlInv
<1>0. Fields(loc[p]) /\ loc[p].seq \in Nat /\ loc[p].owner \in BOOLEAN /\ ctl \in [seq : Nat, helpers : Nat]
  BY DEF Shape
<1>1. CASE ctl = [seq |-> loc[p].seq, helpers |-> 0]
  <2>1. /\ Shape' /\ Others(p)
        /\ pc[p] = "resize.cas" /\ pc'[p] = "resize.new" /\ loc' = loc
        /\ ctl.seq = loc[p].seq /\ ctl'.seq = ctl.seq + 1 /\ ctl'.helpers = 0 /\ nextTable' = nextTable
    BY <1>0, <1>1 DEF ResizeCas, Goto, Shape, Others
  <2>2. ~Odd(ctl.seq) /\ Odd(ctl'.seq)
    BY <1>0, <2>1 DEF SeqInv, Odd
  <2>3. \A q \in Procs : loc[q].seq \in Nat /\ loc[q].seq <= ctl.seq /\ ~Owns(q) /\ ~Registered(q)
    BY <2>2 DEF Shape, SeqInv, OwnerInv, CountInv, HelpersCounted
  <2>4. OwnerInv'
    BY <1>0, <2>1, <2>2, <2>3 DEF OwnerInv, Owns, Offering, Finishing, Moving, Others
  <2>5. SeqInv'
    BY <1>0, <2>1, <2>2, <2>3 DEF SeqInv, Helping, Others
  <2>6. OfferInv'
    BY <1>0, <2>1, <2>2, <2>3 DEF OfferInv, Owns, HasTable, Registered, Offering, Finishing, Moving, Others
  <2>7. Helpers' = {}
    BY <2>1, <2>3 DEF Helpers, Registered, Others
  <2>8. CountInv'
    BY <2>1, <2>7, EmptyCount
  <2>9. QED BY <2>1, <2>4, <2>5, <2>6, <2>8
<1>2. CASE ctl # [seq |-> loc[p].seq, helpers |-> 0]
  <2>1. /\ Shape' /\ Others(p)
        /\ pc[p] = "resize.cas" /\ pc'[p] = "help.table" /\ loc' = loc /\ UNCHANGED <<ctl, nextTable>>
    BY <1>0, <1>2 DEF ResizeCas, Goto, Shape, Others
  <2>2. loc[p].seq < ctl.seq
    <3>1. loc[p].seq <= ctl.seq /\ ~Odd(loc[p].seq)
      BY <2>1 DEF SeqInv
    <3>2. ASSUME loc[p].seq = ctl.seq PROVE FALSE
      <4>1. ctl.helpers = 0
        BY <3>1, <3>2, NoHelpers
      <4>2. QED BY <1>0, <1>2, <3>2, <4>1
    <3>3. QED BY <1>0, <3>1, <3>2
  <2>3. OwnerInv'
    BY <1>0, <2>1 DEF OwnerInv, Owns, Offering, Finishing, Moving, Others
  <2>4. SeqInv'
    BY <1>0, <2>1, <2>2 DEF SeqInv, Helping, Others
  <2>5. OfferInv'
    BY <1>0, <2>1 DEF OfferInv, HasTable, Registered, Offering, Others
  <2>6. Helpers' = Helpers /\ \A q \in Helpers : loc'[q].seq = loc[q].seq
    BY <2>1 DEF Helpers, Registered, Others
  <2>7. CountInv'
    BY <2>1, <2>6, SameCount
  <2>8. QED BY <2>1, <2>3, <2>4, <2>5, <2>7
<1>3. QED BY <1>1, <1>2

\* A resize ends, with the sequence number even again.
LEMMA EndControl ==
    ASSUME ControlInv, NEW p \in Procs, ctl'.seq = ctl.seq + 1, ctl' \in [seq : Nat, helpers : Nat],
           Owns(p), Broadcast(p, AfterResize(p)), UNCHANGED <<loc, nextTable>>, nextTable = NoTable,
           Helpers = {}, ctl'.helpers = 0
    PROVE  ControlInv'
<1> USE DEF ControlInv
<1>1. /\ pc'[p] \in {"table", "return"}
      /\ \A q \in Procs \ {p} : pc'[q] = pc[q] \/ (pc[q] = "sleep" /\ pc'[q] = "wait")
  BY DEF Broadcast, AfterResize
<1>2. /\ \A q \in Procs : loc[q].seq \in Nat /\ loc[q].seq <= ctl.seq /\ loc[q].owner \in BOOLEAN
      /\ ctl.seq \in Nat /\ Odd(ctl.seq) /\ ~Odd(ctl'.seq)
  BY DEF Shape, SeqInv, OwnerInv, Odd
<1>3. Shape'
  BY DEF Shape, Broadcast
<1>4. \A q \in Procs : ~Owns(q)'
  BY <1>1, <1>2 DEF OwnerInv, Owns, Offering, Finishing, Moving
<1>5. OwnerInv'
  BY <1>1, <1>2, <1>4 DEF OwnerInv, Owns, Offering, Finishing, Moving
<1>6. SeqInv'
  BY <1>1, <1>2 DEF SeqInv, Helping
<1>7. OfferInv'
  BY <1>4 DEF OfferInv, Owns
<1>8. Helpers' = {}
  BY <1>1 DEF Helpers, Registered
<1>9. CountInv'
  BY <1>8, EmptyCount
<1>10. QED BY <1>3, <1>5, <1>6, <1>7, <1>9

\* There is nothing to shrink.
LEMMA ResizeGiveUpControl ==
    ASSUME ControlInv, NEW p \in Procs, ResizeGiveUp(p) PROVE ControlInv'
<1> USE DEF ControlInv
<1>1. Owns(p) /\ nextTable = NoTable /\ Helpers = {}
  BY DEF ResizeGiveUp, Owns, Offering, OfferInv, Helpers
<1>2. loc[p].seq \in Nat /\ ctl.seq = loc[p].seq + 1
  BY <1>1 DEF Shape, OwnerInv
<1>3. /\ ctl' = [seq |-> loc[p].seq + 2, helpers |-> 0]
      /\ Broadcast(p, AfterResize(p)) /\ UNCHANGED <<loc, nextTable>>
  BY DEF ResizeGiveUp
<1>4. ctl'.seq = ctl.seq + 1 /\ ctl'.helpers = 0 /\ ctl' \in [seq : Nat, helpers : Nat]
  BY <1>2, <1>3
<1>5. QED BY <1>1, <1>3, <1>4, EndControl

\* The owner makes the sequence number even again, once no helper is left.
LEMMA ResizeEndControl ==
    ASSUME ControlInv, NEW p \in Procs, ResizeEnd(p) PROVE ControlInv'
<1> USE DEF ControlInv
<1>1. Owns(p) /\ nextTable = NoTable /\ ctl.helpers = 0
  BY DEF ResizeEnd, Owns, Finishing, OfferInv
<1>2. loc[p].seq \in Nat /\ ctl.seq = loc[p].seq + 1
  BY <1>1 DEF Shape, OwnerInv
<1>3. /\ ctl' = [seq |-> loc[p].seq + 2, helpers |-> 0]
      /\ Broadcast(p, AfterResize(p)) /\ UNCHANGED <<loc, nextTable>>
  BY DEF ResizeEnd
<1>4. ctl'.seq = ctl.seq + 1 /\ ctl'.helpers = 0 /\ ctl' \in [seq : Nat, helpers : Nat]
  BY <1>2, <1>3
<1>5. Helpers = {}
  BY <1>1, NoHelpers
<1>6. QED BY <1>1, <1>3, <1>4, <1>5, EndControl

\* A helper registers, with a sequence number that is still current.
LEMMA HelpJoinControl ==
    ASSUME ControlInv, NEW p \in Procs, HelpJoin(p) PROVE ControlInv'
<1> USE DEF ControlInv
<1>0. /\ Fields(loc[p]) /\ loc[p].seq \in Nat /\ loc[p].owner \in BOOLEAN
      /\ ctl \in [seq : Nat, helpers : Nat] /\ pc[p] = "help.join" /\ ~loc[p].owner
  BY DEF Shape, HelpJoin, OwnerInv, Owns, Offering, Finishing, Moving
<1>1. CASE ctl.seq # loc[p].seq \/ ctl.helpers >= MaxHelpers
  <2>1. Shape' /\ Others(p) /\ pc'[p] = "wait" /\ loc' = loc /\ UNCHANGED <<ctl, nextTable>>
    BY <1>0, <1>1 DEF HelpJoin, Goto, Shape, Others
  <2>2. OwnerInv'
    BY <1>0, <2>1 DEF OwnerInv, Owns, Offering, Finishing, Moving, Others
  <2>3. SeqInv'
    BY <1>0, <2>1 DEF SeqInv, Helping, Others
  <2>4. OfferInv'
    BY <1>0, <2>1 DEF OfferInv, HasTable, Registered, Offering, Others
  <2>5. Helpers' = Helpers /\ \A q \in Helpers : loc'[q].seq = loc[q].seq
    BY <1>0, <2>1 DEF Helpers, Registered, Others
  <2>6. CountInv'
    BY <2>1, <2>5, SameCount
  <2>7. QED BY <2>1, <2>2, <2>3, <2>4, <2>6
<1>2. CASE ~(ctl.seq # loc[p].seq \/ ctl.helpers >= MaxHelpers)
  <2>1. /\ Shape' /\ Others(p) /\ pc'[p] = "claim" /\ loc' = loc /\ nextTable' = nextTable
        /\ ctl.seq = loc[p].seq /\ ctl'.seq = ctl.seq /\ ctl'.helpers = ctl.helpers + 1
    BY <1>0, <1>2 DEF HelpJoin, Goto, Shape, Others
  <2>2. Odd(ctl.seq)
    BY <1>0, <2>1 DEF SeqInv, Helping
  <2>3. \A q \in Procs : pc[q] \notin Offering
    BY <1>0, <2>1 DEF OfferInv, HasTable
  <2>4. OwnerInv'
    BY <1>0, <2>1 DEF OwnerInv, Owns, Offering, Finishing, Moving, Others
  <2>5. SeqInv'
    BY <1>0, <2>1 DEF SeqInv, Helping, Others
  <2>6. OfferInv'
    BY <1>0, <2>1, <2>3 DEF OfferInv, Offering, Others
  <2>7. Helpers' = Helpers \cup {p} /\ p \notin Helpers
    BY <1>0, <2>1 DEF Helpers, Registered, Others
  <2>8. IsFiniteSet(Helpers') /\ Cardinality(Helpers') = Cardinality(Helpers) + 1
    BY <2>7, FS_AddElement DEF CountInv
  <2>9. CountInv'
    BY <2>1, <2>2, <2>7, <2>8 DEF CountInv, HelpersCounted, Helpers
  <2>10. QED BY <2>1, <2>4, <2>5, <2>6, <2>9
<1>3. QED BY <1>1, <1>2

\* A helper that finds nothing left to claim signs off.
LEMMA HelpLeaveControl ==
    ASSUME ControlInv, NEW p \in Procs, HelpLeave(p) PROVE ControlInv'
<1> USE DEF ControlInv
<1>0. /\ Fields(loc[p]) /\ loc[p].seq \in Nat /\ loc[p].owner \in BOOLEAN
      /\ ctl \in [seq : Nat, helpers : Nat] /\ pc[p] = "help.leave" /\ ~loc[p].owner
  BY DEF Shape, HelpLeave, OwnerInv, Owns, Offering, Finishing, Moving
<1>1. p \in Helpers
  BY <1>0 DEF Helpers, Registered
<1>2. /\ IsFiniteSet(Helpers \ {p}) /\ Cardinality(Helpers \ {p}) = ctl.helpers - 1
      /\ ctl.helpers - 1 \in Nat
  <2>1. IsFiniteSet(Helpers) /\ Cardinality(Helpers) = ctl.helpers
    BY DEF CountInv, HelpersCounted, Helpers
  <2>2. IsFiniteSet(Helpers \ {p}) /\ Cardinality(Helpers \ {p}) = Cardinality(Helpers) - 1
    BY <1>1, <2>1, FS_RemoveElement
  <2>3. Cardinality(Helpers \ {p}) \in Nat
    BY <2>2, FS_CardinalityType
  <2>4. QED BY <2>1, <2>2, <2>3
<1>3. /\ pc'[p] = "wait" /\ loc' = loc /\ nextTable' = nextTable /\ Others(p)
      /\ ctl'.seq = ctl.seq /\ ctl'.helpers = ctl.helpers - 1 /\ ctl' \in [seq : Nat, helpers : Nat]
  BY <1>0, <1>2 DEF HelpLeave, Goto, Shape, Others
<1>4. Shape'
  BY <1>3 DEF HelpLeave, Goto, Shape
<1>5. OwnerInv'
  BY <1>0, <1>3 DEF OwnerInv, Owns, Offering, Finishing, Moving, Others
<1>6. SeqInv'
  BY <1>0, <1>3 DEF SeqInv, Helping, Others
<1>7. OfferInv'
  BY <1>0, <1>3 DEF OfferInv, HasTable, Registered, Offering, Others
<1>8. Helpers' = Helpers \ {p}
  BY <1>0, <1>3 DEF Helpers, Registered, Others
<1>9. CountInv'
  BY <1>2, <1>3, <1>8 DEF CountInv, HelpersCounted, Helpers, Registered, Others
<1>10. QED BY <1>4, <1>5, <1>6, <1>7, <1>9

\* A step that has nothing to do with a resize.
LEMMA AwayControl ==
    ASSUME ControlInv, Shape', NEW p \in Procs, Away(p) PROVE ControlInv'
<1> USE DEF ControlInv
<1>0. /\ \A q \in Procs : loc[q].seq \in Nat /\ loc[q].owner \in BOOLEAN
      /\ ctl.seq \in Nat /\ loc'[p].seq \in Nat /\ loc'[p].owner \in BOOLEAN
  BY DEF Shape
<1>1. OwnerInv'
  BY <1>0 DEF Away, OwnerInv, Owns, Offering, Finishing, Moving
<1>2. SeqInv'
  BY <1>0 DEF Away, SeqInv, Helping
<1>3. OfferInv'
  BY <1>0 DEF Away, OfferInv, HasTable, Registered, Offering, Finishing, Moving, Helping
<1>4. Helpers' = Helpers /\ \A q \in Helpers : loc'[q].seq = loc[q].seq
  BY DEF Away, Helpers, Registered, Moving
<1>5. CountInv'
  BY <1>4, SameCount DEF Away
<1>6. QED BY <1>1, <1>2, <1>3, <1>5

\* Every step preserves the invariant of the resize protocol.
LEMMA ControlStep == ASSUME ControlInv, [Next]_vars PROVE ControlInv'
<1>1. ASSUME NEW p \in Procs, Work(p) PROVE ControlInv'
  <2>1. CASE LookupSteps(p)
    BY <2>1, AwayStep, AwayControl DEF LookupSteps, ControlInv
  <2>2. CASE WriteSteps(p)
    BY <2>2, AwayStep, AwayControl, LockRootControl DEF WriteSteps, ControlInv
  <2>3. CASE ResizeSteps(p)
    <3>1. CASE ResizeFast(p)
      BY <3>1, AwayStep, AwayControl DEF ControlInv
    <3>2. CASE ~ResizeFast(p)
      BY <2>3, <3>2, ResizeSeqControl, ResizeCasControl, ResizeNewControl, ResizeGiveUpControl,
         ResizeNextControl, ResizeWaitControl, ResizePublishControl, ResizeClearControl,
         ResizeMuControl, ResizeEndControl DEF ResizeSteps
    <3>3. QED BY <3>1, <3>2
  <2>4. CASE HelpSteps(p)
    <3>1. CASE WaitForResize(p)
      BY <3>1, AwayStep, AwayControl DEF ControlInv
    <3>2. CASE ~WaitForResize(p)
      BY <2>4, <3>2, ClaimControl, CopyBeginControl, CopyEndControl, HelpTableControl,
         HelpNextControl, HelpCheckControl, HelpJoinControl, HelpLeaveControl DEF HelpSteps
    <3>3. QED BY <3>1, <3>2
  <2>5. QED BY <1>1, <2>1, <2>2, <2>3, <2>4 DEF Work
<1>2. ASSUME NEW p \in Procs, NEW c \in Abs!Invocations, Invoke(p, c) PROVE ControlInv'
  BY <1>2, AwayStep, AwayControl DEF ControlInv
<1>3. CASE UNCHANGED vars
  <2>1. UNCHANGED <<pc, loc, ctl, nextTable>>
    BY <1>3 DEF vars, shared
  <2>2. Shape' /\ OwnerInv' /\ SeqInv' /\ OfferInv'
    BY <2>1 DEF ControlInv, Shape, OwnerInv, Owns, SeqInv, OfferInv, HasTable, Registered
  <2>3. CountInv'
    BY <2>1 DEF ControlInv, CountInv, HelpersCounted, Helpers, Registered
  <2>4. QED BY <2>2, <2>3 DEF ControlInv
<1>4. QED BY <1>1, <1>2, <1>3 DEF Next

\* It holds initially.
LEMMA ControlInit == ASSUME Init PROVE ControlInv
<1> USE DEF Init, InitRest
<1>1. Fields(NoLocals) /\ NoLocals.seq = 0 /\ NoLocals.owner = FALSE
  BY DEF Fields, NoLocals
<1>2. Shape
  <2>1. NoLocals.owner \in BOOLEAN
    BY <1>1, Zenon
  <2>2. \A p \in Procs : loc[p] = NoLocals
    OBVIOUS
  <2>3. QED BY <1>1, <2>1, <2>2 DEF Shape
<1>3. OwnerInv /\ SeqInv /\ OfferInv
  BY <1>1 DEF OwnerInv, Owns, SeqInv, OfferInv, Offering, Finishing, Moving, Helping
<1>4. Helpers = {} /\ ctl.helpers = 0
  BY DEF Helpers, Registered
<1>5. CountInv
  BY <1>4, FS_EmptySet DEF CountInv, HelpersCounted, Helpers
<1>6. QED BY <1>2, <1>3, <1>5 DEF ControlInv

\* For any number of goroutines, keys and resizes: resizeCtl counts the goroutines that move
\* buckets for the owner of the resize under way, and nobody else moves buckets.  A helper
\* that registers after the owner has looked (map.go:848-851) is still waited for.
THEOREM HelpersAlwaysCounted == Spec => []HelpersCounted
<1>1. Init => ControlInv BY ControlInit
<1>2. ControlInv /\ [Next]_vars => ControlInv' BY ControlStep
<1>3. ControlInv => HelpersCounted BY DEF ControlInv, CountInv
<1>4. QED BY <1>1, <1>2, <1>3, PTL DEF Spec

\* Division with remainder.
LEMMA DivMod ==
    ASSUME NEW x \in Int, NEW n \in Nat \ {0}
    PROVE  /\ x \div n \in Int /\ x % n \in Int /\ 0 <= x % n /\ x % n < n
           /\ x = n * (x \div n) + (x % n)
OBVIOUS

\* The quotient of natural numbers.
LEMMA DivNat == ASSUME NEW x \in Nat, NEW n \in Nat \ {0} PROVE x \div n \in Nat
OBVIOUS

\* A multiple of n that lies between -n and n is 0.
LEMMA MulZero ==
    ASSUME NEW n \in Nat \ {0}, NEW q \in Int, n * q < n, n * q > -n PROVE q = 0
OBVIOUS

\* The remainder is the only number below n that differs from x by a multiple of n.
LEMMA ModUnique ==
    ASSUME NEW x \in Int, NEW n \in Nat \ {0}, NEW q \in Int, NEW r \in 0..n - 1, x = n * q + r
    PROVE  x % n = r
<1>1. /\ x \div n \in Int /\ x % n \in Int /\ 0 <= x % n /\ x % n < n
      /\ x = n * (x \div n) + (x % n)
  BY DivMod
<1>2. PICK d \in Int : d = (x \div n) - q BY <1>1
<1>3. n * (x \div n) = n * q + n * d BY <1>1, <1>2
<1>4. n * d = r - (x % n) BY <1>1, <1>3
<1>5. d = 0 BY <1>1, <1>4, MulZero
<1>6. QED BY <1>1, <1>4, <1>5

\* The remainder of a number below n.
LEMMA ModSmall == ASSUME NEW n \in Nat \ {0}, NEW x \in 0..n - 1 PROVE x % n = x
BY ModUnique

\* Adding n changes no remainder.
LEMMA ModAdd == ASSUME NEW n \in Nat \ {0}, NEW x \in Nat PROVE (x + n) % n = x % n
<1>1. /\ x \div n \in Int /\ x % n \in 0..n - 1 /\ x = n * (x \div n) + (x % n)
  BY DivMod
<1>2. PICK q \in Int : q = (x \div n) + 1 BY <1>1
<1>3. x + n = n * q + (x % n) /\ x + n \in Int BY <1>1, <1>2
<1>4. PICK r \in 0..n - 1 : r = x % n BY <1>1
<1>5. QED BY <1>3, <1>4, ModUnique

\* The remainder is not larger than the number.
LEMMA ModLe == ASSUME NEW n \in Nat \ {0}, NEW x \in Nat PROVE x % n <= x /\ x % n \in 0..n - 1
<1>1. /\ x \div n \in Nat /\ x % n \in 0..n - 1 /\ x = n * (x \div n) + (x % n)
  BY DivMod, DivNat
<1>2. n * (x \div n) >= 0 BY <1>1
<1>3. QED BY <1>1, <1>2

\* Quotient and remainder by name.
LEMMA DivPick ==
    ASSUME NEW x \in Int, NEW n \in Nat \ {0}
    PROVE  \E q \in Int : \E r \in 0..n - 1 : x = n * q + r /\ x % n = r
<1>1. /\ x \div n \in Int /\ x % n \in 0..n - 1 /\ x = n * (x \div n) + (x % n)
  BY DivMod
<1>2. QED BY <1>1, Zenon

\* Two numbers with the same remainder that differ by less than n are equal.
LEMMA ModNear ==
    ASSUME NEW n \in Nat \ {0}, NEW x \in Nat, NEW y \in Nat, x % n = y % n, x <= y, y < x + n
    PROVE  x = y
<1>0. x \in Int /\ y \in Int OBVIOUS
<1>1. PICK a \in Int, r \in 0..n - 1 : x = n * a + r /\ x % n = r BY <1>0, DivPick, Zenon
<1>2. PICK b \in Int, s \in 0..n - 1 : y = n * b + s /\ y % n = s BY <1>0, DivPick, Zenon
<1>3. r = s BY <1>1, <1>2
<1>4. PICK d \in Int : d = b - a OBVIOUS
<1>5. n * b = n * a + n * d BY <1>4
<1>6. PICK u \in Int, v \in Int, w \in Int : u = n * a /\ v = n * b /\ w = n * d OBVIOUS
<1>7. x = u + r /\ y = v + r /\ v = u + w BY <1>1, <1>2, <1>3, <1>5, <1>6
<1>8. w = y - x BY <1>7
<1>9. d = 0 BY <1>6, <1>8, MulZero
<1>10. w = 0 BY <1>6, <1>9
<1>11. QED BY <1>8, <1>10

\* The bucket of a key in a table of half the size.
LEMMA ModHalf == ASSUME NEW n \in Nat \ {0}, NEW x \in Nat PROVE (x % (2 * n)) % n = x % n
<1>1. PICK m \in Nat \ {0} : m = 2 * n OBVIOUS
<1>0. x \in Int OBVIOUS
<1>2. PICK q \in Int, r \in 0..m - 1 : x = m * q + r /\ x % m = r BY <1>0, DivPick, Zenon
<1>a. r \in Int OBVIOUS
<1>3. PICK a \in Int, t \in 0..n - 1 : r = n * a + t /\ r % n = t BY <1>a, DivPick, Zenon
<1>4. PICK s \in Int : s = 2 * q + a OBVIOUS
<1>5. m * q = n * (2 * q) BY <1>1
<1>6. n * s = n * (2 * q) + n * a BY <1>4
<1>7. x = n * s + t BY <1>2, <1>3, <1>5, <1>6
<1>8. x % n = t BY <1>7, ModUnique
<1>9. QED BY <1>1, <1>2, <1>3, <1>8

-----------------------------------------------------------------------------
(* The invariant of the tables.                                             *)

\* A set of numbers that is not empty has a least one.
LEMMA LeastNat ==
    ASSUME NEW U \in SUBSET Nat, U # {}
    PROVE  \E x \in U : \A y \in U : x <= y
<1> DEFINE R == {ss \in Nat \X Nat : ss[1] < ss[2]}
<1>1. OpToRel(<, Nat) = R
  BY DEF OpToRel
<1>2. IsWellFoundedOn(R, Nat)
  BY <1>1, NatLessThanWellFounded
<1>3. PICK x \in U : \A y \in U : ~(<<y, x>> \in R)
  <2> HIDE DEF R
  <2> QED BY <1>2, WFMin
<1>4. ASSUME NEW y \in U PROVE x <= y
  <2>1. ~(y < x) BY <1>3
  <2>2. QED BY <2>1
<1>5. QED BY <1>4

\* Min is an element of the set.
LEMMA MinIn ==
    ASSUME NEW U \in SUBSET Nat, U # {}
    PROVE  Min(U) \in U /\ \A y \in U : Min(U) <= y
<1>1. PICK x \in U : \A y \in U : x <= y BY LeastNat
<1>2. QED BY <1>1 DEF Min

\* The length of a table from the domain of its chains.
LEMMA LenFromDomain ==
    ASSUME NEW n \in Nat \ {0}, NEW t, DOMAIN tables[t].chains = 0..n - 1 PROVE TableLen(t) = n
<1>1. Cardinality(0..n - 1) = n BY FS_Interval
<1>2. QED BY <1>1 DEF TableLen

\* The first table has minTableLen buckets.
LEMMA LenMin == LenOK(MinLen) /\ MinLen \in Nat \ {0}
BY XsyncAssumption DEF LenOK

\* A table can be doubled.
LEMMA LenDouble == ASSUME NEW n \in Nat, LenOK(n) PROVE LenOK(2 * n)
BY DEF LenOK

\* A table that is longer than minTableLen can be halved.
LEMMA LenHalf ==
    ASSUME NEW n \in Nat, LenOK(n), n > MinLen
    PROVE  \E m \in Nat \ {0} : n = 2 * m /\ n \div 2 = m /\ LenOK(m)
<1> DEFINE S == {m \in Nat : m > 0 /\ LenOK(m) /\ (m = MinLen \/ \E j \in Nat : m = 2 * j /\ LenOK(j))}
<1>1. MinLen \in S BY LenMin
<1>2. ASSUME NEW m \in S PROVE 2 * m \in S
  BY LenDouble
<1>3. n \in S
  <2> HIDE DEF S
  <2>1. S \in SUBSET Nat BY DEF S
  <2>2. QED BY <1>1, <1>2, <2>1 DEF LenOK
<1>4. PICK j \in Nat : n = 2 * j /\ LenOK(j)
  BY <1>3, LenMin
<1>5. j # 0 /\ n \div 2 = j BY <1>3, <1>4
<1>6. QED BY <1>4, <1>5

\* What TabsOK says of one table.
LEMMA TableFacts ==
    ASSUME TabsOK, NEW t \in 1..Count
    PROVE  /\ Count \in Nat \ {0} /\ DOMAIN tables = 1..Count
           /\ TableLen(t) \in Nat \ {0} /\ LenOK(TableLen(t))
           /\ tables[t] = [chains |-> tables[t].chains, mu |-> tables[t].mu, size |-> tables[t].size]
           /\ tables[t].chains \in [0..TableLen(t) - 1 -> Seq(Slots)]
           /\ tables[t].mu \in [0..TableLen(t) - 1 -> Procs \cup {Nobody}]
           /\ tables[t].size \in Int
           /\ DOMAIN tables[t].chains = 0..TableLen(t) - 1
           /\ \A b \in 0..TableLen(t) - 1 :
                 /\ C(t, b) \in Seq(Slots) /\ DOMAIN C(t, b) = 1..Len(C(t, b))
                 /\ Len(C(t, b)) \in Nat /\ \A i \in DOMAIN C(t, b) : C(t, b)[i] \in Slots
<1>1. TableLen(t) \in Nat \ {0} /\ LenOK(TableLen(t)) /\ tables[t] \in TablesOf(TableLen(t))
      /\ tables \in Seq(UNION {TablesOf(n) : n \in Nat})
  BY DEF TabsOK
<1>2. Count \in Nat /\ DOMAIN tables = 1..Count BY <1>1 DEF Count
<1>3. PICK m \in Nat \ {0} : m = TableLen(t) BY <1>1
<1>4. /\ tables[t] = [chains |-> tables[t].chains, mu |-> tables[t].mu, size |-> tables[t].size]
      /\ tables[t].chains \in [0..m - 1 -> Seq(Slots)]
      /\ tables[t].mu \in [0..m - 1 -> Procs \cup {Nobody}]
      /\ tables[t].size \in Int
  BY <1>1, <1>3 DEF TablesOf
<1>5. ASSUME NEW b \in 0..m - 1
      PROVE  /\ C(t, b) \in Seq(Slots) /\ DOMAIN C(t, b) = 1..Len(C(t, b))
             /\ Len(C(t, b)) \in Nat /\ \A i \in DOMAIN C(t, b) : C(t, b)[i] \in Slots
  <2>1. C(t, b) \in Seq(Slots) BY <1>4 DEF C
  <2>2. QED BY <2>1
<1>6. DOMAIN tables[t].chains = 0..m - 1 BY <1>4
<1>7. QED BY <1>1, <1>2, <1>3, <1>4, <1>5, <1>6

\* A store to one table leaves the others as they are.
LEMMA ChangeTable ==
    ASSUME TabsOK, NEW t \in 1..Count, NEW r \in TablesOf(TableLen(t)),
           tables' = [tables EXCEPT ![t] = r]
    PROVE  Changed(t, r)
<1> DEFINE X == UNION {TablesOf(n) : n \in Nat}
<1>1. TableLen(t) \in Nat \ {0} /\ DOMAIN tables[t].chains = 0..TableLen(t) - 1
      /\ LenOK(TableLen(t)) BY TableFacts
<1>2. r \in X /\ tables \in Seq(X) BY <1>1 DEF TabsOK
<1>3. /\ tables' \in Seq(X) /\ Len(tables') = Len(tables)
      /\ \A j \in 1..Len(tables) : tables'[j] = IF j = t THEN r ELSE tables[j]
  <2> HIDE DEF X
  <2> QED BY <1>2, ExceptSeq DEF Count
<1>4. Count' = Count /\ tables'[t] = r /\ \A u \in 1..Count : u # t => tables'[u] = tables[u]
  BY <1>3 DEF Count
<1>5. DOMAIN tables'[t].chains = 0..TableLen(t) - 1
  <2>1. PICK m : m = TableLen(t) OBVIOUS
  <2>2. DOMAIN r.chains = 0..m - 1 BY <2>1 DEF TablesOf
  <2>3. QED BY <1>4, <2>1, <2>2
<1>6. ASSUME NEW u \in 1..Count PROVE TableLen(u)' = TableLen(u)
  <2>1. DOMAIN tables'[u].chains = DOMAIN tables[u].chains
    BY <1>1, <1>4, <1>5
  <2>2. QED BY <2>1 DEF TableLen
<1>7. ASSUME NEW u \in 1..Count
      PROVE  /\ TableLen(u)' \in Nat \ {0} /\ LenOK(TableLen(u)')
             /\ tables'[u] \in TablesOf(TableLen(u)')
  BY <1>4, <1>6 DEF TabsOK
<1>8. TabsOK'
  <2> HIDE DEF X
  <2>1. \A u \in 1..Count' : LenOK(TableLen(u))' <=> LenOK(TableLen(u)')
    BY DEF LenOK
  <2>2. \A u \in 1..Count' : TablesOf(TableLen(u))' = TablesOf(TableLen(u)')
    BY DEF TablesOf, Slots
  <2>3. X' = X BY DEF X, TablesOf, Slots
  <2>4. QED BY <1>3, <1>4, <1>7, <2>1, <2>2, <2>3 DEF TabsOK, X
<1>9. QED BY <1>4, <1>6, <1>8 DEF Changed

\* A store to a chain and to its lock.
LEMMA WroteBoth ==
    ASSUME TabsOK, NEW t \in 1..Count, NEW b \in 0..TableLen(t) - 1,
           NEW c \in Seq(Slots), NEW h \in Procs \cup {Nobody},
           tables' = [tables EXCEPT ![t].chains[b] = c, ![t].mu[b] = h]
    PROVE  Wrote(t, b, c, h)
<1>0. PICK n : n = TableLen(t) OBVIOUS
<1>1. /\ tables[t] = [chains |-> tables[t].chains, mu |-> tables[t].mu, size |-> tables[t].size]
      /\ tables[t].chains \in [0..n - 1 -> Seq(Slots)]
      /\ tables[t].mu \in [0..n - 1 -> Procs \cup {Nobody}]
      /\ tables[t].size \in Int
      /\ DOMAIN tables = 1..Count
  BY <1>0, TableFacts
<1>2. PICK cs, ms : cs = [tables[t].chains EXCEPT ![b] = c] /\ ms = [tables[t].mu EXCEPT ![b] = h]
  OBVIOUS
<1>3. cs \in [0..n - 1 -> Seq(Slots)] /\ ms \in [0..n - 1 -> Procs \cup {Nobody}]
  BY <1>0, <1>1, <1>2
<1>4. PICK r : r = [chains |-> cs, mu |-> ms, size |-> tables[t].size] OBVIOUS
<1>5. r \in TablesOf(TableLen(t)) BY <1>0, <1>1, <1>3, <1>4 DEF TablesOf
<1>6. tables' = [tables EXCEPT ![t] = r]
  <2>1. PICK a : a = [tables EXCEPT ![t].chains[b] = c] OBVIOUS
  <2>2. a[t] = [chains |-> cs, mu |-> tables[t].mu, size |-> tables[t].size] /\ DOMAIN a = DOMAIN tables
    BY <1>1, <1>2, <2>1
  <2>3. tables' = [a EXCEPT ![t].mu[b] = h] BY <2>1
  <2>4. a = [tables EXCEPT ![t] = a[t]] BY <1>1, <2>1
  <2>5. tables' = [a EXCEPT ![t] = r]
    <3>1. a[t].mu = tables[t].mu BY <2>2
    <3>2. tables' = [a EXCEPT ![t] = [a[t] EXCEPT !.mu = [a[t].mu EXCEPT ![b] = h]]] BY <2>3
    <3>3. [a[t] EXCEPT !.mu = ms] = r BY <1>4, <2>2
    <3>4. QED BY <1>2, <3>1, <3>2, <3>3
  <2>6. QED BY <1>1, <2>4, <2>5
<1>7. Changed(t, r) BY <1>5, <1>6, ChangeTable
<1>8. /\ cs[b] = c /\ ms[b] = h
      /\ \A d \in 0..n - 1 : d # b => cs[d] = tables[t].chains[d] /\ ms[d] = tables[t].mu[d]
  BY <1>0, <1>1, <1>2
<1>9. r.chains = cs /\ r.mu = ms /\ r.size = tables[t].size BY <1>4
<1>10. C(t, b)' = c /\ Mu(t, b)' = h BY <1>7, <1>8, <1>9 DEF Changed, C, Mu
<1>11. ASSUME NEW u \in 1..Count PROVE TableLen(u)' = TableLen(u) /\ tables'[u].size = tables[u].size
  BY <1>7, <1>9 DEF Changed
<1>12. ASSUME NEW u \in 1..Count, NEW d \in 0..TableLen(u) - 1, u # t \/ d # b
       PROVE  C(u, d)' = C(u, d) /\ Mu(u, d)' = Mu(u, d)
  <2>1. CASE u # t BY <1>7, <2>1 DEF Changed, C, Mu
  <2>2. CASE u = t BY <1>0, <1>7, <1>8, <1>9, <1>12, <2>2 DEF Changed, C, Mu
  <2>3. QED BY <2>1, <2>2
<1>13. QED BY <1>7, <1>10, <1>11, <1>12 DEF Changed, Wrote

\* A store to the lock of a chain.
LEMMA WroteLock ==
    ASSUME TabsOK, NEW t \in 1..Count, NEW b \in 0..TableLen(t) - 1, NEW h \in Procs \cup {Nobody},
           tables' = [tables EXCEPT ![t].mu[b] = h]
    PROVE  Wrote(t, b, C(t, b), h)
<1>1. /\ tables[t] = [chains |-> tables[t].chains, mu |-> tables[t].mu, size |-> tables[t].size]
      /\ C(t, b) \in Seq(Slots) /\ DOMAIN tables = 1..Count
      /\ tables[t].chains \in [0..TableLen(t) - 1 -> Seq(Slots)]
  BY TableFacts
<1>2. [tables[t].chains EXCEPT ![b] = C(t, b)] = tables[t].chains BY <1>1 DEF C
<1>3. PICK a : a = [tables EXCEPT ![t].chains[b] = C(t, b)] OBVIOUS
<1>4. a[t] = tables[t] BY <1>1, <1>2, <1>3
<1>5. tables = [x \in 1..Count |-> tables[x]] BY DEF TabsOK, Count
<1>6. a = tables BY <1>1, <1>3, <1>4, <1>5
<1>7. tables' = [tables EXCEPT ![t].chains[b] = C(t, b), ![t].mu[b] = h] BY <1>3, <1>6
<1>8. QED BY <1>1, <1>7, WroteBoth

-----------------------------------------------------------------------------
(* Chains, and what transferBucketUnsafe does with them.                    *)

\* The hash function of a key, and its meta byte.
LEMMA HashFacts ==
    ASSUME hash \in Hashes, NEW k \in Keys
    PROVE  hash.h1[k] \in Nat /\ hash.h2[k] \in Nat /\ hash.h2[k] # 0 /\ k # Absent
BY XsyncAssumption

\* The slots of an empty bucket.
LEMMA EmptyFacts ==
    /\ EmptySlot \in Slots /\ EmptySlot.meta = 0 /\ EmptySlot.key = Absent /\ EmptySlot.val = Absent
    /\ EmptyBucket \in Seq(Slots) /\ Len(EmptyBucket) = PerBucket /\ PerBucket \in Nat \ {0}
    /\ DOMAIN EmptyBucket = 1..PerBucket
    /\ \A i \in 1..PerBucket : EmptyBucket[i] = EmptySlot
<1>1. EmptySlot \in Slots /\ EmptySlot.meta = 0 /\ EmptySlot.key = Absent /\ EmptySlot.val = Absent
  BY DEF EmptySlot, Slots
<1>2. PerBucket \in Nat \ {0} BY XsyncAssumption
<1>3. EmptyBucket \in [1..PerBucket -> Slots] /\ \A i \in 1..PerBucket : EmptyBucket[i] = EmptySlot
  BY <1>1 DEF EmptyBucket
<1>4. EmptyBucket \in Seq(Slots) BY <1>2, <1>3, SeqDef
<1>5. Len(EmptyBucket) = PerBucket BY <1>2, <1>3, <1>4
<1>6. QED BY <1>1, <1>2, <1>3, <1>4, <1>5

\* An entry put into a slot that holds no other key.
LEMMA PutSlot ==
    ASSUME hash \in Hashes, NEW n, NEW b, NEW c \in Seq(Slots), ChainOK(c, b, n), NEW s \in DOMAIN c,
           NEW k \in Keys, NEW v \in Values, BucketOf(k, n) = b,
           c[s].key \in {k, Absent}, \A i \in DOMAIN c : c[i].key = k => i = s,
           NEW r, r = [c EXCEPT ![s] = EntryOf(k, v)]
    PROVE  /\ r \in Seq(Slots) /\ DOMAIN r = DOMAIN c /\ ChainOK(r, b, n) /\ Tidy(r[s])
           /\ r[s] = EntryOf(k, v) /\ \A i \in DOMAIN c : i # s => r[i] = c[i]
           /\ Gained(r, c, b, n, k, v)
<1>1. hash.h2[k] \in Nat /\ hash.h2[k] # 0 /\ k # Absent BY HashFacts
<1>0. PICK e : e = EntryOf(k, v) OBVIOUS
<1>2. e \in Slots /\ e.meta = hash.h2[k] /\ e.key = k /\ e.val = v BY <1>0, <1>1 DEF EntryOf, Slots
<1>3. /\ r \in Seq(Slots) /\ DOMAIN r = DOMAIN c /\ r[s] = e
      /\ \A i \in DOMAIN c : i # s => r[i] = c[i]
  BY <1>0, <1>2, ExceptSeq
<1>4. Tidy(r[s]) BY <1>1, <1>2, <1>3 DEF Tidy
<1>5. ChainOK(r, b, n) BY <1>1, <1>2, <1>3 DEF ChainOK
<1>6. ASSUME NEW j \in Keys, NEW w \in Values
      PROVE  In(r, j, w) <=> (j # k /\ In(c, j, w)) \/ (j = k /\ w = v)
  <2>1. j # Absent BY HashFacts
  <2>2. CASE j = k BY <1>2, <1>3, <2>2 DEF In
  <2>3. CASE j # k BY <1>2, <1>3, <2>1, <2>3 DEF In
  <2>4. QED BY <2>2, <2>3
<1>7. AllTidy(c) => AllTidy(r) BY <1>3, <1>4 DEF AllTidy
<1>8. QED BY <1>0, <1>3, <1>4, <1>5, <1>6, <1>7 DEF Gained

\* The new bucket holds the entry, and the others stay where they are.
LEMMA AddBucket ==
    ASSUME hash \in Hashes, NEW n, NEW b, NEW c \in Seq(Slots), ChainOK(c, b, n),
           NEW k \in Keys, NEW v \in Values, BucketOf(k, n) = b, ~HasKey(c, k),
           NEW r, r = Longer(c, k, v)
    PROVE  /\ r \in Seq(Slots) /\ DOMAIN c \subseteq DOMAIN r /\ Len(c) + 1 \in DOMAIN r
           /\ r[Len(c) + 1] = EntryOf(k, v) /\ Len(r) = Len(c) + PerBucket
           /\ ChainOK(r, b, n) /\ \A i \in DOMAIN c : r[i] = c[i]
           /\ \A i \in DOMAIN r \ DOMAIN c : Tidy(r[i]) /\ (i # Len(c) + 1 => r[i] = EmptySlot)
           /\ Gained(r, c, b, n, k, v)
<1>1. hash.h2[k] \in Nat /\ hash.h2[k] # 0 /\ k # Absent BY HashFacts
<1>0. PICK e : e = EntryOf(k, v) OBVIOUS
<1>2. e \in Slots /\ e.meta = hash.h2[k] /\ e.key = k /\ e.val = v BY <1>0, <1>1 DEF EntryOf, Slots
<1>3. PICK u : u = [EmptyBucket EXCEPT ![1] = e] OBVIOUS
<1>4. /\ u \in Seq(Slots) /\ Len(u) = PerBucket /\ u[1] = e /\ PerBucket \in Nat \ {0}
      /\ \A i \in 1..PerBucket : i # 1 => u[i] = EmptySlot
  BY <1>2, <1>3, EmptyFacts, ExceptSeq
<1>5. /\ r \in Seq(Slots) /\ Len(r) = Len(c) + PerBucket
      /\ \A i \in 1..Len(c) + PerBucket : r[i] = IF i <= Len(c) THEN c[i] ELSE u[i - Len(c)]
  <2>1. r = c \o u BY <1>0, <1>3 DEF Longer
  <2>2. /\ c \o u \in Seq(Slots) /\ Len(c \o u) = Len(c) + Len(u)
        /\ \A i \in 1..Len(c) + Len(u) : (c \o u)[i] = IF i <= Len(c) THEN c[i] ELSE u[i - Len(c)]
    BY <1>4, ConcatProperties
  <2>3. QED BY <1>4, <2>1, <2>2
<1>6. Len(c) \in Nat /\ DOMAIN c = 1..Len(c) /\ DOMAIN r = 1..Len(c) + PerBucket BY <1>5
<1>7. /\ DOMAIN c \subseteq DOMAIN r /\ Len(c) + 1 \in DOMAIN r /\ Len(c) + 1 \notin DOMAIN c
      /\ r[Len(c) + 1] = e
      /\ \A i \in DOMAIN c : r[i] = c[i]
      /\ \A i \in DOMAIN r \ DOMAIN c : i # Len(c) + 1 => r[i] = EmptySlot
  <2>1. \A i \in DOMAIN c : r[i] = c[i] BY <1>4, <1>5, <1>6
  <2>2. r[Len(c) + 1] = e /\ Len(c) + 1 \in DOMAIN r BY <1>4, <1>5, <1>6
  <2>3. ASSUME NEW i \in DOMAIN r \ DOMAIN c, i # Len(c) + 1 PROVE r[i] = EmptySlot
    <3>1. i - Len(c) \in 1..PerBucket /\ i - Len(c) # 1 /\ r[i] = u[i - Len(c)] BY <1>4, <1>5, <1>6, <2>3
    <3>2. QED BY <1>4, <3>1
  <2>4. QED BY <1>4, <1>6, <2>1, <2>2, <2>3
<1>8. EmptySlot.meta = 0 /\ EmptySlot.key = Absent BY EmptyFacts
<1>9. \A i \in DOMAIN r \ DOMAIN c : Tidy(r[i]) BY <1>1, <1>2, <1>7, <1>8 DEF Tidy
<1>10. \A i \in DOMAIN r : \/ i \in DOMAIN c /\ r[i] = c[i]
                           \/ i = Len(c) + 1 /\ r[i] = e
                           \/ i \notin DOMAIN c /\ r[i] = EmptySlot
  BY <1>7
<1>11. ChainOK(r, b, n)
  <2>1. \A i \in DOMAIN c : c[i].key # k BY DEF HasKey
  <2>2. ASSUME NEW i \in DOMAIN r, r[i].key # Absent
        PROVE  (i \in DOMAIN c /\ r[i] = c[i]) \/ (i = Len(c) + 1 /\ r[i] = e)
    BY <1>8, <1>10, <2>2
  <2>3. \A i \in DOMAIN r : r[i].key # Absent => /\ BucketOf(r[i].key, n) = b
                                                 /\ r[i].meta \in {0, hash.h2[r[i].key]}
                                                 /\ r[i].val \in Values
    BY <1>2, <2>2 DEF ChainOK
  <2>4. ASSUME NEW i \in DOMAIN r, NEW j \in DOMAIN r, r[i].key = r[j].key, r[i].key # Absent
        PROVE  i = j
    <3>1. (i \in DOMAIN c /\ r[i] = c[i]) \/ (i = Len(c) + 1 /\ r[i].key = k) BY <1>2, <2>2, <2>4
    <3>2. (j \in DOMAIN c /\ r[j] = c[j]) \/ (j = Len(c) + 1 /\ r[j].key = k) BY <1>2, <2>2, <2>4
    <3>3. QED BY <2>1, <2>4, <3>1, <3>2 DEF ChainOK
  <2>5. QED BY <2>3, <2>4 DEF ChainOK
<1>12. ASSUME NEW j \in Keys, NEW w \in Values
       PROVE  In(r, j, w) <=> (j # k /\ In(c, j, w)) \/ (j = k /\ w = v)
  <2>1. j # Absent BY HashFacts
  <2>2. CASE j = k
    <3>1. w = v => In(r, k, w) BY <1>2, <1>7 DEF In
    <3>2. ASSUME NEW i \in DOMAIN r, r[i].key = k PROVE r[i].val = v
      BY <1>1, <1>2, <1>8, <1>10, <3>2 DEF HasKey
    <3>3. QED BY <2>2, <3>1, <3>2 DEF In
  <2>3. CASE j # k BY <1>2, <1>7, <1>8, <1>10, <2>1, <2>3 DEF In
  <2>4. QED BY <2>2, <2>3
<1>13. AllTidy(c) => AllTidy(r) BY <1>7, <1>9 DEF AllTidy
<1>14. QED BY <1>0, <1>5, <1>7, <1>9, <1>11, <1>12, <1>13 DEF Gained

\* appendToBucket adds one entry and keeps the others.
LEMMA AppendOK ==
    ASSUME hash \in Hashes, NEW n, NEW b, NEW c \in Seq(Slots), ChainOK(c, b, n), AllTidy(c),
           NEW e, e.key \in Keys, e.val \in Values, BucketOf(e.key, n) = b, ~HasKey(c, e.key)
    PROVE  LET r == AppendToBucket(c, e)
           IN  /\ r \in Seq(Slots) /\ ChainOK(r, b, n) /\ AllTidy(r)
               /\ \A j \in Keys, w \in Values :
                     In(r, j, w) <=> In(c, j, w) \/ (j = e.key /\ w = e.val)
<1>1. PICK k \in Keys, v \in Values : k = e.key /\ v = e.val OBVIOUS
<1>2. PICK f : f = EntryOf(k, v) OBVIOUS
<1>3. PICK free \in SUBSET Nat : free = {i \in DOMAIN c : c[i].key = Absent}
  <2>1. DOMAIN c = 1..Len(c) OBVIOUS
  <2>2. {i \in DOMAIN c : c[i].key = Absent} \in SUBSET Nat BY <2>1
  <2>3. QED BY <2>2
<1>4. PICK r : r = AppendToBucket(c, e) OBVIOUS
<1>5. r = IF free # {} THEN [c EXCEPT ![Min(free)] = f] ELSE c \o [EmptyBucket EXCEPT ![1] = f]
  BY <1>1, <1>2, <1>3, <1>4 DEF AppendToBucket, EntryOf
<1>6. BucketOf(k, n) = b /\ ~HasKey(c, k) BY <1>1
<1>7. Gained(r, c, b, n, k, v)
  <2>1. CASE free # {}
    <3>1. PICK s \in free : s = Min(free) BY <2>1, MinIn
    <3>2. s \in DOMAIN c /\ c[s].key = Absent BY <1>3, <3>1
    <3>3. r = [c EXCEPT ![s] = f] BY <1>5, <2>1, <3>1
    <3>4. c[s].key \in {k, Absent} /\ \A i \in DOMAIN c : c[i].key = k => i = s BY <1>6, <3>2 DEF HasKey
    <3>5. QED BY <1>2, <1>6, <3>2, <3>3, <3>4, PutSlot
  <2>2. CASE free = {}
    <3>1. r = Longer(c, k, v) BY <1>2, <1>5, <2>2 DEF Longer
    <3>2. QED BY <1>2, <1>6, <3>1, AddBucket
  <2>3. QED BY <2>1, <2>2
<1>8. \A w : ~In(c, k, w) BY <1>6 DEF In, HasKey
<1>9. QED BY <1>1, <1>4, <1>7, <1>8 DEF Gained

\* A store to a meta byte moves no entry.
LEMMA SetMeta ==
    ASSUME NEW n, NEW b, NEW c \in Seq(Slots), ChainOK(c, b, n), NEW s \in DOMAIN c, NEW m \in Nat,
           c[s].key = Absent \/ m \in {0, hash.h2[c[s].key]},
           NEW r, r = Marked(c, s, m)
    PROVE  /\ r \in Seq(Slots) /\ DOMAIN r = DOMAIN c /\ ChainOK(r, b, n)
           /\ r[s].meta = m /\ r[s].key = c[s].key /\ r[s].val = c[s].val
           /\ \A i \in DOMAIN c : i # s => r[i] = c[i]
           /\ \A j \in Keys, w \in Values : In(r, j, w) <=> In(c, j, w)
<1>1. c[s] \in Slots OBVIOUS
<1>2. PICK e : e = [c[s] EXCEPT !.meta = m] OBVIOUS
<1>3. e \in Slots /\ e.meta = m /\ e.key = c[s].key /\ e.val = c[s].val BY <1>1, <1>2 DEF Slots
<1>4. r = [c EXCEPT ![s] = e] BY <1>2 DEF Marked
<1>5. /\ r \in Seq(Slots) /\ DOMAIN r = DOMAIN c /\ r[s] = e
      /\ \A i \in DOMAIN c : i # s => r[i] = c[i]
  BY <1>3, <1>4, ExceptSeq
<1>6. ChainOK(r, b, n) BY <1>3, <1>5 DEF ChainOK
<1>7. \A j \in Keys, w \in Values : In(r, j, w) <=> In(c, j, w) BY <1>3, <1>5 DEF In
<1>8. QED BY <1>3, <1>5, <1>6, <1>7

\* A slot is emptied.
LEMMA ClearSlot ==
    ASSUME hash \in Hashes, NEW n, NEW b, NEW c \in Seq(Slots), ChainOK(c, b, n), NEW s \in DOMAIN c,
           NEW k \in Keys, c[s].key = k, NEW r, r = [c EXCEPT ![s] = EmptySlot]
    PROVE  /\ r \in Seq(Slots) /\ DOMAIN r = DOMAIN c /\ ChainOK(r, b, n)
           /\ r[s] = EmptySlot /\ Tidy(r[s])
           /\ \A i \in DOMAIN c : i # s => r[i] = c[i]
           /\ \A j \in Keys, w \in Values : In(r, j, w) <=> j # k /\ In(c, j, w)
<1>1. k # Absent BY HashFacts
<1>2. EmptySlot \in Slots /\ EmptySlot.meta = 0 /\ EmptySlot.key = Absent BY EmptyFacts
<1>3. /\ r \in Seq(Slots) /\ DOMAIN r = DOMAIN c /\ r[s] = EmptySlot
      /\ \A i \in DOMAIN c : i # s => r[i] = c[i]
  BY <1>2, ExceptSeq
<1>4. ChainOK(r, b, n) BY <1>2, <1>3 DEF ChainOK
<1>5. ASSUME NEW j \in Keys, NEW w \in Values PROVE In(r, j, w) <=> j # k /\ In(c, j, w)
  <2>1. j # Absent BY HashFacts
  <2>2. CASE j = k BY <1>1, <1>2, <1>3, <2>2 DEF In, ChainOK
  <2>3. CASE j # k BY <1>2, <1>3, <2>1, <2>3 DEF In
  <2>4. QED BY <2>2, <2>3
<1>6. QED BY <1>2, <1>3, <1>4, <1>5 DEF Tidy

\* The walk along the source chain is well defined.
LEMMA PassExists ==
    ASSUME NEW N \in Nat, NEW c, NEW dest, NEW d, NEW len
    PROVE  \E f : Pass(f, N, c, dest, d, len)
<1> DEFINE U == {m \in Nat : ~\E f : Pass(f, m, c, dest, d, len)}
<1>1. SUFFICES ASSUME U # {} PROVE FALSE OBVIOUS
<1>2. PICK m \in U : \A y \in U : m <= y
  <2> HIDE DEF U
  <2>1. U \in SUBSET Nat BY DEF U
  <2>2. QED BY <1>1, <2>1, LeastNat
<1>3. CASE m = 0
  <2>1. PICK f : f = [i \in 0..0 |-> dest] OBVIOUS
  <2>2. Pass(f, 0, c, dest, d, len) BY <2>1 DEF Pass
  <2>3. QED BY <1>2, <1>3, <2>2
<1>4. CASE m # 0
  <2>1. m - 1 \in Nat /\ m - 1 \notin U BY <1>2, <1>4
  <2>2. PICK f : Pass(f, m - 1, c, dest, d, len) BY <2>1
  <2>3. PICK x : x = IF Goes(c[m], d, len) THEN AppendToBucket(f[m - 1], c[m]) ELSE f[m - 1] OBVIOUS
  <2>4. PICK g : g = [i \in 0..m |-> IF i = m THEN x ELSE f[i]] OBVIOUS
  <2>5. ASSUME NEW i \in 0..m
        PROVE  g[i] = IF i = 0 THEN dest
                      ELSE IF Goes(c[i], d, len) THEN AppendToBucket(g[i - 1], c[i])
                      ELSE g[i - 1]
    <3>1. CASE i = m
      <4>1. g[m] = x /\ g[m - 1] = f[m - 1] BY <1>2, <1>4, <2>4
      <4>2. QED BY <1>4, <2>3, <3>1, <4>1
    <3>2. CASE i # m
      <4>1. i \in 0..m - 1 BY <1>2, <3>2
      <4>2. f[i] = IF i = 0 THEN dest
                   ELSE IF Goes(c[i], d, len) THEN AppendToBucket(f[i - 1], c[i])
                   ELSE f[i - 1]
        BY <2>2, <4>1 DEF Pass
      <4>3. g[i] = f[i] /\ (i # 0 => g[i - 1] = f[i - 1]) BY <2>4, <3>2, <4>1
      <4>4. QED BY <4>2, <4>3
    <3>3. QED BY <3>1, <3>2
  <2>6. Pass(g, m, c, dest, d, len) BY <2>4, <2>5 DEF Pass
  <2>7. QED BY <1>2, <2>6
<1>5. QED BY <1>3, <1>4

\* Transferred is the last value of the walk along the source chain.
LEMMA TransferredIs ==
    ASSUME NEW c \in Seq(Slots), NEW dest, NEW d, NEW len
    PROVE  \E f : Pass(f, Len(c), c, dest, d, len) /\ Transferred(c, dest, d, len) = f[Len(c)]
<1>1. PICK f : f = CHOOSE g : Pass(g, Len(c), c, dest, d, len) OBVIOUS
<1>2. Len(c) \in Nat OBVIOUS
<1>3. Pass(f, Len(c), c, dest, d, len) BY <1>1, <1>2, PassExists
<1>4. Transferred(c, dest, d, len) = (CHOOSE g : Pass(g, Len(c), c, dest, d, len))[Len(c)]
  BY DEF Transferred, Pass, Goes
<1>5. QED BY <1>1, <1>3, <1>4

\* A key of a chain has a value.
LEMMA KeyHasValue ==
    ASSUME NEW n, NEW b, NEW c, ChainOK(c, b, n), NEW k \in Keys, hash \in Hashes
    PROVE  HasKey(c, k) <=> \E v \in Values : In(c, k, v)
<1>1. k # Absent BY HashFacts
<1>2. QED BY <1>1 DEF HasKey, In, ChainOK

\* One slot of the source.
LEMMA PartlyStep ==
    ASSUME hash \in Hashes, NEW c \in Seq(Slots), NEW b, NEW n, ChainOK(c, b, n),
           NEW d, NEW len, NEW dest, ChainOK(dest, d, len),
           \A k \in Keys : HasKey(c, k) => ~HasKey(dest, k),
           NEW j \in 1..Len(c), NEW q, Partly(q, dest, c, j - 1, d, len),
           NEW r, r = IF Goes(c[j], d, len) THEN AppendToBucket(q, c[j]) ELSE q
    PROVE  Partly(r, dest, c, j, d, len)
<1>0. DOMAIN c = 1..Len(c) /\ Len(c) \in Nat /\ j \in DOMAIN c /\ c[j] \in Slots OBVIOUS
<1>1. CASE Goes(c[j], d, len)
  <2>1. PICK e : e = c[j] OBVIOUS
  <2>2. e.key # Absent /\ e.key \in Keys /\ BucketOf(e.key, len) = d /\ e.val \in Values
    <3>1. e.key \in Keys \cup {Absent} BY <1>0, <2>1 DEF Slots
    <3>2. QED BY <1>0, <1>1, <2>1, <3>1 DEF Goes, ChainOK
  <2>3. ~HasKey(q, e.key)
    <3>1. SUFFICES ASSUME HasKey(q, e.key) PROVE FALSE OBVIOUS
    <3>2. PICK w \in Values : In(q, e.key, w) BY <2>2, <3>1, KeyHasValue DEF Partly
    <3>3. In(dest, e.key, w) \/ \E i \in 1..j - 1 : c[i].key = e.key BY <2>2, <3>2 DEF Partly
    <3>4. ~HasKey(dest, e.key) BY <1>0, <2>1, <2>2 DEF HasKey
    <3>5. ASSUME NEW i \in 1..j - 1 PROVE c[i].key # e.key
      BY <1>0, <2>1, <2>2 DEF ChainOK
    <3>6. QED BY <3>3, <3>4, <3>5 DEF In, HasKey
  <2>4. r = AppendToBucket(q, e) BY <1>1, <2>1
  <2>5. q \in Seq(Slots) /\ ChainOK(q, d, len) /\ AllTidy(q) BY DEF Partly
  <2>6. /\ r \in Seq(Slots) /\ ChainOK(r, d, len) /\ AllTidy(r)
        /\ \A k \in Keys, w \in Values : In(r, k, w) <=> In(q, k, w) \/ (k = e.key /\ w = e.val)
    BY <2>2, <2>3, <2>4, <2>5, AppendOK
  <2>7. ASSUME NEW k \in Keys, NEW v \in Values
        PROVE  In(r, k, v) <=> \/ In(dest, k, v)
                               \/ BucketOf(k, len) = d /\ \E i \in 1..j : c[i].key = k /\ c[i].val = v
    <3>1. In(q, k, v) <=> \/ In(dest, k, v)
                          \/ BucketOf(k, len) = d /\ \E i \in 1..j - 1 : c[i].key = k /\ c[i].val = v
      BY DEF Partly
    <3>2. 1..j = (1..j - 1) \cup {j} BY <1>0
    <3>3. QED BY <2>1, <2>2, <2>6, <3>1, <3>2
  <2>8. QED BY <2>6, <2>7 DEF Partly
<1>2. CASE ~Goes(c[j], d, len)
  <2>1. r = q BY <1>2
  <2>2. 1..j = (1..j - 1) \cup {j} BY <1>0
  <2>3. ASSUME NEW k \in Keys, NEW v \in Values, BucketOf(k, len) = d, c[j].key = k PROVE FALSE
    BY <1>2, <2>3, HashFacts DEF Goes
  <2>4. QED BY <2>1, <2>2, <2>3 DEF Partly
<1>3. QED BY <1>1, <1>2

\* transferBucketUnsafe adds to the destination the entries of the chain that belong there.
LEMMA TransferOK ==
    ASSUME hash \in Hashes, NEW c \in Seq(Slots), NEW b, NEW n, ChainOK(c, b, n),
           NEW d, NEW len, NEW dest \in Seq(Slots), ChainOK(dest, d, len), AllTidy(dest),
           \A k \in Keys : HasKey(c, k) => ~HasKey(dest, k)
    PROVE  Merged(Transferred(c, dest, d, len), dest, c, d, len)
<1>0. DOMAIN c = 1..Len(c) /\ Len(c) \in Nat OBVIOUS
<1>1. PICK f : Pass(f, Len(c), c, dest, d, len) /\ Transferred(c, dest, d, len) = f[Len(c)]
  BY TransferredIs
<1> DEFINE U == {j \in 0..Len(c) : ~Partly(f[j], dest, c, j, d, len)}
<1>2. U = {}
  <2>1. SUFFICES ASSUME U # {} PROVE FALSE OBVIOUS
  <2>2. PICK j \in U : \A y \in U : j <= y
    <3>1. U \in SUBSET Nat BY <1>0
    <3> HIDE DEF U
    <3>2. QED BY <2>1, <3>1, LeastNat
  <2>3. CASE j = 0
    <3>1. f[0] = dest BY <1>0, <1>1 DEF Pass
    <3>2. 1..0 = {} OBVIOUS
    <3>3. Partly(dest, dest, c, 0, d, len) BY <3>2 DEF Partly
    <3>4. QED BY <2>2, <2>3, <3>1, <3>3
  <2>4. CASE j # 0
    <3>1. j \in 1..Len(c) /\ j - 1 \in 0..Len(c) /\ j - 1 \notin U BY <1>0, <2>2, <2>4
    <3>2. PICK q, r : q = f[j - 1] /\ r = f[j] OBVIOUS
    <3>3. Partly(q, dest, c, j - 1, d, len) BY <3>1, <3>2
    <3>4. r = IF Goes(c[j], d, len) THEN AppendToBucket(q, c[j]) ELSE q
      BY <1>0, <1>1, <2>2, <2>4, <3>1, <3>2 DEF Pass
    <3>5. Partly(r, dest, c, j, d, len) BY <3>1, <3>3, <3>4, PartlyStep
    <3>6. QED BY <2>2, <3>2, <3>5
  <2>5. QED BY <2>3, <2>4
<1>3. Partly(f[Len(c)], dest, c, Len(c), d, len) BY <1>0, <1>2
<1>4. QED BY <1>0, <1>1, <1>3 DEF Partly, Merged, In

-----------------------------------------------------------------------------
(* The local variables of a goroutine after an assignment, by groups.       *)

\* The slots that a meta word names.
LEMMA SetCand ==
    ASSUME NEW l, Fields(l), NEW v, NEW m, m = [l EXCEPT !.cand = v]
    PROVE  /\ Fields(m) /\ m.cand = v /\ KeepT(m, l) /\ m.n = l.n /\ m.found = l.found
           /\ KeepS(m, l) /\ KeepC(m, l)
BY DEF Fields, KeepT, KeepR, KeepS, KeepC

\* The next bucket of a chain.
LEMMA SetN ==
    ASSUME NEW l, Fields(l), NEW v, NEW m, m = [l EXCEPT !.n = v]
    PROVE  /\ Fields(m) /\ m.n = v /\ KeepT(m, l) /\ m.cand = l.cand /\ m.found = l.found
           /\ KeepS(m, l) /\ KeepC(m, l)
BY DEF Fields, KeepT, KeepR, KeepS, KeepC

\* The next bucket of a table.
LEMMA SetFound ==
    ASSUME NEW l, Fields(l), NEW v, NEW w, NEW m, m = Visited(l, v, w)
    PROVE  /\ Fields(m) /\ m.n = v /\ m.found = w /\ KeepT(m, l) /\ m.cand = l.cand
           /\ KeepS(m, l) /\ KeepC(m, l)
<1>a. PICK m1 : m1 = [l EXCEPT !.n = v] OBVIOUS
<1>b. m = [m1 EXCEPT !.found = w] BY <1>a DEF Visited
<1>2. /\ Fields(m1) /\ m1.tbl = l.tbl /\ m1.n = v /\ m1.cand = l.cand /\ m1.slot = l.slot
      /\ m1.delta = l.delta /\ m1.emptied = l.emptied /\ m1.hint = l.hint /\ m1.seq = l.seq
      /\ m1.owner = l.owner /\ m1.old = l.old /\ m1.new = l.new /\ m1.i = l.i /\ m1.src = l.src
      /\ m1.end = l.end /\ m1.copy = l.copy /\ m1.found = l.found
  BY <1>a DEF Fields
<1>4. /\ Fields(m) /\ m.tbl = m1.tbl /\ m.n = m1.n /\ m.cand = m1.cand /\ m.slot = m1.slot
      /\ m.delta = m1.delta /\ m.emptied = m1.emptied /\ m.hint = m1.hint /\ m.seq = m1.seq
      /\ m.owner = m1.owner /\ m.old = m1.old /\ m.new = m1.new /\ m.i = m1.i
      /\ m.src = m1.src /\ m.end = m1.end /\ m.copy = m1.copy /\ m.found = w
  BY <1>b, <1>2 DEF Fields
<1>6. QED BY <1>2, <1>4 DEF KeepT, KeepR, KeepS, KeepC

\* The slot that a writer will use.
LEMMA SetSlot ==
    ASSUME NEW l, Fields(l), NEW v, NEW m, m = [l EXCEPT !.slot = v]
    PROVE  /\ Fields(m) /\ m.slot = v /\ m.tbl = l.tbl /\ m.delta = l.delta
           /\ m.emptied = l.emptied /\ m.hint = l.hint /\ KeepR(m, l) /\ KeepS(m, l)
           /\ KeepC(m, l)
BY DEF Fields, KeepT, KeepR, KeepS, KeepC

\* The reason for a resize.
LEMMA SetHint ==
    ASSUME NEW l, Fields(l), NEW v, NEW m, m = [l EXCEPT !.hint = v]
    PROVE  /\ Fields(m) /\ m.hint = v /\ m.tbl = l.tbl /\ m.slot = l.slot
           /\ m.delta = l.delta /\ m.emptied = l.emptied /\ KeepR(m, l) /\ KeepS(m, l)
           /\ KeepC(m, l)
BY DEF Fields, KeepT, KeepR, KeepS, KeepC

\* The change of the counter.
LEMMA SetDelta ==
    ASSUME NEW l, Fields(l), NEW v, NEW m, m = [l EXCEPT !.delta = v]
    PROVE  /\ Fields(m) /\ m.delta = v /\ m.tbl = l.tbl /\ m.slot = l.slot
           /\ m.emptied = l.emptied /\ m.hint = l.hint /\ KeepR(m, l) /\ KeepS(m, l)
           /\ KeepC(m, l)
BY DEF Fields, KeepT, KeepR, KeepS, KeepC

\* The change of the counter by a delete.
LEMMA SetEmptied ==
    ASSUME NEW l, Fields(l), NEW v, NEW w, NEW m, m = Deleted(l, v, w)
    PROVE  /\ Fields(m) /\ m.delta = v /\ m.emptied = w /\ m.tbl = l.tbl
           /\ m.slot = l.slot /\ m.hint = l.hint /\ KeepR(m, l) /\ KeepS(m, l)
           /\ KeepC(m, l)
<1>a. PICK m1 : m1 = [l EXCEPT !.delta = v] OBVIOUS
<1>b. m = [m1 EXCEPT !.emptied = w] BY <1>a DEF Deleted
<1>2. /\ Fields(m1) /\ m1.tbl = l.tbl /\ m1.n = l.n /\ m1.cand = l.cand /\ m1.slot = l.slot
      /\ m1.delta = v /\ m1.emptied = l.emptied /\ m1.hint = l.hint /\ m1.seq = l.seq
      /\ m1.owner = l.owner /\ m1.old = l.old /\ m1.new = l.new /\ m1.i = l.i /\ m1.src = l.src
      /\ m1.end = l.end /\ m1.copy = l.copy /\ m1.found = l.found
  BY <1>a DEF Fields
<1>4. /\ Fields(m) /\ m.tbl = m1.tbl /\ m.n = m1.n /\ m.cand = m1.cand /\ m.slot = m1.slot
      /\ m.delta = m1.delta /\ m.emptied = w /\ m.hint = m1.hint /\ m.seq = m1.seq
      /\ m.owner = m1.owner /\ m.old = m1.old /\ m.new = m1.new /\ m.i = m1.i
      /\ m.src = m1.src /\ m.end = m1.end /\ m.copy = m1.copy /\ m.found = m1.found
  BY <1>b, <1>2 DEF Fields
<1>6. QED BY <1>2, <1>4 DEF KeepT, KeepR, KeepS, KeepC

\* The sequence number of a resize.
LEMMA SetSeq ==
    ASSUME NEW l, Fields(l), NEW v, NEW m, m = [l EXCEPT !.seq = v]
    PROVE  /\ Fields(m) /\ m.seq = v /\ KeepT(m, l) /\ KeepR(m, l) /\ m.owner = l.owner
           /\ m.old = l.old /\ m.new = l.new /\ KeepC(m, l)
BY DEF Fields, KeepT, KeepR, KeepS, KeepC

\* The table that a helper finds.
LEMMA SetOld ==
    ASSUME NEW l, Fields(l), NEW v, NEW m, m = [l EXCEPT !.old = v]
    PROVE  /\ Fields(m) /\ m.old = v /\ KeepT(m, l) /\ KeepR(m, l) /\ m.seq = l.seq
           /\ m.owner = l.owner /\ m.new = l.new /\ KeepC(m, l)
BY DEF Fields, KeepT, KeepR, KeepS, KeepC

\* The table that a helper is offered.
LEMMA SetNew ==
    ASSUME NEW l, Fields(l), NEW v, NEW m, m = [l EXCEPT !.new = v]
    PROVE  /\ Fields(m) /\ m.new = v /\ KeepT(m, l) /\ KeepR(m, l) /\ m.seq = l.seq
           /\ m.owner = l.owner /\ m.old = l.old /\ KeepC(m, l)
BY DEF Fields, KeepT, KeepR, KeepS, KeepC

\* The tables of a new resize.
LEMMA SetOwner ==
    ASSUME NEW l, Fields(l), NEW v, NEW w, NEW m, m = Owning(l, v, w)
    PROVE  /\ Fields(m) /\ m.old = v /\ m.new = w /\ m.owner /\ KeepT(m, l)
           /\ KeepR(m, l) /\ m.seq = l.seq /\ KeepC(m, l)
<1>a. PICK m1 : m1 = [l EXCEPT !.old = v] OBVIOUS
<1>b. PICK m2 : m2 = [m1 EXCEPT !.new = w] OBVIOUS
<1>c. m = [m2 EXCEPT !.owner = TRUE] BY <1>a, <1>b DEF Owning
<1>2. /\ Fields(m1) /\ m1.tbl = l.tbl /\ m1.n = l.n /\ m1.cand = l.cand /\ m1.slot = l.slot
      /\ m1.delta = l.delta /\ m1.emptied = l.emptied /\ m1.hint = l.hint /\ m1.seq = l.seq
      /\ m1.owner = l.owner /\ m1.old = v /\ m1.new = l.new /\ m1.i = l.i /\ m1.src = l.src
      /\ m1.end = l.end /\ m1.copy = l.copy /\ m1.found = l.found
  BY <1>a DEF Fields
<1>4. /\ Fields(m2) /\ m2.tbl = m1.tbl /\ m2.n = m1.n /\ m2.cand = m1.cand /\ m2.slot = m1.slot
      /\ m2.delta = m1.delta /\ m2.emptied = m1.emptied /\ m2.hint = m1.hint /\ m2.seq = m1.seq
      /\ m2.owner = m1.owner /\ m2.old = m1.old /\ m2.new = w /\ m2.i = m1.i /\ m2.src = m1.src
      /\ m2.end = m1.end /\ m2.copy = m1.copy /\ m2.found = m1.found
  BY <1>b, <1>2 DEF Fields
<1>6. /\ Fields(m) /\ m.tbl = m2.tbl /\ m.n = m2.n /\ m.cand = m2.cand /\ m.slot = m2.slot
      /\ m.delta = m2.delta /\ m.emptied = m2.emptied /\ m.hint = m2.hint /\ m.seq = m2.seq
      /\ m.owner = TRUE /\ m.old = m2.old /\ m.new = m2.new /\ m.i = m2.i
      /\ m.src = m2.src /\ m.end = m2.end /\ m.copy = m2.copy /\ m.found = m2.found
  BY <1>c, <1>4 DEF Fields
<1>8. QED BY <1>2, <1>4, <1>6 DEF KeepT, KeepR, KeepS, KeepC

\* A claimed range of buckets.
LEMMA SetRange ==
    ASSUME NEW l, Fields(l), NEW v, NEW w, NEW x, NEW m, m = Claimed(l, v, w, x)
    PROVE  /\ Fields(m) /\ m.i = v /\ m.src = w /\ m.end = x /\ KeepT(m, l) /\ KeepR(m, l)
           /\ KeepS(m, l) /\ m.copy = l.copy
<1>a. PICK m1 : m1 = [l EXCEPT !.i = v] OBVIOUS
<1>b. PICK m2 : m2 = [m1 EXCEPT !.src = w] OBVIOUS
<1>c. m = [m2 EXCEPT !.end = x] BY <1>a, <1>b DEF Claimed
<1>2. /\ Fields(m1) /\ m1.tbl = l.tbl /\ m1.n = l.n /\ m1.cand = l.cand /\ m1.slot = l.slot
      /\ m1.delta = l.delta /\ m1.emptied = l.emptied /\ m1.hint = l.hint /\ m1.seq = l.seq
      /\ m1.owner = l.owner /\ m1.old = l.old /\ m1.new = l.new /\ m1.i = v /\ m1.src = l.src
      /\ m1.end = l.end /\ m1.copy = l.copy /\ m1.found = l.found
  BY <1>a DEF Fields
<1>4. /\ Fields(m2) /\ m2.tbl = m1.tbl /\ m2.n = m1.n /\ m2.cand = m1.cand /\ m2.slot = m1.slot
      /\ m2.delta = m1.delta /\ m2.emptied = m1.emptied /\ m2.hint = m1.hint /\ m2.seq = m1.seq
      /\ m2.owner = m1.owner /\ m2.old = m1.old /\ m2.new = m1.new /\ m2.i = m1.i /\ m2.src = w
      /\ m2.end = m1.end /\ m2.copy = m1.copy /\ m2.found = m1.found
  BY <1>b, <1>2 DEF Fields
<1>6. /\ Fields(m) /\ m.tbl = m2.tbl /\ m.n = m2.n /\ m.cand = m2.cand /\ m.slot = m2.slot
      /\ m.delta = m2.delta /\ m.emptied = m2.emptied /\ m.hint = m2.hint /\ m.seq = m2.seq
      /\ m.owner = m2.owner /\ m.old = m2.old /\ m.new = m2.new /\ m.i = m2.i
      /\ m.src = m2.src /\ m.end = x /\ m.copy = m2.copy /\ m.found = m2.found
  BY <1>c, <1>4 DEF Fields
<1>8. QED BY <1>2, <1>4, <1>6 DEF KeepT, KeepR, KeepS, KeepC

\* A copy of a bucket.
LEMMA SetCopy ==
    ASSUME NEW l, Fields(l), NEW v, NEW m, m = [l EXCEPT !.copy = v]
    PROVE  /\ Fields(m) /\ m.copy = v /\ KeepT(m, l) /\ KeepR(m, l) /\ KeepS(m, l)
           /\ m.i = l.i /\ m.src = l.src /\ m.end = l.end
BY DEF Fields, KeepT, KeepR, KeepS, KeepC

\* The next bucket of a claim with the same destination.
LEMMA SetAgain ==
    ASSUME NEW l, Fields(l), NEW v, NEW m, m = Again(l, v)
    PROVE  /\ Fields(m) /\ m.src = v /\ m.copy = <<>> /\ KeepT(m, l) /\ KeepR(m, l)
           /\ KeepS(m, l) /\ m.i = l.i /\ m.end = l.end
<1>a. PICK m1 : m1 = [l EXCEPT !.src = v] OBVIOUS
<1>b. m = [m1 EXCEPT !.copy = <<>>] BY <1>a DEF Again
<1>2. /\ Fields(m1) /\ m1.tbl = l.tbl /\ m1.n = l.n /\ m1.cand = l.cand /\ m1.slot = l.slot
      /\ m1.delta = l.delta /\ m1.emptied = l.emptied /\ m1.hint = l.hint /\ m1.seq = l.seq
      /\ m1.owner = l.owner /\ m1.old = l.old /\ m1.new = l.new /\ m1.i = l.i /\ m1.src = v
      /\ m1.end = l.end /\ m1.copy = l.copy /\ m1.found = l.found
  BY <1>a DEF Fields
<1>4. /\ Fields(m) /\ m.tbl = m1.tbl /\ m.n = m1.n /\ m.cand = m1.cand /\ m.slot = m1.slot
      /\ m.delta = m1.delta /\ m.emptied = m1.emptied /\ m.hint = m1.hint /\ m.seq = m1.seq
      /\ m.owner = m1.owner /\ m.old = m1.old /\ m.new = m1.new /\ m.i = m1.i
      /\ m.src = m1.src /\ m.end = m1.end /\ m.copy = <<>> /\ m.found = m1.found
  BY <1>b, <1>2 DEF Fields
<1>6. QED BY <1>2, <1>4 DEF KeepT, KeepR, KeepS, KeepC

\* The next bucket of a claim.
LEMMA SetNext ==
    ASSUME NEW l, Fields(l), NEW v, NEW m, m = Onward(l, v)
    PROVE  /\ Fields(m) /\ m.i = v /\ m.src = v /\ m.copy = <<>> /\ KeepT(m, l)
           /\ KeepR(m, l) /\ KeepS(m, l) /\ m.end = l.end
<1>a. PICK m1 : m1 = [l EXCEPT !.i = v] OBVIOUS
<1>b. PICK m2 : m2 = [m1 EXCEPT !.src = v] OBVIOUS
<1>c. m = [m2 EXCEPT !.copy = <<>>] BY <1>a, <1>b DEF Onward
<1>2. /\ Fields(m1) /\ m1.tbl = l.tbl /\ m1.n = l.n /\ m1.cand = l.cand /\ m1.slot = l.slot
      /\ m1.delta = l.delta /\ m1.emptied = l.emptied /\ m1.hint = l.hint /\ m1.seq = l.seq
      /\ m1.owner = l.owner /\ m1.old = l.old /\ m1.new = l.new /\ m1.i = v /\ m1.src = l.src
      /\ m1.end = l.end /\ m1.copy = l.copy /\ m1.found = l.found
  BY <1>a DEF Fields
<1>4. /\ Fields(m2) /\ m2.tbl = m1.tbl /\ m2.n = m1.n /\ m2.cand = m1.cand /\ m2.slot = m1.slot
      /\ m2.delta = m1.delta /\ m2.emptied = m1.emptied /\ m2.hint = m1.hint /\ m2.seq = m1.seq
      /\ m2.owner = m1.owner /\ m2.old = m1.old /\ m2.new = m1.new /\ m2.i = m1.i /\ m2.src = v
      /\ m2.end = m1.end /\ m2.copy = m1.copy /\ m2.found = m1.found
  BY <1>b, <1>2 DEF Fields
<1>6. /\ Fields(m) /\ m.tbl = m2.tbl /\ m.n = m2.n /\ m.cand = m2.cand /\ m.slot = m2.slot
      /\ m.delta = m2.delta /\ m.emptied = m2.emptied /\ m.hint = m2.hint /\ m.seq = m2.seq
      /\ m.owner = m2.owner /\ m.old = m2.old /\ m.new = m2.new /\ m.i = m2.i
      /\ m.src = m2.src /\ m.end = m2.end /\ m.copy = <<>> /\ m.found = m2.found
  BY <1>c, <1>4 DEF Fields
<1>8. QED BY <1>2, <1>4, <1>6 DEF KeepT, KeepR, KeepS, KeepC

-----------------------------------------------------------------------------
(* What the steps do to the tables, to the labels and to the local          *)
(* variables: one lemma for each step.                                      *)

\* An assignment to the label and to the local variables.
LEMMA OwnStep ==
    ASSUME Shape, NEW p \in Procs, NEW l, NEW m, call' = call,
           pc' = [pc EXCEPT ![p] = l], loc' = [loc EXCEPT ![p] = m]
    PROVE  Own(p, l, m)
BY DEF Shape, Own

\* An assignment to the label.
LEMMA OwnLabel ==
    ASSUME Shape, NEW p \in Procs, NEW l, call' = call, pc' = [pc EXCEPT ![p] = l], loc' = loc
    PROVE  Own(p, l, loc[p])
BY DEF Shape, Own

\* An assignment to the local variables.
LEMMA OwnLocal ==
    ASSUME Shape, NEW p \in Procs, NEW m, call' = call, pc' = pc, loc' = [loc EXCEPT ![p] = m]
    PROVE  Own(p, pc[p], m)
BY DEF Shape, Own

\* A lookup reads the meta word of a bucket.
LEMMA ReadMetaDoes ==
    ASSUME Shape, NEW p \in Procs, ReadMeta(p)
    PROVE  /\ pc[p] = "meta" /\ Still /\ UNCHANGED <<ctl, nextTable>>
           /\ \E m : Own(p, "entry", m) /\ /\ KeepT(m, loc[p]) /\ KeepS(m, loc[p]) /\ m.n = loc[p].n /\ m.found = loc[p].found
                /\ m.cand = {i \in BucketSlots(Chain(p), loc[p].n) : Chain(p)[i].meta = hash.h2[call[p].key]}
<1>0. Fields(loc[p]) BY DEF Shape
<1>1. loc' = [loc EXCEPT ![p] = [loc[p] EXCEPT !.cand = {i \in BucketSlots(Chain(p), loc[p].n) : Chain(p)[i].meta = hash.h2[call[p].key]}]]
  BY DEF ReadMeta, Local
<1>2. PICK m : m = [loc[p] EXCEPT !.cand = {i \in BucketSlots(Chain(p), loc[p].n) : Chain(p)[i].meta = hash.h2[call[p].key]}] OBVIOUS
<1>3. pc' = [pc EXCEPT ![p] = "entry"] /\ call' = call /\ loc' = [loc EXCEPT ![p] = m]
  BY <1>1, <1>2 DEF ReadMeta, Goto
<1>4. Own(p, "entry", m) BY <1>3, OwnStep
<1>5. /\ KeepT(m, loc[p]) /\ KeepS(m, loc[p]) /\ m.n = loc[p].n /\ m.found = loc[p].found
                /\ m.cand = {i \in BucketSlots(Chain(p), loc[p].n) : Chain(p)[i].meta = hash.h2[call[p].key]} BY <1>0, <1>2, SetCand
<1>6. QED BY <1>4, <1>5 DEF ReadMeta, Still, shared

\* Range has visited every bucket.
LEMMA RangeEndDoes ==
    ASSUME Shape, NEW p \in Procs, RangeEnd(p)
    PROVE  /\ pc[p] = "range" /\ Still /\ UNCHANGED <<ctl, nextTable>>
           /\ Own(p, "return", loc[p])
<1>1. pc' = [pc EXCEPT ![p] = "return"] /\ loc' = loc /\ call' = call
  BY DEF RangeEnd, Goto
<1>2. Own(p, "return", loc[p]) BY <1>1, OwnLabel
<1>3. QED BY <1>2 DEF RangeEnd, Still, shared, Goto

\* The fast path of a shrink.
LEMMA ResizeFastDoes ==
    ASSUME Shape, NEW p \in Procs, ResizeFast(p)
    PROVE  /\ pc[p] = "resize.fast" /\ Still /\ UNCHANGED <<ctl, nextTable>>
           /\ Own(p, (IF TableLen(loc[p].tbl) = MinLen \/ tables[loc[p].tbl].size > ShrinkThreshold(loc[p].tbl)
                  THEN "return" ELSE "resize.seq"), loc[p])
<1>1. pc' = [pc EXCEPT ![p] = (IF TableLen(loc[p].tbl) = MinLen \/ tables[loc[p].tbl].size > ShrinkThreshold(loc[p].tbl)
                  THEN "return" ELSE "resize.seq")] /\ loc' = loc /\ call' = call
  BY DEF ResizeFast, Goto
<1>2. Own(p, (IF TableLen(loc[p].tbl) = MinLen \/ tables[loc[p].tbl].size > ShrinkThreshold(loc[p].tbl)
                  THEN "return" ELSE "resize.seq"), loc[p]) BY <1>1, OwnLabel
<1>3. QED BY <1>2 DEF ResizeFast, Still, shared, Goto

\* The sequence number before a resize.
LEMMA ResizeSeqDoes ==
    ASSUME Shape, NEW p \in Procs, ResizeSeq(p)
    PROVE  /\ pc[p] = "resize.seq" /\ Still /\ UNCHANGED <<ctl, nextTable>>
           /\ \E m : Own(p, IF Odd(ctl.seq) THEN "help.table" ELSE "resize.cas", m) /\ KeepT(m, loc[p]) /\ m.seq = ctl.seq /\ m.owner = loc[p].owner
<1>0. Fields(loc[p]) BY DEF Shape
<1>1. loc' = [loc EXCEPT ![p] = [loc[p] EXCEPT !.seq = ctl.seq]]
  BY DEF ResizeSeq, Local
<1>2. PICK m : m = [loc[p] EXCEPT !.seq = ctl.seq] OBVIOUS
<1>3. pc' = [pc EXCEPT ![p] = IF Odd(ctl.seq) THEN "help.table" ELSE "resize.cas"] /\ call' = call /\ loc' = [loc EXCEPT ![p] = m]
  BY <1>1, <1>2 DEF ResizeSeq, Goto
<1>4. Own(p, IF Odd(ctl.seq) THEN "help.table" ELSE "resize.cas", m) BY <1>3, OwnStep
<1>5. KeepT(m, loc[p]) /\ m.seq = ctl.seq /\ m.owner = loc[p].owner BY <1>0, <1>2, SetSeq
<1>6. QED BY <1>4, <1>5 DEF ResizeSeq, Still, shared

\* The new table is offered.
LEMMA ResizeNextDoes ==
    ASSUME Shape, NEW p \in Procs, ResizeNext(p)
    PROVE  /\ pc[p] = "resize.next" /\ Still /\ UNCHANGED ctl
           /\ Own(p, "claim", loc[p])
           /\ nextTable' = loc[p].new
<1>1. pc' = [pc EXCEPT ![p] = "claim"] /\ loc' = loc /\ call' = call
  BY DEF ResizeNext, Goto
<1>2. Own(p, "claim", loc[p]) BY <1>1, OwnLabel
<1>3. QED BY <1>2 DEF ResizeNext, Still, shared, Goto

\* No helper is left.
LEMMA ResizeWaitDoes ==
    ASSUME Shape, NEW p \in Procs, ResizeWait(p)
    PROVE  /\ pc[p] = "resize.wait" /\ Still /\ UNCHANGED <<ctl, nextTable>>
           /\ Own(p, "resize.publish", loc[p])
           /\ ctl.helpers = 0
<1>1. pc' = [pc EXCEPT ![p] = "resize.publish"] /\ loc' = loc /\ call' = call
  BY DEF ResizeWait, Goto
<1>2. Own(p, "resize.publish", loc[p]) BY <1>1, OwnLabel
<1>3. QED BY <1>2 DEF ResizeWait, Still, shared, Goto

\* The new table becomes the current one.
LEMMA ResizePublishDoes ==
    ASSUME Shape, NEW p \in Procs, ResizePublish(p)
    PROVE  /\ pc[p] = "resize.publish" /\ UNCHANGED <<hash, tables, resizeIdx, ctl, nextTable>>
           /\ Own(p, "resize.clear", loc[p])
           /\ table' = loc[p].new
<1>1. pc' = [pc EXCEPT ![p] = "resize.clear"] /\ loc' = loc /\ call' = call
  BY DEF ResizePublish, Goto
<1>2. Own(p, "resize.clear", loc[p]) BY <1>1, OwnLabel
<1>3. QED BY <1>2 DEF ResizePublish, Still, shared, Goto

\* The new table is no longer offered.
LEMMA ResizeClearDoes ==
    ASSUME Shape, NEW p \in Procs, ResizeClear(p)
    PROVE  /\ pc[p] = "resize.clear" /\ Still /\ UNCHANGED ctl
           /\ Own(p, "resize.mu", loc[p])
           /\ nextTable' = NoTable
<1>1. pc' = [pc EXCEPT ![p] = "resize.mu"] /\ loc' = loc /\ call' = call
  BY DEF ResizeClear, Goto
<1>2. Own(p, "resize.mu", loc[p]) BY <1>1, OwnLabel
<1>3. QED BY <1>2 DEF ResizeClear, Still, shared, Goto

\* The owner takes resizeMu.
LEMMA ResizeMuDoes ==
    ASSUME Shape, NEW p \in Procs, ResizeMu(p)
    PROVE  /\ pc[p] = "resize.mu" /\ Still /\ UNCHANGED <<ctl, nextTable>>
           /\ Own(p, "resize.end", loc[p])
<1>1. pc' = [pc EXCEPT ![p] = "resize.end"] /\ loc' = loc /\ call' = call
  BY DEF ResizeMu, Goto
<1>2. Own(p, "resize.end", loc[p]) BY <1>1, OwnLabel
<1>3. QED BY <1>2 DEF ResizeMu, Still, shared, Goto

\* A helper reads the current table.
LEMMA HelpTableDoes ==
    ASSUME Shape, NEW p \in Procs, HelpTable(p)
    PROVE  /\ pc[p] = "help.table" /\ Still /\ UNCHANGED <<ctl, nextTable>>
           /\ \E m : Own(p, "help.next", m) /\ KeepT(m, loc[p]) /\ m.seq = loc[p].seq /\ m.owner = loc[p].owner /\ m.old = table
<1>0. Fields(loc[p]) BY DEF Shape
<1>1. loc' = [loc EXCEPT ![p] = [loc[p] EXCEPT !.old = table]]
  BY DEF HelpTable, Local
<1>2. PICK m : m = [loc[p] EXCEPT !.old = table] OBVIOUS
<1>3. pc' = [pc EXCEPT ![p] = "help.next"] /\ call' = call /\ loc' = [loc EXCEPT ![p] = m]
  BY <1>1, <1>2 DEF HelpTable, Goto
<1>4. Own(p, "help.next", m) BY <1>3, OwnStep
<1>5. KeepT(m, loc[p]) /\ m.seq = loc[p].seq /\ m.owner = loc[p].owner /\ m.old = table BY <1>0, <1>2, SetOld
<1>6. QED BY <1>4, <1>5 DEF HelpTable, Still, shared

\* A helper reads the table that is offered.
LEMMA HelpNextDoes ==
    ASSUME Shape, NEW p \in Procs, HelpNext(p)
    PROVE  /\ pc[p] = "help.next" /\ Still /\ UNCHANGED <<ctl, nextTable>>
           /\ \E m : Own(p, "help.check", m) /\ /\ KeepT(m, loc[p]) /\ m.seq = loc[p].seq /\ m.owner = loc[p].owner
                /\ m.old = loc[p].old /\ m.new = nextTable
<1>0. Fields(loc[p]) BY DEF Shape
<1>1. loc' = [loc EXCEPT ![p] = [loc[p] EXCEPT !.new = nextTable]]
  BY DEF HelpNext, Local
<1>2. PICK m : m = [loc[p] EXCEPT !.new = nextTable] OBVIOUS
<1>3. pc' = [pc EXCEPT ![p] = "help.check"] /\ call' = call /\ loc' = [loc EXCEPT ![p] = m]
  BY <1>1, <1>2 DEF HelpNext, Goto
<1>4. Own(p, "help.check", m) BY <1>3, OwnStep
<1>5. /\ KeepT(m, loc[p]) /\ m.seq = loc[p].seq /\ m.owner = loc[p].owner
                /\ m.old = loc[p].old /\ m.new = nextTable BY <1>0, <1>2, SetNew
<1>6. QED BY <1>4, <1>5 DEF HelpNext, Still, shared

\* A helper looks at what it has read.
LEMMA HelpCheckDoes ==
    ASSUME Shape, NEW p \in Procs, HelpCheck(p)
    PROVE  /\ pc[p] = "help.check" /\ Still /\ UNCHANGED <<ctl, nextTable>>
           /\ Own(p, (IF ctl.seq # loc[p].seq THEN AfterResize(p)
                  ELSE IF loc[p].new \in {NoTable, loc[p].old} THEN "help.table" ELSE "help.join"), loc[p])
<1>1. pc' = [pc EXCEPT ![p] = (IF ctl.seq # loc[p].seq THEN AfterResize(p)
                  ELSE IF loc[p].new \in {NoTable, loc[p].old} THEN "help.table" ELSE "help.join")] /\ loc' = loc /\ call' = call
  BY DEF HelpCheck, Goto
<1>2. Own(p, (IF ctl.seq # loc[p].seq THEN AfterResize(p)
                  ELSE IF loc[p].new \in {NoTable, loc[p].old} THEN "help.table" ELSE "help.join"), loc[p]) BY <1>1, OwnLabel
<1>3. QED BY <1>2 DEF HelpCheck, Still, shared, Goto

\* A goroutine waits for the end of a resize.
LEMMA WaitForResizeDoes ==
    ASSUME Shape, NEW p \in Procs, WaitForResize(p)
    PROVE  /\ pc[p] = "wait" /\ Still /\ UNCHANGED <<ctl, nextTable>>
           /\ Own(p, (IF Odd(ctl.seq) THEN "sleep" ELSE AfterResize(p)), loc[p])
<1>1. pc' = [pc EXCEPT ![p] = (IF Odd(ctl.seq) THEN "sleep" ELSE AfterResize(p))] /\ loc' = loc /\ call' = call
  BY DEF WaitForResize, Goto
<1>2. Own(p, (IF Odd(ctl.seq) THEN "sleep" ELSE AfterResize(p)), loc[p]) BY <1>1, OwnLabel
<1>3. QED BY <1>2 DEF WaitForResize, Still, shared, Goto

\* A helper signs off.
LEMMA HelpLeaveDoes ==
    ASSUME Shape, NEW p \in Procs, HelpLeave(p)
    PROVE  /\ pc[p] = "help.leave" /\ Still /\ UNCHANGED nextTable /\ ctl'.seq = ctl.seq
           /\ Own(p, "wait", loc[p])
<1>1. pc' = [pc EXCEPT ![p] = "wait"] /\ loc' = loc /\ call' = call
  BY DEF HelpLeave, Goto
<1>2. Own(p, "wait", loc[p]) BY <1>1, OwnLabel
<1>3. QED BY <1>2 DEF HelpLeave, Still, shared, Goto

\* A bucket is locked and copied.
LEMMA CopyBeginDoes ==
    ASSUME Shape, NEW p \in Procs, CopyBegin(p)
    PROVE  /\ pc[p] = "copy" /\ UNCHANGED <<hash, table, resizeIdx, ctl, nextTable>>
           /\ tables[loc[p].old].mu[loc[p].src] = Nobody
           /\ tables' = [tables EXCEPT ![loc[p].old].mu[loc[p].src] = p]
           /\ \E m : Own(p, "copied", m) /\ /\ KeepT(m, loc[p]) /\ KeepS(m, loc[p])
                /\ m.i = loc[p].i /\ m.src = loc[p].src /\ m.end = loc[p].end
                /\ m.copy = [d \in Dests(p) |-> Transferred(tables[loc[p].old].chains[loc[p].src],
                                          tables[loc[p].new].chains[d], d, TableLen(loc[p].new))]
<1>0. Fields(loc[p]) BY DEF Shape
<1>1. loc' = [loc EXCEPT ![p] = [loc[p] EXCEPT !.copy =
          [d \in Dests(p) |-> Transferred(tables[loc[p].old].chains[loc[p].src],
                                          tables[loc[p].new].chains[d], d, TableLen(loc[p].new))]]]
  BY DEF CopyBegin, Local
<1>2. PICK m : m = [loc[p] EXCEPT !.copy =
          [d \in Dests(p) |-> Transferred(tables[loc[p].old].chains[loc[p].src],
                                          tables[loc[p].new].chains[d], d, TableLen(loc[p].new))]] OBVIOUS
<1>3. pc' = [pc EXCEPT ![p] = "copied"] /\ call' = call /\ loc' = [loc EXCEPT ![p] = m]
  BY <1>1, <1>2 DEF CopyBegin, Goto
<1>4. Own(p, "copied", m) BY <1>3, OwnStep
<1>5. /\ KeepT(m, loc[p]) /\ KeepS(m, loc[p])
                /\ m.i = loc[p].i /\ m.src = loc[p].src /\ m.end = loc[p].end
                /\ m.copy = [d \in Dests(p) |-> Transferred(tables[loc[p].old].chains[loc[p].src],
                                          tables[loc[p].new].chains[d], d, TableLen(loc[p].new))] BY <1>0, <1>2, SetCopy
<1>6. QED BY <1>4, <1>5 DEF CopyBegin, Still, shared

\* A writer looks for a newer table.
LEMMA CheckNewerDoes ==
    ASSUME Shape, NEW p \in Procs, CheckNewer(p)
    PROVE  /\ pc[p] = "newer" /\ UNCHANGED <<hash, table, resizeIdx, ctl, nextTable>>
           /\ Own(p, (IF table # loc[p].tbl THEN "table" ELSE "search"), loc[p])
           /\ IF table # loc[p].tbl THEN Unlock(p) ELSE UNCHANGED tables
<1>1. pc' = [pc EXCEPT ![p] = (IF table # loc[p].tbl THEN "table" ELSE "search")] /\ loc' = loc /\ call' = call
  BY DEF CheckNewer, Goto
<1>2. Own(p, (IF table # loc[p].tbl THEN "table" ELSE "search"), loc[p]) BY <1>1, OwnLabel
<1>3. QED BY <1>2 DEF CheckNewer, Still, shared, Goto

\* A value is replaced.
LEMMA UpdateDoes ==
    ASSUME Shape, NEW p \in Procs, Update(p)
    PROVE  /\ pc[p] = "update" /\ UNCHANGED <<hash, table, resizeIdx, ctl, nextTable>>
           /\ Own(p, "return", loc[p])
           /\ WriteChain(p, [Chain(p) EXCEPT ![loc[p].slot] = Slot(p)], Nobody)
<1>1. pc' = [pc EXCEPT ![p] = "return"] /\ loc' = loc /\ call' = call
  BY DEF Update, Goto
<1>2. Own(p, "return", loc[p]) BY <1>1, OwnLabel
<1>3. QED BY <1>2 DEF Update, Still, shared, Goto

\* The meta byte of a new entry.
LEMMA InsertMetaDoes ==
    ASSUME Shape, NEW p \in Procs, InsertMeta(p)
    PROVE  /\ pc[p] = "insert.meta" /\ UNCHANGED <<hash, table, resizeIdx, ctl, nextTable>>
           /\ Own(p, "insert.entry", loc[p])
           /\ WriteChain(p, [Chain(p) EXCEPT ![loc[p].slot].meta = hash.h2[call[p].key]], p)
<1>1. pc' = [pc EXCEPT ![p] = "insert.entry"] /\ loc' = loc /\ call' = call
  BY DEF InsertMeta, Goto
<1>2. Own(p, "insert.entry", loc[p]) BY <1>1, OwnLabel
<1>3. QED BY <1>2 DEF InsertMeta, Still, shared, Goto

\* The meta byte of a deleted entry.
LEMMA DeleteMetaDoes ==
    ASSUME Shape, NEW p \in Procs, DeleteMeta(p)
    PROVE  /\ pc[p] = "delete.meta" /\ UNCHANGED <<hash, table, resizeIdx, ctl, nextTable>>
           /\ Own(p, "delete.entry", loc[p])
           /\ WriteChain(p, [Chain(p) EXCEPT ![loc[p].slot].meta = 0], p)
<1>1. pc' = [pc EXCEPT ![p] = "delete.entry"] /\ loc' = loc /\ call' = call
  BY DEF DeleteMeta, Goto
<1>2. Own(p, "delete.entry", loc[p]) BY <1>1, OwnLabel
<1>3. QED BY <1>2 DEF DeleteMeta, Still, shared, Goto

\* The pointer of a new entry.
LEMMA InsertEntryDoes ==
    ASSUME Shape, NEW p \in Procs, InsertEntry(p)
    PROVE  /\ pc[p] = "insert.entry" /\ UNCHANGED <<hash, table, resizeIdx, ctl, nextTable>>
           /\ WriteChain(p, [Chain(p) EXCEPT ![loc[p].slot] = Slot(p)], Nobody)
           /\ \E m : Own(p, "addSize", m) /\ /\ m.tbl = loc[p].tbl /\ m.hint = loc[p].hint /\ m.emptied = loc[p].emptied
                /\ m.delta = 1 /\ KeepS(m, loc[p])
<1>0. Fields(loc[p]) BY DEF Shape
<1>1. loc' = [loc EXCEPT ![p] = [loc[p] EXCEPT !.delta = 1]]
  BY DEF InsertEntry, Local
<1>2. PICK m : m = [loc[p] EXCEPT !.delta = 1] OBVIOUS
<1>3. pc' = [pc EXCEPT ![p] = "addSize"] /\ call' = call /\ loc' = [loc EXCEPT ![p] = m]
  BY <1>1, <1>2 DEF InsertEntry, Goto
<1>4. Own(p, "addSize", m) BY <1>3, OwnStep
<1>5. /\ m.tbl = loc[p].tbl /\ m.hint = loc[p].hint /\ m.emptied = loc[p].emptied
                /\ m.delta = 1 /\ KeepS(m, loc[p]) BY <1>0, <1>2, SetDelta
<1>6. QED BY <1>4, <1>5 DEF InsertEntry, Still, shared

\* A new bucket with a new entry.
LEMMA AppendBucketDoes ==
    ASSUME Shape, NEW p \in Procs, AppendBucket(p)
    PROVE  /\ pc[p] = "append" /\ UNCHANGED <<hash, table, resizeIdx, ctl, nextTable>>
           /\ WriteChain(p, Chain(p) \o [EmptyBucket EXCEPT ![1] = Slot(p)], Nobody)
           /\ \E m : Own(p, "addSize", m) /\ /\ m.tbl = loc[p].tbl /\ m.hint = loc[p].hint /\ m.emptied = loc[p].emptied
                /\ m.delta = 1 /\ KeepS(m, loc[p])
<1>0. Fields(loc[p]) BY DEF Shape
<1>1. loc' = [loc EXCEPT ![p] = [loc[p] EXCEPT !.delta = 1]]
  BY DEF AppendBucket, Local
<1>2. PICK m : m = [loc[p] EXCEPT !.delta = 1] OBVIOUS
<1>3. pc' = [pc EXCEPT ![p] = "addSize"] /\ call' = call /\ loc' = [loc EXCEPT ![p] = m]
  BY <1>1, <1>2 DEF AppendBucket, Goto
<1>4. Own(p, "addSize", m) BY <1>3, OwnStep
<1>5. /\ m.tbl = loc[p].tbl /\ m.hint = loc[p].hint /\ m.emptied = loc[p].emptied
                /\ m.delta = 1 /\ KeepS(m, loc[p]) BY <1>0, <1>2, SetDelta
<1>6. QED BY <1>4, <1>5 DEF AppendBucket, Still, shared

\* The pointer of a deleted entry.
LEMMA DeleteEntryDoes ==
    ASSUME Shape, NEW p \in Procs, DeleteEntry(p)
    PROVE  /\ pc[p] = "delete.entry" /\ UNCHANGED <<hash, table, resizeIdx, ctl, nextTable>>
           /\ WriteChain(p, [Chain(p) EXCEPT ![loc[p].slot] = EmptySlot], Nobody)
           /\ \E m : Own(p, "addSize", m) /\ m.tbl = loc[p].tbl /\ m.hint = loc[p].hint /\ m.delta = -1 /\ KeepS(m, loc[p])
<1>0. Fields(loc[p]) BY DEF Shape
<1>d. PICK d : d = -1 OBVIOUS
<1>1. PICK v : loc' = [loc EXCEPT ![p] = [loc[p] EXCEPT !.delta = d, !.emptied = v]]
  BY <1>d DEF DeleteEntry, Local
<1>2. PICK m : m = Deleted(loc[p], d, v) OBVIOUS
<1>3. pc' = [pc EXCEPT ![p] = "addSize"] /\ call' = call /\ loc' = [loc EXCEPT ![p] = m]
  BY <1>1, <1>2 DEF DeleteEntry, Goto, Deleted
<1>4. Own(p, "addSize", m) BY <1>3, OwnStep
<1>5. m.tbl = loc[p].tbl /\ m.hint = loc[p].hint /\ m.delta = d /\ KeepS(m, loc[p])
  BY <1>0, <1>2, SetEmptied
<1>6. QED BY <1>d, <1>4, <1>5 DEF DeleteEntry, Still, shared

\* A call begins.
LEMMA InvokeDoes ==
    ASSUME Shape, NEW p \in Procs, NEW c, Invoke(p, c), call = [q \in Procs |-> call[q]]
    PROVE  /\ pc[p] = "idle" /\ pc'[p] = "table" /\ Still /\ UNCHANGED <<ctl, nextTable>> /\ loc' = loc
           /\ call'[p] = c /\ call' = [q \in Procs |-> call'[q]]
           /\ \A q \in Procs \ {p} : pc'[q] = pc[q] /\ call'[q] = call[q]
BY DEF Invoke, Goto, Still, shared, Shape

\* A call ends.
LEMMA ReturnDoes ==
    ASSUME Shape, NEW p \in Procs, Return(p), call = [q \in Procs |-> call[q]]
    PROVE  /\ pc[p] = "return" /\ pc'[p] = "idle" /\ Still /\ UNCHANGED <<ctl, nextTable>>
           /\ loc'[p] = NoLocals /\ call'[p] = Abs!Idle /\ call' = [q \in Procs |-> call'[q]]
           /\ \A q \in Procs \ {p} : pc'[q] = pc[q] /\ call'[q] = call[q] /\ loc'[q] = loc[q]
BY DEF Return, Goto, Local, Still, shared, Shape

\* An attempt begins with the current table.
LEMMA ReadTableDoes ==
    ASSUME Shape, NEW p \in Procs, ReadTable(p)
    PROVE  /\ pc[p] = "table" /\ Still /\ UNCHANGED <<ctl, nextTable>>
           /\ \E l, m : /\ Own(p, l, m)
                        /\ l = (IF call[p].op = "Range" THEN "range"
                                ELSE IF call[p].op = "Store" THEN "lock" ELSE "meta")
                        /\ m.tbl = table /\ m.n = (IF call[p].op = "Range" THEN 0 ELSE 1)
                        /\ m.cand = {} /\ m.hint = "none" /\ m.owner = FALSE
                        /\ m.found = Nothing
<1>1. PICK w : w = IF call[p].op = "Range" THEN 0 ELSE 1 OBVIOUS
<1>2. PICK m : m = Starting(table, w) OBVIOUS
<1>3. PICK l : l = IF call[p].op = "Range" THEN "range"
                   ELSE IF call[p].op = "Store" THEN "lock" ELSE "meta" OBVIOUS
<1>4. pc' = [pc EXCEPT ![p] = l] /\ call' = call /\ loc' = [loc EXCEPT ![p] = m]
  BY <1>1, <1>2, <1>3 DEF Starting, ReadTable, Goto, Local
<1>5. Own(p, l, m) BY <1>4, OwnStep
<1>6. /\ m.tbl = table /\ m.n = w /\ m.cand = {} /\ m.hint = "none" /\ m.owner = FALSE /\ m.found = Nothing
  <2>1. PICK m1 : m1 = [NoLocals EXCEPT !.tbl = table] OBVIOUS
  <2>2. /\ Fields(m1) /\ m1.tbl = table /\ m1.cand = {} /\ m1.hint = "none" /\ m1.owner = FALSE
        /\ m1.found = Nothing
    BY <2>1 DEF Fields, NoLocals, Nothing
  <2>3. m = [m1 EXCEPT !.n = w] BY <1>2, <2>1 DEF Starting
  <2>4. QED BY <2>2, <2>3 DEF Fields
<1>7. QED BY <1>1, <1>3, <1>5, <1>6 DEF ReadTable, Still, shared

\* A lookup reads an entry.
LEMMA ReadEntryDoes ==
    ASSUME Shape, NEW p \in Procs, ReadEntry(p)
    PROVE  LET e == Chain(p)[Min(loc[p].cand)]
           IN  /\ pc[p] = "entry" /\ loc[p].cand # {} /\ Still /\ UNCHANGED <<ctl, nextTable>>
               /\ \/ /\ e.key # call[p].key
                     /\ \E m : /\ Own(p, "entry", m) /\ KeepT(m, loc[p]) /\ KeepS(m, loc[p])
                               /\ m.n = loc[p].n /\ m.cand = loc[p].cand \ {Min(loc[p].cand)}
                     /\ res' = res
                  \/ /\ e.key = call[p].key /\ call[p].op = "LoadAndDelete"
                     /\ Own(p, "lock", loc[p]) /\ res' = res
                  \/ /\ e.key = call[p].key /\ call[p].op # "LoadAndDelete"
                     /\ Own(p, "return", loc[p]) /\ Settle(p, e.val)
<1>0. Fields(loc[p]) BY DEF Shape
<1>1. PICK e : e = Chain(p)[Min(loc[p].cand)] OBVIOUS
<1>2. pc[p] = "entry" /\ loc[p].cand # {} /\ Still /\ UNCHANGED <<ctl, nextTable>> /\ call' = call
  BY DEF ReadEntry, Still, shared
<1>3. CASE e.key # call[p].key
  <2>1. PICK v : v = loc[p].cand \ {Min(loc[p].cand)} OBVIOUS
  <2>2. PICK m : m = [loc[p] EXCEPT !.cand = v] OBVIOUS
  <2>3. loc' = [loc EXCEPT ![p] = m] /\ pc' = pc /\ res' = res
    BY <1>1, <1>3, <2>1, <2>2 DEF ReadEntry, Local
  <2>4. Own(p, "entry", m) BY <1>2, <2>3, OwnLocal
  <2>5. KeepT(m, loc[p]) /\ KeepS(m, loc[p]) /\ m.n = loc[p].n /\ m.cand = v
    BY <1>0, <2>2, SetCand
  <2>6. QED BY <1>1, <1>2, <1>3, <2>1, <2>3, <2>4, <2>5
<1>4. CASE e.key = call[p].key /\ call[p].op = "LoadAndDelete"
  <2>1. pc' = [pc EXCEPT ![p] = "lock"] /\ loc' = loc /\ res' = res
    BY <1>1, <1>4 DEF ReadEntry, Goto
  <2>2. Own(p, "lock", loc[p]) BY <1>2, <2>1, OwnLabel
  <2>3. QED BY <1>1, <1>2, <1>4, <2>1, <2>2
<1>5. CASE e.key = call[p].key /\ call[p].op # "LoadAndDelete"
  <2>1. pc' = [pc EXCEPT ![p] = "return"] /\ loc' = loc /\ Settle(p, e.val)
    BY <1>1, <1>5 DEF ReadEntry, Goto
  <2>2. Own(p, "return", loc[p]) BY <1>2, <2>1, OwnLabel
  <2>3. QED BY <1>1, <1>2, <1>5, <2>1, <2>2
<1>6. QED BY <1>3, <1>4, <1>5

\* A lookup goes to the next bucket of the chain, or ends.
LEMMA ReadNextDoes ==
    ASSUME Shape, NEW p \in Procs, ReadNext(p)
    PROVE  /\ pc[p] = "entry" /\ loc[p].cand = {} /\ Still /\ UNCHANGED <<ctl, nextTable>>
           /\ \/ /\ loc[p].n * PerBucket < Len(Chain(p)) /\ res' = res
                 /\ \E m : /\ Own(p, "meta", m) /\ KeepT(m, loc[p]) /\ KeepS(m, loc[p])
                           /\ m.n = loc[p].n + 1
              \/ /\ ~(loc[p].n * PerBucket < Len(Chain(p))) /\ call[p].op = "LoadOrStore"
                 /\ Own(p, "lock", loc[p]) /\ res' = res
              \/ /\ ~(loc[p].n * PerBucket < Len(Chain(p))) /\ call[p].op # "LoadOrStore"
                 /\ Own(p, "return", loc[p]) /\ Settle(p, Absent)
<1>0. Fields(loc[p]) BY DEF Shape
<1>2. pc[p] = "entry" /\ loc[p].cand = {} /\ Still /\ UNCHANGED <<ctl, nextTable>> /\ call' = call
  BY DEF ReadNext, Still, shared
<1>3. CASE loc[p].n * PerBucket < Len(Chain(p))
  <2>1. PICK v : v = loc[p].n + 1 OBVIOUS
  <2>2. PICK m : m = [loc[p] EXCEPT !.n = v] OBVIOUS
  <2>3. loc' = [loc EXCEPT ![p] = m] /\ pc' = [pc EXCEPT ![p] = "meta"] /\ res' = res
    BY <1>3, <2>1, <2>2 DEF ReadNext, Local, Goto
  <2>4. Own(p, "meta", m) BY <1>2, <2>3, OwnStep
  <2>5. KeepT(m, loc[p]) /\ KeepS(m, loc[p]) /\ m.n = v BY <1>0, <2>2, SetN
  <2>6. QED BY <1>2, <1>3, <2>1, <2>3, <2>4, <2>5
<1>4. CASE ~(loc[p].n * PerBucket < Len(Chain(p))) /\ call[p].op = "LoadOrStore"
  <2>1. pc' = [pc EXCEPT ![p] = "lock"] /\ loc' = loc /\ res' = res BY <1>4 DEF ReadNext, Goto
  <2>2. Own(p, "lock", loc[p]) BY <1>2, <2>1, OwnLabel
  <2>3. QED BY <1>2, <1>4, <2>1, <2>2
<1>5. CASE ~(loc[p].n * PerBucket < Len(Chain(p))) /\ call[p].op # "LoadOrStore"
  <2>1. pc' = [pc EXCEPT ![p] = "return"] /\ loc' = loc /\ Settle(p, Absent) BY <1>5 DEF ReadNext, Goto
  <2>2. Own(p, "return", loc[p]) BY <1>2, <2>1, OwnLabel
  <2>3. QED BY <1>2, <1>5, <2>1, <2>2
<1>6. QED BY <1>3, <1>4, <1>5

\* Range visits a bucket.
LEMMA RangeBucketDoes ==
    ASSUME Shape, NEW p \in Procs, RangeBucket(p)
    PROVE  LET chain == tables[loc[p].tbl].chains[loc[p].n]
               at(k) == {i \in DOMAIN chain : chain[i].key = k}
           IN  /\ pc[p] = "range" /\ loc[p].n < TableLen(loc[p].tbl) /\ res' = res
               /\ tables[loc[p].tbl].mu[loc[p].n] = Nobody /\ Still /\ UNCHANGED <<ctl, nextTable>>
               /\ \E m : /\ Own(p, "range", m) /\ KeepT(m, loc[p]) /\ KeepS(m, loc[p]) /\ m.n = loc[p].n + 1
                         /\ m.found = [k \in Keys |-> IF at(k) = {} THEN loc[p].found[k] ELSE chain[Max(at(k))].val]
<1>0. Fields(loc[p]) BY DEF Shape
<1> DEFINE chain == tables[loc[p].tbl].chains[loc[p].n]
           at(k) == {i \in DOMAIN chain : chain[i].key = k}
<1>1. PICK v, w : /\ v = loc[p].n + 1
                  /\ w = [k \in Keys |-> IF at(k) = {} THEN loc[p].found[k] ELSE chain[Max(at(k))].val]
  BY Zenon
<1>2. PICK m : m = Visited(loc[p], v, w) OBVIOUS
<1>3. pc' = pc /\ call' = call /\ res' = res /\ loc' = [loc EXCEPT ![p] = m]
  BY <1>1, <1>2, Zenon DEF RangeBucket, Local, Visited
<1>4. pc[p] = "range" BY Zenon DEF RangeBucket
<1>5. Own(p, "range", m) BY <1>3, <1>4, OwnLocal
<1>6. KeepT(m, loc[p]) /\ KeepS(m, loc[p]) /\ m.n = v /\ m.found = w BY <1>0, <1>2, SetFound
<1>7. QED BY <1>1, <1>3, <1>5, <1>6, Zenon DEF RangeBucket, Still, shared

\* A writer takes the lock of its bucket, or turns to help a resize.
LEMMA LockRootDoes ==
    ASSUME Shape, NEW p \in Procs, LockRoot(p)
    PROVE  /\ pc[p] = "lock" /\ Locked(p) = Nobody /\ res' = res
           /\ UNCHANGED <<hash, table, resizeIdx, ctl, nextTable>>
           /\ \/ /\ Odd(ctl.seq) /\ tables' = tables
                 /\ \E m : /\ Own(p, "help.table", m) /\ KeepT(m, loc[p])
                           /\ m.seq = ctl.seq /\ m.owner = loc[p].owner
              \/ ~Odd(ctl.seq) /\ Lock(p) /\ Own(p, "newer", loc[p])
<1>0. Fields(loc[p]) BY DEF Shape
<1>1. /\ pc[p] = "lock" /\ Locked(p) = Nobody /\ call' = call /\ res' = res
      /\ UNCHANGED <<hash, table, resizeIdx, ctl, nextTable>>
  BY DEF LockRoot
<1>2. CASE Odd(ctl.seq)
  <2>1. PICK m : m = [loc[p] EXCEPT !.seq = ctl.seq] OBVIOUS
  <2>2. loc' = [loc EXCEPT ![p] = m] /\ pc' = [pc EXCEPT ![p] = "help.table"] /\ tables' = tables
    BY <1>2, <2>1 DEF LockRoot, Local, Goto
  <2>3. Own(p, "help.table", m) BY <1>1, <2>2, OwnStep
  <2>4. KeepT(m, loc[p]) /\ m.seq = ctl.seq /\ m.owner = loc[p].owner BY <1>0, <2>1, SetSeq
  <2>5. QED BY <1>1, <1>2, <2>2, <2>3, <2>4
<1>3. CASE ~Odd(ctl.seq)
  <2>1. loc' = loc /\ pc' = [pc EXCEPT ![p] = "newer"] /\ Lock(p)
    BY <1>3 DEF LockRoot, Goto
  <2>2. Own(p, "newer", loc[p]) BY <1>1, <2>1, OwnLabel
  <2>3. QED BY <1>1, <1>3, <2>1, <2>2
<1>4. QED BY <1>2, <1>3

\* The assignment of Search.
LEMMA TakesForm ==
    ASSUME Shape, NEW p \in Procs, NEW i, NEW l, call' = call, UNCHANGED <<tables, res>>,
           loc' = [loc EXCEPT ![p] = [loc[p] EXCEPT !.slot = i]], pc' = [pc EXCEPT ![p] = l]
    PROVE  Takes(p, i, l)
<1>0. Fields(loc[p]) BY DEF Shape
<1>1. PICK m : m = [loc[p] EXCEPT !.slot = i] OBVIOUS
<1>2. loc' = [loc EXCEPT ![p] = m] BY <1>1
<1>3. Own(p, l, m) BY <1>2, OwnStep
<1>4. KeepS(m, loc[p]) /\ m.slot = i /\ m.tbl = loc[p].tbl /\ m.hint = loc[p].hint /\ m.emptied = loc[p].emptied
  BY <1>0, <1>1, SetSlot
<1>5. QED BY <1>3, <1>4 DEF Takes

\* A writer walks along its chain.
LEMMA SearchDoes ==
    ASSUME Shape, NEW p \in Procs, Search(p), call[p].op \in Abs!WriteOps
    PROVE  /\ pc[p] = "search" /\ UNCHANGED <<hash, table, resizeIdx, ctl, nextTable>>
           /\ \/ Hits(p) # {} /\ call[p].op = "LoadOrStore" /\ Gives(p, Chain(p)[Min(Hits(p))].val)
              \/ Hits(p) # {} /\ call[p].op = "LoadAndDelete" /\ Takes(p, Min(Hits(p)), "delete.meta")
              \/ Hits(p) # {} /\ call[p].op = "Store" /\ Takes(p, Min(Hits(p)), "update")
              \/ /\ Hits(p) = {} /\ Unlock(p) /\ res' = res
                 /\ \E m : /\ Own(p, "resize.seq", m) /\ KeepS(m, loc[p]) /\ m.tbl = loc[p].tbl
                           /\ m.hint = "grow"
              \/ Hits(p) = {} /\ call[p].op = "LoadAndDelete" /\ Gives(p, Absent)
              \/ /\ Hits(p) = {} /\ Frees(p) # {} /\ call[p].op # "LoadAndDelete"
                 /\ Takes(p, Min(Frees(p)), "insert.meta")
              \/ /\ Hits(p) = {} /\ call[p].op # "LoadAndDelete"
                 /\ Takes(p, Len(Chain(p)) + 1, "append")
<1>0. Fields(loc[p]) BY DEF Shape
<1>1. pc[p] = "search" /\ UNCHANGED <<hash, table, resizeIdx, ctl, nextTable>> /\ call' = call
  BY DEF Search
<1>2. CASE Hits(p) # {} /\ call[p].op = "LoadOrStore"
  <2>1. /\ Unlock(p) /\ Settle(p, Chain(p)[Min(Hits(p))].val)
        /\ pc' = [pc EXCEPT ![p] = "return"] /\ loc' = loc
    BY <1>2 DEF Search, Goto, Hits
  <2>2. Own(p, "return", loc[p]) BY <1>1, <2>1, OwnLabel
  <2>3. QED BY <1>1, <1>2, <2>1, <2>2 DEF Gives
<1>3. CASE Hits(p) # {} /\ call[p].op = "LoadAndDelete"
  <2>1. /\ UNCHANGED <<tables, res>> /\ pc' = [pc EXCEPT ![p] = "delete.meta"]
        /\ loc' = [loc EXCEPT ![p] = [loc[p] EXCEPT !.slot = Min(Hits(p))]]
    BY <1>3 DEF Search, Goto, Hits, Local
  <2>2. Takes(p, Min(Hits(p)), "delete.meta") BY <1>1, <2>1, TakesForm
  <2>3. QED BY <1>1, <1>3, <2>2
<1>4. CASE Hits(p) # {} /\ call[p].op = "Store"
  <2>1. /\ UNCHANGED <<tables, res>> /\ pc' = [pc EXCEPT ![p] = "update"]
        /\ loc' = [loc EXCEPT ![p] = [loc[p] EXCEPT !.slot = Min(Hits(p))]]
    BY <1>4 DEF Search, Goto, Hits, Local
  <2>2. Takes(p, Min(Hits(p)), "update") BY <1>1, <2>1, TakesForm
  <2>3. QED BY <1>1, <1>4, <2>2
<1>5. CASE Hits(p) = {} /\ Frees(p) = {} /\ tables[loc[p].tbl].size > GrowThreshold(loc[p].tbl)
  <2>1. PICK m : m = [loc[p] EXCEPT !.hint = "grow"] OBVIOUS
  <2>2. /\ Unlock(p) /\ res' = res /\ pc' = [pc EXCEPT ![p] = "resize.seq"]
        /\ loc' = [loc EXCEPT ![p] = m]
    BY <1>5, <2>1 DEF Search, Goto, Hits, Frees, Local
  <2>3. Own(p, "resize.seq", m) BY <1>1, <2>2, OwnStep
  <2>4. KeepS(m, loc[p]) /\ m.tbl = loc[p].tbl /\ m.hint = "grow" BY <1>0, <2>1, SetHint
  <2>5. QED BY <1>1, <1>5, <2>2, <2>3, <2>4
<1>6. CASE Hits(p) = {} /\ ~(Frees(p) = {} /\ tables[loc[p].tbl].size > GrowThreshold(loc[p].tbl))
  <2>1. CASE call[p].op = "LoadAndDelete"
    <3>1. Unlock(p) /\ Settle(p, Absent) /\ pc' = [pc EXCEPT ![p] = "return"] /\ loc' = loc
      BY <1>6, <2>1 DEF Search, Goto, Hits, Frees
    <3>2. Own(p, "return", loc[p]) BY <1>1, <3>1, OwnLabel
    <3>3. QED BY <1>1, <1>6, <2>1, <3>1, <3>2 DEF Gives
  <2>2. CASE call[p].op # "LoadAndDelete" /\ Frees(p) # {}
    <3>1. /\ UNCHANGED <<tables, res>> /\ pc' = [pc EXCEPT ![p] = "insert.meta"]
          /\ loc' = [loc EXCEPT ![p] = [loc[p] EXCEPT !.slot = Min(Frees(p))]]
      BY <1>6, <2>2 DEF Search, Goto, Hits, Frees, Local
    <3>2. Takes(p, Min(Frees(p)), "insert.meta") BY <1>1, <3>1, TakesForm
    <3>3. QED BY <1>1, <1>6, <2>2, <3>2
  <2>3. CASE call[p].op # "LoadAndDelete" /\ Frees(p) = {}
    <3>1. /\ UNCHANGED <<tables, res>> /\ pc' = [pc EXCEPT ![p] = "append"]
          /\ loc' = [loc EXCEPT ![p] = [loc[p] EXCEPT !.slot = Len(Chain(p)) + 1]]
      BY <1>6, <2>3 DEF Search, Goto, Hits, Frees, Local
    <3>2. Takes(p, Len(Chain(p)) + 1, "append") BY <1>1, <3>1, TakesForm
    <3>3. QED BY <1>1, <1>6, <2>3, <3>2
  <2>4. QED BY <2>1, <2>2, <2>3
<1>7. QED BY <1>2, <1>3, <1>4, <1>5, <1>6 DEF Abs!WriteOps

\* The counter is changed, and a shrink may follow.
LEMMA AddSizeDoes ==
    ASSUME Shape, NEW p \in Procs, AddSize(p)
    PROVE  /\ pc[p] = "addSize" /\ UNCHANGED <<hash, table, resizeIdx, ctl, nextTable>> /\ res' = res
           /\ tables' = [tables EXCEPT ![loc[p].tbl].size = @ + loc[p].delta]
           /\ \/ Own(p, "return", loc[p])
              \/ \E m : /\ Own(p, "resize.fast", m) /\ KeepS(m, loc[p]) /\ m.tbl = loc[p].tbl
                        /\ m.hint = "shrink"
<1>0. Fields(loc[p]) BY DEF Shape
<1>1. /\ pc[p] = "addSize" /\ UNCHANGED <<hash, table, resizeIdx, ctl, nextTable>> /\ res' = res
      /\ call' = call /\ tables' = [tables EXCEPT ![loc[p].tbl].size = @ + loc[p].delta]
  BY DEF AddSize
<1>2. CASE loc[p].emptied
  <2>1. PICK m : m = [loc[p] EXCEPT !.hint = "shrink"] OBVIOUS
  <2>2. pc' = [pc EXCEPT ![p] = "resize.fast"] /\ loc' = [loc EXCEPT ![p] = m]
    BY <1>2, <2>1 DEF AddSize, Goto, Local
  <2>3. Own(p, "resize.fast", m) BY <1>1, <2>2, OwnStep
  <2>4. KeepS(m, loc[p]) /\ m.tbl = loc[p].tbl /\ m.hint = "shrink" BY <1>0, <2>1, SetHint
  <2>5. QED BY <1>1, <2>3, <2>4
<1>3. CASE ~loc[p].emptied
  <2>1. pc' = [pc EXCEPT ![p] = "return"] /\ loc' = loc BY <1>3 DEF AddSize, Goto
  <2>2. Own(p, "return", loc[p]) BY <1>1, <2>1, OwnLabel
  <2>3. QED BY <1>1, <2>2
<1>4. QED BY <1>2, <1>3

\* A goroutine becomes the owner of a resize, or helps the owner.
LEMMA ResizeCasDoes ==
    ASSUME Shape, NEW p \in Procs, ResizeCas(p)
    PROVE  /\ pc[p] = "resize.cas" /\ Still /\ UNCHANGED nextTable /\ res' = res
           /\ \/ /\ ctl.seq = loc[p].seq /\ ctl.helpers = 0 /\ ctl'.seq = ctl.seq + 1
                 /\ Own(p, "resize.new", loc[p])
              \/ ctl' = ctl /\ Own(p, "help.table", loc[p])
<1>1. pc[p] = "resize.cas" /\ Still /\ UNCHANGED nextTable /\ call' = call /\ loc' = loc /\ res' = res
  BY DEF ResizeCas, Still
<1>2. CASE ctl = [seq |-> loc[p].seq, helpers |-> 0]
  <2>1. pc' = [pc EXCEPT ![p] = "resize.new"] /\ ctl' = [ctl EXCEPT !.seq = @ + 1]
    BY <1>2 DEF ResizeCas, Goto
  <2>2. Own(p, "resize.new", loc[p]) BY <1>1, <2>1, OwnLabel
  <2>3. ctl.seq = loc[p].seq /\ ctl.helpers = 0 BY <1>2
  <2>4. ctl'.seq = ctl.seq + 1 BY <1>2, <2>1
  <2>5. QED BY <1>1, <2>2, <2>3, <2>4
<1>3. CASE ctl # [seq |-> loc[p].seq, helpers |-> 0]
  <2>1. pc' = [pc EXCEPT ![p] = "help.table"] /\ ctl' = ctl BY <1>3 DEF ResizeCas, Goto
  <2>2. Own(p, "help.table", loc[p]) BY <1>1, <2>1, OwnLabel
  <2>3. QED BY <1>1, <2>1, <2>2
<1>4. QED BY <1>2, <1>3

\* The owner makes the new table, or finds that there is nothing to shrink.
LEMMA ResizeNewDoes ==
    ASSUME Shape, NEW p \in Procs, ResizeNew(p)
    PROVE  /\ pc[p] = "resize.new" /\ UNCHANGED <<hash, table, ctl, nextTable>> /\ res' = res
           /\ \/ /\ \/ tables' = Append(tables, NewTable(2 * TableLen(table)))
                    \/ /\ TableLen(table) > MinLen
                       /\ tables' = Append(tables, NewTable(TableLen(table) \div 2))
                 /\ resizeIdx' = 0
                 /\ \E m : /\ Own(p, "resize.next", m) /\ KeepT(m, loc[p]) /\ m.seq = loc[p].seq
                           /\ m.owner /\ m.old = table /\ m.new = Count + 1
              \/ UNCHANGED <<tables, resizeIdx>> /\ Own(p, "resize.giveUp", loc[p])
<1>0. Fields(loc[p]) BY DEF Shape
<1>1. pc[p] = "resize.new" /\ UNCHANGED <<hash, table, ctl, nextTable>> /\ call' = call /\ res' = res
  BY DEF ResizeNew
<1> DEFINE shrink == TableLen(table) > MinLen /\ tables[table].size <= ShrinkThreshold(table)
<1>2. CASE loc[p].hint = "grow" \/ shrink
  <2>0. PICK l, v, w : l = loc[p] /\ v = table /\ w = Count + 1 OBVIOUS
  <2>1. PICK m : m = Owning(l, v, w) OBVIOUS
  <2>2. /\ resizeIdx' = 0 /\ pc' = [pc EXCEPT ![p] = "resize.next"] /\ loc' = [loc EXCEPT ![p] = m]
        /\ tables' = Append(tables, NewTable(IF loc[p].hint = "grow" THEN 2 * TableLen(table)
                                             ELSE TableLen(table) \div 2))
    BY <1>2, <2>0, <2>1 DEF ResizeNew, Goto, Local, Owning, Count
  <2>3. Own(p, "resize.next", m) BY <1>1, <2>2, OwnStep
  <2>4. /\ KeepT(m, loc[p]) /\ m.seq = loc[p].seq /\ m.owner /\ m.old = table /\ m.new = Count + 1
    <3>1. Fields(l) BY <1>0, <2>0
    <3>2. /\ m.old = v /\ m.new = w /\ m.owner /\ KeepT(m, l) /\ m.seq = l.seq
      BY <2>1, <3>1, SetOwner
    <3>3. QED BY <2>0, <3>2
  <2>5. QED BY <1>1, <1>2, <2>2, <2>3, <2>4
<1>3. CASE ~(loc[p].hint = "grow" \/ shrink)
  <2>1. pc' = [pc EXCEPT ![p] = "resize.giveUp"] /\ loc' = loc /\ UNCHANGED <<tables, resizeIdx>>
    BY <1>3 DEF ResizeNew, Goto
  <2>2. Own(p, "resize.giveUp", loc[p]) BY <1>1, <2>1, OwnLabel
  <2>3. QED BY <1>1, <2>1, <2>2
<1>4. QED BY <1>2, <1>3

\* A resize ends: the goroutines that sleep are woken up.
LEMMA BroadcastDoes ==
    ASSUME NEW p \in Procs, Broadcast(p, AfterResize(p))
    PROVE  /\ pc'[p] = AfterResize(p)
           /\ \A q \in Procs \ {p} : pc'[q] = pc[q] \/ (pc[q] = "sleep" /\ pc'[q] = "wait")
BY DEF Broadcast

\* A helper registers, or waits.
LEMMA HelpJoinDoes ==
    ASSUME Shape, NEW p \in Procs, HelpJoin(p)
    PROVE  /\ pc[p] = "help.join" /\ Still /\ UNCHANGED nextTable /\ ctl'.seq = ctl.seq
           /\ \/ ctl.seq = loc[p].seq /\ Own(p, "claim", loc[p])
              \/ Own(p, "wait", loc[p])
<1>0. ctl \in [seq : Nat, helpers : Nat] BY DEF Shape
<1>1. pc[p] = "help.join" /\ Still /\ UNCHANGED nextTable /\ call' = call /\ loc' = loc
  BY DEF HelpJoin, Still
<1>2. CASE ctl.seq # loc[p].seq \/ ctl.helpers >= MaxHelpers
  <2>1. pc' = [pc EXCEPT ![p] = "wait"] /\ ctl' = ctl BY <1>2 DEF HelpJoin, Goto
  <2>2. Own(p, "wait", loc[p]) BY <1>1, <2>1, OwnLabel
  <2>3. QED BY <1>1, <2>1, <2>2
<1>3. CASE ~(ctl.seq # loc[p].seq \/ ctl.helpers >= MaxHelpers)
  <2>1. pc' = [pc EXCEPT ![p] = "claim"] /\ ctl' = [ctl EXCEPT !.helpers = @ + 1]
    BY <1>3 DEF HelpJoin, Goto
  <2>2. Own(p, "claim", loc[p]) BY <1>1, <2>1, OwnLabel
  <2>3. ctl'.seq = ctl.seq /\ ctl.seq = loc[p].seq BY <1>0, <1>3, <2>1
  <2>4. QED BY <1>1, <2>2, <2>3
<1>4. QED BY <1>2, <1>3

\* A goroutine claims buckets, or finds none left.
LEMMA ClaimDoes ==
    ASSUME Shape, NEW p \in Procs, Claim(p)
    PROVE  /\ pc[p] = "claim" /\ UNCHANGED <<hash, tables, table, ctl, nextTable>>
           /\ resizeIdx' = resizeIdx + Stride
           /\ \/ /\ resizeIdx >= BaseLen(p)
                 /\ Own(p, IF loc[p].owner THEN "resize.wait" ELSE "help.leave", loc[p])
              \/ /\ ~(resizeIdx >= BaseLen(p))
                 /\ \E m : /\ Own(p, "copy", m) /\ KeepT(m, loc[p]) /\ KeepS(m, loc[p])
                           /\ m.i = resizeIdx /\ m.src = resizeIdx
                           /\ m.end = Min({resizeIdx + Stride, BaseLen(p)})
<1>0. Fields(loc[p]) BY DEF Shape
<1>1. /\ pc[p] = "claim" /\ UNCHANGED <<hash, tables, table, ctl, nextTable>> /\ call' = call
      /\ resizeIdx' = resizeIdx + Stride
  BY DEF Claim
<1>2. CASE resizeIdx >= BaseLen(p)
  <2>1. PICK l : l = IF loc[p].owner THEN "resize.wait" ELSE "help.leave" OBVIOUS
  <2>2. pc' = [pc EXCEPT ![p] = l] /\ loc' = loc BY <1>2, <2>1 DEF Claim, Goto
  <2>3. Own(p, l, loc[p]) BY <1>1, <2>2, OwnLabel
  <2>4. QED BY <1>1, <1>2, <2>1, <2>3
<1>3. CASE ~(resizeIdx >= BaseLen(p))
  <2>1. PICK l, v, w : l = loc[p] /\ v = resizeIdx /\ w = Min({resizeIdx + Stride, BaseLen(p)}) OBVIOUS
  <2>2. PICK m : m = Claimed(l, v, v, w) OBVIOUS
  <2>3. pc' = [pc EXCEPT ![p] = "copy"] /\ loc' = [loc EXCEPT ![p] = m]
    BY <1>3, <2>1, <2>2 DEF Claim, Goto, Local, Claimed
  <2>4. Own(p, "copy", m) BY <1>1, <2>3, OwnStep
  <2>5. KeepT(m, l) /\ KeepS(m, l) /\ m.i = v /\ m.src = v /\ m.end = w
    BY <1>0, <2>1, <2>2, SetRange
  <2>6. QED BY <1>1, <1>3, <2>1, <2>4, <2>5
<1>4. QED BY <1>2, <1>3

\* A bucket has been moved.
LEMMA CopyEndDoes ==
    ASSUME Shape, NEW p \in Procs, CopyEnd(p)
    PROVE  /\ pc[p] = "copied" /\ UNCHANGED <<hash, table, resizeIdx, ctl, nextTable>>
           /\ Moves(p) /\ \E l, m : GoesOn(p, l, m)
<1>0. Fields(loc[p]) BY DEF Shape
<1>1. /\ pc[p] = "copied" /\ UNCHANGED <<hash, table, resizeIdx, ctl, nextTable>> /\ call' = call
  BY Zenon DEF CopyEnd
<1>2. Moves(p) BY Zenon DEF CopyEnd, Moves
<1>3. PICK l, s, i : l = loc[p] /\ s = loc[p].src + BaseLen(p) /\ i = loc[p].i + 1 OBVIOUS
<1> DEFINE Go(a, b) == loc' = [loc EXCEPT ![p] = a] /\ pc' = [pc EXCEPT ![p] = b]
<1>g. \/ s < TableLen(loc[p].old) /\ Go([loc[p] EXCEPT !.src = s, !.copy = <<>>], "copy")
      \/ /\ s >= TableLen(loc[p].old) /\ i < loc[p].end
         /\ Go([loc[p] EXCEPT !.i = i, !.src = i, !.copy = <<>>], "copy")
      \/ /\ ~(s < TableLen(loc[p].old)) /\ ~(s >= TableLen(loc[p].old) /\ i < loc[p].end)
         /\ Go([loc[p] EXCEPT !.copy = <<>>], "claim")
  <2> DEFINE T == TableLen(loc[p].old)
  <2>1. (CASE s < T -> Go([loc[p] EXCEPT !.src = s, !.copy = <<>>], "copy")
           [] s >= T /\ i < loc[p].end ->
                Go([loc[p] EXCEPT !.i = i, !.src = i, !.copy = <<>>], "copy")
           [] OTHER -> Go([loc[p] EXCEPT !.copy = <<>>], "claim"))
    BY <1>3, Zenon DEF CopyEnd, Goto, Local
  <2> HIDE DEF T, Go
  <2>2. QED BY <2>1 DEF T
<1> HIDE DEF Go
<1>l. Fields(l) BY <1>0, <1>3
<1>4. CASE s < TableLen(loc[p].old) /\ Go([loc[p] EXCEPT !.src = s, !.copy = <<>>], "copy")
  <2>1. PICK m : m = Again(l, s) OBVIOUS
  <2>2. pc' = [pc EXCEPT ![p] = "copy"] /\ loc' = [loc EXCEPT ![p] = m]
    BY <1>3, <1>4, <2>1 DEF Again, Go
  <2>3. Own(p, "copy", m) BY <1>1, <2>2, OwnStep
  <2>4. KeepT(m, l) /\ KeepS(m, l) /\ m.i = l.i /\ m.src = s /\ m.end = l.end
    BY <1>l, <2>1, SetAgain
  <2>5. GoesOn(p, "copy", m) BY <1>3, <1>4, <2>3, <2>4 DEF GoesOn
  <2>6. QED BY <1>1, <1>2, <2>5
<1>5. CASE /\ s >= TableLen(loc[p].old) /\ i < loc[p].end
           /\ Go([loc[p] EXCEPT !.i = i, !.src = i, !.copy = <<>>], "copy")
  <2>1. PICK m : m = Onward(l, i) OBVIOUS
  <2>2. pc' = [pc EXCEPT ![p] = "copy"] /\ loc' = [loc EXCEPT ![p] = m]
    BY <1>3, <1>5, <2>1 DEF Onward, Go
  <2>3. Own(p, "copy", m) BY <1>1, <2>2, OwnStep
  <2>4. KeepT(m, l) /\ KeepS(m, l) /\ m.i = i /\ m.src = i /\ m.end = l.end
    BY <1>l, <2>1, SetNext
  <2>5. GoesOn(p, "copy", m) BY <1>3, <1>5, <2>3, <2>4 DEF GoesOn
  <2>6. QED BY <1>1, <1>2, <2>5
<1>6. CASE /\ ~(s < TableLen(loc[p].old)) /\ ~(s >= TableLen(loc[p].old) /\ i < loc[p].end)
           /\ Go([loc[p] EXCEPT !.copy = <<>>], "claim")
  <2>0. PICK e : e = <<>> OBVIOUS
  <2>1. PICK m : m = [l EXCEPT !.copy = e] OBVIOUS
  <2>2. pc' = [pc EXCEPT ![p] = "claim"] /\ loc' = [loc EXCEPT ![p] = m]
    BY <1>3, <1>6, <2>0, <2>1 DEF Go
  <2>3. Own(p, "claim", m) BY <1>1, <2>2, OwnStep
  <2>4. KeepT(m, l) /\ KeepS(m, l) /\ m.end = l.end
    BY <1>l, <2>1, SetCopy
  <2>5. GoesOn(p, "claim", m) BY <1>3, <1>6, <2>3, <2>4 DEF GoesOn
  <2>6. QED BY <1>1, <1>2, <2>5
<1>7. QED BY <1>g, <1>4, <1>5, <1>6

-----------------------------------------------------------------------------
(* The invariant of the entries.                                            *)

\* The bucket of a key is a bucket of the table.
LEMMA BucketIn ==
    ASSUME hash \in Hashes, NEW k \in Keys, NEW n \in Nat \ {0}
    PROVE  BucketOf(k, n) \in 0..n - 1
<1>1. hash.h1[k] \in Nat BY HashFacts
<1>2. QED BY <1>1, ModLe DEF BucketOf

\* The current table and the newest one.
LEMMA CountFacts ==
    ASSUME TablesOK
    PROVE  /\ hash \in Hashes /\ TabsOK /\ resizeIdx \in Nat
           /\ Count \in Nat \ {0} /\ Count \in 1..Count /\ table \in 1..Count /\ table \in Nat \ {0}
           /\ TableLen(table) \in Nat \ {0} /\ TableLen(Count) \in Nat \ {0}
<1>1. hash \in Hashes /\ TabsOK /\ table \in 1..Count /\ resizeIdx \in Nat BY DEF TablesOK
<1>2. Count \in Nat \ {0} /\ TableLen(table) \in Nat \ {0} BY <1>1, TableFacts
<1>3. Count \in 1..Count /\ table \in Nat \ {0} BY <1>1, <1>2
<1>4. TableLen(Count) \in Nat \ {0} BY <1>1, <1>3, TableFacts
<1>5. QED BY <1>1, <1>2, <1>3, <1>4

\* The shorter one of the two newest tables.
LEMMA BaseFacts ==
    ASSUME TablesOK
    PROVE  /\ Prev \in 1..Count /\ Base \in Nat \ {0} /\ Base <= TableLen(Count) /\ Base <= TableLen(Prev)
           /\ Count = table + 1 => Prev = table
           /\ Count > 1 => Prev = Count - 1
<1>1. Count \in 1..Count /\ table \in 1..Count /\ Count \in Nat \ {0}
  <2>1. table \in 1..Count /\ TabsOK BY DEF TablesOK
  <2>2. Count \in Nat \ {0} BY <2>1, TableFacts
  <2>3. QED BY <2>1, <2>2
<1>2. Prev \in 1..Count /\ (Count = table + 1 => Prev = table) /\ (Count > 1 => Prev = Count - 1)
  BY <1>1 DEF Prev
<1>3. TableLen(Prev) \in Nat \ {0} /\ TableLen(Count) \in Nat \ {0}
  BY <1>1, <1>2, TableFacts DEF TablesOK
<1>4. QED BY <1>2, <1>3 DEF Base

\* The bucket of a goroutine that works on the chain of its key.
LEMMA WriterFacts ==
    ASSUME TablesOK, CallsOK, NEW q \in Procs, pc[q] \in Writing \cup Reading \cup {"lock"}
    PROVE  /\ call[q].key \in Keys /\ loc[q].tbl \in 1..Count
           /\ Bidx(q) \in 0..TableLen(loc[q].tbl) - 1
           /\ Chain(q) = C(loc[q].tbl, Bidx(q)) /\ Chain(q) \in Seq(Slots)
           /\ DOMAIN Chain(q) = 1..Len(Chain(q))
<1>1. hash \in Hashes /\ TabsOK /\ table \in 1..Count BY DEF TablesOK
<1>2. CallOK(q) BY DEF CallsOK
<1>3. call[q].op # "Range" /\ call[q].key \in Keys /\ loc[q].tbl \in 1..table
  BY <1>2 DEF CallOK, Writing, Reading, UsesTable, Abs!WriteOps
<1>4. Count \in Nat BY <1>1, TableFacts
<1>5. loc[q].tbl \in 1..Count BY <1>1, <1>3, <1>4
<1>6. TableLen(loc[q].tbl) \in Nat \ {0} BY <1>1, <1>5, TableFacts
<1>7. Bidx(q) \in 0..TableLen(loc[q].tbl) - 1
  BY <1>1, <1>3, <1>6, BucketIn DEF Bidx
<1>8. Chain(q) = C(loc[q].tbl, Bidx(q)) BY DEF Chain, C
<1>9. Chain(q) \in Seq(Slots)
  <2>1. PICK t, b : t \in 1..Count /\ t = loc[q].tbl /\ b = Bidx(q) BY <1>5
  <2>2. b \in 0..TableLen(t) - 1 BY <1>7, <2>1
  <2>3. C(t, b) \in Seq(Slots) BY <1>1, <2>1, <2>2, TableFacts
  <2>4. QED BY <1>8, <2>1, <2>3
<1>10. QED BY <1>3, <1>5, <1>7, <1>8, <1>9

\* The two newest tables have the lengths they had.
LEMMA SameBase ==
    ASSUME TablesOK, SameLens PROVE Prev' = Prev /\ Base' = Base /\ \A b : Class(b)' = Class(b)
<1>0. Prev \in 1..Count /\ Count \in 1..Count
  <2>1. TabsOK /\ table \in 1..Count BY DEF TablesOK
  <2>2. Count \in Nat \ {0} BY <2>1, TableFacts
  <2>3. QED BY <2>2, BaseFacts
<1>1. Prev' = Prev BY DEF SameLens, Prev
<1>2. Base' = Base BY <1>0, <1>1 DEF SameLens, Base
<1>3. QED BY <1>1, <1>2 DEF Class

\* The bucket of a writer that goes on.
LEMMA SameBucket ==
    ASSUME TablesOK, CallsOK, SameLens, NEW q \in Procs, Kept(q), pc[q] \in Writing \/ pc'[q] \in Writing
    PROVE  /\ pc'[q] = pc[q] /\ loc'[q] = loc[q] /\ call'[q] = call[q] /\ Bidx(q)' = Bidx(q)
           /\ pc[q] \in Writing
           /\ Chain(q)' = C(loc[q].tbl, Bidx(q))'
<1>1. pc'[q] = pc[q] /\ loc'[q] = loc[q] /\ call'[q] = call[q] BY DEF Kept, Busy
<1>2. pc[q] \in Writing BY <1>1
<1>3. loc[q].tbl \in 1..Count BY <1>2, WriterFacts
<1>4. TableLen(loc[q].tbl)' = TableLen(loc[q].tbl) 
  <2>1. PICK t \in 1..Count : t = loc[q].tbl BY <1>3
  <2>2. TableLen(t)' = TableLen(t) BY DEF SameLens
  <2>3. TableLen(loc[q].tbl)' = TableLen(t)' BY <1>1, <2>1 DEF TableLen
  <2>4. QED BY <2>1, <2>2, <2>3
<1>5. Bidx(q)' = Bidx(q) BY <1>1, <1>4 DEF Bidx, BucketOf, SameLens
<1>6. QED BY <1>1, <1>2, <1>5 DEF Chain, C

\* What has been moved, when nobody begins or ends to move a bucket.
LEMMA SameMoved ==
    ASSUME TablesOK, SameLens, resizeIdx' = resizeIdx,
           \A q \in Procs : pc[q] \in Copying \/ pc'[q] \in Copying => Kept(q)
    PROVE  \A b : Moved(b)' <=> Moved(b)
<1>1. \A b : Class(b)' = Class(b) BY SameBase
<1>2. ASSUME NEW b, NEW q \in Procs PROVE Pending(q, b)' <=> Pending(q, b)
  BY <1>1 DEF Pending, Kept, Busy, Copying
<1>3. ASSUME NEW b PROVE Moved(b)' <=> Moved(b)
  BY <1>1, <1>2 DEF Moved, SameLens
<1>4. QED BY <1>3

\* Claims of goroutines that go on.
LEMMA SameClaims ==
    ASSUME TablesOK, ClaimsOK, SameLens, resizeIdx' = resizeIdx,
           \A q \in Procs : pc[q] \in Copying \/ pc'[q] \in Copying => Kept(q)
    PROVE  ClaimsOK'
<1>1. \A b : Class(b)' = Class(b) BY SameBase
<1>2. Base' = Base BY SameBase
<1>3. TableLen(table)' = TableLen(table) 
  <2>1. table \in 1..Count /\ table' = table BY DEF TablesOK, SameLens
  <2>2. PICK t \in 1..Count : t = table BY <2>1
  <2>3. TableLen(t)' = TableLen(t) /\ TableLen(table)' = TableLen(t)' BY <2>1, <2>2 DEF SameLens, TableLen
  <2>4. QED BY <2>2, <2>3
<1>4. ASSUME NEW q \in Procs PROVE ClaimOK(q)'
  <2>1. CASE pc'[q] \in Copying
    <3>1. pc'[q] = pc[q] /\ loc'[q] = loc[q] BY <2>1 DEF Kept, Busy
    <3>2. ClaimOK(q) BY DEF ClaimsOK
    <3>3. Class(loc[q].src)' = Class(loc[q].src) BY <1>2, <3>1 DEF Class
    <3>4. QED BY <1>2, <1>3, <2>1, <3>1, <3>2, <3>3 DEF ClaimOK, SameLens
  <2>2. CASE pc'[q] \notin Copying BY <2>2 DEF ClaimOK
  <2>3. QED BY <2>1, <2>2
<1>5. ASSUME NEW p \in Procs, NEW q \in Procs, p # q, pc'[p] \in Copying, pc'[q] \in Copying
      PROVE  loc'[p].end <= loc'[q].i \/ loc'[q].end <= loc'[p].i
  <2>1. pc'[q] = pc[q] /\ loc'[q] = loc[q] /\ pc'[p] = pc[p] /\ loc'[p] = loc[p] BY <1>5 DEF Kept, Busy
  <2>2. QED BY <1>5, <2>1 DEF ClaimsOK
<1>6. QED BY <1>4, <1>5 DEF ClaimsOK

\* A chain means the same as long as the hash function is the same.
LEMMA SameHash ==
    ASSUME hash' = hash
    PROVE  /\ \A k, n : BucketOf(k, n)' = BucketOf(k, n)
           /\ \A c, b, n : ChainOK(c, b, n)' <=> ChainOK(c, b, n)
           /\ \A r, x, c, d, n : Merged(r, x, c, d, n)' <=> Merged(r, x, c, d, n)
<1>1. \A k, n : BucketOf(k, n)' = BucketOf(k, n) BY DEF BucketOf
<1>2. \A c, b, n : ChainOK(c, b, n)' <=> ChainOK(c, b, n)
  BY DEF ChainOK, BucketOf
<1>3. ASSUME NEW r, NEW x, NEW c, NEW d, NEW n PROVE Merged(r, x, c, d, n)' <=> Merged(r, x, c, d, n)
  <2>1. Merged(r, x, c, d, n)' <=> /\ r \in Seq(Slots) /\ ChainOK(r, d, n)' /\ AllTidy(r)
              /\ \A k \in Keys, v \in Values :
                    In(r, k, v) <=> In(x, k, v) \/ (BucketOf(k, n)' = d /\ In(c, k, v))
    BY DEF Merged, AllTidy, Tidy, In, Slots
  <2>2. QED BY <1>1, <1>2, <2>1 DEF Merged
<1>4. QED BY <1>1, <1>2, <1>3

\* The chains and locks of the others.
LEMMA OthersKept ==
    ASSUME TablesOK, CallsOK, DataInv, NEW p \in Procs, NEW W, Frame(p, W),
           NEW q \in Procs \ {p}
    PROVE  /\ pc'[q] \in Writing => /\ Chain(q)' = Chain(q)
                                    /\ Mu(loc[q].tbl, Bidx(q))' = q
           /\ pc'[q] = "copied" => /\ C(loc[q].old, loc[q].src)' = C(loc[q].old, loc[q].src)
                                   /\ Mu(loc[q].old, loc[q].src)' = q
                                   /\ \A d \in Dests(q) : C(loc[q].new, d)' = C(loc[q].new, d)
                                   /\ Dests(q)' = Dests(q)
                                   /\ TableLen(loc[q].new)' = TableLen(loc[q].new)
                                   /\ Dests(q) \subseteq 0..TableLen(Count) - 1
<1>0. Kept(q) /\ SameLens /\ q # Nobody BY XsyncAssumption DEF Frame
<1>1. ASSUME pc'[q] \in Writing
      PROVE  Chain(q)' = Chain(q) /\ Mu(loc[q].tbl, Bidx(q))' = q
  <2>1. /\ pc'[q] = pc[q] /\ loc'[q] = loc[q] /\ Bidx(q)' = Bidx(q) /\ pc[q] \in Writing
        /\ Chain(q)' = C(loc[q].tbl, Bidx(q))'
    BY <1>0, <1>1, SameBucket
  <2>2. PICK u, d : u \in 1..Count /\ u = loc[q].tbl /\ d = Bidx(q) /\ d \in 0..TableLen(u) - 1 /\ Chain(q) = C(u, d)
    BY <2>1, WriterFacts
  <2>3. Mu(u, d) = q BY <2>1, <2>2 DEF DataInv, LocksOK
  <2>s. ~Alone(p, u, d)
    <3>1. CallOK(q) BY DEF CallsOK
    <3>2. u \in 1..table BY <2>1, <2>2, <3>1 DEF CallOK, UsesTable
    <3>3. QED BY <1>0, <2>3, <3>2, CountFacts DEF Alone
  <2>4. C(u, d)' = C(u, d) /\ Mu(u, d)' = Mu(u, d) BY <2>2, <2>s DEF Frame
  <2>5. Mu(loc[q].tbl, Bidx(q))' = Mu(u, d)' /\ C(loc[q].tbl, Bidx(q))' = C(u, d)'
    BY <2>1, <2>2 DEF Mu, C
  <2>6. QED BY <2>1, <2>2, <2>3, <2>4, <2>5
<1>2. ASSUME pc'[q] = "copied"
      PROVE  /\ C(loc[q].old, loc[q].src)' = C(loc[q].old, loc[q].src)
             /\ Mu(loc[q].old, loc[q].src)' = q
             /\ \A d \in Dests(q) : C(loc[q].new, d)' = C(loc[q].new, d)
             /\ Dests(q)' = Dests(q) /\ TableLen(loc[q].new)' = TableLen(loc[q].new)
             /\ Dests(q) \subseteq 0..TableLen(Count) - 1
  <2>1. pc'[q] = pc[q] /\ loc'[q] = loc[q] BY <1>0, <1>2 DEF Kept, Busy, Copying
  <2>2. ClaimOK(q) /\ Mu(loc[q].old, loc[q].src) = q BY <1>2, <2>1 DEF DataInv, ClaimsOK, LocksOK
  <2>3. /\ loc[q].old = table /\ loc[q].new = Count /\ Count = table + 1
        /\ loc[q].src \in 0..TableLen(table) - 1
    BY <1>2, <2>1, <2>2 DEF ClaimOK, Copying
  <2>4. table \in 1..Count /\ TabsOK BY DEF TablesOK
  <2>5. Count \in 1..Count /\ Count \in Nat BY CountFacts
  <2>6. PICK u, s : u \in 1..Count /\ u = table /\ s = loc[q].src /\ s \in 0..TableLen(u) - 1 BY <2>3, <2>4
  <2>7. Mu(u, s) = q BY <2>2, <2>3, <2>6
  <2>s. ~Alone(p, u, s) BY <1>0, <2>3, <2>4, <2>5, <2>6, <2>7 DEF Alone
  <2>8. C(u, s)' = C(u, s) /\ Mu(u, s)' = q BY <2>6, <2>7, <2>s DEF Frame
  <2>9. C(loc[q].old, loc[q].src)' = C(u, s)' /\ Mu(loc[q].old, loc[q].src)' = Mu(u, s)'
    BY <2>1, <2>3, <2>6 DEF Mu, C
  <2>10. DOMAIN tables[Count].chains = 0..TableLen(Count) - 1 BY <2>4, <2>5, TableFacts
  <2>11. PICK n : n = Count OBVIOUS
  <2>12. /\ TableLen(n)' = TableLen(n) /\ TableLen(u)' = TableLen(u)
         /\ DOMAIN tables'[n].chains = DOMAIN tables[n].chains
    BY <1>0, <2>5, <2>6, <2>11 DEF SameLens
  <2>13. BaseLen(q)' = BaseLen(q) 
    <3>1. TableLen(loc[q].old)' = TableLen(u)' /\ TableLen(loc[q].new)' = TableLen(n)'
      BY <2>1, <2>3, <2>6, <2>11 DEF TableLen
    <3>2. QED BY <2>3, <2>6, <2>11, <2>12, <3>1 DEF BaseLen
  <2>14. Dests(q)' = Dests(q)
    BY <2>1, <2>3, <2>11, <2>12, <2>13 DEF Dests
  <2>15. Dests(q) \subseteq 0..TableLen(Count) - 1 BY <2>3, <2>10 DEF Dests
  <2>16. ASSUME NEW d \in Dests(q) PROVE C(loc[q].new, d)' = C(loc[q].new, d)
    <3>1. d \in 0..TableLen(n) - 1 BY <2>11, <2>15
    <3>2. ~Alone(p, n, d) BY <1>2, <2>1, <2>3, <2>4, <2>5, <2>11 DEF Alone
    <3>4. C(n, d)' = C(n, d) BY <2>5, <2>11, <3>1, <3>2 DEF Frame
    <3>5. C(loc[q].new, d)' = C(n, d)' BY <2>1, <2>3, <2>11 DEF C
    <3>6. QED BY <2>3, <2>11, <3>4, <3>5
  <2>17. TableLen(loc[q].new)' = TableLen(loc[q].new)
    <3>1. TableLen(loc[q].new)' = TableLen(n)' BY <2>1, <2>3, <2>11 DEF TableLen
    <3>2. QED BY <2>3, <2>11, <2>12, <3>1
  <2>18. QED BY <2>3, <2>6, <2>8, <2>9, <2>14, <2>15, <2>16, <2>17
<1>3. QED BY <1>1, <1>2

\* A step that changes some chains, and those in order.
LEMMA FrameData ==
    ASSUME TablesOK, CallsOK, DataInv, NEW p \in Procs, NEW W, Frame(p, W), FrameOK(p, W), ClaimsOK', CopiedOK'
    PROVE  DataInv'
<1>0. SameLens /\ hash' = hash /\ table' = table /\ Count' = Count BY DEF Frame, SameLens
<1>1. ClaimsOK' OBVIOUS
<1>2. LocksOK'
  <2>1. ASSUME NEW q \in Procs, pc'[q] \in Writing PROVE Mu(loc[q].tbl, Bidx(q))' = q
    BY <2>1, OthersKept DEF FrameOK
  <2>2. ASSUME NEW q \in Procs, pc'[q] = "copied" PROVE Mu(loc[q].old, loc[q].src)' = q
    BY <2>2, OthersKept DEF FrameOK
  <2>3. QED BY <2>1, <2>2 DEF LocksOK
<1>3. WritersOK'
  <2>1. ASSUME NEW q \in Procs PROVE WriterOK(q)'
    <3>1. CASE pc'[q] \notin Writing BY <3>1 DEF WriterOK, Writing
    <3>2. CASE pc'[q] \in Writing /\ q = p BY <3>2 DEF FrameOK
    <3>3. CASE pc'[q] \in Writing /\ q # p
      <4>1. Kept(q) BY <3>3 DEF Frame
      <4>2. pc'[q] = pc[q] /\ loc'[q] = loc[q] /\ call'[q] = call[q] /\ Bidx(q)' = Bidx(q)
        BY <1>0, <3>3, <4>1, SameBucket
      <4>3. Chain(q)' = Chain(q) BY <3>3, OthersKept
      <4>4. WriterOK(q) BY DEF DataInv, WritersOK
      <4>5. ASSUME loc[q].tbl = table PROVE Moved(Bidx(q))' => Moved(Bidx(q))
        <5>1. PICK d : d = Bidx(q) OBVIOUS
        <5>2. Moved(Bidx(q))' <=> Moved(d)' BY <4>2, <5>1 DEF Moved, Pending, Class
        <5>3. d \in 0..TableLen(table) - 1 BY <3>3, <4>2, <4>5, <5>1, WriterFacts
        <5>4. Mu(table, d) = q BY <3>3, <4>2, <4>5, <5>1 DEF DataInv, LocksOK
        <5>5. QED BY <3>3, <5>1, <5>2, <5>3, <5>4 DEF FrameOK
      <4>6. HasKey(Chain(q), call[q].key)' <=> HasKey(Chain(q), call[q].key) BY <4>2, <4>3 DEF HasKey
      <4>7. ASSUME NEW s \in DOMAIN Chain(q)
            PROVE  Holds(Chain(q)[s], call[q].key)' <=> Holds(Chain(q)[s], call[q].key)
        BY <1>0, <4>2, <4>3 DEF Holds
      <4>8. QED BY <1>0, <4>2, <4>3, <4>4, <4>5, <4>6, <4>7 DEF WriterOK, Holds
    <3>4. QED BY <3>1, <3>2, <3>3
  <2>2. QED BY <2>1 DEF WritersOK
<1>4. ChainsOK'
  <2>1. ASSUME NEW u \in 1..Count, NEW d \in 0..TableLen(u) - 1
        PROVE  /\ ChainOK(C(u, d)', d, TableLen(u))
               /\ \A i \in DOMAIN C(u, d)' : Tidy(C(u, d)'[i]) \/ \E q \in Procs : Touches(q, u, d, i)'
    <3>1. CASE <<u, d>> \in W
      <4>1. ASSUME NEW i PROVE Touches(p, u, d, i)' <=> /\ pc'[p] \in {"insert.entry", "delete.entry"}
                                                        /\ loc'[p].tbl = u /\ Bidx(p)' = d /\ loc'[p].slot = i
        BY DEF Touches
      <4>2. QED BY <2>1, <3>1, <4>1 DEF FrameOK
    <3>2. CASE <<u, d>> \notin W
      <4>1. C(u, d)' = C(u, d) BY <3>2 DEF Frame
      <4>2. /\ ChainOK(C(u, d), d, TableLen(u))
            /\ \A i \in DOMAIN C(u, d) : Tidy(C(u, d)[i]) \/ \E q \in Procs : Touches(q, u, d, i)
        BY DEF DataInv, ChainsOK
      <4>3. ASSUME NEW i, NEW q \in Procs, Touches(q, u, d, i) PROVE Touches(q, u, d, i)'
        <5>1. pc[q] \in {"insert.entry", "delete.entry"} /\ loc[q].tbl = u /\ Bidx(q) = d /\ loc[q].slot = i
          BY <4>3 DEF Touches
        <5>2. q # p BY <3>2, <5>1 DEF FrameOK
        <5>3. Kept(q) /\ pc[q] \in Writing BY <5>1, <5>2 DEF Frame, Writing
        <5>4. pc'[q] = pc[q] /\ loc'[q] = loc[q] /\ Bidx(q)' = Bidx(q) BY <1>0, <5>3, SameBucket
        <5>5. QED BY <5>1, <5>4 DEF Touches
      <4>4. QED BY <4>1, <4>2, <4>3
    <3>3. QED BY <3>1, <3>2
  <2>2. ASSUME NEW u \in 1..Count, NEW d
        PROVE  ChainOK(C(u, d), d, TableLen(u))' <=> ChainOK(C(u, d)', d, TableLen(u))
    <3>1. TableLen(u)' = TableLen(u) BY <1>0 DEF SameLens
    <3>2. QED BY <1>0, <3>1 DEF ChainOK, BucketOf
  <2>3. ASSUME NEW u, NEW d, NEW i PROVE Tidy(C(u, d)[i])' <=> Tidy(C(u, d)'[i]) BY DEF Tidy
  <2>4. ASSUME NEW u \in 1..Count' , NEW d \in 0..TableLen(u)' - 1
        PROVE  /\ ChainOK(C(u, d), d, TableLen(u))'
               /\ \A i \in DOMAIN C(u, d)' : Tidy(C(u, d)[i])' \/ \E q \in Procs : Touches(q, u, d, i)'
    <3>1. u \in 1..Count /\ d \in 0..TableLen(u) - 1 BY <1>0 DEF SameLens
    <3>2. QED BY <2>1, <2>2, <2>3, <3>1
  <2>5. QED BY <2>4 DEF ChainsOK
<1>5. ASSUME NEW q \in Procs PROVE CopyOK(q)'
  <2>0. CASE q = p BY <2>0 DEF FrameOK
  <2>1. CASE pc'[q] # "copied" BY <2>1 DEF CopyOK
  <2>2. CASE pc'[q] = "copied" /\ q # p
    <3>1. q # p BY <2>2
    <3>2. Kept(q) BY <3>1 DEF Frame
    <3>3. pc'[q] = pc[q] /\ loc'[q] = loc[q] BY <2>2, <3>2 DEF Kept, Busy, Copying
    <3>4. /\ C(loc[q].old, loc[q].src)' = C(loc[q].old, loc[q].src)
          /\ \A d \in Dests(q) : C(loc[q].new, d)' = C(loc[q].new, d)
          /\ Dests(q)' = Dests(q) /\ TableLen(loc[q].new)' = TableLen(loc[q].new)
      BY <2>2, <3>1, OthersKept
    <3>5. CopyOK(q) BY DEF DataInv, CopiesOK
    <3>6. ASSUME NEW d \in Dests(q)
          PROVE  Merged(loc[q].copy[d], C(loc[q].new, d), C(loc[q].old, loc[q].src), d, TableLen(loc[q].new))'
      <4>1. PICK r, x, c, n : /\ r = loc[q].copy[d] /\ x = C(loc[q].new, d) /\ c = C(loc[q].old, loc[q].src)
                              /\ n = TableLen(loc[q].new)
        OBVIOUS
      <4>2. Merged(r, x, c, d, n) BY <2>2, <3>3, <3>5, <4>1 DEF CopyOK
      <4>3. Merged(r, x, c, d, n)' BY <1>0, <4>2, SameHash
      <4>4. r = loc'[q].copy[d] /\ x = C(loc[q].new, d)' /\ c = C(loc[q].old, loc[q].src)' /\ n = TableLen(loc[q].new)'
        BY <3>3, <3>4, <4>1
      <4>5. QED BY <4>3, <4>4 DEF Merged, ChainOK, BucketOf
    <3>7. QED BY <2>2, <3>3, <3>4, <3>5, <3>6 DEF CopyOK
  <2>3. QED BY <2>0, <2>1, <2>2
<1>7. QED BY <1>1, <1>2, <1>3, <1>4, <1>5 DEF DataInv, CopiesOK

\* A step that changes at most one chain, and that chain in order.
LEMMA StoresData ==
    ASSUME TablesOK, CallsOK, DataInv, NEW p \in Procs, NEW t, NEW b, Stores(p, t, b), StoreOK(p, t, b)
    PROVE  DataInv'
<1>0. SameLens /\ hash' = hash /\ table' = table /\ Count' = Count /\ resizeIdx' = resizeIdx BY DEF Stores, SameLens
<1>k. \A q \in Procs : pc[q] \in Copying \/ pc'[q] \in Copying => Kept(q) BY DEF Stores
<1>m. \A d : Moved(d)' <=> Moved(d) BY <1>0, <1>k, SameMoved
<1>1. ClaimsOK' BY <1>0, <1>k, SameClaims DEF DataInv
<1>2. PICK W : W = {<<t, b>>} OBVIOUS
<1>3. \A u, d : <<u, d>> \in W <=> u = t /\ d = b BY <1>2
<1>4. Frame(p, W) BY <1>0, <1>3 DEF Stores, Frame, Alone
<1>5. FrameOK(p, W)
  <2>1. pc'[p] # "copied" BY DEF Stores, Copying
  <2>2. CopyOK(p)' BY <2>1 DEF CopyOK
  <2>3. ASSUME NEW u \in 1..Count, NEW d \in 0..TableLen(u) - 1, <<u, d>> \in W
        PROVE  /\ ChainOK(C(u, d)', d, TableLen(u))
               /\ \A i \in DOMAIN C(u, d)' : \/ Tidy(C(u, d)'[i])
                                             \/ /\ pc'[p] \in {"insert.entry", "delete.entry"}
                                                /\ loc'[p].tbl = u /\ Bidx(p)' = d /\ loc'[p].slot = i
    BY <1>3, <2>3 DEF StoreOK
  <2>4. pc[p] \in {"insert.entry", "delete.entry"} => <<loc[p].tbl, Bidx(p)>> \in W BY <1>3 DEF StoreOK
  <2>5. pc'[p] \in Writing => Mu(loc[p].tbl, Bidx(p))' = p /\ WriterOK(p)' BY DEF StoreOK
  <2>6. QED BY <1>m, <2>1, <2>2, <2>3, <2>4, <2>5 DEF FrameOK
<1>6. CopiedOK'
  <2>0. SUFFICES ASSUME Count = table + 1, NEW k \in Keys, NEW v \in Values
                 PROVE  In(C(Count, BucketOf(k, TableLen(Count))), k, v)' <=>
                           /\ Moved(BucketOf(k, TableLen(table)))'
                           /\ In(C(table, BucketOf(k, TableLen(table))), k, v)'
    BY <1>0 DEF CopiedOK
  <2>1. PICK n \in 1..Count, u \in 1..Count : n = Count /\ u = table BY CountFacts
  <2>2. PICK d, e : d = BucketOf(k, TableLen(n)) /\ e = BucketOf(k, TableLen(u)) OBVIOUS
  <2>3. d \in 0..TableLen(n) - 1 /\ e \in 0..TableLen(u) - 1 BY <2>1, <2>2, CountFacts, BucketIn
  <2>4. BucketOf(k, TableLen(Count))' = d /\ BucketOf(k, TableLen(table))' = e
    <3>1. TableLen(Count)' = TableLen(n)' /\ TableLen(table)' = TableLen(u)' BY <1>0, <2>1 DEF TableLen
    <3>2. TableLen(n)' = TableLen(n) /\ TableLen(u)' = TableLen(u) BY <1>0 DEF SameLens
    <3>3. QED BY <1>0, <2>2, <3>1, <3>2 DEF BucketOf
  <2>5. In(C(n, d), k, v) <=> Moved(e) /\ In(C(u, e), k, v)
    BY <2>0, <2>1, <2>2 DEF DataInv, CopiesOK, CopiedOK
  <2>6. C(n, d)' = C(n, d)
    <3>1. n # t \/ ~(b \in 0..TableLen(t) - 1) \/ d # b BY <2>0, <2>1, CountFacts DEF Stores
    <3>2. n # t \/ d # b BY <2>3, <3>1
    <3>3. QED BY <2>3, <3>2 DEF Stores
  <2>7. Moved(e) => (In(C(u, e)', k, v) <=> In(C(u, e), k, v))
    <3>1. CASE u # t \/ e # b BY <2>3, <3>1 DEF Stores
    <3>2. CASE u = t /\ e = b BY <2>0, <2>1, <2>3, <3>2 DEF StoreOK
    <3>3. QED BY <3>1, <3>2
  <2>8. In(C(Count, BucketOf(k, TableLen(Count))), k, v)' <=> In(C(n, d)', k, v)
    BY <1>0, <2>1, <2>4 DEF In, C
  <2>9. In(C(table, BucketOf(k, TableLen(table))), k, v)' <=> In(C(u, e)', k, v)
    BY <1>0, <2>1, <2>4 DEF In, C
  <2>10. Moved(BucketOf(k, TableLen(table)))' <=> Moved(e)
    <3>1. Moved(BucketOf(k, TableLen(table)))' <=> Moved(e)' BY <2>4 DEF Moved, Pending, Class
    <3>2. QED BY <1>m, <3>1
  <2>11. QED BY <2>5, <2>6, <2>7, <2>8, <2>9, <2>10
<1>7. QED BY <1>1, <1>4, <1>5, <1>6, FrameData

\* A step that changes no chain, by a goroutine that has no lock.
LEMMA QuietData ==
    ASSUME TablesOK, CallsOK, DataInv, NEW p \in Procs, SameTables, resizeIdx' = resizeIdx,
           \A q \in Procs \ {p} : Kept(q), pc[p] \notin Busy, pc'[p] \notin Busy
    PROVE  DataInv'
<1>1. Stores(p, 0, 0) BY DEF Stores, SameTables, Busy
<1>2. StoreOK(p, 0, 0) BY DEF StoreOK, Busy, Writing
<1>3. QED BY <1>1, <1>2, StoresData

\* Tables that are not touched.
LEMMA StillTables ==
    ASSUME TablesOK, Still PROVE TablesOK' /\ SameTables
<1>1. hash' = hash /\ tables' = tables /\ table' = table /\ resizeIdx' = resizeIdx BY DEF Still
<1>2. Count' = Count BY <1>1 DEF Count
<1>3. \A t : TableLen(t)' = TableLen(t) BY <1>1 DEF TableLen
<1>4. \A t, b : C(t, b)' = C(t, b) /\ Mu(t, b)' = Mu(t, b) BY <1>1 DEF C, Mu
<1>5. SameTables BY <1>1, <1>2, <1>3, <1>4 DEF SameTables, SameLens
<1>6. TabsOK'
  BY <1>1 DEF TablesOK, TabsOK, Count, TableLen, LenOK, TablesOf, Slots
<1>7. QED BY <1>1, <1>2, <1>5, <1>6 DEF TablesOK

\* The calls of the others.
LEMMA OthersCalls ==
    ASSUME TablesOK, CallsOK, NEW p \in Procs, OthersSame(p), call' = [q \in Procs |-> call'[q]],
           table' \in Nat, table <= table', CallOK(p)'
    PROVE  CallsOK'
<1>1. ASSUME NEW q \in Procs \ {p} PROVE CallOK(q)'
  <2>1. pc'[q] = pc[q] /\ loc'[q] = loc[q] /\ call'[q] = call[q] BY DEF OthersSame
  <2>2. CallOK(q) BY DEF CallsOK
  <2>3. ASSUME loc[q].tbl \in 1..table PROVE loc[q].tbl \in 1..table' BY <2>3, CountFacts
  <2>4. Abs!Idle' = Abs!Idle /\ Abs!WriteOps' = Abs!WriteOps BY DEF Abs!Idle, Abs!WriteOps
  <2>5. QED BY <2>1, <2>2, <2>3, <2>4 DEF CallOK
<1>2. \A q \in Procs : CallOK(q)' BY <1>1
<1>3. QED BY <1>2 DEF CallsOK

\* A step that has nothing to do with a resize.
LEMMA AwayStage ==
    ASSUME ControlInv, TablesOK, StageInv, NEW p \in Procs, Away(p), SameLens, resizeIdx' = resizeIdx
    PROVE  StageInv'
<1>0. /\ UNCHANGED <<ctl, nextTable>> /\ table' = table /\ resizeIdx' = resizeIdx /\ Count' = Count
      /\ \A q \in Procs \ {p} : pc'[q] = pc[q] /\ loc'[q] = loc[q]
  BY DEF Away, SameLens
<1>1. TableLen(table)' = TableLen(table) /\ TableLen(Count)' = TableLen(Count)
  <2>1. PICK t \in 1..Count, n \in 1..Count : t = table /\ n = Count BY CountFacts
  <2>2. TableLen(t)' = TableLen(t) /\ TableLen(n)' = TableLen(n) BY DEF SameLens
  <2>3. TableLen(table)' = TableLen(t)' /\ TableLen(Count)' = TableLen(n)' BY <1>0, <2>1 DEF TableLen
  <2>4. QED BY <2>1, <2>2, <2>3
<1>2. Base' = Base BY SameBase
<1>3. ASSUME NEW q \in Procs
      PROVE  /\ (Builds(q)' <=> Builds(q)) /\ (Opens(q)' <=> Opens(q)) /\ (Registered(q)' <=> Registered(q))
             /\ (pc'[q] = "resize.new" <=> pc[q] = "resize.new")
             /\ (pc'[q] = "resize.publish" <=> pc[q] = "resize.publish")
             /\ (pc'[q] \in Copying <=> pc[q] \in Copying)
             /\ (Builds(q) \/ Registered(q) \/ pc'[q] \in {"help.next", "help.check", "help.join"} =>
                    pc'[q] = pc[q] /\ loc'[q] = loc[q])
  <2>1. CASE q # p BY <1>0, <2>1 DEF Builds, Opens, Registered
  <2>2. CASE q = p
    BY <2>2 DEF Away, Builds, Opens, Registered, Copying, Offering, Finishing, Moving, Helping
  <2>3. QED BY <2>1, <2>2
<1>4. BuildOK'
  BY <1>0, <1>1, <1>3 DEF StageInv, BuildOK
<1>5. HelpsOK'
  <2>1. ASSUME NEW q \in Procs PROVE HelpOK(q)'
    <3>1. HelpOK(q) BY DEF StageInv, HelpsOK
    <3>2. (\E r \in Procs : pc'[r] = "resize.new") <=> (\E r \in Procs : pc[r] = "resize.new") BY <1>3
    <3>3. QED BY <1>0, <1>3, <3>1, <3>2 DEF HelpOK
  <2>2. QED BY <2>1 DEF HelpsOK
<1>6. DoneOK'
  BY <1>0, <1>2, <1>3 DEF StageInv, DoneOK
<1>7. QED BY <1>4, <1>5, <1>6 DEF StageInv

\* A step that reads.
LEMMA QuietAway ==
    ASSUME ControlInv, PlaceInv, NEW p \in Procs, Still, Away(p), OthersSame(p),
           call' = [q \in Procs |-> call'[q]], pc[p] \notin Busy, pc'[p] \notin Busy, CallOK(p)'
    PROVE  PlaceInv'
<1>1. TablesOK' /\ SameTables BY StillTables DEF PlaceInv
<1>2. table' = table /\ table \in Nat /\ resizeIdx' = resizeIdx BY CountFacts DEF Still, PlaceInv
<1>3. CallsOK' BY <1>2, OthersCalls DEF PlaceInv
<1>4. StageInv' BY <1>1, <1>2, AwayStage DEF PlaceInv, SameTables
<1>5. \A q \in Procs \ {p} : Kept(q) BY DEF OthersSame, Kept
<1>6. DataInv' BY <1>1, <1>2, <1>5, QuietData DEF PlaceInv
<1>7. QED BY <1>1, <1>3, <1>4, <1>6 DEF PlaceInv

-----------------------------------------------------------------------------
(* Lookups, and steps that only read.                                       *)

\* A step of one goroutine within its call.
LEMMA OwnCall ==
    ASSUME CallsOK, NEW p \in Procs, NEW l, NEW m, Own(p, l, m)
    PROVE  /\ OthersSame(p) /\ call' = [q \in Procs |-> call'[q]]
           /\ pc'[p] = l /\ loc'[p] = m /\ call'[p] = call[p] /\ CallOK(p)
BY DEF Own, OthersSame, CallsOK

\* The label tells the rest.
LEMMA LabelCall ==
    ASSUME TablesOK, NEW p \in Procs, table' \in Nat, table <= table', pc'[p] # "idle",
           LabelOK(pc'[p], call'[p], loc'[p].tbl)
    PROVE  CallOK(p)'
<1>1. PICK l, c, t : l = pc'[p] /\ c = call'[p] /\ t = loc'[p].tbl OBVIOUS
<1>2. LabelOK(l, c, t) BY <1>1
<1>3. Abs!WriteOps' = Abs!WriteOps BY DEF Abs!WriteOps
<1>4. t \in 1..table => t \in 1..table' BY CountFacts
<1>5. CallOK(p)' <=>
        /\ l = "idle" => c = Abs!Idle'
        /\ l # "idle" => /\ c.op \in Abs!WriteOps' \cup {"Load", "Range"}
                         /\ c.op # "Range" => c.key \in Keys
                         /\ c.op \in {"Store", "LoadOrStore"} => c.val \in Values
        /\ l = "range" => c.op = "Range"
        /\ l \in Reading => c.op \in {"Load", "LoadOrStore", "LoadAndDelete"}
        /\ l \notin Reading \cup {"idle", "table", "range", "return"} => c.op \in Abs!WriteOps'
        /\ l = "update" => c.op = "Store"
        /\ l \in {"insert.meta", "insert.entry", "append"} => c.op \in {"Store", "LoadOrStore"}
        /\ l \in {"delete.meta", "delete.entry"} => c.op = "LoadAndDelete"
        /\ l \in UsesTable => t \in 1..table'
  BY <1>1 DEF CallOK
<1>6. QED BY <1>1, <1>2, <1>3, <1>4, <1>5 DEF LabelOK

\* A lookup reads a meta word.
LEMMA ReadMetaPlace ==
    ASSUME ControlInv, PlaceInv, NEW p \in Procs, ReadMeta(p) PROVE PlaceInv'
<1>0. Shape /\ CallsOK /\ TablesOK BY DEF ControlInv, PlaceInv
<1>a. Away(p) BY AwayStep DEF ControlInv
<1>t. table \in Nat /\ table \in 1..Count BY <1>0, CountFacts
<1>1. pc[p] = "meta" /\ Still /\ \E l, m : Own(p, l, m) /\ m.tbl = loc[p].tbl /\ l = "entry"
  BY <1>0, ReadMetaDoes DEF KeepT
<1>2. PICK l, m : Own(p, l, m) /\ m.tbl = loc[p].tbl /\ l = "entry" BY <1>1
<1>3. /\ OthersSame(p) /\ call' = [q \in Procs |-> call'[q]]
      /\ pc'[p] = l /\ loc'[p] = m /\ call'[p] = call[p] /\ CallOK(p)
  BY <1>0, <1>2, OwnCall
<1>4. LabelOK(l, call[p], m.tbl) BY <1>1, <1>2, <1>3, <1>t DEF LabelOK, CallOK, Reading, Writing, UsesTable, Abs!WriteOps
<1>5. l # "idle" /\ l \notin Busy BY <1>2 DEF Busy, Writing, Copying
<1>6. table' = table BY <1>1 DEF Still
<1>7. CallOK(p)' BY <1>0, <1>3, <1>4, <1>5, <1>6, <1>t, LabelCall
<1>8. pc[p] \notin Busy BY <1>1 DEF Busy, Writing, Copying
<1>9. QED BY <1>1, <1>3, <1>5, <1>7, <1>8, <1>a, QuietAway

\* A lookup reads an entry.
LEMMA ReadEntryPlace ==
    ASSUME ControlInv, PlaceInv, NEW p \in Procs, ReadEntry(p) PROVE PlaceInv'
<1>0. Shape /\ CallsOK /\ TablesOK BY DEF ControlInv, PlaceInv
<1>a. Away(p) BY AwayStep DEF ControlInv
<1>t. table \in Nat /\ table \in 1..Count BY <1>0, CountFacts
<1>1. pc[p] = "entry" /\ Still /\ \E l, m : Own(p, l, m) /\ m.tbl = loc[p].tbl /\ l \in {"entry", "lock", "return"} /\ (l = "lock" => call[p].op = "LoadAndDelete")
  BY <1>0, ReadEntryDoes DEF KeepT
<1>2. PICK l, m : Own(p, l, m) /\ m.tbl = loc[p].tbl /\ l \in {"entry", "lock", "return"} /\ (l = "lock" => call[p].op = "LoadAndDelete") BY <1>1
<1>3. /\ OthersSame(p) /\ call' = [q \in Procs |-> call'[q]]
      /\ pc'[p] = l /\ loc'[p] = m /\ call'[p] = call[p] /\ CallOK(p)
  BY <1>0, <1>2, OwnCall
<1>4. LabelOK(l, call[p], m.tbl) BY <1>1, <1>2, <1>3, <1>t DEF LabelOK, CallOK, Reading, Writing, UsesTable, Abs!WriteOps
<1>5. l # "idle" /\ l \notin Busy BY <1>2 DEF Busy, Writing, Copying
<1>6. table' = table BY <1>1 DEF Still
<1>7. CallOK(p)' BY <1>0, <1>3, <1>4, <1>5, <1>6, <1>t, LabelCall
<1>8. pc[p] \notin Busy BY <1>1 DEF Busy, Writing, Copying
<1>9. QED BY <1>1, <1>3, <1>5, <1>7, <1>8, <1>a, QuietAway

\* A lookup goes on, or ends.
LEMMA ReadNextPlace ==
    ASSUME ControlInv, PlaceInv, NEW p \in Procs, ReadNext(p) PROVE PlaceInv'
<1>0. Shape /\ CallsOK /\ TablesOK BY DEF ControlInv, PlaceInv
<1>a. Away(p) BY AwayStep DEF ControlInv
<1>t. table \in Nat /\ table \in 1..Count BY <1>0, CountFacts
<1>1. pc[p] = "entry" /\ Still /\ \E l, m : Own(p, l, m) /\ m.tbl = loc[p].tbl /\ l \in {"meta", "lock", "return"} /\ (l = "lock" => call[p].op = "LoadOrStore")
  BY <1>0, ReadNextDoes DEF KeepT
<1>2. PICK l, m : Own(p, l, m) /\ m.tbl = loc[p].tbl /\ l \in {"meta", "lock", "return"} /\ (l = "lock" => call[p].op = "LoadOrStore") BY <1>1
<1>3. /\ OthersSame(p) /\ call' = [q \in Procs |-> call'[q]]
      /\ pc'[p] = l /\ loc'[p] = m /\ call'[p] = call[p] /\ CallOK(p)
  BY <1>0, <1>2, OwnCall
<1>4. LabelOK(l, call[p], m.tbl) BY <1>1, <1>2, <1>3, <1>t DEF LabelOK, CallOK, Reading, Writing, UsesTable, Abs!WriteOps
<1>5. l # "idle" /\ l \notin Busy BY <1>2 DEF Busy, Writing, Copying
<1>6. table' = table BY <1>1 DEF Still
<1>7. CallOK(p)' BY <1>0, <1>3, <1>4, <1>5, <1>6, <1>t, LabelCall
<1>8. pc[p] \notin Busy BY <1>1 DEF Busy, Writing, Copying
<1>9. QED BY <1>1, <1>3, <1>5, <1>7, <1>8, <1>a, QuietAway

\* Range visits a bucket.
LEMMA RangeBucketPlace ==
    ASSUME ControlInv, PlaceInv, NEW p \in Procs, RangeBucket(p) PROVE PlaceInv'
<1>0. Shape /\ CallsOK /\ TablesOK BY DEF ControlInv, PlaceInv
<1>a. Away(p) BY AwayStep DEF ControlInv
<1>t. table \in Nat /\ table \in 1..Count BY <1>0, CountFacts
<1>1. pc[p] = "range" /\ Still /\ \E l, m : Own(p, l, m) /\ m.tbl = loc[p].tbl /\ l = "range"
  BY <1>0, RangeBucketDoes, Zenon DEF KeepT
<1>2. PICK l, m : Own(p, l, m) /\ m.tbl = loc[p].tbl /\ l = "range" BY <1>1
<1>3. /\ OthersSame(p) /\ call' = [q \in Procs |-> call'[q]]
      /\ pc'[p] = l /\ loc'[p] = m /\ call'[p] = call[p] /\ CallOK(p)
  BY <1>0, <1>2, OwnCall
<1>4. LabelOK(l, call[p], m.tbl) BY <1>1, <1>2, <1>3, <1>t DEF LabelOK, CallOK, Reading, Writing, UsesTable, Abs!WriteOps
<1>5. l # "idle" /\ l \notin Busy BY <1>2 DEF Busy, Writing, Copying
<1>6. table' = table BY <1>1 DEF Still
<1>7. CallOK(p)' BY <1>0, <1>3, <1>4, <1>5, <1>6, <1>t, LabelCall
<1>8. pc[p] \notin Busy BY <1>1 DEF Busy, Writing, Copying
<1>9. QED BY <1>1, <1>3, <1>5, <1>7, <1>8, <1>a, QuietAway

\* Range ends.
LEMMA RangeEndPlace ==
    ASSUME ControlInv, PlaceInv, NEW p \in Procs, RangeEnd(p) PROVE PlaceInv'
<1>0. Shape /\ CallsOK /\ TablesOK BY DEF ControlInv, PlaceInv
<1>a. Away(p) BY AwayStep DEF ControlInv
<1>t. table \in Nat /\ table \in 1..Count BY <1>0, CountFacts
<1>1. pc[p] = "range" /\ Still /\ \E l, m : Own(p, l, m) /\ m.tbl = loc[p].tbl /\ l = "return"
  BY <1>0, RangeEndDoes DEF KeepT
<1>2. PICK l, m : Own(p, l, m) /\ m.tbl = loc[p].tbl /\ l = "return" BY <1>1
<1>3. /\ OthersSame(p) /\ call' = [q \in Procs |-> call'[q]]
      /\ pc'[p] = l /\ loc'[p] = m /\ call'[p] = call[p] /\ CallOK(p)
  BY <1>0, <1>2, OwnCall
<1>4. LabelOK(l, call[p], m.tbl) BY <1>1, <1>2, <1>3, <1>t DEF LabelOK, CallOK, Reading, Writing, UsesTable, Abs!WriteOps
<1>5. l # "idle" /\ l \notin Busy BY <1>2 DEF Busy, Writing, Copying
<1>6. table' = table BY <1>1 DEF Still
<1>7. CallOK(p)' BY <1>0, <1>3, <1>4, <1>5, <1>6, <1>t, LabelCall
<1>8. pc[p] \notin Busy BY <1>1 DEF Busy, Writing, Copying
<1>9. QED BY <1>1, <1>3, <1>5, <1>7, <1>8, <1>a, QuietAway

\* The fast path of a shrink.
LEMMA ResizeFastPlace ==
    ASSUME ControlInv, PlaceInv, NEW p \in Procs, ResizeFast(p) PROVE PlaceInv'
<1>0. Shape /\ CallsOK /\ TablesOK BY DEF ControlInv, PlaceInv
<1>a. Away(p) BY AwayStep DEF ControlInv
<1>t. table \in Nat /\ table \in 1..Count BY <1>0, CountFacts
<1>1. pc[p] = "resize.fast" /\ Still /\ \E l, m : Own(p, l, m) /\ m.tbl = loc[p].tbl /\ l \in {"return", "resize.seq"}
  BY <1>0, ResizeFastDoes DEF KeepT
<1>2. PICK l, m : Own(p, l, m) /\ m.tbl = loc[p].tbl /\ l \in {"return", "resize.seq"} BY <1>1
<1>3. /\ OthersSame(p) /\ call' = [q \in Procs |-> call'[q]]
      /\ pc'[p] = l /\ loc'[p] = m /\ call'[p] = call[p] /\ CallOK(p)
  BY <1>0, <1>2, OwnCall
<1>4. LabelOK(l, call[p], m.tbl) BY <1>1, <1>2, <1>3, <1>t DEF LabelOK, CallOK, Reading, Writing, UsesTable, Abs!WriteOps
<1>5. l # "idle" /\ l \notin Busy BY <1>2 DEF Busy, Writing, Copying
<1>6. table' = table BY <1>1 DEF Still
<1>7. CallOK(p)' BY <1>0, <1>3, <1>4, <1>5, <1>6, <1>t, LabelCall
<1>8. pc[p] \notin Busy BY <1>1 DEF Busy, Writing, Copying
<1>9. QED BY <1>1, <1>3, <1>5, <1>7, <1>8, <1>a, QuietAway

\* A goroutine waits for the end of a resize.
LEMMA WaitForResizePlace ==
    ASSUME ControlInv, PlaceInv, NEW p \in Procs, WaitForResize(p) PROVE PlaceInv'
<1>0. Shape /\ CallsOK /\ TablesOK BY DEF ControlInv, PlaceInv
<1>a. Away(p) BY AwayStep DEF ControlInv
<1>t. table \in Nat /\ table \in 1..Count BY <1>0, CountFacts
<1>1. pc[p] = "wait" /\ Still /\ \E l, m : Own(p, l, m) /\ m.tbl = loc[p].tbl /\ l \in {"sleep", "return", "table"}
  BY <1>0, WaitForResizeDoes DEF AfterResize
<1>2. PICK l, m : Own(p, l, m) /\ m.tbl = loc[p].tbl /\ l \in {"sleep", "return", "table"} BY <1>1
<1>3. /\ OthersSame(p) /\ call' = [q \in Procs |-> call'[q]]
      /\ pc'[p] = l /\ loc'[p] = m /\ call'[p] = call[p] /\ CallOK(p)
  BY <1>0, <1>2, OwnCall
<1>4. LabelOK(l, call[p], m.tbl) BY <1>1, <1>2, <1>3, <1>t DEF LabelOK, CallOK, Reading, Writing, UsesTable, Abs!WriteOps
<1>5. l # "idle" /\ l \notin Busy BY <1>2 DEF Busy, Writing, Copying
<1>6. table' = table BY <1>1 DEF Still
<1>7. CallOK(p)' BY <1>0, <1>3, <1>4, <1>5, <1>6, <1>t, LabelCall
<1>8. pc[p] \notin Busy BY <1>1 DEF Busy, Writing, Copying
<1>9. QED BY <1>1, <1>3, <1>5, <1>7, <1>8, <1>a, QuietAway

\* An attempt begins.
LEMMA ReadTablePlace ==
    ASSUME ControlInv, PlaceInv, NEW p \in Procs, ReadTable(p) PROVE PlaceInv'
<1>0. Shape /\ CallsOK /\ TablesOK BY DEF ControlInv, PlaceInv
<1>a. Away(p) BY AwayStep DEF ControlInv
<1>t. table \in Nat /\ table \in 1..Count BY <1>0, CountFacts
<1>1. pc[p] = "table" /\ Still /\ \E l, m : Own(p, l, m) /\ m.tbl = table /\ l = (IF call[p].op = "Range" THEN "range" ELSE IF call[p].op = "Store" THEN "lock" ELSE "meta")
  BY <1>0, ReadTableDoes DEF KeepT
<1>2. PICK l, m : Own(p, l, m) /\ m.tbl = table /\ l = (IF call[p].op = "Range" THEN "range" ELSE IF call[p].op = "Store" THEN "lock" ELSE "meta") BY <1>1
<1>3. /\ OthersSame(p) /\ call' = [q \in Procs |-> call'[q]]
      /\ pc'[p] = l /\ loc'[p] = m /\ call'[p] = call[p] /\ CallOK(p)
  BY <1>0, <1>2, OwnCall
<1>4. LabelOK(l, call[p], m.tbl) BY <1>1, <1>2, <1>3, <1>t DEF LabelOK, CallOK, Reading, Writing, UsesTable, Abs!WriteOps
<1>5. l # "idle" /\ l \notin Busy BY <1>2 DEF Busy, Writing, Copying
<1>6. table' = table BY <1>1 DEF Still
<1>7. CallOK(p)' BY <1>0, <1>3, <1>4, <1>5, <1>6, <1>t, LabelCall
<1>8. pc[p] \notin Busy BY <1>1 DEF Busy, Writing, Copying
<1>9. QED BY <1>1, <1>3, <1>5, <1>7, <1>8, <1>a, QuietAway

\* A call ends.
LEMMA ReturnPlace ==
    ASSUME ControlInv, PlaceInv, NEW p \in Procs, Return(p) PROVE PlaceInv'
<1>0. Shape /\ CallsOK /\ TablesOK BY DEF ControlInv, PlaceInv
<1>a. Away(p) BY AwayStep DEF ControlInv
<1>1. /\ pc[p] = "return" /\ pc'[p] = "idle" /\ Still
      /\ call'[p] = Abs!Idle /\ call' = [q \in Procs |-> call'[q]] /\ OthersSame(p)
  BY <1>0, ReturnDoes DEF CallsOK, OthersSame
<1>2. CallOK(p)' BY <1>1 DEF CallOK, Reading, UsesTable, Writing, Abs!Idle
<1>3. QED BY <1>1, <1>2, <1>a, QuietAway DEF Busy, Writing, Copying

\* A call begins.
LEMMA InvokePlace ==
    ASSUME ControlInv, PlaceInv, NEW p \in Procs, NEW c \in Abs!Invocations, Invoke(p, c) PROVE PlaceInv'
<1>0. Shape /\ CallsOK /\ TablesOK BY DEF ControlInv, PlaceInv
<1>a. Away(p) BY AwayStep DEF ControlInv
<1>t. table \in Nat BY <1>0, CountFacts
<1>1. /\ pc[p] = "idle" /\ pc'[p] = "table" /\ Still /\ call'[p] = c
      /\ call' = [q \in Procs |-> call'[q]] /\ OthersSame(p)
  BY <1>0, InvokeDoes DEF CallsOK, OthersSame
<1>2. /\ c.op \in Abs!WriteOps \cup {"Load", "Range"}
      /\ c.op # "Range" => c.key \in Keys
      /\ c.op \in {"Store", "LoadOrStore"} => c.val \in Values
  BY DEF Abs!Invocations, Abs!WriteOps
<1>3. LabelOK("table", c, loc'[p].tbl) BY <1>2 DEF LabelOK, Reading, UsesTable, Writing
<1>4. table' = table BY <1>1 DEF Still
<1>5. CallOK(p)' BY <1>0, <1>1, <1>3, <1>4, <1>t, LabelCall
<1>6. QED BY <1>1, <1>5, <1>a, QuietAway DEF Busy, Writing, Copying

-----------------------------------------------------------------------------
(* Writers under the lock of a bucket.                                      *)

\* The lengths of the tables after a store to a chain.
LEMMA WroteLens ==
    ASSUME TablesOK, NEW t, NEW b, NEW c, NEW h, Wrote(t, b, c, h), UNCHANGED <<hash, table, resizeIdx>>
    PROVE  SameLens /\ TablesOK'
<1>0. TabsOK BY DEF TablesOK
<1>1. TabsOK' /\ Count' = Count /\ \A u \in 1..Count : TableLen(u)' = TableLen(u) BY DEF Wrote
<1>2. ASSUME NEW u \in 1..Count PROVE DOMAIN tables'[u].chains = DOMAIN tables[u].chains
  <2>1. PICK n \in Nat \ {0} : n = TableLen(u) BY <1>0, TableFacts
  <2>2. DOMAIN tables[u].chains = 0..n - 1 BY <1>0, <2>1, TableFacts
  <2>3. TableLen(u)' = n BY <1>1, <2>1
  <2>4. tables'[u] \in TablesOf(TableLen(u))' BY <1>1 DEF TabsOK
  <2>5. tables'[u] \in TablesOf(n) BY <2>3, <2>4 DEF TablesOf, Slots
  <2>6. DOMAIN tables'[u].chains = 0..n - 1 BY <2>5 DEF TablesOf
  <2>7. QED BY <2>2, <2>6
<1>3. SameLens BY <1>1, <1>2 DEF SameLens
<1>4. TablesOK' BY <1>1 DEF TablesOK
<1>5. QED BY <1>3, <1>4

\* No store at all.
LEMMA WroteNothing ==
    ASSUME TabsOK, NEW t, NEW b, tables' = tables PROVE Wrote(t, b, C(t, b), Mu(t, b))
<1>1. TabsOK' BY DEF TabsOK, Count, TableLen, LenOK, TablesOf, Slots
<1>2. Count' = Count /\ \A u : TableLen(u)' = TableLen(u) BY DEF Count, TableLen
<1>3. \A u, d : C(u, d)' = C(u, d) /\ Mu(u, d)' = Mu(u, d) BY DEF C, Mu
<1>4. QED BY <1>1, <1>2, <1>3 DEF Wrote

\* What a writer knows about its chain.
LEMMA HolderFacts ==
    ASSUME PlaceInv, NEW p \in Procs, pc[p] \in Writing
    PROVE  /\ ChainOK(Chain(p), Bidx(p), TableLen(loc[p].tbl)) /\ Mu(loc[p].tbl, Bidx(p)) = p
           /\ Ready(pc[p], loc[p].tbl, loc[p].slot, Chain(p), call[p].key)
           /\ \A i \in DOMAIN Chain(p) : \/ Tidy(Chain(p)[i])
                                         \/ pc[p] \in {"insert.entry", "delete.entry"} /\ loc[p].slot = i
           /\ loc[p].tbl \in 1..table
           /\ loc[p].tbl = table /\ Count = table + 1 => ~Moved(Bidx(p))
<1>0. TablesOK /\ CallsOK /\ DataInv /\ WriterOK(p) /\ CallOK(p) BY DEF PlaceInv, DataInv, WritersOK, CallsOK
<1>1. PICK t, b : t \in 1..Count /\ t = loc[p].tbl /\ b = Bidx(p) /\ b \in 0..TableLen(t) - 1 /\ Chain(p) = C(t, b)
  BY <1>0, WriterFacts
<1>2. /\ ChainOK(C(t, b), b, TableLen(t))
      /\ \A i \in DOMAIN C(t, b) : Tidy(C(t, b)[i]) \/ \E q \in Procs : Touches(q, t, b, i)
  BY <1>0, <1>1 DEF DataInv, ChainsOK
<1>3. Mu(t, b) = p BY <1>0, <1>1 DEF DataInv, LocksOK
<1>4. ASSUME NEW i, NEW q \in Procs, Touches(q, t, b, i)
      PROVE  pc[p] \in {"insert.entry", "delete.entry"} /\ loc[p].slot = i
  <2>1. pc[q] \in Writing /\ loc[q].tbl = t /\ Bidx(q) = b BY <1>4 DEF Touches, Writing
  <2>2. Mu(t, b) = q BY <1>0, <2>1 DEF DataInv, LocksOK
  <2>3. QED BY <1>3, <1>4, <2>2 DEF Touches
<1>5. Ready(pc[p], loc[p].tbl, loc[p].slot, Chain(p), call[p].key) BY <1>0 DEF WriterOK, Ready
<1>6. loc[p].tbl \in 1..table BY <1>0 DEF CallOK, UsesTable
<1>7. QED BY <1>0, <1>1, <1>2, <1>3, <1>4, <1>5, <1>6 DEF WriterOK

\* A step of a writer.
LEMMA WriterPlace ==
    ASSUME ControlInv, PlaceInv, NEW p \in Procs, Away(p), pc[p] \in Writing,
           UNCHANGED <<hash, table, resizeIdx>>, NEW l, NEW m, Own(p, l, m), m.tbl = loc[p].tbl,
           NEW t, NEW b, t = loc[p].tbl, b = Bidx(p), NEW c, NEW h, Wrote(t, b, c, h),
           LabelOK(l, call[p], m.tbl), Leaves(p, l, m, c, h)
    PROVE  PlaceInv'
<1>0. Shape /\ CallsOK /\ TablesOK /\ StageInv /\ DataInv BY DEF ControlInv, PlaceInv
<1>t. table \in Nat /\ table \in 1..Count BY <1>0, CountFacts
<1>1. SameLens /\ TablesOK' BY <1>0, WroteLens
<1>2. /\ OthersSame(p) /\ call' = [q \in Procs |-> call'[q]]
      /\ pc'[p] = l /\ loc'[p] = m /\ call'[p] = call[p] /\ CallOK(p)
  BY <1>0, OwnCall
<1>3. CallOK(p)' BY <1>0, <1>2, <1>t, LabelCall DEF LabelOK
<1>4. CallsOK' BY <1>0, <1>2, <1>3, <1>t, OthersCalls
<1>5. StageInv' BY <1>0, <1>1, AwayStage
<1>6. t \in 1..Count /\ t = loc[p].tbl /\ b = Bidx(p) /\ b \in 0..TableLen(t) - 1 /\ Chain(p) = C(t, b)
  BY <1>0, WriterFacts
<1>7. C(t, b)' = c /\ Mu(t, b)' = h BY <1>6 DEF Wrote
<1>8. Stores(p, t, b)
  <2>1. \A q \in Procs \ {p} : Kept(q) BY <1>2 DEF OthersSame, Kept
  <2>2. pc[p] \notin Copying /\ pc'[p] \notin Copying BY DEF Away, Copying, Moving
  <2>3. t <= table /\ Mu(t, b) = p BY <1>6, <1>t, HolderFacts
  <2>4. QED BY <1>1, <1>6, <2>1, <2>2, <2>3 DEF Stores, Wrote
<1>9. Bidx(p)' = b
  <2>1. TableLen(loc[p].tbl)' = TableLen(t)' BY <1>2, <1>6 DEF TableLen
  <2>2. TableLen(t)' = TableLen(t) BY <1>1, <1>6 DEF SameLens
  <2>3. QED BY <1>2, <1>6, <2>1, <2>2 DEF Bidx, BucketOf
<1>10. Chain(p)' = c BY <1>2, <1>6, <1>7, <1>9 DEF Chain, C
<1>11. ASSUME l \in Writing PROVE Mu(loc[p].tbl, Bidx(p))' = p /\ WriterOK(p)'
  <2>1. h = p /\ Ready(l, t, m.slot, c, call[p].key) BY <1>6, <1>11 DEF Leaves
  <2>2. Mu(loc[p].tbl, Bidx(p))' = Mu(t, b)' BY <1>2, <1>6, <1>9 DEF Mu
  <2>3. Moved(Bidx(p))' <=> Moved(b)' BY <1>9 DEF Moved, Pending, Class
  <2>4. Moved(b)' <=> Moved(b)
    <3>1. \A q \in Procs : pc[q] \in Copying \/ pc'[q] \in Copying => Kept(q) BY <1>8 DEF Stores
    <3>2. QED BY <1>0, <1>1, <3>1, SameMoved
  <2>5. t = table /\ Count = table + 1 => ~Moved(b)' BY <1>6, <2>4, HolderFacts
  <2>6. HasKey(Chain(p), call[p].key)' <=> HasKey(c, call[p].key) BY <1>2, <1>10 DEF HasKey
  <2>7. ASSUME NEW s PROVE Holds(Chain(p)[s], call[p].key)' <=> Holds(c[s], call[p].key)
    BY <1>2, <1>10 DEF Holds
  <2>8. Count' = Count BY <1>1 DEF SameLens
  <2>9. WriterOK(p)' <=>
          /\ l \in Writing \ {"newer"} => t = table
          /\ l \in Writing /\ t = table /\ Count = table + 1 => ~Moved(b)'
          /\ l \in {"update", "delete.meta"} => m.slot \in DOMAIN c /\ Holds(c[m.slot], call[p].key)
          /\ l = "insert.meta" => m.slot \in DOMAIN c /\ c[m.slot].key = Absent /\ c[m.slot].meta = 0 /\ ~HasKey(c, call[p].key)
          /\ l = "insert.entry" => m.slot \in DOMAIN c /\ c[m.slot].key = Absent /\ c[m.slot].meta = hash.h2[call[p].key]
                                   /\ ~HasKey(c, call[p].key)
          /\ l = "append" => ~HasKey(c, call[p].key)
          /\ l = "delete.entry" => m.slot \in DOMAIN c /\ c[m.slot].key = call[p].key /\ c[m.slot].meta = 0
    BY <1>2, <1>6, <1>10, <2>3, <2>6, <2>7, <2>8 DEF WriterOK, Holds
  <2>10. QED BY <1>7, <1>11, <2>1, <2>2, <2>5, <2>9 DEF Ready
<1>12. StoreOK(p, t, b)
  <2>1. ChainOK(c, b, TableLen(t)) BY <1>6 DEF Leaves
  <2>2. \A i \in DOMAIN c : Tidy(c[i]) \/ (l \in {"insert.entry", "delete.entry"} /\ m.slot = i) BY DEF Leaves
  <2>3. \/ \A k \in Keys, v \in Values : In(c, k, v) <=> In(C(t, b), k, v)
        \/ t = table /\ (Count = table + 1 => ~Moved(b))
    <3>1. pc[p] # "newer" => t = table BY <1>6, HolderFacts DEF Ready
    <3>2. t = table => (Count = table + 1 => ~Moved(b)) BY <1>6, HolderFacts
    <3>3. QED BY <1>6, <3>1, <3>2 DEF Leaves
  <2>4. QED BY <1>2, <1>6, <1>7, <1>9, <1>11, <2>1, <2>2, <2>3 DEF StoreOK
<1>13. DataInv' BY <1>0, <1>8, <1>12, StoresData
<1>14. QED BY <1>1, <1>4, <1>5, <1>13 DEF PlaceInv

\* A writer releases the lock, and the chain is as it was.
LEMMA UnlockPlace ==
    ASSUME ControlInv, PlaceInv, NEW p \in Procs, Away(p), pc[p] \in {"newer", "search"},
           UNCHANGED <<hash, table, resizeIdx>>, Unlock(p),
           NEW l, NEW m, Own(p, l, m), m.tbl = loc[p].tbl, l \notin Writing, LabelOK(l, call[p], m.tbl)
    PROVE  PlaceInv'
<1>0. TabsOK /\ TablesOK /\ CallsOK /\ pc[p] \in Writing BY DEF PlaceInv, TablesOK, Writing
<1>1. PICK t, b : t \in 1..Count /\ t = loc[p].tbl /\ b = Bidx(p) /\ b \in 0..TableLen(t) - 1 /\ Chain(p) = C(t, b)
  BY <1>0, WriterFacts
<1>2. tables' = [tables EXCEPT ![t].mu[b] = Nobody] BY <1>1 DEF Unlock
<1>3. Wrote(t, b, C(t, b), Nobody) BY <1>0, <1>1, <1>2, WroteLock
<1>4. Leaves(p, l, m, C(t, b), Nobody)
  <2>1. ChainOK(Chain(p), Bidx(p), TableLen(loc[p].tbl)) /\ \A i \in DOMAIN Chain(p) : Tidy(Chain(p)[i])
    BY <1>0, HolderFacts
  <2>2. QED BY <1>1, <2>1 DEF Leaves
<1>5. QED BY <1>0, <1>1, <1>3, <1>4, WriterPlace

\* A writer goes on, and the tables are as they were.
LEMMA OnwardPlace ==
    ASSUME ControlInv, PlaceInv, NEW p \in Procs, Away(p), pc[p] \in {"newer", "search"},
           UNCHANGED <<hash, table, resizeIdx>>, tables' = tables,
           NEW l, NEW m, Own(p, l, m), m.tbl = loc[p].tbl, LabelOK(l, call[p], m.tbl),
           Ready(l, m.tbl, m.slot, Chain(p), call[p].key)
    PROVE  PlaceInv'
<1>0. TabsOK /\ TablesOK /\ CallsOK /\ pc[p] \in Writing BY DEF PlaceInv, TablesOK, Writing
<1>1. PICK t, b : t \in 1..Count /\ t = loc[p].tbl /\ b = Bidx(p) /\ b \in 0..TableLen(t) - 1 /\ Chain(p) = C(t, b)
  BY <1>0, WriterFacts
<1>2. Mu(t, b) = p BY <1>0, <1>1, HolderFacts
<1>3. Wrote(t, b, C(t, b), p) BY <1>0, <1>2, WroteNothing
<1>4. Leaves(p, l, m, C(t, b), p)
  <2>1. ChainOK(Chain(p), Bidx(p), TableLen(loc[p].tbl)) /\ \A i \in DOMAIN Chain(p) : Tidy(Chain(p)[i])
    BY <1>0, HolderFacts
  <2>2. QED BY <1>1, <2>1 DEF Leaves
<1>5. QED BY <1>0, <1>1, <1>3, <1>4, WriterPlace

\* A writer checks for a newer table.
LEMMA CheckNewerPlace ==
    ASSUME ControlInv, PlaceInv, NEW p \in Procs, CheckNewer(p) PROVE PlaceInv'
<1>0. Shape /\ CallsOK /\ TablesOK BY DEF ControlInv, PlaceInv
<1>a. Away(p) BY AwayStep DEF ControlInv
<1>1. /\ pc[p] = "newer" /\ UNCHANGED <<hash, table, resizeIdx>>
      /\ Own(p, (IF table # loc[p].tbl THEN "table" ELSE "search"), loc[p])
      /\ IF table # loc[p].tbl THEN Unlock(p) ELSE tables' = tables
  BY <1>0, CheckNewerDoes
<1>2. CallOK(p) BY <1>0 DEF CallsOK
<1>3. CASE table # loc[p].tbl
  <2>1. LabelOK("table", call[p], loc[p].tbl) BY <1>1, <1>2 DEF LabelOK, CallOK, Reading, Writing, UsesTable
  <2>2. Unlock(p) /\ Own(p, "table", loc[p]) /\ "table" \notin Writing BY <1>1, <1>3 DEF Writing
  <2>3. QED BY <1>1, <1>a, <2>1, <2>2, UnlockPlace
<1>4. CASE table = loc[p].tbl
  <2>1. LabelOK("search", call[p], loc[p].tbl) BY <1>1, <1>2 DEF LabelOK, CallOK, Reading, Writing, UsesTable
  <2>2. tables' = tables /\ Own(p, "search", loc[p]) BY <1>1, <1>4
  <2>3. Ready("search", loc[p].tbl, loc[p].slot, Chain(p), call[p].key) BY <1>4 DEF Ready
  <2>4. QED BY <1>1, <1>a, <2>1, <2>2, <2>3, OnwardPlace
<1>5. QED BY <1>3, <1>4

\* A writer walks along its chain.
LEMMA SearchPlace ==
    ASSUME ControlInv, PlaceInv, NEW p \in Procs, Search(p) PROVE PlaceInv'
<1>0. Shape /\ CallsOK /\ TablesOK /\ hash \in Hashes BY DEF ControlInv, PlaceInv, TablesOK
<1>a. Away(p) BY AwayStep DEF ControlInv
<1>p. pc[p] = "search" /\ CallOK(p) BY <1>0 DEF Search, CallsOK
<1>o. call[p].op \in Abs!WriteOps BY <1>p DEF CallOK, Reading
<1>c. /\ call[p].op # "Range" /\ call[p].key \in Keys /\ call[p].op \in Abs!WriteOps \cup {"Load", "Range"}
      /\ call[p].op \in {"Store", "LoadOrStore"} => call[p].val \in Values
      /\ loc[p].tbl \in 1..table
  BY <1>o, <1>p DEF CallOK, UsesTable, Writing, Abs!WriteOps
<1>h. UNCHANGED <<hash, table, resizeIdx>> BY DEF Search
<1>w. pc[p] \in Writing BY <1>p DEF Writing
<1>t. /\ loc[p].tbl = table
      /\ \A i \in DOMAIN Chain(p) : Tidy(Chain(p)[i])
      /\ ChainOK(Chain(p), Bidx(p), TableLen(loc[p].tbl))
      /\ DOMAIN Chain(p) = 1..Len(Chain(p)) /\ Chain(p) \in Seq(Slots)
  BY <1>0, <1>p, <1>w, HolderFacts, WriterFacts DEF Ready
<1>k. call[p].key # Absent /\ hash.h2[call[p].key] # 0 BY <1>0, <1>c, HashFacts
<1>n. Hits(p) = {} => ~HasKey(Chain(p), call[p].key)
  BY <1>t, <1>k DEF Hits, Holds, HasKey, Tidy, ChainOK
<1>s. Hits(p) \in SUBSET Nat /\ Frees(p) \in SUBSET Nat BY <1>t DEF Hits, Frees
<1>g. ASSUME NEW l, l \in {"return", "resize.seq"} PROVE LabelOK(l, call[p], loc[p].tbl) /\ l \notin Writing
  BY <1>c, <1>g, <1>o DEF LabelOK, Reading, Writing, UsesTable
<1>x. ASSUME NEW r, Gives(p, r) PROVE PlaceInv'
  <2>1. Unlock(p) /\ Own(p, "return", loc[p]) BY <1>x DEF Gives
  <2>2. LabelOK("return", call[p], loc[p].tbl) /\ "return" \notin Writing BY <1>g
  <2>3. QED BY <1>a, <1>p, <1>h, <2>1, <2>2, UnlockPlace
<1>y. ASSUME NEW i, NEW l, Takes(p, i, l), LabelOK(l, call[p], loc[p].tbl),
             Ready(l, table, i, Chain(p), call[p].key)
      PROVE  PlaceInv'
  <2>1. PICK m : Own(p, l, m) /\ m.slot = i /\ m.tbl = loc[p].tbl BY <1>y DEF Takes
  <2>2. tables' = tables BY <1>y DEF Takes
  <2>3. LabelOK(l, call[p], m.tbl) BY <1>y, <2>1
  <2>4. Ready(l, m.tbl, m.slot, Chain(p), call[p].key) BY <1>t, <1>y, <2>1
  <2>5. QED BY <1>a, <1>p, <1>h, <2>1, <2>2, <2>3, <2>4, OnwardPlace
<1>m. ASSUME Hits(p) # {} PROVE Min(Hits(p)) \in DOMAIN Chain(p) /\ Holds(Chain(p)[Min(Hits(p))], call[p].key)
  <2>1. Min(Hits(p)) \in Hits(p) BY <1>m, <1>s, MinIn
  <2>2. QED BY <2>1 DEF Hits
<1>1. \/ \E r : Gives(p, r)
      \/ Hits(p) # {} /\ call[p].op = "LoadAndDelete" /\ Takes(p, Min(Hits(p)), "delete.meta")
      \/ Hits(p) # {} /\ call[p].op = "Store" /\ Takes(p, Min(Hits(p)), "update")
      \/ Unlock(p) /\ \E m : Own(p, "resize.seq", m) /\ m.tbl = loc[p].tbl
      \/ /\ Hits(p) = {} /\ Frees(p) # {} /\ call[p].op # "LoadAndDelete"
         /\ Takes(p, Min(Frees(p)), "insert.meta")
      \/ /\ Hits(p) = {} /\ call[p].op # "LoadAndDelete"
         /\ Takes(p, Len(Chain(p)) + 1, "append")
  BY <1>0, <1>o, SearchDoes
<1>2. CASE Hits(p) # {} /\ call[p].op = "LoadAndDelete" /\ Takes(p, Min(Hits(p)), "delete.meta")
  <2>1. LabelOK("delete.meta", call[p], loc[p].tbl) BY <1>2, <1>c, <1>o DEF LabelOK, Reading, Writing, UsesTable
  <2>2. Ready("delete.meta", table, Min(Hits(p)), Chain(p), call[p].key) BY <1>2, <1>m DEF Ready
  <2>3. QED BY <1>2, <1>y, <2>1, <2>2
<1>3. CASE Hits(p) # {} /\ call[p].op = "Store" /\ Takes(p, Min(Hits(p)), "update")
  <2>1. LabelOK("update", call[p], loc[p].tbl) BY <1>3, <1>c, <1>o DEF LabelOK, Reading, Writing, UsesTable
  <2>2. Ready("update", table, Min(Hits(p)), Chain(p), call[p].key) BY <1>3, <1>m DEF Ready
  <2>3. QED BY <1>3, <1>y, <2>1, <2>2
<1>4. CASE Unlock(p) /\ \E m : Own(p, "resize.seq", m) /\ m.tbl = loc[p].tbl
  <2>1. PICK m : Own(p, "resize.seq", m) /\ m.tbl = loc[p].tbl BY <1>4
  <2>2. LabelOK("resize.seq", call[p], m.tbl) /\ "resize.seq" \notin Writing BY <1>g, <2>1
  <2>3. QED BY <1>4, <1>a, <1>p, <1>h, <2>1, <2>2, UnlockPlace
<1>5. CASE /\ Hits(p) = {} /\ Frees(p) # {} /\ call[p].op # "LoadAndDelete"
           /\ Takes(p, Min(Frees(p)), "insert.meta")
  <2>1. LabelOK("insert.meta", call[p], loc[p].tbl)
    BY <1>5, <1>c, <1>o DEF LabelOK, Reading, Writing, UsesTable, Abs!WriteOps
  <2>2. Min(Frees(p)) \in Frees(p) BY <1>5, <1>s, MinIn
  <2>3. PICK s \in DOMAIN Chain(p) : s = Min(Frees(p)) /\ Chain(p)[s].meta = 0 BY <2>2 DEF Frees
  <2>4. Chain(p)[s].key = Absent BY <1>t, <2>3 DEF Tidy
  <2>5. Ready("insert.meta", table, Min(Frees(p)), Chain(p), call[p].key) BY <1>5, <1>n, <2>3, <2>4 DEF Ready
  <2>6. QED BY <1>5, <1>y, <2>1, <2>5
<1>6. CASE /\ Hits(p) = {} /\ call[p].op # "LoadAndDelete"
           /\ Takes(p, Len(Chain(p)) + 1, "append")
  <2>1. LabelOK("append", call[p], loc[p].tbl)
    BY <1>6, <1>c, <1>o DEF LabelOK, Reading, Writing, UsesTable, Abs!WriteOps
  <2>2. Ready("append", table, Len(Chain(p)) + 1, Chain(p), call[p].key) BY <1>6, <1>n DEF Ready
  <2>3. QED BY <1>6, <1>y, <2>1, <2>2
<1>7. QED BY <1>1, <1>x, <1>2, <1>3, <1>4, <1>5, <1>6

\* A value is replaced.
LEMMA UpdatePlace ==
    ASSUME ControlInv, PlaceInv, NEW p \in Procs, Update(p) PROVE PlaceInv'
<1>0. Shape /\ CallsOK /\ TablesOK /\ TabsOK /\ hash \in Hashes BY DEF ControlInv, PlaceInv, TablesOK
<1>a. Away(p) BY AwayStep DEF ControlInv
<1>1. /\ pc[p] = "update" /\ UNCHANGED <<hash, table, resizeIdx>>
      /\ WriteChain(p, [Chain(p) EXCEPT ![loc[p].slot] = Slot(p)], Nobody) /\ Own(p, "return", loc[p])
  BY <1>0, UpdateDoes
<1>m. PICK m : Own(p, "return", m) /\ m = loc[p] BY <1>1
<1>2. CallOK(p) /\ pc[p] \in Writing BY <1>0, <1>1 DEF CallsOK, Writing
<1>t. PICK t, b : t \in 1..Count /\ t = loc[p].tbl /\ b = Bidx(p) /\ b \in 0..TableLen(t) - 1 /\ Chain(p) = C(t, b)
  BY <1>0, <1>2, WriterFacts
<1>c. PICK c, s, n : c = Chain(p) /\ s = loc[p].slot /\ n = TableLen(t) OBVIOUS
<1>3. /\ t = loc[p].tbl /\ b = Bidx(p) /\ b \in 0..TableLen(t) - 1 /\ c \in Seq(Slots)
      /\ c = Chain(p) /\ c = C(t, b) /\ s = loc[p].slot /\ n = TableLen(t)
  BY <1>0, <1>2, <1>t, <1>c, WriterFacts
<1>4. /\ ChainOK(c, b, n) /\ Ready("update", t, s, c, call[p].key)
      /\ \A i \in DOMAIN c : Tidy(c[i]) \/ ("update" \in {"insert.entry", "delete.entry"} /\ s = i)
  BY <1>1, <1>2, <1>3, HolderFacts
<1>5. call[p].key \in Keys BY <1>0, <1>2, WriterFacts
<1>6. PICK k \in Keys, v \in Values : k = call[p].key /\ v = call[p].val /\ Slot(p) = EntryOf(k, v)
  BY <1>1, <1>2, <1>5 DEF CallOK, Slot, EntryOf
<1>7. Bidx(p) = BucketOf(call[p].key, n) BY <1>3 DEF Bidx
<1>8. PICK r : r = [c EXCEPT ![s] = EntryOf(k, v)] /\ r = [Chain(p) EXCEPT ![loc[p].slot] = Slot(p)] BY <1>3, <1>6
<1>u. s \in DOMAIN c /\ c[s].key = k /\ k # Absent BY <1>0, <1>4, <1>6, HashFacts DEF Ready, Holds
<1>v. \A i \in DOMAIN c : c[i].key = k => i = s BY <1>4, <1>u DEF ChainOK
<1>w. BucketOf(k, n) = b /\ c[s].key \in {k, Absent} BY <1>3, <1>6, <1>7, <1>u
<1>9. /\ r \in Seq(Slots) /\ DOMAIN r = DOMAIN c /\ ChainOK(r, b, n) /\ Tidy(r[s])
      /\ \A i \in DOMAIN c : i # s => r[i] = c[i]
  BY <1>0, <1>3, <1>4, <1>8, <1>u, <1>v, <1>w, PutSlot
<1>10. tables' = [tables EXCEPT ![t].chains[b] = r, ![t].mu[b] = Nobody] BY <1>1, <1>3, <1>8 DEF WriteChain
<1>11. Wrote(t, b, r, Nobody) BY <1>0, <1>t, <1>3, <1>9, <1>10, WroteBoth
<1>12. LabelOK("return", call[p], m.tbl) BY <1>1, <1>2, <1>m DEF LabelOK, CallOK, Reading, Writing, UsesTable, Abs!WriteOps
<1>13. Leaves(p, "return", m, r, Nobody)
  <2>1. \A i \in DOMAIN r : Tidy(r[i]) BY <1>4, <1>9
  <2>2. QED BY <1>1, <1>3, <1>9, <2>1 DEF Leaves, Writing
<1>14. QED BY <1>0, <1>1, <1>2, <1>3, <1>a, <1>m, <1>11, <1>12, <1>13, WriterPlace

\* The entry of a new key.
LEMMA InsertEntryPlace ==
    ASSUME ControlInv, PlaceInv, NEW p \in Procs, InsertEntry(p) PROVE PlaceInv'
<1>0. Shape /\ CallsOK /\ TablesOK /\ TabsOK /\ hash \in Hashes BY DEF ControlInv, PlaceInv, TablesOK
<1>a. Away(p) BY AwayStep DEF ControlInv
<1>1. /\ pc[p] = "insert.entry" /\ UNCHANGED <<hash, table, resizeIdx>>
      /\ WriteChain(p, [Chain(p) EXCEPT ![loc[p].slot] = Slot(p)], Nobody) /\ \E m : Own(p, "addSize", m) /\ m.tbl = loc[p].tbl
  BY <1>0, InsertEntryDoes
<1>m. PICK m : Own(p, "addSize", m) /\ m.tbl = loc[p].tbl BY <1>1
<1>2. CallOK(p) /\ pc[p] \in Writing BY <1>0, <1>1 DEF CallsOK, Writing
<1>t. PICK t, b : t \in 1..Count /\ t = loc[p].tbl /\ b = Bidx(p) /\ b \in 0..TableLen(t) - 1 /\ Chain(p) = C(t, b)
  BY <1>0, <1>2, WriterFacts
<1>c. PICK c, s, n : c = Chain(p) /\ s = loc[p].slot /\ n = TableLen(t) OBVIOUS
<1>3. /\ t = loc[p].tbl /\ b = Bidx(p) /\ b \in 0..TableLen(t) - 1 /\ c \in Seq(Slots)
      /\ c = Chain(p) /\ c = C(t, b) /\ s = loc[p].slot /\ n = TableLen(t)
  BY <1>0, <1>2, <1>t, <1>c, WriterFacts
<1>4. /\ ChainOK(c, b, n) /\ Ready("insert.entry", t, s, c, call[p].key)
      /\ \A i \in DOMAIN c : Tidy(c[i]) \/ ("insert.entry" \in {"insert.entry", "delete.entry"} /\ s = i)
  BY <1>1, <1>2, <1>3, HolderFacts
<1>5. call[p].key \in Keys BY <1>0, <1>2, WriterFacts
<1>6. PICK k \in Keys, v \in Values : k = call[p].key /\ v = call[p].val /\ Slot(p) = EntryOf(k, v)
  BY <1>1, <1>2, <1>5 DEF CallOK, Slot, EntryOf
<1>7. Bidx(p) = BucketOf(call[p].key, n) BY <1>3 DEF Bidx
<1>8. PICK r : r = [c EXCEPT ![s] = EntryOf(k, v)] /\ r = [Chain(p) EXCEPT ![loc[p].slot] = Slot(p)] BY <1>3, <1>6
<1>u. s \in DOMAIN c /\ c[s].key = Absent /\ ~HasKey(c, k) BY <1>4, <1>6 DEF Ready
<1>v. \A i \in DOMAIN c : c[i].key = k => i = s BY <1>u DEF HasKey
<1>w. BucketOf(k, n) = b /\ c[s].key \in {k, Absent} BY <1>3, <1>6, <1>7, <1>u
<1>9. /\ r \in Seq(Slots) /\ DOMAIN r = DOMAIN c /\ ChainOK(r, b, n) /\ Tidy(r[s])
      /\ \A i \in DOMAIN c : i # s => r[i] = c[i]
  BY <1>0, <1>3, <1>4, <1>8, <1>u, <1>v, <1>w, PutSlot
<1>10. tables' = [tables EXCEPT ![t].chains[b] = r, ![t].mu[b] = Nobody] BY <1>1, <1>3, <1>8 DEF WriteChain
<1>11. Wrote(t, b, r, Nobody) BY <1>0, <1>t, <1>3, <1>9, <1>10, WroteBoth
<1>12. LabelOK("addSize", call[p], m.tbl) BY <1>1, <1>2, <1>m DEF LabelOK, CallOK, Reading, Writing, UsesTable, Abs!WriteOps
<1>13. Leaves(p, "addSize", m, r, Nobody)
  <2>1. \A i \in DOMAIN r : Tidy(r[i]) BY <1>4, <1>9
  <2>2. QED BY <1>1, <1>3, <1>9, <2>1 DEF Leaves, Writing
<1>14. QED BY <1>0, <1>1, <1>2, <1>3, <1>a, <1>m, <1>11, <1>12, <1>13, WriterPlace

\* The entry of a new key, in a new bucket.
LEMMA AppendBucketPlace ==
    ASSUME ControlInv, PlaceInv, NEW p \in Procs, AppendBucket(p) PROVE PlaceInv'
<1>0. Shape /\ CallsOK /\ TablesOK /\ TabsOK /\ hash \in Hashes BY DEF ControlInv, PlaceInv, TablesOK
<1>a. Away(p) BY AwayStep DEF ControlInv
<1>1. /\ pc[p] = "append" /\ UNCHANGED <<hash, table, resizeIdx>>
      /\ WriteChain(p, Chain(p) \o [EmptyBucket EXCEPT ![1] = Slot(p)], Nobody) /\ \E m : Own(p, "addSize", m) /\ m.tbl = loc[p].tbl
  BY <1>0, AppendBucketDoes
<1>m. PICK m : Own(p, "addSize", m) /\ m.tbl = loc[p].tbl BY <1>1
<1>2. CallOK(p) /\ pc[p] \in Writing BY <1>0, <1>1 DEF CallsOK, Writing
<1>t. PICK t, b : t \in 1..Count /\ t = loc[p].tbl /\ b = Bidx(p) /\ b \in 0..TableLen(t) - 1 /\ Chain(p) = C(t, b)
  BY <1>0, <1>2, WriterFacts
<1>c. PICK c, s, n : c = Chain(p) /\ s = loc[p].slot /\ n = TableLen(t) OBVIOUS
<1>3. /\ t = loc[p].tbl /\ b = Bidx(p) /\ b \in 0..TableLen(t) - 1 /\ c \in Seq(Slots)
      /\ c = Chain(p) /\ c = C(t, b) /\ s = loc[p].slot /\ n = TableLen(t)
  BY <1>0, <1>2, <1>t, <1>c, WriterFacts
<1>4. /\ ChainOK(c, b, n) /\ Ready("append", t, s, c, call[p].key)
      /\ \A i \in DOMAIN c : Tidy(c[i]) \/ ("append" \in {"insert.entry", "delete.entry"} /\ s = i)
  BY <1>1, <1>2, <1>3, HolderFacts
<1>5. call[p].key \in Keys BY <1>0, <1>2, WriterFacts
<1>6. PICK k \in Keys, v \in Values : k = call[p].key /\ v = call[p].val /\ Slot(p) = EntryOf(k, v)
  BY <1>1, <1>2, <1>5 DEF CallOK, Slot, EntryOf
<1>7. Bidx(p) = BucketOf(call[p].key, n) BY <1>3 DEF Bidx
<1>8. PICK r : r = Longer(c, k, v) /\ r = Chain(p) \o [EmptyBucket EXCEPT ![1] = Slot(p)]
  BY <1>3, <1>6 DEF Longer
<1>u. ~HasKey(c, k) /\ BucketOf(k, n) = b BY <1>3, <1>4, <1>6, <1>7 DEF Ready
<1>x. c \in Seq(Slots) /\ r = Longer(c, k, v) BY <1>3, <1>8
<1>9. /\ r \in Seq(Slots) /\ ChainOK(r, b, n) /\ \A i \in DOMAIN c : r[i] = c[i]
      /\ \A i \in DOMAIN r \ DOMAIN c : Tidy(r[i])
  BY <1>0, <1>4, <1>x, <1>u, AddBucket
<1>10. tables' = [tables EXCEPT ![t].chains[b] = r, ![t].mu[b] = Nobody] BY <1>1, <1>3, <1>8, Zenon DEF WriteChain
<1>11. Wrote(t, b, r, Nobody) BY <1>0, <1>t, <1>3, <1>9, <1>10, WroteBoth
<1>12. LabelOK("addSize", call[p], m.tbl) BY <1>1, <1>2, <1>m DEF LabelOK, CallOK, Reading, Writing, UsesTable, Abs!WriteOps
<1>13. Leaves(p, "addSize", m, r, Nobody)
  <2>1. \A i \in DOMAIN r : Tidy(r[i]) BY <1>4, <1>9
  <2>2. QED BY <1>1, <1>3, <1>9, <2>1 DEF Leaves, Writing
<1>14. QED BY <1>0, <1>1, <1>2, <1>3, <1>a, <1>m, <1>11, <1>12, <1>13, WriterPlace

\* The meta byte of a new key.
LEMMA InsertMetaPlace ==
    ASSUME ControlInv, PlaceInv, NEW p \in Procs, InsertMeta(p) PROVE PlaceInv'
<1>0. Shape /\ CallsOK /\ TablesOK /\ TabsOK /\ hash \in Hashes BY DEF ControlInv, PlaceInv, TablesOK
<1>a. Away(p) BY AwayStep DEF ControlInv
<1>1. /\ pc[p] = "insert.meta" /\ UNCHANGED <<hash, table, resizeIdx>>
      /\ WriteChain(p, [Chain(p) EXCEPT ![loc[p].slot].meta = hash.h2[call[p].key]], p) /\ Own(p, "insert.entry", loc[p])
  BY <1>0, InsertMetaDoes
<1>m. PICK m : Own(p, "insert.entry", m) /\ m = loc[p] BY <1>1
<1>2. CallOK(p) /\ pc[p] \in Writing BY <1>0, <1>1 DEF CallsOK, Writing
<1>t. PICK t, b : t \in 1..Count /\ t = loc[p].tbl /\ b = Bidx(p) /\ b \in 0..TableLen(t) - 1 /\ Chain(p) = C(t, b)
  BY <1>0, <1>2, WriterFacts
<1>c. PICK c, s, n : c = Chain(p) /\ s = loc[p].slot /\ n = TableLen(t) OBVIOUS
<1>3. /\ t = loc[p].tbl /\ b = Bidx(p) /\ b \in 0..TableLen(t) - 1 /\ c \in Seq(Slots)
      /\ c = Chain(p) /\ c = C(t, b) /\ s = loc[p].slot /\ n = TableLen(t)
  BY <1>0, <1>2, <1>t, <1>c, WriterFacts
<1>4. /\ ChainOK(c, b, n) /\ Ready("insert.meta", t, s, c, call[p].key)
      /\ \A i \in DOMAIN c : Tidy(c[i]) \/ ("insert.meta" \in {"insert.entry", "delete.entry"} /\ s = i)
  BY <1>1, <1>2, <1>3, HolderFacts
<1>5. call[p].key \in Keys BY <1>0, <1>2, WriterFacts
<1>6. PICK k \in Keys : k = call[p].key /\ hash.h2[k] \in Nat /\ k # Absent BY <1>0, <1>5, HashFacts
<1>7. Bidx(p) = BucketOf(call[p].key, n) BY <1>3 DEF Bidx
<1>8. PICK r : r = Marked(c, s, hash.h2[k]) /\ r = [Chain(p) EXCEPT ![loc[p].slot].meta = hash.h2[call[p].key]]
  BY <1>3, <1>6 DEF Marked
<1>u. s \in DOMAIN c /\ c[s].key = Absent /\ ~HasKey(c, k) /\ t = table BY <1>4, <1>6 DEF Ready
<1>x. c \in Seq(Slots) /\ r = Marked(c, s, hash.h2[k]) BY <1>3, <1>8
<1>9. /\ r \in Seq(Slots) /\ DOMAIN r = DOMAIN c /\ ChainOK(r, b, n)
      /\ r[s].meta = hash.h2[k] /\ r[s].key = c[s].key
      /\ \A i \in DOMAIN c : i # s => r[i] = c[i]
      /\ \A j \in Keys, w \in Values : In(r, j, w) <=> In(c, j, w)
  BY <1>4, <1>6, <1>x, <1>u, SetMeta
<1>10. tables' = [tables EXCEPT ![t].chains[b] = r, ![t].mu[b] = p] BY <1>1, <1>3, <1>8, Zenon DEF WriteChain
<1>11. Wrote(t, b, r, p) BY <1>0, <1>t, <1>3, <1>9, <1>10, WroteBoth
<1>12. LabelOK("insert.entry", call[p], m.tbl) BY <1>1, <1>2, <1>m DEF LabelOK, CallOK, Reading, Writing, UsesTable, Abs!WriteOps
<1>13. Leaves(p, "insert.entry", m, r, p)
  <2>1. \A i \in DOMAIN r : Tidy(r[i]) \/ m.slot = i BY <1>3, <1>4, <1>9, <1>m
  <2>2. ~HasKey(r, k)
    <3>1. \A i \in DOMAIN r : r[i].key = c[i].key BY <1>9
    <3>2. QED BY <1>9, <1>u, <3>1 DEF HasKey
  <2>3. Ready("insert.entry", m.tbl, m.slot, r, k) BY <1>3, <1>9, <1>m, <1>u, <2>2 DEF Ready
  <2>4. QED BY <1>3, <1>6, <1>9, <2>1, <2>3 DEF Leaves
<1>14. QED BY <1>0, <1>1, <1>2, <1>3, <1>a, <1>m, <1>11, <1>12, <1>13, WriterPlace

\* The meta byte of a deleted key.
LEMMA DeleteMetaPlace ==
    ASSUME ControlInv, PlaceInv, NEW p \in Procs, DeleteMeta(p) PROVE PlaceInv'
<1>0. Shape /\ CallsOK /\ TablesOK /\ TabsOK /\ hash \in Hashes BY DEF ControlInv, PlaceInv, TablesOK
<1>a. Away(p) BY AwayStep DEF ControlInv
<1>1. /\ pc[p] = "delete.meta" /\ UNCHANGED <<hash, table, resizeIdx>>
      /\ WriteChain(p, [Chain(p) EXCEPT ![loc[p].slot].meta = 0], p) /\ Own(p, "delete.entry", loc[p])
  BY <1>0, DeleteMetaDoes
<1>m. PICK m : Own(p, "delete.entry", m) /\ m = loc[p] BY <1>1
<1>2. CallOK(p) /\ pc[p] \in Writing BY <1>0, <1>1 DEF CallsOK, Writing
<1>t. PICK t, b : t \in 1..Count /\ t = loc[p].tbl /\ b = Bidx(p) /\ b \in 0..TableLen(t) - 1 /\ Chain(p) = C(t, b)
  BY <1>0, <1>2, WriterFacts
<1>c. PICK c, s, n : c = Chain(p) /\ s = loc[p].slot /\ n = TableLen(t) OBVIOUS
<1>3. /\ t = loc[p].tbl /\ b = Bidx(p) /\ b \in 0..TableLen(t) - 1 /\ c \in Seq(Slots)
      /\ c = Chain(p) /\ c = C(t, b) /\ s = loc[p].slot /\ n = TableLen(t)
  BY <1>0, <1>2, <1>t, <1>c, WriterFacts
<1>4. /\ ChainOK(c, b, n) /\ Ready("delete.meta", t, s, c, call[p].key)
      /\ \A i \in DOMAIN c : Tidy(c[i]) \/ ("delete.meta" \in {"insert.entry", "delete.entry"} /\ s = i)
  BY <1>1, <1>2, <1>3, HolderFacts
<1>5. call[p].key \in Keys BY <1>0, <1>2, WriterFacts
<1>6. PICK k \in Keys : k = call[p].key /\ hash.h2[k] \in Nat /\ k # Absent BY <1>0, <1>5, HashFacts
<1>7. Bidx(p) = BucketOf(call[p].key, n) BY <1>3 DEF Bidx
<1>8. PICK r : r = Marked(c, s, 0) /\ r = [Chain(p) EXCEPT ![loc[p].slot].meta = 0] BY <1>3 DEF Marked
<1>u. s \in DOMAIN c /\ c[s].key = k /\ t = table BY <1>4, <1>6 DEF Ready, Holds
<1>x. c \in Seq(Slots) /\ r = Marked(c, s, 0) BY <1>3, <1>8
<1>9. /\ r \in Seq(Slots) /\ DOMAIN r = DOMAIN c /\ ChainOK(r, b, n)
      /\ r[s].meta = 0 /\ r[s].key = c[s].key
      /\ \A i \in DOMAIN c : i # s => r[i] = c[i]
      /\ \A j \in Keys, w \in Values : In(r, j, w) <=> In(c, j, w)
  BY <1>4, <1>6, <1>x, <1>u, SetMeta
<1>10. tables' = [tables EXCEPT ![t].chains[b] = r, ![t].mu[b] = p] BY <1>1, <1>3, <1>8 DEF WriteChain
<1>11. Wrote(t, b, r, p) BY <1>0, <1>t, <1>3, <1>9, <1>10, WroteBoth
<1>12. LabelOK("delete.entry", call[p], m.tbl) BY <1>1, <1>2, <1>m DEF LabelOK, CallOK, Reading, Writing, UsesTable, Abs!WriteOps
<1>13. Leaves(p, "delete.entry", m, r, p)
  <2>1. \A i \in DOMAIN r : Tidy(r[i]) \/ m.slot = i BY <1>3, <1>4, <1>9, <1>m
  <2>2. Ready("delete.entry", m.tbl, m.slot, r, k) BY <1>3, <1>9, <1>m, <1>u DEF Ready
  <2>3. QED BY <1>3, <1>6, <1>9, <2>1, <2>2 DEF Leaves
<1>14. QED BY <1>0, <1>1, <1>2, <1>3, <1>a, <1>m, <1>11, <1>12, <1>13, WriterPlace

\* The entry of a deleted key.
LEMMA DeleteEntryPlace ==
    ASSUME ControlInv, PlaceInv, NEW p \in Procs, DeleteEntry(p) PROVE PlaceInv'
<1>0. Shape /\ CallsOK /\ TablesOK /\ TabsOK /\ hash \in Hashes BY DEF ControlInv, PlaceInv, TablesOK
<1>a. Away(p) BY AwayStep DEF ControlInv
<1>1. /\ pc[p] = "delete.entry" /\ UNCHANGED <<hash, table, resizeIdx>>
      /\ WriteChain(p, [Chain(p) EXCEPT ![loc[p].slot] = EmptySlot], Nobody) /\ \E m : Own(p, "addSize", m) /\ m.tbl = loc[p].tbl
  BY <1>0, DeleteEntryDoes
<1>m. PICK m : Own(p, "addSize", m) /\ m.tbl = loc[p].tbl BY <1>1
<1>2. CallOK(p) /\ pc[p] \in Writing BY <1>0, <1>1 DEF CallsOK, Writing
<1>t. PICK t, b : t \in 1..Count /\ t = loc[p].tbl /\ b = Bidx(p) /\ b \in 0..TableLen(t) - 1 /\ Chain(p) = C(t, b)
  BY <1>0, <1>2, WriterFacts
<1>c. PICK c, s, n : c = Chain(p) /\ s = loc[p].slot /\ n = TableLen(t) OBVIOUS
<1>3. /\ t = loc[p].tbl /\ b = Bidx(p) /\ b \in 0..TableLen(t) - 1 /\ c \in Seq(Slots)
      /\ c = Chain(p) /\ c = C(t, b) /\ s = loc[p].slot /\ n = TableLen(t)
  BY <1>0, <1>2, <1>t, <1>c, WriterFacts
<1>4. /\ ChainOK(c, b, n) /\ Ready("delete.entry", t, s, c, call[p].key)
      /\ \A i \in DOMAIN c : Tidy(c[i]) \/ ("delete.entry" \in {"insert.entry", "delete.entry"} /\ s = i)
  BY <1>1, <1>2, <1>3, HolderFacts
<1>5. call[p].key \in Keys BY <1>0, <1>2, WriterFacts
<1>6. PICK k \in Keys : k = call[p].key /\ hash.h2[k] \in Nat /\ k # Absent BY <1>0, <1>5, HashFacts
<1>7. Bidx(p) = BucketOf(call[p].key, n) BY <1>3 DEF Bidx
<1>8. PICK r : r = [c EXCEPT ![s] = EmptySlot] /\ r = [Chain(p) EXCEPT ![loc[p].slot] = EmptySlot] BY <1>3
<1>u. s \in DOMAIN c /\ c[s].key = k BY <1>4, <1>6 DEF Ready
<1>9. /\ r \in Seq(Slots) /\ DOMAIN r = DOMAIN c /\ ChainOK(r, b, n) /\ Tidy(r[s])
      /\ \A i \in DOMAIN c : i # s => r[i] = c[i]
  BY <1>0, <1>3, <1>4, <1>8, <1>u, ClearSlot
<1>10. tables' = [tables EXCEPT ![t].chains[b] = r, ![t].mu[b] = Nobody] BY <1>1, <1>3, <1>8 DEF WriteChain
<1>11. Wrote(t, b, r, Nobody) BY <1>0, <1>t, <1>3, <1>9, <1>10, WroteBoth
<1>12. LabelOK("addSize", call[p], m.tbl) BY <1>1, <1>2, <1>m DEF LabelOK, CallOK, Reading, Writing, UsesTable, Abs!WriteOps
<1>13. Leaves(p, "addSize", m, r, Nobody)
  <2>1. \A i \in DOMAIN r : Tidy(r[i]) BY <1>4, <1>9
  <2>2. QED BY <1>1, <1>3, <1>9, <2>1 DEF Leaves, Writing
<1>14. QED BY <1>0, <1>1, <1>2, <1>3, <1>a, <1>m, <1>11, <1>12, <1>13, WriterPlace

\* The counter of a table is changed.
LEMMA AddSizePlace ==
    ASSUME ControlInv, PlaceInv, NEW p \in Procs, AddSize(p), DeltaOK PROVE PlaceInv'
<1>0. Shape /\ CallsOK /\ TablesOK /\ TabsOK /\ StageInv /\ DataInv BY DEF ControlInv, PlaceInv, TablesOK
<1>a. Away(p) BY AwayStep DEF ControlInv
<1>1. /\ pc[p] = "addSize" /\ UNCHANGED <<hash, table, resizeIdx>>
      /\ tables' = [tables EXCEPT ![loc[p].tbl].size = @ + loc[p].delta]
      /\ \E l, m : Own(p, l, m) /\ m.tbl = loc[p].tbl /\ l \in {"return", "resize.fast"}
  BY <1>0, AddSizeDoes, Zenon
<1>2. PICK l, m : Own(p, l, m) /\ m.tbl = loc[p].tbl /\ l \in {"return", "resize.fast"} BY <1>1
<1>3. /\ OthersSame(p) /\ call' = [q \in Procs |-> call'[q]]
      /\ pc'[p] = l /\ loc'[p] = m /\ call'[p] = call[p] /\ CallOK(p)
  BY <1>0, <1>2, OwnCall
<1>t. table \in Nat /\ table \in 1..Count /\ Count \in Nat BY <1>0, CountFacts
<1>4. LabelOK(l, call[p], m.tbl) BY <1>1, <1>2, <1>3 DEF LabelOK, CallOK, Reading, Writing, UsesTable
<1>5. l # "idle" /\ l \notin Busy /\ pc[p] \notin Busy BY <1>1, <1>2 DEF Busy, Writing, Copying
<1>6. CallOK(p)' BY <1>0, <1>1, <1>3, <1>4, <1>5, <1>t, LabelCall
<1>7. CallsOK' BY <1>0, <1>1, <1>3, <1>6, <1>t, OthersCalls
<1>8. PICK t \in 1..Count : t = loc[p].tbl
  <2>1. loc[p].tbl \in 1..table BY <1>1, <1>3 DEF CallOK, UsesTable
  <2>2. QED BY <1>t, <2>1
<1>9. SameTables /\ TablesOK'
  <2>1. PICK n \in Nat \ {0} : n = TableLen(t) BY <1>0, TableFacts
  <2>2. /\ tables[t] = [chains |-> tables[t].chains, mu |-> tables[t].mu, size |-> tables[t].size]
        /\ tables[t].chains \in [0..n - 1 -> Seq(Slots)]
        /\ tables[t].mu \in [0..n - 1 -> Procs \cup {Nobody}]
        /\ tables[t].size \in Int /\ DOMAIN tables = 1..Count
    BY <1>0, <2>1, TableFacts
  <2>d. PICK x \in Int : x = loc[p].delta BY <1>1 DEF DeltaOK
  <2>3. PICK v \in Int : v = tables[t].size + loc[p].delta BY <2>2, <2>d
  <2>4. PICK r : r = [chains |-> tables[t].chains, mu |-> tables[t].mu, size |-> v] OBVIOUS
  <2>5. r \in TablesOf(TableLen(t)) BY <2>1, <2>2, <2>3, <2>4 DEF TablesOf
  <2>6. [tables[t] EXCEPT !.size = v] = r BY <2>2, <2>4
  <2>7. tables' = [tables EXCEPT ![t] = r] BY <1>1, <1>8, <2>2, <2>3, <2>6
  <2>8. Changed(t, r) BY <1>0, <2>5, <2>7, ChangeTable
  <2>9. r.chains = tables[t].chains /\ r.mu = tables[t].mu BY <2>4
  <2>10. ASSUME NEW u \in 1..Count PROVE tables'[u].chains = tables[u].chains /\ tables'[u].mu = tables[u].mu
    BY <2>8, <2>9 DEF Changed
  <2>11. \A u \in 1..Count : \A d \in 0..TableLen(u) - 1 : C(u, d)' = C(u, d) /\ Mu(u, d)' = Mu(u, d)
    BY <2>10 DEF C, Mu
  <2>12. SameLens BY <1>1, <2>8, <2>10 DEF Changed, SameLens
  <2>13. TablesOK' BY <1>1, <2>8, <1>0 DEF Changed, TablesOK
  <2>14. QED BY <2>11, <2>12, <2>13 DEF SameTables
<1>10. StageInv' BY <1>0, <1>1, <1>9, <1>a, AwayStage DEF SameTables
<1>11. \A q \in Procs \ {p} : Kept(q) BY <1>3 DEF OthersSame, Kept
<1>12. DataInv' BY <1>0, <1>1, <1>3, <1>5, <1>9, <1>11, QuietData
<1>13. QED BY <1>7, <1>9, <1>10, <1>12 DEF PlaceInv

-----------------------------------------------------------------------------
(* Steps of resizes and of helpers that move nothing.                       *)

\* A step that begins and ends no resize, seen from the resize under way.
LEMMA StayStage ==
    ASSUME ControlInv, TablesOK, StageInv, SameLens, NEW p \in Procs,
           \A q \in Procs \ {p} : loc'[q] = loc[q] /\ (pc'[q] = pc[q] \/ (pc[q] = "sleep" /\ pc'[q] = "wait")),
           nextTable' \in {NoTable, Count},
           (Builds(p)' <=> Builds(p)),
           resizeIdx' = resizeIdx \/ (resizeIdx' \in Nat /\ resizeIdx <= resizeIdx'),
           Opens(p) => Opens(p)' \/ Base <= resizeIdx',
           Builds(p) => loc'[p].old = loc[p].old /\ loc'[p].new = loc[p].new,
           pc'[p] \in Copying => pc[p] \in Copying \/ \A q \in Procs : pc[q] # "resize.publish",
           pc'[p] = "resize.publish" => \A q \in Procs : pc[q] \notin Copying,
           ctl'.seq \in Nat,
           (ctl'.seq = ctl.seq /\ pc'[p] # "resize.new") \/ ctl'.seq > ctl.seq,
           HelpOK(p)'
    PROVE  StageInv'
<1>0. table' = table /\ Count' = Count BY DEF SameLens
<1>1. TableLen(table)' = TableLen(table) /\ TableLen(Count)' = TableLen(Count)
  <2>1. PICK t \in 1..Count, n \in 1..Count : t = table /\ n = Count BY CountFacts
  <2>2. TableLen(t)' = TableLen(t) /\ TableLen(n)' = TableLen(n) BY DEF SameLens
  <2>3. TableLen(table)' = TableLen(t)' /\ TableLen(Count)' = TableLen(n)' BY <1>0, <2>1 DEF TableLen
  <2>4. QED BY <2>1, <2>2, <2>3
<1>2. Base' = Base BY SameBase
<1>3. ASSUME NEW q \in Procs \ {p}
      PROVE  /\ (Builds(q)' <=> Builds(q)) /\ (Opens(q)' <=> Opens(q)) /\ (Registered(q)' <=> Registered(q))
             /\ (pc'[q] = "resize.new" <=> pc[q] = "resize.new")
             /\ (pc'[q] = "resize.publish" <=> pc[q] = "resize.publish")
             /\ (pc'[q] \in Copying <=> pc[q] \in Copying)
             /\ loc'[q] = loc[q]
             /\ pc'[q] \in {"help.next", "help.check", "help.join"} => pc'[q] = pc[q]
  <2>1. loc'[q] = loc[q] /\ (pc'[q] = pc[q] \/ (pc[q] = "sleep" /\ pc'[q] = "wait")) BY <1>3
  <2>2. CASE pc'[q] = pc[q] BY <2>1, <2>2 DEF Builds, Opens, Registered
  <2>3. CASE pc[q] = "sleep" /\ pc'[q] = "wait"
    BY <2>1, <2>3 DEF Builds, Opens, Registered, Copying, Moving
  <2>4. QED BY <2>1, <2>2, <2>3
<1>4. BuildOK'
  <2>1. ASSUME NEW q \in Procs, Builds(q)'
        PROVE  Count' = table' + 1 /\ loc'[q].old = table' /\ loc'[q].new = Count'
    BY <1>0, <1>3, <2>1 DEF StageInv, BuildOK
  <2>2. (\A q \in Procs : ~Builds(q)') => Count' = table' BY <1>0, <1>3 DEF StageInv, BuildOK
  <2>3. QED BY <1>0, <1>1, <2>1, <2>2 DEF StageInv, BuildOK
<1>5. HelpsOK'
  <2>1. ASSUME NEW q \in Procs \ {p} PROVE HelpOK(q)'
    <3>1. HelpOK(q) BY DEF StageInv, HelpsOK
    <3>2. CASE ctl'.seq = ctl.seq /\ pc'[p] # "resize.new"
      <4>1. (\E r \in Procs : pc'[r] = "resize.new") => (\E r \in Procs : pc[r] = "resize.new") BY <1>3, <3>2
      <4>2. QED BY <1>0, <1>3, <3>1, <3>2, <4>1 DEF HelpOK
    <3>3. CASE ctl'.seq > ctl.seq
      <4>1. loc[q].seq <= ctl.seq /\ loc[q].seq \in Nat /\ ctl.seq \in Nat BY DEF ControlInv, SeqInv, Shape
      <4>2. loc'[q].seq # ctl'.seq BY <1>3, <3>3, <4>1
      <4>3. QED BY <1>0, <1>3, <3>1, <4>2 DEF HelpOK
    <3>4. QED BY <3>2, <3>3
  <2>2. QED BY <2>1 DEF HelpsOK
<1>6. DoneOK'
  <2>0. Base \in Nat /\ resizeIdx \in Nat BY BaseFacts, CountFacts
  <2>1. (\A q \in Procs : ~Opens(q)') => (\A q \in Procs : ~Opens(q)) \/ Base <= resizeIdx' BY <1>3
  <2>2. ASSUME NEW r \in Procs, pc'[r] = "resize.publish", NEW q \in Procs PROVE pc'[q] \notin Copying
    <3>1. (\E o \in Procs : pc[o] = "resize.publish") => \A o \in Procs : pc[o] \notin Copying BY DEF StageInv, DoneOK
    <3>2. CASE r = p
      <4>1. pc'[p] \notin Copying BY <2>2, <3>2 DEF Copying
      <4>2. QED BY <1>3, <2>2, <3>2, <4>1
    <3>3. CASE r # p
      <4>1. pc[r] = "resize.publish" BY <1>3, <2>2, <3>3
      <4>2. \A o \in Procs : pc[o] \notin Copying BY <3>1, <4>1
      <4>3. QED BY <1>3, <4>1, <4>2
    <3>4. QED BY <3>2, <3>3
  <2>3. ASSUME Count > 1, \A q \in Procs : ~Opens(q)' PROVE Base' <= resizeIdx'
    <3>1. Base <= resizeIdx \/ Base <= resizeIdx' BY <2>1, <2>3 DEF StageInv, DoneOK
    <3>2. QED BY <1>2, <2>0, <3>1
  <2>4. QED BY <1>0, <2>2, <2>3 DEF DoneOK
<1>7. QED BY <1>4, <1>5, <1>6 DEF StageInv

\* A step of a goroutine that holds no lock, and leaves the tables alone.
LEMMA StillPlace ==
    ASSUME ControlInv, PlaceInv, NEW p \in Procs, Still, NEW l, NEW m, Own(p, l, m),
           pc[p] \notin Busy, l \notin Busy, LabelOK(l, call[p], m.tbl), SameLens => StageInv'
    PROVE  PlaceInv'
<1>0. CallsOK /\ TablesOK /\ DataInv BY DEF PlaceInv
<1>t. table \in Nat /\ table' = table /\ resizeIdx' = resizeIdx BY <1>0, CountFacts DEF Still
<1>1. TablesOK' /\ SameTables BY <1>0, StillTables
<1>2. /\ OthersSame(p) /\ call' = [q \in Procs |-> call'[q]]
      /\ pc'[p] = l /\ loc'[p] = m /\ call'[p] = call[p]
  BY <1>0, OwnCall
<1>3. CallOK(p)' BY <1>0, <1>2, <1>t, LabelCall DEF LabelOK
<1>4. CallsOK' BY <1>0, <1>2, <1>3, <1>t, OthersCalls
<1>5. StageInv' BY <1>1 DEF SameTables
<1>6. \A q \in Procs \ {p} : Kept(q) BY <1>2 DEF OthersSame, Kept
<1>7. DataInv' BY <1>0, <1>t, <1>1, <1>2, <1>6, QuietData
<1>8. QED BY <1>1, <1>4, <1>5, <1>7 DEF PlaceInv

\* The labels of resizes say nothing about tables, and need a call that writes.
LEMMA ResizeLabel ==
    ASSUME CallsOK, NEW p \in Procs, NEW t, NEW l,
           pc[p] \notin Reading \cup {"idle", "table", "range", "return"},
           l \notin UsesTable \cup {"idle"} \cup Writing
    PROVE  LabelOK(l, call[p], t)
<1>1. CallOK(p) BY DEF CallsOK
<1>2. call[p].op \in Abs!WriteOps /\ call[p].op # "Range" BY <1>1 DEF CallOK, Abs!WriteOps
<1>3. /\ call[p].key \in Keys
      /\ call[p].op \in {"Store", "LoadOrStore"} => call[p].val \in Values
  BY <1>1, <1>2 DEF CallOK
<1>4. QED BY <1>2, <1>3 DEF LabelOK, UsesTable, Reading, Writing

\* The sequence number is read.
LEMMA ResizeSeqPlace ==
    ASSUME ControlInv, PlaceInv, NEW p \in Procs, ResizeSeq(p) PROVE PlaceInv'
<1>0. /\ Shape /\ OwnerInv /\ SeqInv /\ OfferInv /\ CallsOK /\ TablesOK /\ StageInv /\ ctl.seq \in Nat
      /\ nextTable \in {NoTable, Count}
  BY DEF ControlInv, PlaceInv, Shape, StageInv, BuildOK
<1>1. /\ pc[p] = "resize.seq" /\ Still /\ nextTable' = nextTable /\ ctl'.seq = ctl.seq
      /\ \E l, m : /\ Own(p, l, m) /\ l \in {"help.table", "resize.cas"}
                    /\ TRUE
  BY <1>0, ResizeSeqDoes DEF KeepT, AfterResize
<1>2. PICK l, m : /\ Own(p, l, m) /\ l \in {"help.table", "resize.cas"}
                  /\ TRUE
  BY <1>1
<1>3. OthersSame(p) /\ pc'[p] = l /\ loc'[p] = m BY <1>0, <1>2, OwnCall
<1>4. l \notin Busy \cup UsesTable \cup {"idle"} \cup Writing /\ pc[p] \notin Busy
  BY <1>1, <1>2 DEF Busy, UsesTable, Reading, Writing, Copying
<1>5. LabelOK(l, call[p], m.tbl)
  <2>1. pc[p] \notin Reading \cup {"idle", "table", "range", "return"} BY <1>1 DEF Reading
  <2>2. QED BY <1>0, <1>4, <2>1, ResizeLabel
<1>6. ASSUME SameLens PROVE StageInv'
  <2>1. \A q \in Procs \ {p} : loc'[q] = loc[q] /\ (pc'[q] = pc[q] \/ (pc[q] = "sleep" /\ pc'[q] = "wait"))
    BY <1>3 DEF OthersSame
  <2>2. /\ (Builds(p)' <=> Builds(p)) /\ (Opens(p)' <=> Opens(p))
        /\ Builds(p) => loc'[p].old = loc[p].old /\ loc'[p].new = loc[p].new
    BY <1>0, <1>1, <1>2, <1>3 DEF Builds, Opens, Moving, OwnerInv
  <2>3. pc'[p] \notin Copying BY <1>3, <1>4 DEF Busy
  <2>4. nextTable' \in {NoTable, Count} /\ resizeIdx' = resizeIdx BY <1>0, <1>1 DEF Still
  <2>5. HelpOK(p)'
    <3>1. Count' = Count BY <1>6 DEF SameLens
    <3>2. QED BY <1>2, <1>3, <3>1 DEF HelpOK, Registered, Moving
  <2>6. pc'[p] = "resize.publish" => \A q \in Procs : pc[q] \notin Copying BY <1>2, <1>3
  <2>7. ctl'.seq \in Nat /\ ((ctl'.seq = ctl.seq /\ pc'[p] # "resize.new") \/ ctl'.seq > ctl.seq)
    BY <1>0, <1>1, <1>2, <1>3
  <2>8. QED BY <1>0, <1>6, <2>1, <2>2, <2>3, <2>4, <2>5, <2>6, <2>7, StayStage
<1>7. QED BY <1>1, <1>2, <1>4, <1>5, <1>6, StillPlace

\* The new table is offered.
LEMMA ResizeNextPlace ==
    ASSUME ControlInv, PlaceInv, NEW p \in Procs, ResizeNext(p) PROVE PlaceInv'
<1>0. /\ Shape /\ OwnerInv /\ SeqInv /\ OfferInv /\ CallsOK /\ TablesOK /\ StageInv /\ ctl.seq \in Nat
      /\ nextTable \in {NoTable, Count}
  BY DEF ControlInv, PlaceInv, Shape, StageInv, BuildOK
<1>1. /\ pc[p] = "resize.next" /\ Still /\ nextTable' = loc[p].new /\ ctl'.seq = ctl.seq
      /\ \E l, m : /\ Own(p, l, m) /\ l = "claim"
                    /\ m = loc[p]
  BY <1>0, ResizeNextDoes DEF KeepT, AfterResize
<1>2. PICK l, m : /\ Own(p, l, m) /\ l = "claim"
                  /\ m = loc[p]
  BY <1>1
<1>3. OthersSame(p) /\ pc'[p] = l /\ loc'[p] = m BY <1>0, <1>2, OwnCall
<1>4. l \notin Busy \cup UsesTable \cup {"idle"} \cup Writing /\ pc[p] \notin Busy
  BY <1>1, <1>2 DEF Busy, UsesTable, Reading, Writing, Copying
<1>5. LabelOK(l, call[p], m.tbl)
  <2>1. pc[p] \notin Reading \cup {"idle", "table", "range", "return"} BY <1>1 DEF Reading
  <2>2. QED BY <1>0, <1>4, <2>1, ResizeLabel
<1>b. loc[p].new = Count /\ loc[p].owner BY <1>0, <1>1 DEF StageInv, BuildOK, Builds, OwnerInv
<1>6. ASSUME SameLens PROVE StageInv'
  <2>1. \A q \in Procs \ {p} : loc'[q] = loc[q] /\ (pc'[q] = pc[q] \/ (pc[q] = "sleep" /\ pc'[q] = "wait"))
    BY <1>3 DEF OthersSame
  <2>2. /\ (Builds(p)' <=> Builds(p)) /\ (Opens(p)' <=> Opens(p))
        /\ Builds(p) => loc'[p].old = loc[p].old /\ loc'[p].new = loc[p].new
    BY <1>0, <1>1, <1>2, <1>3, <1>b DEF Builds, Opens, Moving, OwnerInv
  <2>3. pc'[p] \notin Copying BY <1>3, <1>4 DEF Busy
  <2>4. nextTable' \in {NoTable, Count} /\ resizeIdx' = resizeIdx BY <1>0, <1>1, <1>b DEF Still
  <2>5. HelpOK(p)'
    <3>1. Count' = Count BY <1>6 DEF SameLens
    <3>2. QED BY <1>2, <1>3, <1>b, <3>1 DEF HelpOK, Registered
  <2>6. pc'[p] = "resize.publish" => \A q \in Procs : pc[q] \notin Copying BY <1>2, <1>3
  <2>7. ctl'.seq \in Nat /\ ((ctl'.seq = ctl.seq /\ pc'[p] # "resize.new") \/ ctl'.seq > ctl.seq)
    BY <1>0, <1>1, <1>2, <1>3
  <2>8. QED BY <1>0, <1>6, <2>1, <2>2, <2>3, <2>4, <2>5, <2>6, <2>7, StayStage
<1>7. QED BY <1>1, <1>2, <1>4, <1>5, <1>6, StillPlace

\* No helper is left.
LEMMA ResizeWaitPlace ==
    ASSUME ControlInv, PlaceInv, NEW p \in Procs, ResizeWait(p) PROVE PlaceInv'
<1>0. /\ Shape /\ OwnerInv /\ SeqInv /\ OfferInv /\ CallsOK /\ TablesOK /\ StageInv /\ ctl.seq \in Nat
      /\ nextTable \in {NoTable, Count}
  BY DEF ControlInv, PlaceInv, Shape, StageInv, BuildOK
<1>1. /\ pc[p] = "resize.wait" /\ Still /\ nextTable' = nextTable /\ ctl'.seq = ctl.seq /\ ctl.helpers = 0
      /\ \E l, m : /\ Own(p, l, m) /\ l = "resize.publish"
                    /\ m = loc[p]
  BY <1>0, ResizeWaitDoes DEF KeepT, AfterResize
<1>2. PICK l, m : /\ Own(p, l, m) /\ l = "resize.publish"
                  /\ m = loc[p]
  BY <1>1
<1>3. OthersSame(p) /\ pc'[p] = l /\ loc'[p] = m BY <1>0, <1>2, OwnCall
<1>4. l \notin Busy \cup UsesTable \cup {"idle"} \cup Writing /\ pc[p] \notin Busy
  BY <1>1, <1>2 DEF Busy, UsesTable, Reading, Writing, Copying
<1>5. LabelOK(l, call[p], m.tbl)
  <2>1. pc[p] \notin Reading \cup {"idle", "table", "range", "return"} BY <1>1 DEF Reading
  <2>2. QED BY <1>0, <1>4, <2>1, ResizeLabel
<1>b. ASSUME NEW q \in Procs PROVE pc[q] \notin Copying
  <2>1. ~Registered(q) BY <1>1, NoHelpers DEF ControlInv, Helpers
  <2>2. loc[q].owner /\ pc[q] \in Moving => q = p BY <1>0, <1>1 DEF OwnerInv, Owns, Finishing
  <2>3. QED BY <1>1, <2>1, <2>2 DEF Registered, Copying, Moving
<1>6. ASSUME SameLens PROVE StageInv'
  <2>1. \A q \in Procs \ {p} : loc'[q] = loc[q] /\ (pc'[q] = pc[q] \/ (pc[q] = "sleep" /\ pc'[q] = "wait"))
    BY <1>3 DEF OthersSame
  <2>2. /\ (Builds(p)' <=> Builds(p)) /\ (Opens(p)' <=> Opens(p))
        /\ Builds(p) => loc'[p].old = loc[p].old /\ loc'[p].new = loc[p].new
    BY <1>0, <1>1, <1>2, <1>3 DEF Builds, Opens, Moving, OwnerInv
  <2>3. pc'[p] \notin Copying BY <1>3, <1>4 DEF Busy
  <2>4. nextTable' \in {NoTable, Count} /\ resizeIdx' = resizeIdx BY <1>0, <1>1 DEF Still
  <2>5. HelpOK(p)'
    <3>1. Count' = Count BY <1>6 DEF SameLens
    <3>2. QED BY <1>2, <1>3, <3>1 DEF HelpOK, Registered, Moving
  <2>6. pc'[p] = "resize.publish" => \A q \in Procs : pc[q] \notin Copying BY <1>2, <1>3, <1>b
  <2>7. ctl'.seq \in Nat /\ ((ctl'.seq = ctl.seq /\ pc'[p] # "resize.new") \/ ctl'.seq > ctl.seq)
    BY <1>0, <1>1, <1>2, <1>3
  <2>8. QED BY <1>0, <1>6, <2>1, <2>2, <2>3, <2>4, <2>5, <2>6, <2>7, StayStage
<1>7. QED BY <1>1, <1>2, <1>4, <1>5, <1>6, StillPlace

\* The new table is no longer offered.
LEMMA ResizeClearPlace ==
    ASSUME ControlInv, PlaceInv, NEW p \in Procs, ResizeClear(p) PROVE PlaceInv'
<1>0. /\ Shape /\ OwnerInv /\ SeqInv /\ OfferInv /\ CallsOK /\ TablesOK /\ StageInv /\ ctl.seq \in Nat
      /\ nextTable \in {NoTable, Count}
  BY DEF ControlInv, PlaceInv, Shape, StageInv, BuildOK
<1>1. /\ pc[p] = "resize.clear" /\ Still /\ nextTable' = NoTable /\ ctl'.seq = ctl.seq
      /\ \E l, m : /\ Own(p, l, m) /\ l = "resize.mu"
                    /\ m = loc[p]
  BY <1>0, ResizeClearDoes DEF KeepT, AfterResize
<1>2. PICK l, m : /\ Own(p, l, m) /\ l = "resize.mu"
                  /\ m = loc[p]
  BY <1>1
<1>3. OthersSame(p) /\ pc'[p] = l /\ loc'[p] = m BY <1>0, <1>2, OwnCall
<1>4. l \notin Busy \cup UsesTable \cup {"idle"} \cup Writing /\ pc[p] \notin Busy
  BY <1>1, <1>2 DEF Busy, UsesTable, Reading, Writing, Copying
<1>5. LabelOK(l, call[p], m.tbl)
  <2>1. pc[p] \notin Reading \cup {"idle", "table", "range", "return"} BY <1>1 DEF Reading
  <2>2. QED BY <1>0, <1>4, <2>1, ResizeLabel
<1>6. ASSUME SameLens PROVE StageInv'
  <2>1. \A q \in Procs \ {p} : loc'[q] = loc[q] /\ (pc'[q] = pc[q] \/ (pc[q] = "sleep" /\ pc'[q] = "wait"))
    BY <1>3 DEF OthersSame
  <2>2. /\ (Builds(p)' <=> Builds(p)) /\ (Opens(p)' <=> Opens(p))
        /\ Builds(p) => loc'[p].old = loc[p].old /\ loc'[p].new = loc[p].new
    BY <1>0, <1>1, <1>2, <1>3 DEF Builds, Opens, Moving, OwnerInv
  <2>3. pc'[p] \notin Copying BY <1>3, <1>4 DEF Busy
  <2>4. nextTable' \in {NoTable, Count} /\ resizeIdx' = resizeIdx BY <1>0, <1>1 DEF Still
  <2>5. HelpOK(p)'
    <3>1. Count' = Count BY <1>6 DEF SameLens
    <3>2. QED BY <1>2, <1>3, <3>1 DEF HelpOK, Registered, Moving
  <2>6. pc'[p] = "resize.publish" => \A q \in Procs : pc[q] \notin Copying BY <1>2, <1>3
  <2>7. ctl'.seq \in Nat /\ ((ctl'.seq = ctl.seq /\ pc'[p] # "resize.new") \/ ctl'.seq > ctl.seq)
    BY <1>0, <1>1, <1>2, <1>3
  <2>8. QED BY <1>0, <1>6, <2>1, <2>2, <2>3, <2>4, <2>5, <2>6, <2>7, StayStage
<1>7. QED BY <1>1, <1>2, <1>4, <1>5, <1>6, StillPlace

\* The owner takes resizeMu.
LEMMA ResizeMuPlace ==
    ASSUME ControlInv, PlaceInv, NEW p \in Procs, ResizeMu(p) PROVE PlaceInv'
<1>0. /\ Shape /\ OwnerInv /\ SeqInv /\ OfferInv /\ CallsOK /\ TablesOK /\ StageInv /\ ctl.seq \in Nat
      /\ nextTable \in {NoTable, Count}
  BY DEF ControlInv, PlaceInv, Shape, StageInv, BuildOK
<1>1. /\ pc[p] = "resize.mu" /\ Still /\ nextTable' = nextTable /\ ctl'.seq = ctl.seq
      /\ \E l, m : /\ Own(p, l, m) /\ l = "resize.end"
                    /\ m = loc[p]
  BY <1>0, ResizeMuDoes DEF KeepT, AfterResize
<1>2. PICK l, m : /\ Own(p, l, m) /\ l = "resize.end"
                  /\ m = loc[p]
  BY <1>1
<1>3. OthersSame(p) /\ pc'[p] = l /\ loc'[p] = m BY <1>0, <1>2, OwnCall
<1>4. l \notin Busy \cup UsesTable \cup {"idle"} \cup Writing /\ pc[p] \notin Busy
  BY <1>1, <1>2 DEF Busy, UsesTable, Reading, Writing, Copying
<1>5. LabelOK(l, call[p], m.tbl)
  <2>1. pc[p] \notin Reading \cup {"idle", "table", "range", "return"} BY <1>1 DEF Reading
  <2>2. QED BY <1>0, <1>4, <2>1, ResizeLabel
<1>6. ASSUME SameLens PROVE StageInv'
  <2>1. \A q \in Procs \ {p} : loc'[q] = loc[q] /\ (pc'[q] = pc[q] \/ (pc[q] = "sleep" /\ pc'[q] = "wait"))
    BY <1>3 DEF OthersSame
  <2>2. /\ (Builds(p)' <=> Builds(p)) /\ (Opens(p)' <=> Opens(p))
        /\ Builds(p) => loc'[p].old = loc[p].old /\ loc'[p].new = loc[p].new
    BY <1>0, <1>1, <1>2, <1>3 DEF Builds, Opens, Moving, OwnerInv
  <2>3. pc'[p] \notin Copying BY <1>3, <1>4 DEF Busy
  <2>4. nextTable' \in {NoTable, Count} /\ resizeIdx' = resizeIdx BY <1>0, <1>1 DEF Still
  <2>5. HelpOK(p)'
    <3>1. Count' = Count BY <1>6 DEF SameLens
    <3>2. QED BY <1>2, <1>3, <3>1 DEF HelpOK, Registered, Moving
  <2>6. pc'[p] = "resize.publish" => \A q \in Procs : pc[q] \notin Copying BY <1>2, <1>3
  <2>7. ctl'.seq \in Nat /\ ((ctl'.seq = ctl.seq /\ pc'[p] # "resize.new") \/ ctl'.seq > ctl.seq)
    BY <1>0, <1>1, <1>2, <1>3
  <2>8. QED BY <1>0, <1>6, <2>1, <2>2, <2>3, <2>4, <2>5, <2>6, <2>7, StayStage
<1>7. QED BY <1>1, <1>2, <1>4, <1>5, <1>6, StillPlace

\* A helper reads the current table.
LEMMA HelpTablePlace ==
    ASSUME ControlInv, PlaceInv, NEW p \in Procs, HelpTable(p) PROVE PlaceInv'
<1>0. /\ Shape /\ OwnerInv /\ SeqInv /\ OfferInv /\ CallsOK /\ TablesOK /\ StageInv /\ ctl.seq \in Nat
      /\ nextTable \in {NoTable, Count}
  BY DEF ControlInv, PlaceInv, Shape, StageInv, BuildOK
<1>1. /\ pc[p] = "help.table" /\ Still /\ nextTable' = nextTable /\ ctl'.seq = ctl.seq
      /\ \E l, m : /\ Own(p, l, m) /\ l = "help.next"
                    /\ m.old = table
  BY <1>0, HelpTableDoes DEF KeepT, AfterResize
<1>2. PICK l, m : /\ Own(p, l, m) /\ l = "help.next"
                  /\ m.old = table
  BY <1>1
<1>3. OthersSame(p) /\ pc'[p] = l /\ loc'[p] = m BY <1>0, <1>2, OwnCall
<1>4. l \notin Busy \cup UsesTable \cup {"idle"} \cup Writing /\ pc[p] \notin Busy
  BY <1>1, <1>2 DEF Busy, UsesTable, Reading, Writing, Copying
<1>5. LabelOK(l, call[p], m.tbl)
  <2>1. pc[p] \notin Reading \cup {"idle", "table", "range", "return"} BY <1>1 DEF Reading
  <2>2. QED BY <1>0, <1>4, <2>1, ResizeLabel
<1>b. /\ table \in {Count - 1, Count} /\ table \in Nat \ {0}
      /\ (\E q \in Procs : pc[q] = "resize.new") => table = Count
  <2>1. table \in Nat \ {0} /\ Count \in Nat BY <1>0, CountFacts
  <2>2. table \in {Count - 1, Count} BY <1>0, <2>1 DEF StageInv, BuildOK
  <2>3. ASSUME NEW q \in Procs, pc[q] = "resize.new" PROVE table = Count
    <3>1. ASSUME NEW r \in Procs, Builds(r) PROVE FALSE
      <4>1. Owns(r) BY <3>1 DEF Builds, Owns, Offering, Finishing
      <4>2. Owns(q) BY <2>3 DEF Owns, Offering
      <4>3. r = q BY <1>0, <4>1, <4>2 DEF OwnerInv
      <4>4. QED BY <2>3, <3>1, <4>3 DEF Builds, Moving
    <3>2. QED BY <1>0, <3>1 DEF StageInv, BuildOK
  <2>4. QED BY <2>1, <2>2, <2>3
<1>6. ASSUME SameLens PROVE StageInv'
  <2>1. \A q \in Procs \ {p} : loc'[q] = loc[q] /\ (pc'[q] = pc[q] \/ (pc[q] = "sleep" /\ pc'[q] = "wait"))
    BY <1>3 DEF OthersSame
  <2>2. /\ (Builds(p)' <=> Builds(p)) /\ (Opens(p)' <=> Opens(p))
        /\ Builds(p) => loc'[p].old = loc[p].old /\ loc'[p].new = loc[p].new
    BY <1>0, <1>1, <1>2, <1>3 DEF Builds, Opens, Moving, OwnerInv
  <2>3. pc'[p] \notin Copying BY <1>3, <1>4 DEF Busy
  <2>4. nextTable' \in {NoTable, Count} /\ resizeIdx' = resizeIdx BY <1>0, <1>1 DEF Still
  <2>5. HelpOK(p)'
    <3>1. Count' = Count BY <1>6 DEF SameLens
    <3>2. QED <4>1. (\E q \in Procs : pc'[q] = "resize.new") => (\E q \in Procs : pc[q] = "resize.new")
        BY <1>2, <1>3 DEF OthersSame
      <4>2. QED BY <1>2, <1>3, <1>b, <3>1, <4>1 DEF HelpOK, Registered
  <2>6. pc'[p] = "resize.publish" => \A q \in Procs : pc[q] \notin Copying BY <1>2, <1>3
  <2>7. ctl'.seq \in Nat /\ ((ctl'.seq = ctl.seq /\ pc'[p] # "resize.new") \/ ctl'.seq > ctl.seq)
    BY <1>0, <1>1, <1>2, <1>3
  <2>8. QED BY <1>0, <1>6, <2>1, <2>2, <2>3, <2>4, <2>5, <2>6, <2>7, StayStage
<1>7. QED BY <1>1, <1>2, <1>4, <1>5, <1>6, StillPlace

\* A helper reads the table that is offered.
LEMMA HelpNextPlace ==
    ASSUME ControlInv, PlaceInv, NEW p \in Procs, HelpNext(p) PROVE PlaceInv'
<1>0. /\ Shape /\ OwnerInv /\ SeqInv /\ OfferInv /\ CallsOK /\ TablesOK /\ StageInv /\ ctl.seq \in Nat
      /\ nextTable \in {NoTable, Count}
  BY DEF ControlInv, PlaceInv, Shape, StageInv, BuildOK
<1>1. /\ pc[p] = "help.next" /\ Still /\ nextTable' = nextTable /\ ctl'.seq = ctl.seq
      /\ \E l, m : /\ Own(p, l, m) /\ l = "help.check"
                    /\ m.old = loc[p].old /\ m.new = nextTable /\ m.seq = loc[p].seq
  BY <1>0, HelpNextDoes DEF KeepT, AfterResize
<1>2. PICK l, m : /\ Own(p, l, m) /\ l = "help.check"
                  /\ m.old = loc[p].old /\ m.new = nextTable /\ m.seq = loc[p].seq
  BY <1>1
<1>3. OthersSame(p) /\ pc'[p] = l /\ loc'[p] = m BY <1>0, <1>2, OwnCall
<1>4. l \notin Busy \cup UsesTable \cup {"idle"} \cup Writing /\ pc[p] \notin Busy
  BY <1>1, <1>2 DEF Busy, UsesTable, Reading, Writing, Copying
<1>5. LabelOK(l, call[p], m.tbl)
  <2>1. pc[p] \notin Reading \cup {"idle", "table", "range", "return"} BY <1>1 DEF Reading
  <2>2. QED BY <1>0, <1>4, <2>1, ResizeLabel
<1>6. ASSUME SameLens PROVE StageInv'
  <2>1. \A q \in Procs \ {p} : loc'[q] = loc[q] /\ (pc'[q] = pc[q] \/ (pc[q] = "sleep" /\ pc'[q] = "wait"))
    BY <1>3 DEF OthersSame
  <2>2. /\ (Builds(p)' <=> Builds(p)) /\ (Opens(p)' <=> Opens(p))
        /\ Builds(p) => loc'[p].old = loc[p].old /\ loc'[p].new = loc[p].new
    BY <1>0, <1>1, <1>2, <1>3 DEF Builds, Opens, Moving, OwnerInv
  <2>3. pc'[p] \notin Copying BY <1>3, <1>4 DEF Busy
  <2>4. nextTable' \in {NoTable, Count} /\ resizeIdx' = resizeIdx BY <1>0, <1>1 DEF Still
  <2>5. HelpOK(p)'
    <3>1. Count' = Count BY <1>6 DEF SameLens
    <3>2. QED <4>1. HelpOK(p) BY <1>0 DEF StageInv, HelpsOK
      <4>2. QED BY <1>0, <1>1, <1>2, <1>3, <3>1, <4>1 DEF HelpOK, Registered
  <2>6. pc'[p] = "resize.publish" => \A q \in Procs : pc[q] \notin Copying BY <1>2, <1>3
  <2>7. ctl'.seq \in Nat /\ ((ctl'.seq = ctl.seq /\ pc'[p] # "resize.new") \/ ctl'.seq > ctl.seq)
    BY <1>0, <1>1, <1>2, <1>3
  <2>8. QED BY <1>0, <1>6, <2>1, <2>2, <2>3, <2>4, <2>5, <2>6, <2>7, StayStage
<1>7. QED BY <1>1, <1>2, <1>4, <1>5, <1>6, StillPlace

\* A helper looks at what it has read.
LEMMA HelpCheckPlace ==
    ASSUME ControlInv, PlaceInv, NEW p \in Procs, HelpCheck(p) PROVE PlaceInv'
<1>0. /\ Shape /\ OwnerInv /\ SeqInv /\ OfferInv /\ CallsOK /\ TablesOK /\ StageInv /\ ctl.seq \in Nat
      /\ nextTable \in {NoTable, Count}
  BY DEF ControlInv, PlaceInv, Shape, StageInv, BuildOK
<1>1. /\ pc[p] = "help.check" /\ Still /\ nextTable' = nextTable /\ ctl'.seq = ctl.seq
      /\ \E l, m : /\ Own(p, l, m) /\ l \in {"return", "table", "help.table", "help.join"}
                    /\ m = loc[p]
                    /\ (l = "help.join" => ctl.seq = loc[p].seq /\ loc[p].new \notin {NoTable, loc[p].old})
  BY <1>0, HelpCheckDoes DEF KeepT, AfterResize
<1>2. PICK l, m : /\ Own(p, l, m) /\ l \in {"return", "table", "help.table", "help.join"}
                  /\ m = loc[p]
                    /\ (l = "help.join" => ctl.seq = loc[p].seq /\ loc[p].new \notin {NoTable, loc[p].old})
  BY <1>1
<1>3. OthersSame(p) /\ pc'[p] = l /\ loc'[p] = m BY <1>0, <1>2, OwnCall
<1>4. l \notin Busy \cup UsesTable \cup {"idle"} \cup Writing /\ pc[p] \notin Busy
  BY <1>1, <1>2 DEF Busy, UsesTable, Reading, Writing, Copying
<1>5. LabelOK(l, call[p], m.tbl)
  <2>1. pc[p] \notin Reading \cup {"idle", "table", "range", "return"} BY <1>1 DEF Reading
  <2>2. QED BY <1>0, <1>4, <2>1, ResizeLabel
<1>6. ASSUME SameLens PROVE StageInv'
  <2>1. \A q \in Procs \ {p} : loc'[q] = loc[q] /\ (pc'[q] = pc[q] \/ (pc[q] = "sleep" /\ pc'[q] = "wait"))
    BY <1>3 DEF OthersSame
  <2>2. /\ (Builds(p)' <=> Builds(p)) /\ (Opens(p)' <=> Opens(p))
        /\ Builds(p) => loc'[p].old = loc[p].old /\ loc'[p].new = loc[p].new
    BY <1>0, <1>1, <1>2, <1>3 DEF Builds, Opens, Moving, OwnerInv
  <2>3. pc'[p] \notin Copying BY <1>3, <1>4 DEF Busy
  <2>4. nextTable' \in {NoTable, Count} /\ resizeIdx' = resizeIdx BY <1>0, <1>1 DEF Still
  <2>5. HelpOK(p)'
    <3>1. Count' = Count BY <1>6 DEF SameLens
    <3>2. QED <4>1. HelpOK(p) BY <1>0 DEF StageInv, HelpsOK
      <4>2. QED BY <1>0, <1>1, <1>2, <1>3, <3>1, <4>1 DEF HelpOK, Registered
  <2>6. pc'[p] = "resize.publish" => \A q \in Procs : pc[q] \notin Copying BY <1>2, <1>3
  <2>7. ctl'.seq \in Nat /\ ((ctl'.seq = ctl.seq /\ pc'[p] # "resize.new") \/ ctl'.seq > ctl.seq)
    BY <1>0, <1>1, <1>2, <1>3
  <2>8. QED BY <1>0, <1>6, <2>1, <2>2, <2>3, <2>4, <2>5, <2>6, <2>7, StayStage
<1>7. QED BY <1>1, <1>2, <1>4, <1>5, <1>6, StillPlace

\* A helper registers, or waits.
LEMMA HelpJoinPlace ==
    ASSUME ControlInv, PlaceInv, NEW p \in Procs, HelpJoin(p) PROVE PlaceInv'
<1>0. /\ Shape /\ OwnerInv /\ SeqInv /\ OfferInv /\ CallsOK /\ TablesOK /\ StageInv /\ ctl.seq \in Nat
      /\ nextTable \in {NoTable, Count}
  BY DEF ControlInv, PlaceInv, Shape, StageInv, BuildOK
<1>1. /\ pc[p] = "help.join" /\ Still /\ nextTable' = nextTable /\ ctl'.seq = ctl.seq
      /\ \E l, m : /\ Own(p, l, m) /\ l \in {"claim", "wait"}
                    /\ m = loc[p] /\ (l = "claim" => ctl.seq = loc[p].seq)
  BY <1>0, HelpJoinDoes DEF KeepT, AfterResize
<1>2. PICK l, m : /\ Own(p, l, m) /\ l \in {"claim", "wait"}
                  /\ m = loc[p] /\ (l = "claim" => ctl.seq = loc[p].seq)
  BY <1>1
<1>3. OthersSame(p) /\ pc'[p] = l /\ loc'[p] = m BY <1>0, <1>2, OwnCall
<1>4. l \notin Busy \cup UsesTable \cup {"idle"} \cup Writing /\ pc[p] \notin Busy
  BY <1>1, <1>2 DEF Busy, UsesTable, Reading, Writing, Copying
<1>5. LabelOK(l, call[p], m.tbl)
  <2>1. pc[p] \notin Reading \cup {"idle", "table", "range", "return"} BY <1>1 DEF Reading
  <2>2. QED BY <1>0, <1>4, <2>1, ResizeLabel
<1>b. ~loc[p].owner BY <1>0, <1>1 DEF OwnerInv, Owns, Offering, Finishing, Moving
<1>6. ASSUME SameLens PROVE StageInv'
  <2>1. \A q \in Procs \ {p} : loc'[q] = loc[q] /\ (pc'[q] = pc[q] \/ (pc[q] = "sleep" /\ pc'[q] = "wait"))
    BY <1>3 DEF OthersSame
  <2>2. /\ (Builds(p)' <=> Builds(p)) /\ (Opens(p)' <=> Opens(p))
        /\ Builds(p) => loc'[p].old = loc[p].old /\ loc'[p].new = loc[p].new
    BY <1>0, <1>1, <1>2, <1>3, <1>b DEF Builds, Opens, Moving, OwnerInv
  <2>3. pc'[p] \notin Copying BY <1>3, <1>4 DEF Busy
  <2>4. nextTable' \in {NoTable, Count} /\ resizeIdx' = resizeIdx BY <1>0, <1>1 DEF Still
  <2>5. HelpOK(p)'
    <3>1. Count' = Count BY <1>6 DEF SameLens
    <3>2. QED <4>1. HelpOK(p) BY <1>0 DEF StageInv, HelpsOK
      <4>2. QED BY <1>0, <1>1, <1>2, <1>3, <3>1, <4>1 DEF HelpOK, Registered
  <2>6. pc'[p] = "resize.publish" => \A q \in Procs : pc[q] \notin Copying BY <1>2, <1>3
  <2>7. ctl'.seq \in Nat /\ ((ctl'.seq = ctl.seq /\ pc'[p] # "resize.new") \/ ctl'.seq > ctl.seq)
    BY <1>0, <1>1, <1>2, <1>3
  <2>8. QED BY <1>0, <1>6, <2>1, <2>2, <2>3, <2>4, <2>5, <2>6, <2>7, StayStage
<1>7. QED BY <1>1, <1>2, <1>4, <1>5, <1>6, StillPlace

\* A helper signs off.
LEMMA HelpLeavePlace ==
    ASSUME ControlInv, PlaceInv, NEW p \in Procs, HelpLeave(p) PROVE PlaceInv'
<1>0. /\ Shape /\ OwnerInv /\ SeqInv /\ OfferInv /\ CallsOK /\ TablesOK /\ StageInv /\ ctl.seq \in Nat
      /\ nextTable \in {NoTable, Count}
  BY DEF ControlInv, PlaceInv, Shape, StageInv, BuildOK
<1>1. /\ pc[p] = "help.leave" /\ Still /\ nextTable' = nextTable /\ ctl'.seq = ctl.seq
      /\ \E l, m : /\ Own(p, l, m) /\ l = "wait"
                    /\ m = loc[p]
  BY <1>0, HelpLeaveDoes DEF KeepT, AfterResize
<1>2. PICK l, m : /\ Own(p, l, m) /\ l = "wait"
                  /\ m = loc[p]
  BY <1>1
<1>3. OthersSame(p) /\ pc'[p] = l /\ loc'[p] = m BY <1>0, <1>2, OwnCall
<1>4. l \notin Busy \cup UsesTable \cup {"idle"} \cup Writing /\ pc[p] \notin Busy
  BY <1>1, <1>2 DEF Busy, UsesTable, Reading, Writing, Copying
<1>5. LabelOK(l, call[p], m.tbl)
  <2>1. pc[p] \notin Reading \cup {"idle", "table", "range", "return"} BY <1>1 DEF Reading
  <2>2. QED BY <1>0, <1>4, <2>1, ResizeLabel
<1>6. ASSUME SameLens PROVE StageInv'
  <2>1. \A q \in Procs \ {p} : loc'[q] = loc[q] /\ (pc'[q] = pc[q] \/ (pc[q] = "sleep" /\ pc'[q] = "wait"))
    BY <1>3 DEF OthersSame
  <2>2. /\ (Builds(p)' <=> Builds(p)) /\ (Opens(p)' <=> Opens(p))
        /\ Builds(p) => loc'[p].old = loc[p].old /\ loc'[p].new = loc[p].new
    BY <1>0, <1>1, <1>2, <1>3 DEF Builds, Opens, Moving, OwnerInv
  <2>3. pc'[p] \notin Copying BY <1>3, <1>4 DEF Busy
  <2>4. nextTable' \in {NoTable, Count} /\ resizeIdx' = resizeIdx BY <1>0, <1>1 DEF Still
  <2>5. HelpOK(p)'
    <3>1. Count' = Count BY <1>6 DEF SameLens
    <3>2. QED BY <1>2, <1>3, <3>1 DEF HelpOK, Registered, Moving
  <2>6. pc'[p] = "resize.publish" => \A q \in Procs : pc[q] \notin Copying BY <1>2, <1>3
  <2>7. ctl'.seq \in Nat /\ ((ctl'.seq = ctl.seq /\ pc'[p] # "resize.new") \/ ctl'.seq > ctl.seq)
    BY <1>0, <1>1, <1>2, <1>3
  <2>8. QED BY <1>0, <1>6, <2>1, <2>2, <2>3, <2>4, <2>5, <2>6, <2>7, StayStage
<1>7. QED BY <1>1, <1>2, <1>4, <1>5, <1>6, StillPlace

\* A goroutine becomes the owner of a resize, or helps the owner.
LEMMA ResizeCasPlace ==
    ASSUME ControlInv, PlaceInv, NEW p \in Procs, ResizeCas(p) PROVE PlaceInv'
<1>0. /\ Shape /\ OwnerInv /\ SeqInv /\ OfferInv /\ CallsOK /\ TablesOK /\ StageInv /\ ctl.seq \in Nat
      /\ nextTable \in {NoTable, Count}
  BY DEF ControlInv, PlaceInv, Shape, StageInv, BuildOK
<1> DEFINE Turns(l) == \/ l = "resize.new" /\ ctl'.seq = ctl.seq + 1
                       \/ l = "help.table" /\ ctl'.seq = ctl.seq
<1>1. /\ pc[p] = "resize.cas" /\ Still /\ nextTable' = nextTable
      /\ \E l, m : /\ Own(p, l, m) /\ m = loc[p]
                    /\ Turns(l)
  <2>1. /\ pc[p] = "resize.cas" /\ Still /\ nextTable' = nextTable
        /\ \/ ctl'.seq = ctl.seq + 1 /\ Own(p, "resize.new", loc[p])
           \/ ctl'.seq = ctl.seq /\ Own(p, "help.table", loc[p])
    BY <1>0, ResizeCasDoes
  <2>2. CASE ctl'.seq = ctl.seq + 1 /\ Own(p, "resize.new", loc[p])
    <3>1. Turns("resize.new") BY <2>2
    <3> HIDE DEF Turns
    <3>2. QED BY <2>1, <2>2, <3>1
  <2>3. CASE ctl'.seq = ctl.seq /\ Own(p, "help.table", loc[p])
    <3>1. Turns("help.table") BY <2>3
    <3> HIDE DEF Turns
    <3>2. QED BY <2>1, <2>3, <3>1
  <2>4. QED BY <2>1, <2>2, <2>3
<1> HIDE DEF Turns
<1>2. PICK l, m : /\ Own(p, l, m) /\ m = loc[p]
                  /\ Turns(l)
  BY <1>1
<1> USE DEF Turns
<1>3. OthersSame(p) /\ pc'[p] = l /\ loc'[p] = m BY <1>0, <1>2, OwnCall
<1>4. l \notin Busy \cup UsesTable \cup {"idle"} \cup Writing /\ pc[p] \notin Busy
  BY <1>1, <1>2 DEF Busy, UsesTable, Reading, Writing, Copying
<1>5. LabelOK(l, call[p], m.tbl)
  <2>1. pc[p] \notin Reading \cup {"idle", "table", "range", "return"} BY <1>1 DEF Reading
  <2>2. QED BY <1>0, <1>4, <2>1, ResizeLabel
<1>6. ASSUME SameLens PROVE StageInv'
  <2>1. \A q \in Procs \ {p} : loc'[q] = loc[q] /\ (pc'[q] = pc[q] \/ (pc[q] = "sleep" /\ pc'[q] = "wait"))
    BY <1>3 DEF OthersSame
  <2>2. /\ (Builds(p)' <=> Builds(p)) /\ (Opens(p)' <=> Opens(p))
        /\ Builds(p) => loc'[p].old = loc[p].old /\ loc'[p].new = loc[p].new
    BY <1>0, <1>1, <1>2, <1>3 DEF Builds, Opens, Moving, OwnerInv
  <2>3. pc'[p] \notin Copying BY <1>3, <1>4 DEF Busy
  <2>4. nextTable' \in {NoTable, Count} /\ resizeIdx' = resizeIdx BY <1>0, <1>1 DEF Still
  <2>5. HelpOK(p)'
    <3>1. Count' = Count BY <1>6 DEF SameLens
    <3>2. QED BY <1>2, <1>3, <3>1 DEF HelpOK, Registered, Moving
  <2>6. pc'[p] = "resize.publish" => \A q \in Procs : pc[q] \notin Copying BY <1>2, <1>3
  <2>7. ctl'.seq \in Nat /\ ((ctl'.seq = ctl.seq /\ pc'[p] # "resize.new") \/ ctl'.seq > ctl.seq)
    BY <1>0, <1>1, <1>2, <1>3
  <2>8. QED BY <1>0, <1>6, <2>1, <2>2, <2>3, <2>4, <2>5, <2>6, <2>7, StayStage
<1>7. QED BY <1>1, <1>2, <1>4, <1>5, <1>6, StillPlace

\* The end of a resize.
LEMMA EndPlace ==
    ASSUME ControlInv, PlaceInv, NEW p \in Procs, pc[p] \in {"resize.giveUp", "resize.end"}, Still,
           loc' = loc, call' = call, nextTable' = nextTable,
           ctl' = [seq |-> loc[p].seq + 2, helpers |-> 0], Broadcast(p, AfterResize(p))
    PROVE  PlaceInv'
<1>0. /\ Shape /\ OwnerInv /\ CallsOK /\ TablesOK /\ StageInv /\ DataInv /\ ctl.seq \in Nat
      /\ nextTable \in {NoTable, Count}
  BY DEF ControlInv, PlaceInv, Shape, StageInv, BuildOK
<1>t. table \in Nat /\ table' = table /\ resizeIdx' = resizeIdx BY <1>0, CountFacts DEF Still
<1>1. TablesOK' /\ SameTables /\ SameLens BY <1>0, StillTables DEF SameTables
<1>2. /\ pc'[p] \in {"return", "table"}
      /\ \A q \in Procs \ {p} : pc'[q] = pc[q] \/ (pc[q] = "sleep" /\ pc'[q] = "wait")
  BY BroadcastDoes DEF AfterResize
<1>3. Owns(p) BY DEF Owns, Offering, Finishing
<1>4. ctl'.seq = ctl.seq + 1
  <2>1. ctl'.seq = loc[p].seq + 2 OBVIOUS
  <2>2. loc[p].seq \in Nat /\ ctl.seq = loc[p].seq + 1 BY <1>0, <1>3 DEF OwnerInv, Shape
  <2>3. QED BY <2>1, <2>2
<1>5. ASSUME NEW q \in Procs PROVE CallOK(q)'
  <2>1. CallOK(q) BY <1>0 DEF CallsOK
  <2>2. Abs!Idle' = Abs!Idle /\ Abs!WriteOps' = Abs!WriteOps BY DEF Abs!Idle, Abs!WriteOps
  <2>3. CASE pc'[q] = pc[q] BY <1>t, <2>1, <2>2, <2>3 DEF CallOK
  <2>4. CASE pc[q] = "sleep" /\ pc'[q] = "wait"
    BY <1>t, <2>1, <2>2, <2>4 DEF CallOK, Reading, Writing, UsesTable
  <2>5. CASE q = p
    <3>1. pc[p] \notin Reading \cup {"idle", "table", "range", "return"} BY DEF Reading
    <3>2. pc'[p] \notin UsesTable \cup {"idle"} \cup Writing BY <1>2 DEF UsesTable, Reading, Writing
    <3>3. LabelOK(pc'[p], call[p], loc[p].tbl) BY <1>0, <3>1, <3>2, ResizeLabel
    <3>4. QED BY <1>0, <1>t, <2>5, <3>2, <3>3, LabelCall
  <2>6. QED BY <1>2, <2>3, <2>4, <2>5
<1>6. CallsOK' BY <1>0, <1>5 DEF CallsOK
<1>7. StageInv'
  <2>1. ~Builds(p) /\ ~Opens(p) BY DEF Builds, Opens, Moving
  <2>2. ~Builds(p)' /\ ~Opens(p)' BY <1>2 DEF Builds, Opens, Moving
  <2>3. HelpOK(p)' BY <1>2 DEF HelpOK, Registered
  <2>4. ctl'.seq \in Nat /\ ctl'.seq > ctl.seq BY <1>0, <1>4
  <2>5. pc'[p] \notin Copying /\ pc'[p] # "resize.publish" BY <1>2 DEF Copying
  <2>6. nextTable' \in {NoTable, Count} BY <1>0
  <2>7. QED BY <1>0, <1>t, <1>1, <1>2, <2>1, <2>2, <2>3, <2>4, <2>5, <2>6, StayStage
<1>8. \A q \in Procs \ {p} : Kept(q) BY <1>2 DEF Kept, Busy, Writing, Copying
<1>9. pc[p] \notin Busy /\ pc'[p] \notin Busy BY <1>2 DEF Busy, Writing, Copying
<1>10. DataInv' BY <1>0, <1>t, <1>1, <1>8, <1>9, QuietData
<1>11. QED BY <1>1, <1>6, <1>7, <1>10 DEF PlaceInv

\* There is nothing to shrink.
LEMMA ResizeGiveUpPlace ==
    ASSUME ControlInv, PlaceInv, NEW p \in Procs, ResizeGiveUp(p) PROVE PlaceInv'
BY EndPlace DEF ResizeGiveUp, Still

\* The resize is over.
LEMMA ResizeEndPlace ==
    ASSUME ControlInv, PlaceInv, NEW p \in Procs, ResizeEnd(p) PROVE PlaceInv'
BY EndPlace DEF ResizeEnd, Still

\* While the sequence number is even, there is no table but the published ones.
LEMMA EvenCount ==
    ASSUME ControlInv, PlaceInv, ~Odd(ctl.seq) PROVE Count = table
<1>1. ASSUME NEW q \in Procs PROVE ~Builds(q)
  <2>1. Builds(q) => Owns(q) BY DEF Builds, Owns, Offering, Finishing
  <2>2. QED BY <2>1 DEF ControlInv, OwnerInv
<1>2. QED BY <1>1 DEF PlaceInv, StageInv, BuildOK

\* A writer takes the lock of its bucket.
LEMMA LockRootPlace ==
    ASSUME ControlInv, PlaceInv, NEW p \in Procs, LockRoot(p) PROVE PlaceInv'
<1>0. /\ Shape /\ OwnerInv /\ CallsOK /\ TablesOK /\ TabsOK /\ StageInv /\ DataInv /\ ctl.seq \in Nat
      /\ nextTable \in {NoTable, Count}
  BY DEF ControlInv, PlaceInv, Shape, StageInv, BuildOK, TablesOK
<1>1. /\ pc[p] = "lock" /\ Locked(p) = Nobody /\ UNCHANGED <<hash, table, resizeIdx>>
      /\ nextTable' = nextTable /\ ctl'.seq = ctl.seq
      /\ \/ tables' = tables /\ \E m : Own(p, "help.table", m)
         \/ ~Odd(ctl.seq) /\ Lock(p) /\ Own(p, "newer", loc[p])
  BY <1>0, LockRootDoes
<1>t. table \in Nat /\ Count \in Nat BY <1>0, CountFacts
<1>s. ASSUME SameLens, NEW l, NEW m, Own(p, l, m), l \in {"help.table", "newer"} PROVE StageInv'
  <2>1. \A q \in Procs \ {p} : loc'[q] = loc[q] /\ (pc'[q] = pc[q] \/ (pc[q] = "sleep" /\ pc'[q] = "wait"))
    BY <1>s DEF Own
  <2>2. pc'[p] = l BY <1>s DEF Own
  <2>3. ~Builds(p) /\ ~Opens(p) BY <1>1 DEF Builds, Opens, Moving
  <2>4. ~Builds(p)' /\ ~Opens(p)' BY <1>s, <2>2 DEF Builds, Opens, Moving
  <2>5. pc'[p] \notin Copying \cup {"resize.publish", "resize.new"} BY <1>s, <2>2 DEF Copying
  <2>6. HelpOK(p)' BY <1>s, <2>2 DEF HelpOK, Registered
  <2>7. nextTable' \in {NoTable, Count} BY <1>0, <1>1
  <2>8. QED BY <1>0, <1>1, <1>s, <2>1, <2>3, <2>4, <2>5, <2>6, <2>7, StayStage
<1>2. CASE tables' = tables /\ \E m : Own(p, "help.table", m)
  <2>1. PICK m : Own(p, "help.table", m) BY <1>2
  <2>2. Still BY <1>1, <1>2 DEF Still
  <2>3. pc[p] \notin Busy /\ pc[p] \notin Reading \cup {"idle", "table", "range", "return"}
    BY <1>1 DEF Busy, Writing, Copying, Reading
  <2>4. "help.table" \notin UsesTable \cup {"idle"} \cup Writing \cup Busy
    BY DEF UsesTable, Reading, Writing, Busy, Copying
  <2>5. LabelOK("help.table", call[p], m.tbl) BY <1>0, <2>3, <2>4, ResizeLabel
  <2>6. SameLens => StageInv' BY <1>s, <2>1
  <2>7. QED BY <2>1, <2>2, <2>3, <2>4, <2>5, <2>6, StillPlace
<1>3. CASE ~Odd(ctl.seq) /\ Lock(p) /\ Own(p, "newer", loc[p])
  <2>1. PICK t, b : t \in 1..Count /\ t = loc[p].tbl /\ b = Bidx(p) /\ b \in 0..TableLen(t) - 1
    BY <1>0, <1>1, WriterFacts
  <2>2. tables' = [tables EXCEPT ![t].mu[b] = p] /\ Mu(t, b) = Nobody
    BY <1>1, <1>3, <2>1 DEF Lock, Locked, Mu
  <2>3. Wrote(t, b, C(t, b), p) BY <1>0, <2>1, <2>2, WroteLock
  <2>4. SameLens /\ TablesOK' BY <1>0, <1>1, <2>3, WroteLens
  <2>5. StageInv' BY <1>3, <1>s, <2>4
  <2>6. /\ OthersSame(p) /\ call' = [q \in Procs |-> call'[q]]
        /\ pc'[p] = "newer" /\ loc'[p] = loc[p] /\ call'[p] = call[p] /\ CallOK(p)
    BY <1>0, <1>3, OwnCall
  <2>7. LabelOK("newer", call[p], loc[p].tbl) BY <1>1, <2>6 DEF LabelOK, CallOK, Reading, Writing, UsesTable, Abs!WriteOps
  <2>8. CallOK(p)' BY <1>0, <1>1, <1>t, <2>6, <2>7, LabelCall
  <2>9. CallsOK' BY <1>0, <1>1, <1>t, <2>6, <2>8, OthersCalls
  <2>10. Stores(p, t, b)
    <3>1. \A q \in Procs \ {p} : Kept(q) BY <2>6 DEF OthersSame, Kept
    <3>2. pc[p] \notin Copying /\ pc'[p] \notin Copying BY <1>1, <2>6 DEF Copying
    <3>3. loc[p].tbl \in 1..table BY <1>1, <2>6 DEF CallOK, UsesTable
    <3>4. t <= table /\ Mu(t, b) = Nobody BY <1>t, <2>1, <2>2, <3>3
    <3>5. QED BY <1>1, <2>3, <2>4, <3>1, <3>2, <3>4 DEF Stores, Wrote
  <2>11. C(t, b)' = C(t, b) /\ Mu(t, b)' = p BY <2>3 DEF Wrote
  <2>12. Bidx(p)' = b
    <3>1. TableLen(loc[p].tbl)' = TableLen(t)' BY <2>1, <2>6 DEF TableLen
    <3>2. TableLen(t)' = TableLen(t) BY <2>1, <2>4 DEF SameLens
    <3>3. QED BY <1>1, <2>1, <2>6, <3>1, <3>2 DEF Bidx, BucketOf
  <2>13. Mu(loc[p].tbl, Bidx(p))' = p
    <3>1. Mu(loc[p].tbl, Bidx(p))' = Mu(t, b)' BY <2>1, <2>6, <2>12 DEF Mu
    <3>2. QED BY <2>11, <3>1
  <2>14. WriterOK(p)'
    <3>1. Count' = Count /\ table' = table BY <2>4 DEF SameLens
    <3>2. Count = table BY <1>3, EvenCount
    <3>3. ~(Count' = table' + 1) BY <1>t, <3>1, <3>2
    <3>4. QED BY <2>6, <3>3 DEF WriterOK
  <2>15. /\ ChainOK(C(t, b), b, TableLen(t))
         /\ \A i \in DOMAIN C(t, b) : Tidy(C(t, b)[i])
    <3>1. /\ ChainOK(C(t, b), b, TableLen(t))
          /\ \A i \in DOMAIN C(t, b) : Tidy(C(t, b)[i]) \/ \E q \in Procs : Touches(q, t, b, i)
      BY <1>0, <2>1 DEF DataInv, ChainsOK
    <3>2. ASSUME NEW q \in Procs, NEW i, Touches(q, t, b, i) PROVE FALSE
      <4>1. pc[q] \in Writing /\ loc[q].tbl = t /\ Bidx(q) = b BY <3>2 DEF Touches, Writing
      <4>2. Mu(t, b) = q BY <1>0, <4>1 DEF DataInv, LocksOK
      <4>3. QED BY <2>2, <4>2, XsyncAssumption
    <3>3. QED BY <3>1, <3>2
  <2>16. StoreOK(p, t, b)
    BY <1>1, <2>1, <2>11, <2>13, <2>14, <2>15 DEF StoreOK
  <2>17. DataInv' BY <1>0, <2>10, <2>16, StoresData
  <2>18. QED BY <2>4, <2>5, <2>9, <2>17 DEF PlaceInv
<1>4. QED BY <1>1, <1>2, <1>3

-----------------------------------------------------------------------------
(* Goroutines that move buckets.                                            *)

\* Whoever moves buckets moves them between the two newest tables.
LEMMA MoverFacts ==
    ASSUME ControlInv, PlaceInv, NEW p \in Procs, pc[p] \in Moving
    PROVE  /\ Count > 1 /\ Count \in Nat /\ loc[p].old = Count - 1 /\ loc[p].new = Count /\ loc[p].old \in 1..Count
           /\ Prev = loc[p].old /\ BaseLen(p) = Base
<1>0. TablesOK /\ BuildOK /\ HelpOK(p) BY DEF PlaceInv, StageInv, HelpsOK
<1>1. Count \in Nat \ {0} /\ table \in Nat \ {0} BY <1>0, CountFacts
<1>2. loc[p].old = Count - 1 /\ loc[p].new = Count /\ loc[p].old \in Nat \ {0}
  <2>1. CASE loc[p].owner
    <3>1. Builds(p) BY <2>1 DEF Builds
    <3>2. QED BY <1>0, <1>1, <3>1 DEF BuildOK
  <2>2. CASE ~loc[p].owner
    <3>1. Registered(p) BY <2>2 DEF Registered, Moving
    <3>2. QED BY <1>0, <3>1 DEF HelpOK
  <2>3. QED BY <2>1, <2>2
<1>3. Count > 1 /\ loc[p].old \in 1..Count BY <1>1, <1>2
<1>4. Prev = loc[p].old BY <1>2, <1>3 DEF Prev
<1>5. BaseLen(p) = Base BY <1>2, <1>4 DEF BaseLen, Base
<1>6. QED BY <1>1, <1>2, <1>3, <1>4, <1>5

\* Buckets are claimed only while the owner has not stopped to claim, and then the new table
\* is not the current one.
LEMMA ClaimOpen ==
    ASSUME ControlInv, PlaceInv, Count > 1, resizeIdx < Base
    PROVE  Count = table + 1 /\ \A q \in Procs : pc[q] # "resize.publish"
<1>0. OwnerInv /\ BuildOK /\ DoneOK /\ TablesOK BY DEF ControlInv, PlaceInv, StageInv
<1>1. resizeIdx \in Nat /\ Base \in Nat BY <1>0, CountFacts, BaseFacts
<1>2. PICK r \in Procs : Opens(r) BY <1>0, <1>1 DEF DoneOK
<1>3. Builds(r) /\ Owns(r) /\ pc[r] # "resize.publish"
  BY <1>2 DEF Opens, Builds, Owns, Offering, Finishing, Moving
<1>4. Count = table + 1 BY <1>0, <1>3 DEF BuildOK
<1>5. ASSUME NEW q \in Procs, pc[q] = "resize.publish" PROVE FALSE
  <2>1. Owns(q) BY <1>5 DEF Owns, Finishing
  <2>2. QED BY <1>0, <1>3, <1>5, <2>1 DEF OwnerInv
<1>6. QED BY <1>4, <1>5

\* The resize goes on while buckets are claimed and moved.
LEMMA MoveStage ==
    ASSUME ControlInv, PlaceInv, SameLens, NEW p \in Procs, pc[p] \in Moving, ctl' = ctl, nextTable' = nextTable,
           NEW l, NEW m, Own(p, l, m), KeepS(m, loc[p]),
           l \in Moving \/ l = IF loc[p].owner THEN "resize.wait" ELSE "help.leave",
           l \notin Moving => Base <= resizeIdx',
           l \in Copying => pc[p] \in Copying \/ resizeIdx < Base,
           resizeIdx' = resizeIdx \/ (resizeIdx' \in Nat /\ resizeIdx <= resizeIdx')
    PROVE  StageInv'
<1>0. TablesOK /\ CallsOK /\ StageInv /\ Shape /\ ctl.seq \in Nat BY DEF PlaceInv, ControlInv, Shape
<1>1. OthersSame(p) /\ pc'[p] = l /\ loc'[p] = m BY <1>0, OwnCall
<1>2. m.owner = loc[p].owner /\ m.old = loc[p].old /\ m.new = loc[p].new BY DEF KeepS
<1>3. \A q \in Procs \ {p} : loc'[q] = loc[q] /\ (pc'[q] = pc[q] \/ (pc[q] = "sleep" /\ pc'[q] = "wait"))
  BY <1>1 DEF OthersSame
<1>4. nextTable' \in {NoTable, Count} BY <1>0 DEF StageInv, BuildOK
<1>5. Builds(p)' <=> Builds(p) BY <1>1, <1>2 DEF Builds, Moving
<1>6. Opens(p) => Opens(p)' \/ Base <= resizeIdx' BY <1>1, <1>2 DEF Opens, Moving
<1>7. pc'[p] \in Copying => pc[p] \in Copying \/ \A q \in Procs : pc[q] # "resize.publish"
  BY <1>1, MoverFacts, ClaimOpen
<1>8. pc'[p] \notin {"resize.publish", "resize.new"} BY <1>1 DEF Moving
<1>9. HelpOK(p)'
  <2>1. Registered(p)' => Registered(p)
    BY <1>1, <1>2 DEF Registered, Moving
  <2>2. Count' = Count BY DEF SameLens
  <2>3. loc[p].old = Count - 1 /\ loc[p].new = Count /\ loc[p].old \in Nat \ {0} BY MoverFacts
  <2>4. pc'[p] \notin {"help.next", "help.check", "help.join"} BY <1>1 DEF Moving
  <2>5. QED BY <1>1, <1>2, <2>2, <2>3, <2>4 DEF HelpOK
<1>10. QED BY <1>0, <1>1, <1>2, <1>3, <1>4, <1>5, <1>6, <1>7, <1>8, <1>9, StayStage

\* The new table stays as it is, and so does what has been moved.
LEMMA CopiedStays ==
    ASSUME TablesOK, CopiedOK, SameLens,
           \A t \in 1..Count : \A b \in 0..TableLen(t) - 1 : C(t, b)' = C(t, b),
           \A b \in 0..TableLen(table) - 1 : Moved(b)' <=> Moved(b)
    PROVE  CopiedOK'
<1>0. Count' = Count /\ table' = table /\ hash' = hash BY DEF SameLens
<1>1. SUFFICES ASSUME Count = table + 1, NEW k \in Keys, NEW v \in Values
               PROVE  In(C(Count, BucketOf(k, TableLen(Count))), k, v)' <=>
                           /\ Moved(BucketOf(k, TableLen(table)))'
                           /\ In(C(table, BucketOf(k, TableLen(table))), k, v)'
  BY <1>0 DEF CopiedOK
<1>2. PICK n \in 1..Count, u \in 1..Count : n = Count /\ u = table BY CountFacts
<1>3. PICK d, e : d = BucketOf(k, TableLen(n)) /\ e = BucketOf(k, TableLen(u)) OBVIOUS
<1>4. d \in 0..TableLen(n) - 1 /\ e \in 0..TableLen(u) - 1 BY <1>2, <1>3, CountFacts, BucketIn
<1>5. BucketOf(k, TableLen(Count))' = d /\ BucketOf(k, TableLen(table))' = e
  <2>1. TableLen(Count)' = TableLen(n)' /\ TableLen(table)' = TableLen(u)' BY <1>0, <1>2 DEF TableLen
  <2>2. TableLen(n)' = TableLen(n) /\ TableLen(u)' = TableLen(u) BY <1>0 DEF SameLens
  <2>3. QED BY <1>0, <1>3, <2>1, <2>2 DEF BucketOf
<1>6. In(C(n, d), k, v) <=> Moved(e) /\ In(C(u, e), k, v) BY <1>1, <1>2, <1>3 DEF CopiedOK
<1>7. C(n, d)' = C(n, d) /\ C(u, e)' = C(u, e) BY <1>4
<1>8. In(C(Count, BucketOf(k, TableLen(Count))), k, v)' <=> In(C(n, d)', k, v)
  BY <1>0, <1>2, <1>5 DEF In, C
<1>9. In(C(table, BucketOf(k, TableLen(table))), k, v)' <=> In(C(u, e)', k, v)
  BY <1>0, <1>2, <1>5 DEF In, C
<1>10. Moved(BucketOf(k, TableLen(table)))' <=> Moved(e)'
  BY <1>5 DEF Moved, Pending, Class
<1>11. Moved(e)' <=> Moved(e) BY <1>2, <1>4
<1>12. QED BY <1>6, <1>7, <1>8, <1>9, <1>10, <1>11

\* What the claims say of a goroutine that moves buckets, and of two of them.
LEMMA ClaimFacts ==
    ASSUME PlaceInv, NEW q \in Procs, pc[q] \in Copying
    PROVE  /\ Count = table + 1 /\ loc[q].old = table /\ loc[q].new = Count
           /\ loc[q].i \in Nat /\ loc[q].end \in Nat /\ loc[q].i < loc[q].end
           /\ loc[q].end <= Base /\ loc[q].end <= resizeIdx
           /\ loc[q].src \in 0..TableLen(table) - 1 /\ Class(loc[q].src) = loc[q].i
BY DEF PlaceInv, DataInv, ClaimsOK, ClaimOK

\* The class of a bucket.
LEMMA ClassFacts ==
    ASSUME TablesOK, NEW b \in Nat
    PROVE  Class(b) \in 0..Base - 1 /\ Class(b) <= b
BY BaseFacts, ModLe DEF Class

\* What another goroutine has still to move.
LEMMA OtherPending ==
    ASSUME TablesOK, SameLens, NEW q \in Procs, pc'[q] = pc[q], loc'[q] = loc[q], NEW b
    PROVE  Pending(q, b)' <=> Pending(q, b)
BY SameBase DEF Pending

\* A claim of the same goroutine, in the state after a step.
LEMMA SameClaim ==
    ASSUME PlaceInv, SameLens, NEW q \in Procs, pc'[q] = pc[q], loc'[q] = loc[q],
           resizeIdx' = resizeIdx \/ (resizeIdx' \in Nat /\ resizeIdx <= resizeIdx')
    PROVE  ClaimOK(q)'
<1>0. TablesOK /\ ClaimOK(q) BY DEF PlaceInv, DataInv, ClaimsOK
<1>1. Base' = Base /\ Class(loc[q].src)' = Class(loc[q].src) BY <1>0, SameBase DEF Class
<1>2. TableLen(table)' = TableLen(table)
  <2>1. PICK t \in 1..Count : t = table BY <1>0, CountFacts
  <2>2. TableLen(table)' = TableLen(t)' BY <2>1 DEF SameLens, TableLen
  <2>3. QED BY <2>1, <2>2 DEF SameLens
<1>3. resizeIdx \in Nat BY <1>0, CountFacts
<1>4. Count' = Count /\ table' = table BY DEF SameLens
<1>5. CASE pc[q] \notin Copying BY <1>5 DEF ClaimOK
<1>6. CASE pc[q] \in Copying
  <2>1. loc[q].end \in Nat /\ loc[q].end <= resizeIdx BY <1>6, ClaimFacts
  <2>2. loc[q].end <= resizeIdx' BY <1>3, <2>1
  <2>3. QED BY <1>0, <1>1, <1>2, <1>4, <1>6, <2>2 DEF ClaimOK
<1>7. QED BY <1>5, <1>6

\* A goroutine finds nothing to claim.
LEMMA ClaimNone ==
    ASSUME ControlInv, PlaceInv, NEW p \in Procs, pc[p] = "claim", NEW l, NEW m, Own(p, l, m), l \notin Copying,
           UNCHANGED <<hash, tables, table>>, resizeIdx' = resizeIdx + Stride, Base <= resizeIdx
    PROVE  /\ SameLens /\ \A b \in 0..TableLen(table) - 1 : Moved(b)' <=> Moved(b)
           /\ ClaimsOK'
<1>0. TablesOK /\ CallsOK /\ ClaimsOK BY DEF PlaceInv, DataInv
<1>1. SameLens BY DEF SameLens, Count, TableLen
<1>2. OthersSame(p) /\ pc'[p] = l BY <1>0, OwnCall
<1>3. resizeIdx \in Nat /\ Stride \in Nat /\ Base \in Nat BY <1>0, CountFacts, BaseFacts, XsyncAssumption
<1>4. ASSUME NEW b \in 0..TableLen(table) - 1 PROVE Moved(b)' <=> Moved(b)
  <2>1. Class(b) \in 0..Base - 1 BY <1>0, ClassFacts
  <2>2. Class(b) < resizeIdx /\ Class(b) < resizeIdx' BY <1>3, <2>1
  <2>3. Class(b)' = Class(b) BY <1>0, <1>1, SameBase
  <2>4. ASSUME NEW q \in Procs PROVE Pending(q, b)' <=> Pending(q, b)
    <3>1. CASE q = p BY <1>2, <3>1 DEF Pending, Copying
    <3>2. CASE q # p BY <1>0, <1>1, <1>2, <3>2, OtherPending DEF OthersSame
    <3>3. QED BY <3>1, <3>2
  <2>5. QED BY <2>2, <2>3, <2>4 DEF Moved
<1>5. ASSUME NEW q \in Procs PROVE ClaimOK(q)'
  <2>1. CASE q = p BY <1>2, <2>1 DEF ClaimOK
  <2>2. CASE q # p BY <1>1, <1>2, <1>3, <2>2, SameClaim DEF OthersSame
  <2>3. QED BY <2>1, <2>2
<1>6. ASSUME NEW q \in Procs, NEW r \in Procs, q # r, pc'[q] \in Copying, pc'[r] \in Copying
      PROVE  loc'[q].end <= loc'[r].i \/ loc'[r].end <= loc'[q].i
  <2>1. q # p /\ r # p BY <1>2, <1>6
  <2>2. QED BY <1>0, <1>2, <1>6, <2>1 DEF OthersSame, ClaimsOK
<1>7. QED BY <1>1, <1>4, <1>5, <1>6 DEF ClaimsOK

\* A goroutine claims the next buckets.
LEMMA ClaimSome ==
    ASSUME ControlInv, PlaceInv, NEW p \in Procs, pc[p] = "claim", NEW m, Own(p, "copy", m),
           UNCHANGED <<hash, tables, table>>, resizeIdx' = resizeIdx + Stride, resizeIdx < Base,
           m.old = loc[p].old, m.new = loc[p].new, m.i = resizeIdx, m.src = resizeIdx,
           m.end \in Nat, m.end = resizeIdx + Stride \/ m.end = Base, m.end <= resizeIdx + Stride, m.end <= Base
    PROVE  /\ SameLens /\ \A b \in 0..TableLen(table) - 1 : Moved(b)' <=> Moved(b)
           /\ ClaimsOK'
<1>0. TablesOK /\ CallsOK /\ ClaimsOK BY DEF PlaceInv, DataInv
<1>1. SameLens BY DEF SameLens, Count, TableLen
<1>2. OthersSame(p) /\ pc'[p] = "copy" /\ loc'[p] = m BY <1>0, OwnCall
<1>3. /\ resizeIdx \in Nat /\ Stride \in Nat \ {0} /\ Base \in Nat \ {0}
      /\ TableLen(table) \in Nat /\ table \in Nat
  BY <1>0, CountFacts, BaseFacts, XsyncAssumption
<1>4. resizeIdx < m.end BY <1>3
<1>5. /\ Count = table + 1 /\ loc[p].old = table /\ loc[p].new = Count /\ Base <= TableLen(table)
  <2>1. Count > 1 /\ Count \in Nat /\ loc[p].old = Count - 1 /\ loc[p].new = Count BY MoverFacts DEF Moving
  <2>2. Count = table + 1 BY <2>1, ClaimOpen
  <2>3. Base <= TableLen(table) BY <1>0, <2>2, BaseFacts
  <2>4. QED BY <1>3, <2>1, <2>2, <2>3
<1>6. \A b : Class(b)' = Class(b) BY <1>0, <1>1, SameBase
<1>7. ASSUME NEW b \in 0..TableLen(table) - 1 PROVE Moved(b)' <=> Moved(b)
  <2>1. PICK c \in 0..Base - 1 : c = Class(b) /\ c <= b BY <1>0, ClassFacts
  <2>2. Class(b)' = c BY <1>6, <2>1
  <2>3. Pending(p, b)' <=> resizeIdx <= c /\ c < m.end /\ ~(c = resizeIdx /\ b < resizeIdx)
    BY <1>2, <2>2 DEF Pending, Copying
  <2>4. Pending(p, b)' <=> resizeIdx <= c /\ c < m.end BY <1>3, <2>1, <2>3
  <2>5. ~Pending(p, b) BY DEF Pending, Copying
  <2>6. ASSUME NEW q \in Procs \ {p} PROVE Pending(q, b)' <=> Pending(q, b)
    BY <1>0, <1>1, <1>2, OtherPending DEF OthersSame
  <2>7. c < resizeIdx' /\ ~Pending(p, b)' <=> c < resizeIdx BY <1>3, <1>4, <2>1, <2>4
  <2>8. Moved(b)' <=> c < resizeIdx' /\ ~Pending(p, b)' /\ \A q \in Procs \ {p} : ~Pending(q, b)'
    BY <2>2 DEF Moved
  <2>9. Moved(b) <=> c < resizeIdx /\ \A q \in Procs \ {p} : ~Pending(q, b)
    BY <2>1, <2>5 DEF Moved
  <2>10. QED BY <2>6, <2>7, <2>8, <2>9
<1>8. ClaimOK(p)'
  <2>1. Base' = Base BY <1>0, <1>1, SameBase
  <2>2. PICK b : b = resizeIdx OBVIOUS
  <2>3. Class(b) = b BY <1>3, <2>2, ModSmall DEF Class
  <2>4. Class(loc[p].src)' = Class(b)' BY <1>2, <2>2 DEF Class
  <2>5. TableLen(table)' = TableLen(table) /\ Count' = Count BY DEF TableLen, Count
  <2>6. m.src \in 0..TableLen(table) - 1 BY <1>3, <1>5
  <2>7. QED BY <1>2, <1>3, <1>4, <1>5, <1>6, <2>1, <2>2, <2>3, <2>4, <2>5, <2>6 DEF ClaimOK
<1>9. ASSUME NEW q \in Procs PROVE ClaimOK(q)'
  <2>1. CASE q = p BY <1>8, <2>1
  <2>2. CASE q # p BY <1>1, <1>2, <1>3, <2>2, SameClaim DEF OthersSame
  <2>3. QED BY <2>1, <2>2
<1>10. ASSUME NEW q \in Procs \ {p}, pc'[q] \in Copying PROVE loc'[q].end <= loc'[p].i
  <2>1. pc[q] \in Copying /\ loc'[q] = loc[q] BY <1>2, <1>10 DEF OthersSame
  <2>2. loc[q].end <= resizeIdx BY <2>1, ClaimFacts
  <2>3. QED BY <1>2, <2>1, <2>2
<1>11. ASSUME NEW q \in Procs, NEW r \in Procs, q # r, pc'[q] \in Copying, pc'[r] \in Copying
      PROVE  loc'[q].end <= loc'[r].i \/ loc'[r].end <= loc'[q].i
  <2>1. CASE q # p /\ r # p BY <1>0, <1>2, <1>11, <2>1 DEF OthersSame, ClaimsOK
  <2>2. CASE q = p \/ r = p BY <1>10, <1>11, <2>2
  <2>3. QED BY <2>1, <2>2
<1>12. QED BY <1>1, <1>7, <1>9, <1>11 DEF ClaimsOK

\* Buckets are claimed.
LEMMA ClaimPlace ==
    ASSUME ControlInv, PlaceInv, NEW p \in Procs, Claim(p) PROVE PlaceInv'
<1>0. Shape /\ CallsOK /\ TablesOK /\ TabsOK /\ StageInv /\ DataInv BY DEF ControlInv, PlaceInv, TablesOK
<1>1. /\ pc[p] = "claim" /\ UNCHANGED <<hash, tables, table, ctl, nextTable>>
      /\ resizeIdx' = resizeIdx + Stride
      /\ \/ /\ resizeIdx >= BaseLen(p)
            /\ Own(p, IF loc[p].owner THEN "resize.wait" ELSE "help.leave", loc[p])
         \/ /\ ~(resizeIdx >= BaseLen(p))
            /\ \E m : /\ Own(p, "copy", m) /\ KeepT(m, loc[p]) /\ KeepS(m, loc[p])
                      /\ m.i = resizeIdx /\ m.src = resizeIdx
                      /\ m.end = Min({resizeIdx + Stride, BaseLen(p)})
  BY <1>0, ClaimDoes
<1>b. BaseLen(p) = Base /\ Count > 1 BY <1>1, MoverFacts DEF Moving
<1>t. resizeIdx \in Nat /\ Stride \in Nat \ {0} /\ Base \in Nat \ {0} /\ table \in Nat
  BY <1>0, CountFacts, BaseFacts, XsyncAssumption
<1>2. \E l, m : /\ Own(p, l, m) /\ KeepS(m, loc[p])
                /\ l \in {"copy", "resize.wait", "help.leave"}
                /\ l \in Moving \/ l = IF loc[p].owner THEN "resize.wait" ELSE "help.leave"
                /\ l \notin Moving => Base <= resizeIdx
                /\ l \in Copying => resizeIdx < Base
                /\ SameLens /\ ClaimsOK' /\ \A b \in 0..TableLen(table) - 1 : Moved(b)' <=> Moved(b)
  <2>1. CASE /\ resizeIdx >= BaseLen(p)
             /\ Own(p, IF loc[p].owner THEN "resize.wait" ELSE "help.leave", loc[p])
    <3>1. PICK l : l = IF loc[p].owner THEN "resize.wait" ELSE "help.leave" OBVIOUS
    <3>2. Own(p, l, loc[p]) /\ l \notin Copying /\ Base <= resizeIdx BY <1>b, <1>t, <2>1, <3>1 DEF Copying
    <3>3. SameLens /\ ClaimsOK' /\ \A b \in 0..TableLen(table) - 1 : Moved(b)' <=> Moved(b)
      BY <1>1, <3>2, ClaimNone
    <3>4. KeepS(loc[p], loc[p]) /\ l \notin Moving BY <3>1 DEF KeepS, Moving
    <3>5. QED BY <3>1, <3>2, <3>3, <3>4
  <2>2. CASE /\ ~(resizeIdx >= BaseLen(p))
             /\ \E m : /\ Own(p, "copy", m) /\ KeepT(m, loc[p]) /\ KeepS(m, loc[p])
                       /\ m.i = resizeIdx /\ m.src = resizeIdx
                       /\ m.end = Min({resizeIdx + Stride, BaseLen(p)})
    <3>1. PICK m : /\ Own(p, "copy", m) /\ KeepT(m, loc[p]) /\ KeepS(m, loc[p])
                   /\ m.i = resizeIdx /\ m.src = resizeIdx
                   /\ m.end = Min({resizeIdx + Stride, BaseLen(p)})
      BY <2>2
    <3>2. PICK U : U = {resizeIdx + Stride, Base} OBVIOUS
    <3>3. U \in SUBSET Nat /\ U # {} BY <1>t, <3>2
    <3>4. m.end \in U /\ \A y \in U : m.end <= y BY <1>b, <3>1, <3>2, <3>3, MinIn
    <3>5. /\ m.end \in Nat /\ (m.end = resizeIdx + Stride \/ m.end = Base)
          /\ m.end <= resizeIdx + Stride /\ m.end <= Base
      BY <3>2, <3>3, <3>4
    <3>6. resizeIdx < Base BY <1>b, <1>t, <2>2
    <3>7. m.old = loc[p].old /\ m.new = loc[p].new BY <3>1 DEF KeepS
    <3>8. SameLens /\ ClaimsOK' /\ \A b \in 0..TableLen(table) - 1 : Moved(b)' <=> Moved(b)
      BY <1>1, <3>1, <3>5, <3>6, <3>7, ClaimSome
    <3>9. QED BY <3>1, <3>6, <3>8 DEF Moving
  <2>3. QED BY <1>1, <2>1, <2>2
<1>3. PICK l, m : /\ Own(p, l, m) /\ KeepS(m, loc[p])
                  /\ l \in {"copy", "resize.wait", "help.leave"}
                  /\ l \in Moving \/ l = IF loc[p].owner THEN "resize.wait" ELSE "help.leave"
                  /\ l \notin Moving => Base <= resizeIdx
                  /\ l \in Copying => resizeIdx < Base
                  /\ SameLens /\ ClaimsOK' /\ \A b \in 0..TableLen(table) - 1 : Moved(b)' <=> Moved(b)
  BY <1>2
<1>4. /\ OthersSame(p) /\ call' = [q \in Procs |-> call'[q]]
      /\ pc'[p] = l /\ loc'[p] = m /\ call'[p] = call[p] /\ CallOK(p)
  BY <1>0, <1>3, OwnCall
<1>5. CallsOK'
  <2>1. pc[p] \notin Reading \cup {"idle", "table", "range", "return"} BY <1>1 DEF Reading
  <2>2. l \notin UsesTable \cup {"idle"} \cup Writing BY <1>3 DEF UsesTable, Reading, Writing
  <2>3. LabelOK(l, call[p], m.tbl) BY <1>0, <2>1, <2>2, ResizeLabel
  <2>4. CallOK(p)' BY <1>0, <1>1, <1>t, <1>4, <2>2, <2>3, LabelCall
  <2>5. QED BY <1>0, <1>1, <1>t, <1>4, <2>4, OthersCalls
<1>6. StageInv'
  <2>1. resizeIdx' \in Nat /\ resizeIdx <= resizeIdx' BY <1>1, <1>t
  <2>2. l \notin Moving => Base <= resizeIdx' BY <1>3, <1>t, <2>1
  <2>3. pc[p] \in Moving BY <1>1 DEF Moving
  <2>4. QED BY <1>1, <1>3, <2>1, <2>2, <2>3, MoveStage
<1>7. TablesOK'
  <2>1. TabsOK' BY <1>0, <1>1 DEF TabsOK, Count, TableLen, LenOK, TablesOf, Slots
  <2>2. resizeIdx' \in Nat /\ Count' = Count BY <1>1, <1>t DEF Count
  <2>3. QED BY <1>0, <1>1, <2>1, <2>2 DEF TablesOK
<1>8. \A t \in 1..Count : \A b \in 0..TableLen(t) - 1 : C(t, b)' = C(t, b) /\ Mu(t, b)' = Mu(t, b)
  BY <1>1 DEF C, Mu
<1>9. CopiedOK' BY <1>0, <1>3, <1>8, CopiedStays DEF DataInv, CopiesOK
<1>10. PICK W : W = {} OBVIOUS
<1>11. Frame(p, W)
  <2>1. \A q \in Procs \ {p} : Kept(q) BY <1>4 DEF OthersSame, Kept
  <2>2. QED BY <1>3, <1>8, <1>10, <2>1 DEF Frame
<1>12. FrameOK(p, W)
  <2>1. pc[p] \notin Writing /\ pc'[p] \notin Writing /\ pc'[p] # "copied" BY <1>1, <1>3, <1>4 DEF Writing
  <2>2. CopyOK(p)' BY <2>1 DEF CopyOK
  <2>3. QED BY <1>3, <1>10, <2>1, <2>2 DEF FrameOK, Writing
<1>13. DataInv' BY <1>0, <1>3, <1>9, <1>11, <1>12, FrameData
<1>14. QED BY <1>5, <1>6, <1>7, <1>13 DEF PlaceInv

\* A chain of the new table, or one whose lock nobody holds, has no store that is half done.
LEMMA NoTouch ==
    ASSUME PlaceInv, NEW t \in 1..Count, NEW b \in 0..TableLen(t) - 1,
           t > table \/ \A q \in Procs : Mu(t, b) = q => pc[q] \notin Writing
    PROVE  AllTidy(C(t, b))
<1>0. TablesOK /\ CallsOK /\ ChainsOK /\ LocksOK BY DEF PlaceInv, DataInv
<1>1. \A i \in DOMAIN C(t, b) : Tidy(C(t, b)[i]) \/ \E q \in Procs : Touches(q, t, b, i)
  BY <1>0 DEF ChainsOK
<1>2. ASSUME NEW i, NEW q \in Procs, Touches(q, t, b, i) PROVE FALSE
  <2>1. pc[q] \in Writing /\ loc[q].tbl = t /\ Bidx(q) = b BY <1>2 DEF Touches, Writing
  <2>2. Mu(t, b) = q BY <1>0, <2>1 DEF LocksOK
  <2>3. CallOK(q) BY <1>0 DEF CallsOK
  <2>4. t \in 1..table /\ table \in Nat BY <1>0, <2>1, <2>3, CountFacts DEF CallOK, UsesTable
  <2>5. QED BY <2>1, <2>2, <2>4
<1>3. QED BY <1>1, <1>2 DEF AllTidy

\* What a bucket that is moved and its destinations have to do with each other.
LEMMA MoveFacts ==
    ASSUME ControlInv, PlaceInv, NEW p \in Procs, pc[p] \in Copying
    PROVE  /\ Count = table + 1 /\ loc[p].old = table /\ loc[p].new = Count
           /\ table \in 1..Count /\ Count \in 1..Count /\ table # Count
           /\ loc[p].src \in 0..TableLen(table) - 1 /\ BaseLen(p) = Base
           /\ Dests(p) = {d \in 0..TableLen(Count) - 1 : Class(d) = loc[p].i}
           /\ C(loc[p].old, loc[p].src) = C(table, loc[p].src)
           /\ C(table, loc[p].src) \in Seq(Slots)
           /\ ChainOK(C(table, loc[p].src), loc[p].src, TableLen(table))
           /\ ~Moved(loc[p].src)
<1>0. TablesOK /\ TabsOK /\ ChainsOK BY DEF PlaceInv, TablesOK, DataInv
<1>1. /\ Count = table + 1 /\ loc[p].old = table /\ loc[p].new = Count
      /\ loc[p].src \in 0..TableLen(table) - 1 /\ Class(loc[p].src) = loc[p].i
      /\ loc[p].i \in Nat /\ loc[p].end \in Nat /\ loc[p].i < loc[p].end
  BY ClaimFacts
<1>2. table \in 1..Count /\ Count \in 1..Count /\ table # Count BY <1>0, <1>1, CountFacts
<1>3. BaseLen(p) = Base BY MoverFacts DEF Moving, Copying
<1>4. DOMAIN tables[Count].chains = 0..TableLen(Count) - 1 BY <1>0, <1>2, TableFacts
<1>5. Dests(p) = {d \in 0..TableLen(Count) - 1 : Class(d) = loc[p].i} BY <1>1, <1>3, <1>4 DEF Dests, Class
<1>6. PICK s \in 0..TableLen(table) - 1 : s = loc[p].src BY <1>1
<1>7. C(table, s) \in Seq(Slots) BY <1>0, <1>2, TableFacts
<1>8. ChainOK(C(table, s), s, TableLen(table)) BY <1>0, <1>2 DEF ChainsOK
<1>9. ~Moved(s)
  <2>1. s \in Int BY <1>0, CountFacts
  <2>2. Pending(p, s) BY <1>1, <1>6, <2>1 DEF Pending
  <2>3. QED BY <2>2 DEF Moved
<1>10. QED BY <1>1, <1>2, <1>3, <1>5, <1>6, <1>7, <1>8, <1>9

\* The destinations hold no key of a bucket that has not been moved.
LEMMA FreshKeys ==
    ASSUME ControlInv, PlaceInv, NEW p \in Procs, pc[p] \in Copying, NEW d \in Dests(p),
           NEW k \in Keys, HasKey(C(table, loc[p].src), k)
    PROVE  ~HasKey(C(Count, d), k)
<1>0. TablesOK /\ ChainsOK /\ CopiedOK /\ hash \in Hashes BY CountFacts DEF PlaceInv, DataInv, CopiesOK
<1>1. PICK s : s = loc[p].src OBVIOUS
<1>2. /\ Count = table + 1 /\ Count \in 1..Count /\ d \in 0..TableLen(Count) - 1
      /\ ChainOK(C(table, s), s, TableLen(table)) /\ ~Moved(s)
  BY <1>1, MoveFacts
<1>3. ChainOK(C(Count, d), d, TableLen(Count)) BY <1>0, <1>2 DEF ChainsOK
<1>4. k # Absent BY <1>0, HashFacts
<1>5. ASSUME HasKey(C(Count, d), k) PROVE FALSE
  <2>1. PICK v \in Values : In(C(Count, d), k, v) BY <1>0, <1>3, <1>5, KeyHasValue
  <2>2. BucketOf(k, TableLen(Count)) = d BY <1>3, <1>4, <1>5 DEF ChainOK, HasKey
  <2>3. Moved(BucketOf(k, TableLen(table))) BY <1>0, <1>2, <2>1, <2>2 DEF CopiedOK
  <2>4. BucketOf(k, TableLen(table)) = s BY <1>1, <1>2, <1>4 DEF ChainOK, HasKey
  <2>5. QED BY <1>2, <2>3, <2>4
<1>6. QED BY <1>5

\* What transferBucketUnsafe makes of a destination.
LEMMA DestMerged ==
    ASSUME ControlInv, PlaceInv, NEW p \in Procs, pc[p] \in Copying,
           AllTidy(C(table, loc[p].src)), NEW d \in Dests(p)
    PROVE  Merged(Transferred(C(table, loc[p].src), C(Count, d), d, TableLen(Count)),
                  C(Count, d), C(table, loc[p].src), d, TableLen(Count))
<1>0. TablesOK /\ TabsOK /\ ChainsOK /\ hash \in Hashes BY CountFacts DEF PlaceInv, TablesOK, DataInv
<1>1. PICK s : s = loc[p].src OBVIOUS
<1>2. /\ Count = table + 1 /\ Count \in 1..Count /\ d \in 0..TableLen(Count) - 1
      /\ C(table, s) \in Seq(Slots) /\ ChainOK(C(table, s), s, TableLen(table))
  BY <1>1, MoveFacts
<1>3. C(Count, d) \in Seq(Slots) BY <1>0, <1>2, TableFacts
<1>4. ChainOK(C(Count, d), d, TableLen(Count)) BY <1>0, <1>2 DEF ChainsOK
<1>5. Count > table BY <1>0, <1>2, CountFacts
<1>6. AllTidy(C(Count, d)) BY <1>2, <1>5, NoTouch
<1>7. \A k \in Keys : HasKey(C(table, s), k) => ~HasKey(C(Count, d), k) BY <1>1, FreshKeys
<1>8. Merged(Transferred(C(table, s), C(Count, d), d, TableLen(Count)), C(Count, d), C(table, s), d, TableLen(Count))
  BY <1>0, <1>2, <1>3, <1>4, <1>6, <1>7, TransferOK
<1>9. QED BY <1>1, <1>8

\* A bucket is locked and its entries are copied.
LEMMA CopyBeginPlace ==
    ASSUME ControlInv, PlaceInv, NEW p \in Procs, CopyBegin(p) PROVE PlaceInv'
<1>0. Shape /\ CallsOK /\ TablesOK /\ TabsOK /\ StageInv /\ DataInv /\ hash \in Hashes
  BY CountFacts DEF ControlInv, PlaceInv, TablesOK
<1>1. /\ pc[p] = "copy" /\ UNCHANGED <<hash, table, resizeIdx, ctl, nextTable>>
      /\ tables[loc[p].old].mu[loc[p].src] = Nobody
      /\ tables' = [tables EXCEPT ![loc[p].old].mu[loc[p].src] = p]
      /\ \E m : Own(p, "copied", m) /\ /\ KeepT(m, loc[p]) /\ KeepS(m, loc[p])
           /\ m.i = loc[p].i /\ m.src = loc[p].src /\ m.end = loc[p].end
           /\ m.copy = [d \in Dests(p) |-> Transferred(tables[loc[p].old].chains[loc[p].src],
                                     tables[loc[p].new].chains[d], d, TableLen(loc[p].new))]
  BY <1>0, CopyBeginDoes
<1>2. PICK m : Own(p, "copied", m) /\ /\ KeepT(m, loc[p]) /\ KeepS(m, loc[p])
           /\ m.i = loc[p].i /\ m.src = loc[p].src /\ m.end = loc[p].end
           /\ m.copy = [d \in Dests(p) |-> Transferred(tables[loc[p].old].chains[loc[p].src],
                                     tables[loc[p].new].chains[d], d, TableLen(loc[p].new))]
  BY <1>1
<1>c. pc[p] \in Copying /\ pc[p] \in Moving BY <1>1 DEF Copying, Moving
<1>3. PICK t, b :
         /\ t \in 1..Count
         /\ t = loc[p].old /\ b = loc[p].src /\ b \in 0..TableLen(t) - 1
         /\ t = table /\ Count = table + 1 /\ loc[p].new = Count
         /\ Dests(p) \subseteq 0..TableLen(Count) - 1 /\ Count \in 1..Count /\ BaseLen(p) = Base
  BY <1>c, MoveFacts
<1>4. tables' = [tables EXCEPT ![t].mu[b] = p] /\ Mu(t, b) = Nobody BY <1>1, <1>3 DEF Mu
<1>5. Wrote(t, b, C(t, b), p) BY <1>0, <1>3, <1>4, WroteLock
<1>6. SameLens /\ TablesOK' BY <1>0, <1>1, <1>5, WroteLens
<1>7. /\ OthersSame(p) /\ call' = [q \in Procs |-> call'[q]]
      /\ pc'[p] = "copied" /\ loc'[p] = m /\ call'[p] = call[p] /\ CallOK(p)
  BY <1>0, <1>2, OwnCall
<1>t. table \in Nat BY <1>0, CountFacts
<1>8. CallsOK'
  <2>1. pc[p] \notin Reading \cup {"idle", "table", "range", "return"} BY <1>1 DEF Reading
  <2>2. "copied" \notin UsesTable \cup {"idle"} \cup Writing BY DEF UsesTable, Reading, Writing
  <2>3. LabelOK("copied", call[p], m.tbl) BY <1>0, <2>1, <2>2, ResizeLabel
  <2>4. CallOK(p)' BY <1>0, <1>1, <1>t, <1>7, <2>2, <2>3, LabelCall
  <2>5. QED BY <1>0, <1>1, <1>t, <1>7, <2>4, OthersCalls
<1>9. StageInv'
  <2>1. "copied" \in Moving BY DEF Moving
  <2>2. QED BY <1>1, <1>2, <1>6, <1>c, <2>1, MoveStage
<1>10. \A u \in 1..Count : \A d \in 0..TableLen(u) - 1 : C(u, d)' = C(u, d)
  BY <1>5 DEF Wrote
<1>11. ASSUME NEW q \in Procs
       PROVE  /\ pc'[q] \in Copying <=> pc[q] \in Copying
              /\ loc'[q].old = loc[q].old \/ q # p
              /\ pc[q] \in Copying => /\ loc'[q].i = loc[q].i /\ loc'[q].end = loc[q].end
                                      /\ loc'[q].src = loc[q].src /\ loc'[q].old = loc[q].old /\ loc'[q].new = loc[q].new
  <2>1. CASE q = p BY <1>2, <1>7, <1>c, <2>1 DEF KeepS, Copying
  <2>2. CASE q # p BY <1>7, <2>2 DEF OthersSame
  <2>3. QED BY <2>1, <2>2
<1>12. \A b1 : Class(b1)' = Class(b1) BY <1>0, <1>6, SameBase
<1>13. \A b1 : Moved(b1)' <=> Moved(b1)
  <2>1. ASSUME NEW b1, NEW q \in Procs PROVE Pending(q, b1)' <=> Pending(q, b1)
    BY <1>11, <1>12 DEF Pending
  <2>2. QED BY <1>1, <1>12, <2>1 DEF Moved
<1>14. ClaimsOK'
  <2>1. ASSUME NEW q \in Procs, pc'[q] \in Copying PROVE ClaimOK(q)'
    <3>1. /\ Count = table + 1 /\ loc[q].old = table /\ loc[q].new = Count
          /\ loc[q].i \in Nat /\ loc[q].end \in Nat /\ loc[q].i < loc[q].end
          /\ loc[q].end <= Base /\ loc[q].end <= resizeIdx
          /\ loc[q].src \in 0..TableLen(table) - 1 /\ Class(loc[q].src) = loc[q].i
      BY <1>11, <2>1, ClaimFacts
    <3>2. Base' = Base /\ Count' = Count /\ table' = table BY <1>0, <1>6, SameBase DEF SameLens
    <3>3. TableLen(table)' = TableLen(table)
      <4>1. TableLen(table)' = TableLen(t)' BY <1>1, <1>3 DEF TableLen
      <4>2. QED BY <1>3, <1>6, <4>1 DEF SameLens
    <3>4. Class(loc[q].src)' = Class(loc[q].src) BY <1>11, <2>1, <3>2 DEF Class
    <3>5. QED BY <1>1, <1>11, <2>1, <3>1, <3>2, <3>3, <3>4 DEF ClaimOK
  <2>2. ASSUME NEW q \in Procs PROVE ClaimOK(q)' BY <2>1 DEF ClaimOK
  <2>3. QED BY <1>0, <1>11, <2>2 DEF ClaimsOK, DataInv
<1>15. CopiedOK' BY <1>0, <1>6, <1>10, <1>13, CopiedStays DEF DataInv, CopiesOK
<1>16. PICK W : W = {<<t, b>>} OBVIOUS
<1>17. \A u, d : <<u, d>> \in W <=> u = t /\ d = b BY <1>16
<1>18. Frame(p, W)
  <2>1. \A q \in Procs \ {p} : Kept(q) BY <1>7 DEF OthersSame, Kept
  <2>2. Alone(p, t, b) BY <1>3, <1>4, <1>t DEF Alone
  <2>3. QED BY <1>5, <1>6, <1>17, <2>1, <2>2 DEF Frame, Wrote
<1>19. AllTidy(C(t, b)) /\ ChainOK(C(t, b), b, TableLen(t))
  <2>1. \A q \in Procs : Mu(t, b) # q BY <1>4, XsyncAssumption
  <2>2. AllTidy(C(t, b)) BY <1>3, <2>1, NoTouch
  <2>3. QED BY <1>0, <1>3, <2>2 DEF DataInv, ChainsOK
<1>20. CopyOK(p)'
  <2>1. \A d \in Dests(p) : m.copy[d] = Transferred(C(table, b), C(Count, d), d, TableLen(Count))
    BY <1>2, <1>3 DEF C
  <2>2. DOMAIN m.copy = Dests(p) BY <1>2
  <2>n. PICK n : n = Count OBVIOUS
  <2>l. TableLen(n)' = TableLen(n) /\ TableLen(t)' = TableLen(t) /\ DOMAIN tables'[n].chains = DOMAIN tables[n].chains
    BY <1>3, <1>6, <2>n DEF SameLens
  <2>o. loc'[p].old = t /\ loc'[p].new = n /\ loc'[p].src = b BY <1>2, <1>3, <1>7, <2>n DEF KeepS
  <2>3. BaseLen(p)' = BaseLen(p)
    <3>1. TableLen(loc[p].old)' = TableLen(t)' /\ TableLen(loc[p].new)' = TableLen(n)'
      BY <2>o DEF TableLen
    <3>2. QED BY <1>3, <2>n, <2>l, <3>1 DEF BaseLen
  <2>4. Dests(p)' = Dests(p) BY <1>3, <2>n, <2>o, <2>l, <2>3 DEF Dests
  <2>5. ASSUME NEW d \in Dests(p)
        PROVE  Merged(loc[p].copy[d], C(loc[p].new, d), C(loc[p].old, loc[p].src), d, TableLen(loc[p].new))'
    <3>1. PICK r, x, c, len : /\ r = m.copy[d] /\ x = C(n, d) /\ c = C(t, b) /\ len = TableLen(n)
      OBVIOUS
    <3>2. Merged(r, x, c, d, len) BY <1>3, <1>19, <1>c, <2>1, <2>n, <3>1, DestMerged
    <3>3. Merged(r, x, c, d, len)' BY <1>1, <3>2, SameHash
    <3>4. C(n, d)' = C(n, d) /\ C(t, b)' = C(t, b) BY <1>3, <1>10, <2>n
    <3>5. C(loc[p].new, d)' = C(n, d)' /\ C(loc[p].old, loc[p].src)' = C(t, b)' /\ TableLen(loc[p].new)' = TableLen(n)'
      BY <2>o DEF C, TableLen
    <3>6. r = loc'[p].copy[d] /\ x = C(loc[p].new, d)' /\ c = C(loc[p].old, loc[p].src)' /\ len = TableLen(loc[p].new)'
      BY <1>7, <2>l, <3>1, <3>4, <3>5
    <3>7. QED BY <3>3, <3>6 DEF Merged, ChainOK, BucketOf
  <2>6. QED BY <1>7, <2>2, <2>4, <2>5 DEF CopyOK
<1>21. FrameOK(p, W)
  <2>1. pc[p] \notin Writing /\ pc'[p] \notin Writing BY <1>1, <1>7 DEF Writing
  <2>2. C(t, b)' = C(t, b) /\ Mu(t, b)' = p BY <1>5 DEF Wrote
  <2>3. Mu(loc[p].old, loc[p].src)' = p
    <3>1. Mu(loc[p].old, loc[p].src)' = Mu(t, b)' BY <1>2, <1>3, <1>7 DEF Mu, KeepS
    <3>2. QED BY <2>2, <3>1
  <2>4. QED BY <1>13, <1>17, <1>19, <1>20, <2>1, <2>2, <2>3 DEF FrameOK, AllTidy, Writing
<1>22. DataInv' BY <1>0, <1>14, <1>15, <1>18, <1>21, FrameData
<1>23. QED BY <1>6, <1>8, <1>9, <1>22 DEF PlaceInv

\* The number of buckets of a table of length n.
LEMMA IntervalLen == ASSUME NEW n \in Nat \ {0} PROVE Cardinality(0..n - 1) = n
BY FS_Interval

\* Tables that are in order make a sequence of tables that is.
LEMMA TabsNext ==
    ASSUME NEW n \in Nat, tables' = [u \in 1..n |-> tables'[u]],
           \A u \in 1..n : \E m \in Nat \ {0} : LenOK(m) /\ tables'[u] \in TablesOf(m)
    PROVE  TabsOK' /\ Count' = n
<1> DEFINE X == UNION {TablesOf(m) : m \in Nat}
<1>1. \A u \in 1..n : tables'[u] \in X OBVIOUS
<1>2. tables' \in Seq(X)
  <2> HIDE DEF X
  <2>1. tables' \in [1..n -> X] BY <1>1
  <2>2. QED BY <2>1, SeqDef
<1>3. Len(tables') = n
  <2> HIDE DEF X
  <2>1. DOMAIN tables' = 1..n OBVIOUS
  <2>2. QED BY <1>2, <2>1, LenProperties
<1>4. Count' = n BY <1>3 DEF Count
<1>5. ASSUME NEW u \in 1..n
      PROVE  TableLen(u)' \in Nat \ {0} /\ LenOK(TableLen(u)') /\ tables'[u] \in TablesOf(TableLen(u)')
  <2>1. PICK m \in Nat \ {0} : LenOK(m) /\ tables'[u] \in TablesOf(m) OBVIOUS
  <2>2. DOMAIN tables'[u].chains = 0..m - 1 BY <2>1 DEF TablesOf
  <2>3. TableLen(u)' = m
    <3>1. Cardinality(0..m - 1) = m BY <2>1, IntervalLen
    <3>2. QED BY <2>2, <3>1 DEF TableLen
  <2>4. QED BY <2>1, <2>3
<1>6. X' = X BY DEF X, TablesOf, Slots
<1>7. TabsOK'
  <2> HIDE DEF X
  <2>1. \A u \in 1..Count' : LenOK(TableLen(u))' <=> LenOK(TableLen(u)')
    BY DEF LenOK
  <2>2. \A u \in 1..Count' : TablesOf(TableLen(u))' = TablesOf(TableLen(u)')
    BY DEF TablesOf, Slots
  <2>3. QED BY <1>2, <1>4, <1>5, <1>6, <2>1, <2>2 DEF TabsOK, X
<1>8. QED BY <1>4, <1>7

\* A chain has a number of entries.
LEMMA FilledNat == ASSUME NEW c \in Seq(Slots) PROVE Filled(c) \in Nat
<1>1. DOMAIN c = 1..Len(c) /\ Len(c) \in Nat OBVIOUS
<1>2. PICK m \in Nat : m = Len(c) BY <1>1
<1>3. IsFiniteSet(1..m) BY FS_Interval
<1>4. {i \in DOMAIN c : c[i].key # Absent} \subseteq 1..m BY <1>1, <1>2
<1>5. IsFiniteSet({i \in DOMAIN c : c[i].key # Absent}) BY <1>3, <1>4, FS_Subset
<1>6. QED BY <1>5, FS_CardinalityType DEF Filled

\* What the stores of CopyEnd leave behind.
LEMMA MovesDoes ==
    ASSUME TabsOK, NEW t \in 1..Count, NEW n \in 1..Count, t # n, NEW b \in 0..TableLen(t) - 1,
           NEW f, DOMAIN f \subseteq 0..TableLen(n) - 1, \A d \in DOMAIN f : f[d] \in Seq(Slots),
           MovesTo(t, b, n, f)
    PROVE  Moving2(t, b, n, f)
<1>0. PICK lt \in Nat \ {0}, ln \in Nat \ {0} : lt = TableLen(t) /\ ln = TableLen(n) /\ LenOK(lt) /\ LenOK(ln)
  BY TableFacts
<1>1. /\ tables[t] = [chains |-> tables[t].chains, mu |-> tables[t].mu, size |-> tables[t].size]
      /\ tables[t].chains \in [0..lt - 1 -> Seq(Slots)]
      /\ tables[t].mu \in [0..lt - 1 -> Procs \cup {Nobody}]
      /\ tables[t].size \in Int
      /\ DOMAIN tables = 1..Count /\ Count \in Nat
  BY <1>0, TableFacts
<1>2. /\ tables[n] = [chains |-> tables[n].chains, mu |-> tables[n].mu, size |-> tables[n].size]
      /\ tables[n].chains \in [0..ln - 1 -> Seq(Slots)]
      /\ tables[n].mu \in [0..ln - 1 -> Procs \cup {Nobody}]
      /\ tables[n].size \in Int
  BY <1>0, TableFacts
<1>3. PICK w \in Nat : w = Filled(C(t, b))
  <2>1. C(t, b) \in Seq(Slots) BY TableFacts
  <2>2. QED BY <2>1, FilledNat
<1>4. PICK ms, cs : /\ ms = [tables[t].mu EXCEPT ![b] = Nobody]
                    /\ cs = [d \in DOMAIN tables[n].chains |-> IF d \in DOMAIN f THEN f[d] ELSE tables[n].chains[d]]
  OBVIOUS
<1>5. ms \in [0..lt - 1 -> Procs \cup {Nobody}] BY <1>0, <1>1, <1>4
<1>6. cs \in [0..ln - 1 -> Seq(Slots)] BY <1>2, <1>4
<1>7. PICK rt, rn : /\ rt = [chains |-> tables[t].chains, mu |-> ms, size |-> tables[t].size]
                    /\ rn = [chains |-> cs, mu |-> tables[n].mu, size |-> tables[n].size + w]
  OBVIOUS
<1>8. rt \in TablesOf(lt) /\ rn \in TablesOf(ln) BY <1>1, <1>2, <1>5, <1>6, <1>7 DEF TablesOf
<1>9. tables' = [u \in 1..Count |-> IF u = t THEN rt ELSE IF u = n THEN rn ELSE tables[u]]
  <2>1. PICK a : a = [tables EXCEPT ![t].mu[b] = Nobody] OBVIOUS
  <2>2. a = [u \in 1..Count |-> IF u = t THEN rt ELSE tables[u]]
    <3>5. [tables[t] EXCEPT !.mu[b] = Nobody] = [tables[t] EXCEPT !.mu = ms] BY <1>4
    <3>6. [tables[t] EXCEPT !.mu = ms] = rt BY <1>1, <1>7
    <3>1. [tables[t] EXCEPT !.mu[b] = Nobody] = rt BY <3>5, <3>6
    <3>2. a = [tables EXCEPT ![t] = [tables[t] EXCEPT !.mu[b] = Nobody]] BY <2>1
    <3>3. tables = [u \in 1..Count |-> tables[u]] BY DEF TabsOK, Count
    <3>4. QED BY <3>1, <3>2, <3>3
  <2>3. PICK c : c = [a EXCEPT ![n].size = @ + w] OBVIOUS
  <2>4. PICK s : s = [chains |-> tables[n].chains, mu |-> tables[n].mu, size |-> tables[n].size + w] OBVIOUS
  <2>5. c = [u \in 1..Count |-> IF u = t THEN rt ELSE IF u = n THEN s ELSE tables[u]]
    <3>1. a[n] = tables[n] BY <2>2
    <3>2. [tables[n] EXCEPT !.size = @ + w] = s BY <1>2, <2>4
    <3>3. c = [a EXCEPT ![n] = [a[n] EXCEPT !.size = @ + w]] BY <2>3
    <3>4. c = [a EXCEPT ![n] = s] BY <3>1, <3>2, <3>3
    <3>5. QED BY <2>2, <3>4
  <2>6. tables' = [c EXCEPT ![n].chains = [d \in DOMAIN @ |-> IF d \in DOMAIN f THEN f[d] ELSE @[d]]]
    BY <1>3, <2>1, <2>3 DEF MovesTo
  <2>7. c[n] = s /\ s.chains = tables[n].chains BY <2>4, <2>5
  <2>8. tables' = [c EXCEPT ![n] = [c[n] EXCEPT !.chains =
                       [d \in DOMAIN c[n].chains |-> IF d \in DOMAIN f THEN f[d] ELSE c[n].chains[d]]]]
    BY <2>6
  <2>9. tables' = [c EXCEPT ![n] = [s EXCEPT !.chains = cs]] BY <1>4, <2>7, <2>8
  <2>10. [s EXCEPT !.chains = cs] = rn BY <1>7, <2>4
  <2>11. QED BY <2>5, <2>9, <2>10
<1>10. tables'[t] = rt /\ tables'[n] = rn /\ \A u \in 1..Count : u # t /\ u # n => tables'[u] = tables[u] BY <1>9
<1>11. \A u \in 1..Count : \E m \in Nat \ {0} : LenOK(m) /\ tables'[u] \in TablesOf(m)
  <2>1. ASSUME NEW u \in 1..Count, u # t, u # n PROVE \E m \in Nat \ {0} : LenOK(m) /\ tables'[u] \in TablesOf(m)
    BY <1>10, <2>1 DEF TabsOK
  <2>2. QED BY <1>0, <1>8, <1>10, <2>1
<1>12. TabsOK' /\ Count' = Count
  <2>1. tables' = [u \in 1..Count |-> tables'[u]] BY <1>9
  <2>2. QED BY <1>1, <1>11, <2>1, TabsNext
<1>13. rt.chains = tables[t].chains /\ rt.mu = ms /\ rt.size = tables[t].size
  BY <1>7
<1>14. rn.chains = cs /\ rn.mu = tables[n].mu /\ rn.size = tables[n].size + w
  BY <1>7
<1>15. ASSUME NEW u \in 1..Count
       PROVE  /\ TableLen(u)' = TableLen(u)
              /\ DOMAIN tables'[u].chains = DOMAIN tables[u].chains
              /\ tables'[u].size = tables[u].size + (IF u = n THEN Filled(C(t, b)) ELSE 0)
  <2>1. DOMAIN tables'[u].chains = DOMAIN tables[u].chains
    <3>1. DOMAIN cs = DOMAIN tables[n].chains BY <1>4
    <3>2. DOMAIN tables'[t].chains = DOMAIN tables[t].chains BY <1>10, <1>13
    <3>3. DOMAIN tables'[n].chains = DOMAIN tables[n].chains BY <1>10, <1>14, <3>1
    <3>4. QED BY <1>10, <3>2, <3>3
  <2>2. tables[u].size \in Int BY TableFacts
  <2>3. tables'[u].size = tables[u].size + (IF u = n THEN w ELSE 0)
    <3>1. CASE u = n BY <1>10, <1>14, <3>1
    <3>2. CASE u = t BY <1>10, <1>13, <2>2, <3>2
    <3>3. CASE u # t /\ u # n BY <1>10, <2>2, <3>3
    <3>4. QED BY <3>1, <3>2, <3>3
  <2>4. QED BY <1>3, <2>1, <2>3 DEF TableLen
<1>16. ASSUME NEW u \in 1..Count, NEW d \in 0..TableLen(u) - 1
       PROVE  /\ C(u, d)' = IF u = n /\ d \in DOMAIN f THEN f[d] ELSE C(u, d)
              /\ Mu(u, d)' = IF u = t /\ d = b THEN Nobody ELSE Mu(u, d)
  <2>1. u = n => cs[d] = IF d \in DOMAIN f THEN f[d] ELSE tables[n].chains[d] BY <1>0, <1>2, <1>4
  <2>2. u = t => ms[d] = IF d = b THEN Nobody ELSE tables[t].mu[d] BY <1>0, <1>1, <1>4
  <2>3. CASE u = t BY <1>10, <1>13, <2>2, <2>3 DEF C, Mu
  <2>4. CASE u = n BY <1>10, <1>14, <2>1, <2>4 DEF C, Mu
  <2>5. CASE u # t /\ u # n BY <1>10, <2>5 DEF C, Mu
  <2>6. QED BY <2>3, <2>4, <2>5
<1>17. QED BY <1>12, <1>15, <1>16 DEF Moving2

\* CopyEnd goes on as NextBucket says.
LEMMA GoesOnBucket ==
    ASSUME ControlInv, PlaceInv, NEW p \in Procs, pc[p] = "copied", NEW l, NEW m, GoesOn(p, l, m)
    PROVE  NextBucket(l, loc[p].src, loc[p].i, loc[p].end, m.i, m.src, TableLen(table))
<1>0. TablesOK BY DEF PlaceInv
<1>1. pc[p] \in Copying /\ pc[p] \in Moving BY DEF Copying, Moving
<1>2. BaseLen(p) = Base /\ loc[p].old = table /\ loc[p].src \in 0..TableLen(table) - 1
      /\ loc[p].i \in Nat /\ loc[p].end \in Nat
  BY <1>1, MoverFacts, ClaimFacts
<1>3. Base \in Nat /\ TableLen(table) \in Nat BY <1>0, BaseFacts, CountFacts
<1>4. PICK s \in Nat, i \in Nat, e \in Nat, n \in Nat, B \in Nat :
         s = loc[p].src /\ i = loc[p].i /\ e = loc[p].end /\ n = TableLen(table) /\ B = Base
  BY <1>2, <1>3
<1>5. \/ s + B < n /\ l = "copy" /\ m.i = i /\ m.src = s + B
      \/ s + B >= n /\ i + 1 < e /\ l = "copy" /\ m.i = i + 1 /\ m.src = i + 1
      \/ ~(s + B < n) /\ ~(s + B >= n /\ i + 1 < e) /\ l = "claim"
  BY <1>2, <1>4 DEF GoesOn
<1>6. QED BY <1>4, <1>5 DEF NextBucket

\* The bucket that was moved is the only one that is no longer pending.
LEMMA NextPending ==
    ASSUME TablesOK, NEW s \in Nat, NEW i \in Nat, NEW e \in Nat, NEW j, NEW u, NEW n \in Nat, NEW l,
           NextBucket(l, s, i, e, j, u, n), Class(s) = i, i < e, s < n, NEW b \in 0..n - 1
    PROVE  l = "copy" /\ j <= Class(b) /\ Class(b) < e /\ ~(Class(b) = j /\ b < u) <=>
              i <= Class(b) /\ Class(b) < e /\ ~(Class(b) = i /\ b < s) /\ b # s
<1>0. Base \in Nat \ {0} BY BaseFacts
<1>1. PICK c \in Nat : c = Class(b) /\ c <= b BY ClassFacts
<1>2. PICK B \in Nat \ {0} : B = Base BY <1>0
<1>3. ASSUME c = i, s <= b, b < s + B PROVE b = s
  <2>1. s % B = b % B BY <1>1, <1>2, <1>3 DEF Class
  <2>2. b \in Nat OBVIOUS
  <2>3. QED BY <1>2, <1>3, <2>1, <2>2, ModNear
<1>4. b = s => c = i BY <1>1
<1>5. CASE s + B < n /\ l = "copy" /\ j = i /\ u = s + B
  <2>1. CASE c # i BY <1>1, <1>4, <1>5, <2>1
  <2>2. CASE c = i /\ b < s BY <1>1, <1>5, <2>2
  <2>3. CASE c = i /\ s <= b /\ b < s + B BY <1>1, <1>3, <1>5, <2>3
  <2>4. CASE c = i /\ s + B <= b BY <1>1, <1>5, <2>4
  <2>5. QED BY <2>1, <2>2, <2>3, <2>4
<1>6. CASE n <= s + B /\ i + 1 < e /\ l = "copy" /\ j = i + 1 /\ u = i + 1
  <2>1. CASE c < i BY <1>1, <1>4, <1>6, <2>1
  <2>2. CASE c = i /\ b < s BY <1>1, <1>6, <2>2
  <2>3. CASE c = i /\ s <= b BY <1>1, <1>3, <1>6, <2>3
  <2>4. CASE i < c BY <1>1, <1>4, <1>6, <2>4
  <2>5. QED BY <2>1, <2>2, <2>3, <2>4
<1>7. CASE n <= s + B /\ e <= i + 1 /\ l = "claim"
  <2>1. CASE c < i BY <1>1, <1>4, <1>7, <2>1
  <2>2. CASE c = i /\ b < s BY <1>1, <1>7, <2>2
  <2>3. CASE c = i /\ s <= b BY <1>1, <1>3, <1>7, <2>3
  <2>4. CASE i < c BY <1>1, <1>4, <1>7, <2>4
  <2>5. QED BY <2>1, <2>2, <2>3, <2>4
<1>8. QED BY <1>1, <1>2, <1>5, <1>6, <1>7 DEF NextBucket

\* After a bucket has been moved, it and no other one counts as moved.
LEMMA MovedEnd ==
    ASSUME ControlInv, PlaceInv, NEW p \in Procs, pc[p] = "copied", NEW l, NEW m, GoesOn(p, l, m),
           SameLens, resizeIdx' = resizeIdx, NEW b \in 0..TableLen(table) - 1
    PROVE  Moved(b)' <=> Moved(b) \/ b = loc[p].src
<1>0. TablesOK /\ CallsOK /\ ClaimsOK BY DEF PlaceInv, DataInv
<1>1. pc[p] \in Copying BY DEF Copying
<1>2. PICK s \in Nat, i \in Nat, e \in Nat, n \in Nat :
         /\ s = loc[p].src /\ i = loc[p].i /\ e = loc[p].end /\ n = TableLen(table)
         /\ s < n /\ i < e /\ Class(s) = i /\ e <= resizeIdx
  BY <1>0, <1>1, ClaimFacts, CountFacts
<1>3. OthersSame(p) /\ pc'[p] = l /\ loc'[p] = m /\ m.end = e BY <1>0, <1>2, OwnCall DEF GoesOn
<1>4. NextBucket(l, s, i, e, m.i, m.src, n) BY <1>2, GoesOnBucket
<1>5. l \in {"copy", "claim"} BY <1>4 DEF NextBucket
<1>6. Class(b)' = Class(b) BY <1>0, SameBase
<1>7. Pending(p, b) <=> i <= Class(b) /\ Class(b) < e /\ ~(Class(b) = i /\ b < s)
  BY <1>1, <1>2 DEF Pending
<1>8. Pending(p, b)' <=> l = "copy" /\ m.i <= Class(b) /\ Class(b) < e /\ ~(Class(b) = m.i /\ b < m.src)
  BY <1>3, <1>5, <1>6 DEF Pending, Copying
<1>9. Pending(p, b)' <=> Pending(p, b) /\ b # s
  <2>1. b \in 0..n - 1 BY <1>2
  <2>2. PICK j, u : j = m.i /\ u = m.src OBVIOUS
  <2>3. NextBucket(l, s, i, e, j, u, n) /\ Class(s) = i /\ i < e /\ s < n BY <1>2, <1>4, <2>2
  <2>4. l = "copy" /\ j <= Class(b) /\ Class(b) < e /\ ~(Class(b) = j /\ b < u) <=>
           i <= Class(b) /\ Class(b) < e /\ ~(Class(b) = i /\ b < s) /\ b # s
    BY <1>0, <2>1, <2>3, NextPending
  <2>5. QED BY <1>7, <1>8, <2>2, <2>4
<1>10. ASSUME NEW q \in Procs \ {p} PROVE Pending(q, b)' <=> Pending(q, b)
  BY <1>0, <1>3, OtherPending DEF OthersSame
<1>11. ASSUME NEW q \in Procs \ {p}, Pending(q, s) PROVE FALSE
  <2>1. pc[q] \in Copying /\ loc[q].i <= i /\ i < loc[q].end BY <1>2, <1>11 DEF Pending
  <2>2. loc[p].end <= loc[q].i \/ loc[q].end <= loc[p].i BY <1>0, <1>1, <2>1 DEF ClaimsOK
  <2>3. loc[q].i \in Nat /\ loc[q].end \in Nat BY <2>1, ClaimFacts
  <2>4. QED BY <1>2, <2>1, <2>2, <2>3
<1>12. Class(s) < resizeIdx BY <1>0, <1>2, CountFacts
<1>13. Moved(b)' <=> Class(b) < resizeIdx /\ ~Pending(p, b)' /\ \A q \in Procs \ {p} : ~Pending(q, b)
  BY <1>6, <1>10 DEF Moved
<1>14. Moved(b) <=> Class(b) < resizeIdx /\ ~Pending(p, b) /\ \A q \in Procs \ {p} : ~Pending(q, b)
  BY DEF Moved
<1>15. CASE b = s BY <1>2, <1>9, <1>11, <1>12, <1>13, <1>15
<1>16. CASE b # s BY <1>2, <1>9, <1>13, <1>14, <1>16
<1>17. QED BY <1>15, <1>16

\* The claims after a bucket has been moved.
LEMMA ClaimsEnd ==
    ASSUME ControlInv, PlaceInv, NEW p \in Procs, pc[p] = "copied", NEW l, NEW m, GoesOn(p, l, m),
           SameLens, resizeIdx' = resizeIdx
    PROVE  ClaimsOK'
<1>0. TablesOK /\ CallsOK /\ ClaimsOK BY DEF PlaceInv, DataInv
<1>1. pc[p] \in Copying BY DEF Copying
<1>a. PICK s \in Nat, i \in Nat, e \in Nat, n \in Nat :
         /\ s = loc[p].src /\ i = loc[p].i /\ e = loc[p].end /\ n = TableLen(table)
         /\ s < n /\ i < e /\ Class(s) = i /\ e <= Base /\ e <= resizeIdx
         /\ Count = table + 1 /\ loc[p].old = table /\ loc[p].new = Count
  BY <1>0, <1>1, ClaimFacts, CountFacts
<1>c. PICK B \in Nat \ {0} : B = Base BY <1>0, BaseFacts
<1>2. /\ s \in Nat /\ i \in Nat /\ e \in Nat /\ n \in Nat /\ B \in Nat \ {0}
      /\ s = loc[p].src /\ i = loc[p].i /\ e = loc[p].end /\ n = TableLen(table) /\ B = Base
      /\ s < n /\ i < e /\ Class(s) = i /\ e <= B /\ e <= resizeIdx
      /\ Count = table + 1 /\ loc[p].old = table /\ loc[p].new = Count
  BY <1>a, <1>c
<1>b. B <= n BY <1>0, <1>2, BaseFacts
<1>3. /\ OthersSame(p) /\ pc'[p] = l /\ loc'[p] = m /\ m.end = e /\ m.old = table /\ m.new = Count
  BY <1>0, <1>2, OwnCall DEF GoesOn, KeepS
<1>4. NextBucket(l, s, i, e, m.i, m.src, n) BY <1>2, GoesOnBucket
<1>5. ASSUME l \in Copying
      PROVE  m.i \in Nat /\ i <= m.i /\ m.i < e /\ m.src \in 0..n - 1 /\ Class(m.src) = m.i
  <2>1. CASE s + B < n /\ m.i = i /\ m.src = s + B
    <3>1. Class(s + B) = Class(s) BY <1>2, ModAdd DEF Class
    <3>2. QED BY <1>2, <2>1, <3>1
  <2>2. CASE n <= s + B /\ i + 1 < e /\ m.i = i + 1 /\ m.src = i + 1
    <3>1. i + 1 \in 0..B - 1 BY <1>2, <2>2
    <3>2. Class(i + 1) = i + 1 BY <1>2, <3>1, ModSmall DEF Class
    <3>3. QED BY <1>2, <1>b, <2>2, <3>1, <3>2
  <2>3. QED BY <1>2, <1>4, <1>5, <2>1, <2>2 DEF NextBucket, Copying
<1>6. ClaimOK(p)'
  <2>1. Base' = Base /\ Count' = Count /\ table' = table BY <1>0, SameBase DEF SameLens
  <2>2. TableLen(table)' = TableLen(table)
    <3>1. PICK t \in 1..Count : t = table BY <1>0, CountFacts
    <3>2. TableLen(table)' = TableLen(t)' BY <2>1, <3>1 DEF TableLen
    <3>3. QED BY <3>1, <3>2 DEF SameLens
  <2>3. Class(loc[p].src)' = Class(m.src) BY <1>3, <2>1 DEF Class
  <2>4. QED BY <1>2, <1>3, <1>5, <2>1, <2>2, <2>3 DEF ClaimOK
<1>7. ASSUME NEW q \in Procs PROVE ClaimOK(q)'
  <2>1. CASE q = p BY <1>6, <2>1
  <2>2. CASE q # p BY <1>3, <2>2, SameClaim DEF OthersSame
  <2>3. QED BY <2>1, <2>2
<1>8. ASSUME NEW q \in Procs \ {p}, pc'[q] \in Copying, pc'[p] \in Copying
      PROVE  loc'[q].end <= loc'[p].i \/ loc'[p].end <= loc'[q].i
  <2>1. pc[q] \in Copying /\ loc'[q] = loc[q] BY <1>3, <1>8 DEF OthersSame
  <2>2. loc[p].end <= loc[q].i \/ loc[q].end <= loc[p].i BY <1>0, <1>1, <2>1 DEF ClaimsOK
  <2>3. loc[q].i \in Nat /\ loc[q].end \in Nat BY <2>1, ClaimFacts
  <2>4. QED BY <1>2, <1>3, <1>5, <1>8, <2>1, <2>2, <2>3
<1>9. ASSUME NEW q \in Procs, NEW r \in Procs, q # r, pc'[q] \in Copying, pc'[r] \in Copying
      PROVE  loc'[q].end <= loc'[r].i \/ loc'[r].end <= loc'[q].i
  <2>1. CASE q # p /\ r # p BY <1>0, <1>3, <1>9, <2>1 DEF OthersSame, ClaimsOK
  <2>2. CASE q = p \/ r = p BY <1>8, <1>9, <2>2
  <2>3. QED BY <2>1, <2>2
<1>10. QED BY <1>7, <1>9 DEF ClaimsOK

\* A key has the same class in both tables.
LEMMA SameClass ==
    ASSUME PlaceInv, Count = table + 1, NEW k \in Keys
    PROVE  Class(BucketOf(k, TableLen(Count))) = Class(BucketOf(k, TableLen(table)))
<1>0. TablesOK /\ BuildOK BY DEF PlaceInv, StageInv
<1>1. PICK x \in Nat, m \in Nat \ {0}, n \in Nat \ {0} : x = hash.h1[k] /\ m = TableLen(table) /\ n = TableLen(Count)
  BY <1>0, CountFacts, HashFacts
<1>2. m = 2 * n \/ n = 2 * m BY <1>0, <1>1 DEF BuildOK
<1>3. Prev = table BY <1>0, BaseFacts
<1>4. Base = IF m < n THEN m ELSE n BY <1>1, <1>3 DEF Base
<1>5. CASE m = 2 * n
  <2>1. Base = n BY <1>1, <1>4, <1>5
  <2>2. (x % m) % n = x % n BY <1>1, <1>5, ModHalf
  <2>3. (x % n) % n = x % n
    <3>1. x % n \in 0..n - 1 BY <1>1, ModLe
    <3>2. QED BY <1>1, <3>1, ModSmall
  <2>4. QED BY <1>1, <2>1, <2>2, <2>3 DEF Class, BucketOf
<1>6. CASE n = 2 * m
  <2>1. Base = m BY <1>1, <1>4, <1>6
  <2>2. (x % n) % m = x % m BY <1>1, <1>6, ModHalf
  <2>3. (x % m) % m = x % m
    <3>1. x % m \in 0..m - 1 BY <1>1, ModLe
    <3>2. QED BY <1>1, <3>1, ModSmall
  <2>4. QED BY <1>1, <2>1, <2>2, <2>3 DEF Class, BucketOf
<1>7. QED BY <1>2, <1>5, <1>6

\* What a step that has moved a bucket does to the tables.
LEMMA CopyEndTables ==
    ASSUME ControlInv, PlaceInv, NEW p \in Procs, CopyEnd(p)
    PROVE  /\ Moving2(table, loc[p].src, Count, loc[p].copy) /\ Mu(table, loc[p].src) = p
           /\ DOMAIN loc[p].copy = Dests(p)
           /\ \A d \in Dests(p) : Merged(loc[p].copy[d], C(Count, d), C(table, loc[p].src), d, TableLen(Count))
           /\ SameLens /\ TablesOK'
           /\ pc[p] = "copied" /\ UNCHANGED <<hash, table, resizeIdx, ctl, nextTable>>
           /\ \E l, m : GoesOn(p, l, m)
<1>0. TablesOK /\ LocksOK /\ CopyOK(p) /\ Shape BY DEF PlaceInv, DataInv, CopiesOK, ControlInv
<1>1. /\ pc[p] = "copied" /\ UNCHANGED <<hash, table, resizeIdx, ctl, nextTable>>
      /\ Moves(p) /\ \E l, m : GoesOn(p, l, m)
  BY <1>0, CopyEndDoes
<1>2. pc[p] \in Copying BY <1>1 DEF Copying
<1>3. PICK t, n, s :
         /\ t \in 1..Count /\ n \in 1..Count
         /\ t = table /\ n = Count /\ s = loc[p].src /\ t # n
         /\ s \in 0..TableLen(t) - 1 /\ loc[p].old = t /\ loc[p].new = n
         /\ Dests(p) \subseteq 0..TableLen(n) - 1
  BY <1>2, MoveFacts
<1>4. PICK f : f = loc[p].copy OBVIOUS
<1>5. DOMAIN f = Dests(p) /\ \A d \in Dests(p) : Merged(f[d], C(n, d), C(t, s), d, TableLen(n))
  BY <1>0, <1>1, <1>3, <1>4 DEF CopyOK
<1>6. \A d \in DOMAIN f : f[d] \in Seq(Slots) BY <1>5 DEF Merged
<1>7. MovesTo(t, s, n, f) BY <1>1, <1>3, <1>4 DEF Moves, MovesTo, Filled, C
<1>8. TabsOK BY <1>0 DEF TablesOK
<1>9. Moving2(t, s, n, f) BY <1>3, <1>5, <1>6, <1>7, <1>8, MovesDoes
<1>10. SameLens BY <1>1, <1>9 DEF SameLens, Moving2
<1>11. TablesOK' BY <1>0, <1>1, <1>9 DEF TablesOK, Moving2
<1>12. Mu(t, s) = p BY <1>0, <1>1, <1>3 DEF LocksOK
<1>13. QED BY <1>1, <1>3, <1>4, <1>5, <1>9, <1>10, <1>11, <1>12

\* The new table holds the entries of the bucket that was moved.
LEMMA CopiedEnd ==
    ASSUME ControlInv, PlaceInv, NEW p \in Procs, CopyEnd(p) PROVE CopiedOK'
<1>0. TablesOK /\ CopiedOK /\ ChainsOK BY DEF PlaceInv, DataInv, CopiesOK
<1>1. /\ Moving2(table, loc[p].src, Count, loc[p].copy) /\ DOMAIN loc[p].copy = Dests(p)
      /\ \A d \in Dests(p) : Merged(loc[p].copy[d], C(Count, d), C(table, loc[p].src), d, TableLen(Count))
      /\ SameLens /\ TablesOK' /\ pc[p] = "copied" /\ resizeIdx' = resizeIdx
  BY CopyEndTables
<1>g. PICK l, m : GoesOn(p, l, m) BY CopyEndTables
<1>2. pc[p] \in Copying BY <1>1 DEF Copying
<1>3. PICK n, u, s :
         /\ n \in 1..Count /\ u \in 1..Count
         /\ n = Count /\ u = table /\ s = loc[p].src /\ u # n
         /\ s \in 0..TableLen(u) - 1 /\ Count = table + 1
         /\ Dests(p) = {d \in 0..TableLen(n) - 1 : Class(d) = loc[p].i}
         /\ ChainOK(C(u, s), s, TableLen(u))
  BY <1>2, MoveFacts
<1>4. PICK f : f = loc[p].copy OBVIOUS
<1>5. Class(s) = loc[p].i BY <1>2, <1>3, ClaimFacts
<1>6. Count' = Count /\ table' = table /\ hash' = hash BY <1>1 DEF SameLens
<1>7. SUFFICES ASSUME NEW k \in Keys, NEW v \in Values
               PROVE  In(C(Count, BucketOf(k, TableLen(Count))), k, v)' <=>
                           /\ Moved(BucketOf(k, TableLen(table)))'
                           /\ In(C(table, BucketOf(k, TableLen(table))), k, v)'
  BY DEF CopiedOK
<1>8. PICK d, e : d = BucketOf(k, TableLen(n)) /\ e = BucketOf(k, TableLen(u)) OBVIOUS
<1>9. d \in 0..TableLen(n) - 1 /\ e \in 0..TableLen(u) - 1 BY <1>0, <1>3, <1>8, CountFacts, BucketIn
<1>10. BucketOf(k, TableLen(Count))' = d /\ BucketOf(k, TableLen(table))' = e
  <2>1. TableLen(Count)' = TableLen(n)' /\ TableLen(table)' = TableLen(u)' BY <1>3, <1>6 DEF TableLen
  <2>2. TableLen(n)' = TableLen(n) /\ TableLen(u)' = TableLen(u) BY <1>1, <1>3 DEF SameLens
  <2>3. QED BY <1>6, <1>8, <2>1, <2>2 DEF BucketOf
<1>11. In(C(n, d), k, v) <=> Moved(e) /\ In(C(u, e), k, v) BY <1>0, <1>3, <1>8 DEF CopiedOK
<1>12. C(u, e)' = C(u, e) BY <1>1, <1>3, <1>9 DEF Moving2
<1>13. d \in Dests(p) => C(n, d)' = f[d] BY <1>1, <1>3, <1>4, <1>9 DEF Moving2
<1>14. d \notin Dests(p) => C(n, d)' = C(n, d) BY <1>1, <1>3, <1>4, <1>9 DEF Moving2
<1>15. Moved(e)' <=> Moved(e) \/ e = s
  BY <1>1, <1>g, <1>3, <1>9, MovedEnd
<1>16. Class(d) = Class(e) BY <1>3, <1>8, SameClass
<1>17. In(C(u, s), k, v) => e = s BY <1>3, <1>7, <1>8, XsyncAssumption DEF In, ChainOK
<1>18. In(C(n, d)', k, v) <=> Moved(e)' /\ In(C(u, e), k, v)
  <2>1. CASE d \in Dests(p)
    <3>1. Merged(f[d], C(n, d), C(u, s), d, TableLen(n)) BY <1>1, <1>3, <1>4, <2>1
    <3>2. In(f[d], k, v) <=> In(C(n, d), k, v) \/ In(C(u, s), k, v) BY <1>8, <3>1 DEF Merged
    <3>3. QED BY <1>11, <1>13, <1>15, <1>17, <2>1, <3>2
  <2>2. CASE d \notin Dests(p)
    <3>1. e # s BY <1>3, <1>5, <1>9, <1>16, <2>2
    <3>2. QED BY <1>11, <1>14, <1>15, <2>2, <3>1
  <2>3. QED BY <2>1, <2>2
<1>19. In(C(Count, BucketOf(k, TableLen(Count))), k, v)' <=> In(C(n, d)', k, v)
  BY <1>3, <1>6, <1>10 DEF In, C
<1>20. In(C(table, BucketOf(k, TableLen(table))), k, v)' <=> In(C(u, e)', k, v)
  BY <1>3, <1>6, <1>10 DEF In, C
<1>21. Moved(BucketOf(k, TableLen(table)))' <=> Moved(e)'
  BY <1>10 DEF Moved, Pending, Class
<1>22. QED BY <1>12, <1>18, <1>19, <1>20, <1>21

\* Two goroutines that move buckets have no destination in common.
LEMMA DestsApart ==
    ASSUME ControlInv, PlaceInv, NEW p \in Procs, pc[p] \in Copying, NEW q \in Procs \ {p}, pc[q] \in Copying,
           NEW d \in Dests(p)
    PROVE  d \notin Dests(q)
<1>0. ClaimsOK BY DEF PlaceInv, DataInv
<1>1. loc[p].i = Class(d) BY MoveFacts
<1>2. d \in Dests(q) => loc[q].i = Class(d) BY MoveFacts
<1>3. loc[p].end <= loc[q].i \/ loc[q].end <= loc[p].i BY <1>0 DEF ClaimsOK
<1>4. /\ loc[p].i \in Nat /\ loc[p].end \in Nat /\ loc[p].i < loc[p].end
      /\ loc[q].i \in Nat /\ loc[q].end \in Nat /\ loc[q].i < loc[q].end
  BY ClaimFacts
<1>5. QED BY <1>1, <1>2, <1>3, <1>4

\* A bucket has been moved.
LEMMA CopyEndPlace ==
    ASSUME ControlInv, PlaceInv, NEW p \in Procs, CopyEnd(p) PROVE PlaceInv'
<1>0. TablesOK /\ CallsOK /\ StageInv /\ DataInv /\ Shape BY DEF PlaceInv, ControlInv
<1>1. /\ Moving2(table, loc[p].src, Count, loc[p].copy) /\ Mu(table, loc[p].src) = p
      /\ DOMAIN loc[p].copy = Dests(p)
      /\ \A d \in Dests(p) : Merged(loc[p].copy[d], C(Count, d), C(table, loc[p].src), d, TableLen(Count))
      /\ SameLens /\ TablesOK'
      /\ pc[p] = "copied" /\ UNCHANGED <<hash, table, resizeIdx, ctl, nextTable>>
  BY CopyEndTables
<1>2. PICK l, m : GoesOn(p, l, m) BY CopyEndTables
<1>3. Own(p, l, m) /\ KeepS(m, loc[p]) /\ l \in {"copy", "claim"} BY <1>2 DEF GoesOn
<1>c. pc[p] \in Copying /\ pc[p] \in Moving BY <1>1 DEF Copying, Moving
<1>4. /\ OthersSame(p) /\ call' = [q \in Procs |-> call'[q]]
      /\ pc'[p] = l /\ loc'[p] = m /\ call'[p] = call[p] /\ CallOK(p)
  BY <1>0, <1>3, OwnCall
<1>t. table \in Nat BY <1>0, CountFacts
<1>8. CallsOK'
  <2>1. pc[p] \notin Reading \cup {"idle", "table", "range", "return"} BY <1>1 DEF Reading
  <2>2. l \notin UsesTable \cup {"idle"} \cup Writing BY <1>3 DEF UsesTable, Reading, Writing
  <2>3. LabelOK(l, call[p], m.tbl) BY <1>0, <2>1, <2>2, ResizeLabel
  <2>4. CallOK(p)' BY <1>0, <1>1, <1>t, <1>4, <2>2, <2>3, LabelCall
  <2>5. QED BY <1>0, <1>1, <1>t, <1>4, <2>4, OthersCalls
<1>9. StageInv'
  <2>1. l \in Moving BY <1>3 DEF Moving
  <2>2. QED BY <1>1, <1>3, <1>c, <2>1, MoveStage
<1>10. ClaimsOK' BY <1>1, <1>2, ClaimsEnd
<1>11. CopiedOK' BY CopiedEnd
<1>12. PICK t, n, s :
         /\ t \in 1..Count /\ n \in 1..Count
         /\ t = table /\ n = Count /\ s = loc[p].src /\ t # n
         /\ s \in 0..TableLen(t) - 1 /\ Count = table + 1
         /\ Dests(p) \subseteq 0..TableLen(n) - 1 /\ ChainOK(C(t, s), s, TableLen(t))
  BY <1>c, MoveFacts
<1>f. PICK f : f = loc[p].copy OBVIOUS
<1>13. PICK W : W = {<<t, s>>} \cup {<<n, d>> : d \in Dests(p)} OBVIOUS
<1>14. \A u, d : <<u, d>> \in W <=> (u = t /\ d = s) \/ (u = n /\ d \in Dests(p)) BY <1>13
<1>15. Frame(p, W)
  <2>1. \A q \in Procs \ {p} : Kept(q) BY <1>4 DEF OthersSame, Kept
  <2>2. Alone(p, t, s) BY <1>1, <1>12, <1>t DEF Alone
  <2>3. ASSUME NEW d \in Dests(p) PROVE Alone(p, n, d)
    <3>1. \A q \in Procs \ {p} : pc[q] = "copied" => d \notin Dests(q)
      BY <1>c, <2>3, DestsApart DEF Copying
    <3>2. QED BY <1>12, <3>1 DEF Alone
  <2>4. ASSUME NEW u \in 1..Count, NEW d \in 0..TableLen(u) - 1, <<u, d>> \notin W
        PROVE  C(u, d)' = C(u, d) /\ Mu(u, d)' = Mu(u, d)
    BY <1>1, <1>12, <1>14, <2>4 DEF Moving2
  <2>5. ASSUME NEW u \in 1..Count, NEW d \in 0..TableLen(u) - 1, <<u, d>> \in W
        PROVE  Alone(p, u, d)
    BY <1>14, <2>2, <2>3, <2>5
  <2>6. QED BY <1>1, <2>1, <2>4, <2>5 DEF Frame
<1>16. AllTidy(C(t, s))
  <2>1. pc[p] \notin Writing BY <1>1 DEF Writing
  <2>2. QED BY <1>1, <1>12, <2>1, NoTouch
<1>17. C(t, s)' = C(t, s) BY <1>1, <1>12 DEF Moving2
<1>18. ASSUME NEW d \in Dests(p)
       PROVE  ChainOK(C(n, d)', d, TableLen(n)) /\ AllTidy(C(n, d)')
  <2>1. C(n, d)' = f[d] BY <1>1, <1>12, <1>f DEF Moving2
  <2>2. Merged(f[d], C(n, d), C(t, s), d, TableLen(n)) BY <1>1, <1>12, <1>f
  <2>3. QED BY <2>1, <2>2 DEF Merged
<1>19. ASSUME NEW u \in 1..Count, NEW d \in 0..TableLen(u) - 1, <<u, d>> \in W
       PROVE  ChainOK(C(u, d)', d, TableLen(u)) /\ AllTidy(C(u, d)')
  <2>1. CASE u = t /\ d = s BY <1>12, <1>16, <1>17, <2>1
  <2>2. CASE u = n /\ d \in Dests(p) BY <1>18, <2>2
  <2>3. QED BY <1>14, <1>19, <2>1, <2>2
<1>20. FrameOK(p, W)
  <2>1. pc[p] \notin {"insert.entry", "delete.entry"} /\ pc'[p] \notin Writing /\ pc'[p] # "copied"
    BY <1>1, <1>3, <1>4 DEF Writing
  <2>2. \A d \in 0..TableLen(table) - 1 : Moved(d)' => Moved(d) \/ Mu(table, d) = p
    BY <1>1, <1>2, MovedEnd
  <2>3. CopyOK(p)' BY <2>1 DEF CopyOK
  <2>4. QED BY <1>19, <2>1, <2>2, <2>3 DEF FrameOK, AllTidy
<1>21. DataInv' BY <1>0, <1>10, <1>11, <1>15, <1>20, FrameData
<1>22. QED BY <1>1, <1>8, <1>9, <1>21 DEF PlaceInv

-----------------------------------------------------------------------------
(* A new table, and its publication.                                        *)

\* A new table is in order.
LEMMA NewTableOf ==
    ASSUME NEW n \in Nat \ {0} PROVE NewTable(n) \in TablesOf(n)
<1>1. [b \in 0..n - 1 |-> EmptyBucket] \in [0..n - 1 -> Seq(Slots)] BY EmptyFacts
<1>2. [b \in 0..n - 1 |-> Nobody] \in [0..n - 1 -> Procs \cup {Nobody}] OBVIOUS
<1>3. QED BY <1>1, <1>2 DEF NewTable, TablesOf

\* A table is appended.
LEMMA MakeTable ==
    ASSUME TabsOK, NEW n \in Nat \ {0}, LenOK(n), tables' = Append(tables, NewTable(n))
    PROVE  Made(n)
<1>0. Count \in Nat BY DEF TabsOK, Count
<1>1. PICK c \in Nat : c = Count /\ c = Len(tables) BY <1>0 DEF Count
<1>2. PICK S : tables \in Seq(S) BY DEF TabsOK
<1>3. PICK r : r = NewTable(n) OBVIOUS
<1>4. /\ Len(tables') = c + 1 /\ tables'[c + 1] = r /\ \A u \in 1..c : tables'[u] = tables[u]
      /\ tables' = [u \in 1..c + 1 |-> tables'[u]]
  <2>1. PICK X : X = S \cup {r} OBVIOUS
  <2>2. tables \in Seq(X) /\ r \in X BY <1>2, <2>1
  <2>3. Append(tables, r) \in Seq(X) BY <2>2, AppendProperties
  <2>4. /\ Len(tables') = c + 1 /\ tables'[c + 1] = r /\ \A u \in 1..c : tables'[u] = tables[u]
        /\ tables' \in Seq(X)
    BY <1>1, <1>3, <2>2, <2>3, AppendProperties
  <2>5. tables' \in [1..c + 1 -> X] BY <2>4, LenProperties
  <2>6. QED BY <2>4, <2>5
<1>5. r \in TablesOf(n) BY <1>3, NewTableOf
<1>6. ASSUME NEW u \in 1..c + 1 PROVE \E m \in Nat \ {0} : LenOK(m) /\ tables'[u] \in TablesOf(m)
  <2>1. CASE u = c + 1 BY <1>4, <1>5, <2>1
  <2>2. CASE u # c + 1
    <3>1. u \in 1..Count BY <1>1, <2>2
    <3>2. QED BY <1>1, <1>4, <3>1 DEF TabsOK
  <2>3. QED BY <2>1, <2>2
<1>7. TabsOK' /\ Count' = c + 1 BY <1>4, <1>6, TabsNext
<1>8. \A u \in 1..c : TableLen(u)' = TableLen(u) BY <1>4 DEF TableLen
<1>9. ASSUME NEW u, u = c + 1
      PROVE  /\ TableLen(u)' = n /\ tables'[u] = r
             /\ \A d \in 0..n - 1 : C(u, d)' = EmptyBucket /\ Mu(u, d)' = Nobody
  <2>1. tables'[u] = r BY <1>4, <1>9
  <2>2. r.chains = [b \in 0..n - 1 |-> EmptyBucket] /\ r.mu = [b \in 0..n - 1 |-> Nobody]
    BY <1>3 DEF NewTable
  <2>3. DOMAIN r.chains = 0..n - 1 BY <2>2
  <2>4. TableLen(u)' = n BY <2>1, <2>3, IntervalLen DEF TableLen
  <2>5. QED BY <2>1, <2>2, <2>4 DEF C, Mu
<1>10. QED BY <1>1, <1>3, <1>4, <1>7, <1>8, <1>9 DEF Made

\* Before the owner makes the new table, there is none, and nobody moves buckets.
LEMMA NewFacts ==
    ASSUME ControlInv, PlaceInv, NEW p \in Procs, pc[p] = "resize.new"
    PROVE  /\ Count = table /\ nextTable = NoTable
           /\ \A q \in Procs : /\ ~Registered(q) /\ ~HasTable(q) /\ ~Builds(q)
                               /\ pc[q] \notin Copying
                               /\ q # p => pc[q] \notin {"resize.new", "resize.publish"}
<1>1. Owns(p) /\ pc[p] \in Offering BY DEF Owns, Offering
<1>2. nextTable = NoTable /\ \A q \in Procs : ~HasTable(q) /\ ~Registered(q)
  BY <1>1 DEF ControlInv, OfferInv
<1>3. ASSUME NEW q \in Procs, Owns(q) PROVE q = p BY <1>1, <1>3 DEF ControlInv, OwnerInv
<1>4. ASSUME NEW q \in Procs
      PROVE  ~Builds(q) /\ pc[q] \notin Copying /\ (q # p => pc[q] \notin {"resize.new", "resize.publish"})
  <2>1. CASE Owns(q)
    <3>1. pc[q] = "resize.new" /\ q = p BY <1>3, <2>1
    <3>2. QED BY <3>1 DEF Builds, Copying, Moving
  <2>2. CASE ~Owns(q)
    <3>1. ~Builds(q) BY <2>2 DEF Builds, Owns, Offering, Finishing
    <3>2. pc[q] \notin Copying BY <1>2, <2>2 DEF Owns, Registered, Copying, Moving
    <3>3. pc[q] \notin {"resize.new", "resize.publish"} BY <2>2 DEF Owns, Offering, Finishing
    <3>4. QED BY <3>1, <3>2, <3>3
  <2>3. QED BY <2>1, <2>2
<1>5. Count = table BY <1>4 DEF PlaceInv, StageInv, BuildOK
<1>6. QED BY <1>2, <1>4, <1>5

\* The resize after the new table has been made.
LEMMA NewStage ==
    ASSUME ControlInv, PlaceInv, NEW p \in Procs, pc[p] = "resize.new", NEW n \in Nat, Made(n),
           n = 2 * TableLen(table) \/ TableLen(table) = 2 * n, UNCHANGED <<table, ctl, nextTable>>,
           OthersSame(p), pc'[p] = "resize.next", loc'[p].old = table, loc'[p].new = Count + 1
    PROVE  StageInv'
<1>0. TablesOK /\ HelpsOK BY DEF PlaceInv, StageInv
<1>1. /\ Count = table /\ nextTable = NoTable
      /\ \A q \in Procs : /\ ~Registered(q) /\ ~HasTable(q) /\ ~Builds(q)
                          /\ pc[q] \notin Copying
                          /\ q # p => pc[q] \notin {"resize.new", "resize.publish"}
  BY NewFacts
<1>2. PICK c \in Nat \ {0} : c = Count /\ c = table /\ Count' = c + 1 /\ table' = c
  BY <1>0, <1>1, CountFacts DEF Made
<1>3. \A q \in Procs \ {p} : pc'[q] = pc[q] /\ loc'[q] = loc[q] BY DEF OthersSame
<1>4. Builds(p)' /\ Opens(p)' /\ ~Registered(p)' BY DEF Builds, Opens, Registered
<1>5. \A q \in Procs \ {p} : ~Builds(q)' /\ ~Registered(q)' BY <1>1, <1>3 DEF Builds, Registered
<1>6. BuildOK'
  <2>1. TableLen(Count)' = n
    <3>1. PICK u : u = c + 1 OBVIOUS
    <3>2. TableLen(Count)' = TableLen(u)' BY <1>2, <3>1 DEF TableLen
    <3>3. QED BY <1>2, <3>1, <3>2 DEF Made
  <2>2. TableLen(table)' = TableLen(table)
    <3>1. TableLen(table)' = TableLen(c)' BY <1>2 DEF TableLen
    <3>2. c \in 1..Count BY <1>2
    <3>3. QED BY <1>2, <3>1, <3>2 DEF Made
  <2>3. QED BY <1>1, <1>2, <1>4, <1>5, <2>1, <2>2 DEF BuildOK
<1>7. HelpsOK'
  <2>1. HelpOK(p)' BY <1>4 DEF HelpOK
  <2>2. ASSUME NEW q \in Procs \ {p} PROVE HelpOK(q)'
    <3>1. HelpOK(q) BY <1>0 DEF HelpsOK
    <3>2. pc'[q] = pc[q] /\ loc'[q] = loc[q] /\ ~Registered(q)' BY <1>3, <1>5
    <3>3. \A r \in Procs : pc'[r] # "resize.new" BY <1>1, <1>3
    <3>4. /\ pc[q] = "help.join" => loc[q].seq # ctl.seq
          /\ pc[q] = "help.check" /\ loc[q].new # NoTable => loc[q].seq # ctl.seq
      BY <1>1 DEF HasTable
    <3>5. ASSUME pc[q] = "help.next", loc[q].seq = ctl.seq PROVE loc[q].old = c
      <4>1. \E r \in Procs : pc[r] = "resize.new" OBVIOUS
      <4>2. QED BY <1>2, <3>1, <3>5, <4>1 DEF HelpOK
    <3>6. QED BY <1>2, <3>1, <3>2, <3>3, <3>4, <3>5 DEF HelpOK
  <2>3. QED BY <2>1, <2>2 DEF HelpsOK
<1>8. DoneOK'
  <2>1. \A q \in Procs : pc'[q] # "resize.publish" BY <1>1, <1>3
  <2>2. QED BY <1>4, <2>1 DEF DoneOK
<1>9. QED BY <1>6, <1>7, <1>8 DEF StageInv

\* An empty bucket is in order, and holds nothing.
LEMMA EmptyOK ==
    ASSUME NEW b, NEW n
    PROVE  /\ ChainOK(EmptyBucket, b, n) /\ AllTidy(EmptyBucket)
           /\ \A k \in Keys, v \in Values : ~In(EmptyBucket, k, v)
<1>1. \A i \in DOMAIN EmptyBucket : EmptyBucket[i] = EmptySlot BY EmptyFacts
<1>2. EmptySlot.key = Absent /\ EmptySlot.meta = 0 BY EmptyFacts
<1>3. Absent \notin Keys BY XsyncAssumption
<1>4. QED BY <1>1, <1>2, <1>3 DEF ChainOK, AllTidy, Tidy, In

\* Nothing has been moved to a table that has just been made.
LEMMA NothingMoved ==
    ASSUME TablesOK, NEW n \in Nat \ {0}, Made(n), Count = table, table' = table, resizeIdx' = 0, NEW b \in Nat
    PROVE  ~Moved(b)'
<1>1. PICK c \in Nat \ {0} : c = Count /\ c \in 1..Count /\ TableLen(c) \in Nat \ {0} /\ Count' = c + 1
  BY CountFacts DEF Made
<1>2. Prev' = c BY <1>1 DEF Prev
<1>3. TableLen(Prev)' = TableLen(c)
  <2>1. TableLen(Prev)' = TableLen(c)' BY <1>2 DEF TableLen
  <2>2. QED BY <1>1, <2>1 DEF Made
<1>4. TableLen(Count)' = n
  <2>1. PICK u : u = c + 1 OBVIOUS
  <2>2. TableLen(Count)' = TableLen(u)' BY <1>1, <2>1 DEF TableLen
  <2>3. QED BY <1>1, <2>1, <2>2 DEF Made
<1>5. Base' \in Nat \ {0} BY <1>1, <1>3, <1>4 DEF Base
<1>6. PICK B \in Nat \ {0} : B = Base' BY <1>5
<1>7. PICK x : x = b % B OBVIOUS
<1>8. x \in 0..B - 1 BY <1>6, <1>7, ModLe
<1>a. Class(b)' = x BY <1>6, <1>7 DEF Class
<1>9. ~(Class(b)' < resizeIdx') BY <1>8, <1>a
<1>10. QED BY <1>9 DEF Moved

\* A writer that goes on, when tables are added or published.
LEMMA WriterOn ==
    ASSUME NEW q \in Procs, hash' = hash, pc'[q] = pc[q], loc'[q] = loc[q], call'[q] = call[q],
           Chain(q)' = Chain(q), WriterOK(q),
           pc[q] \in Writing \ {"newer"} => loc[q].tbl = table',
           pc[q] \in Writing /\ loc[q].tbl = table' /\ Count' = table' + 1 => ~Moved(Bidx(q))'
    PROVE  WriterOK(q)'
<1>1. HasKey(Chain(q), call[q].key)' <=> HasKey(Chain(q), call[q].key) BY DEF HasKey
<1>2. ASSUME NEW s \in DOMAIN Chain(q)
      PROVE  Holds(Chain(q)[s], call[q].key)' <=> Holds(Chain(q)[s], call[q].key)
  BY <1>2 DEF Holds
<1>3. QED BY <1>1, <1>2 DEF WriterOK, Holds

\* The entries after a new table has been made.
LEMMA NewData ==
    ASSUME ControlInv, PlaceInv, NEW p \in Procs, pc[p] = "resize.new", NEW n \in Nat \ {0}, Made(n),
           UNCHANGED <<hash, table>>, resizeIdx' = 0, OthersSame(p), pc'[p] = "resize.next"
    PROVE  DataInv'
<1>0. TablesOK /\ CallsOK /\ DataInv BY DEF PlaceInv
<1>1. Count = table /\ \A q \in Procs : pc[q] \notin Copying BY NewFacts
<1>2. PICK c \in Nat \ {0} : c = Count /\ c = table /\ Count' = c + 1 /\ table' = c
  BY <1>0, <1>1, CountFacts DEF Made
<1>3. \A q \in Procs \ {p} : pc'[q] = pc[q] /\ loc'[q] = loc[q] /\ call'[q] = call[q] BY DEF OthersSame
<1>4. \A q \in Procs : pc'[q] \notin Copying BY <1>1, <1>3 DEF Copying
<1>5. pc'[p] \notin Writing /\ pc[p] \notin Writing BY DEF Writing
<1>6. \A u \in 1..Count : TableLen(u)' = TableLen(u) /\ \A d : C(u, d)' = C(u, d) /\ Mu(u, d)' = Mu(u, d)
  BY DEF Made, C, Mu
<1>7. ASSUME NEW q \in Procs, pc'[q] \in Writing
      PROVE  /\ pc'[q] = pc[q] /\ loc'[q] = loc[q] /\ call'[q] = call[q] /\ pc[q] \in Writing /\ q # p
             /\ Bidx(q)' = Bidx(q) /\ Chain(q)' = Chain(q) /\ Mu(loc[q].tbl, Bidx(q))' = Mu(loc[q].tbl, Bidx(q))
             /\ Bidx(q) \in Nat /\ loc[q].tbl \in 1..Count
  <2>1. pc'[q] = pc[q] /\ loc'[q] = loc[q] /\ call'[q] = call[q] /\ pc[q] \in Writing /\ q # p
    BY <1>3, <1>5, <1>7
  <2>2. PICK u \in 1..Count, d \in Nat : /\ u = loc[q].tbl /\ d = Bidx(q) /\ d \in 0..TableLen(u) - 1
                                         /\ Chain(q) = C(u, d)
    <3>1. loc[q].tbl \in 1..Count /\ Bidx(q) \in 0..TableLen(loc[q].tbl) - 1 /\ Chain(q) = C(loc[q].tbl, Bidx(q))
      BY <1>0, <2>1, WriterFacts
    <3>2. Bidx(q) \in Nat BY <3>1
    <3>3. QED BY <3>1, <3>2
  <2>3. Bidx(q)' = d
    <3>1. TableLen(loc[q].tbl)' = TableLen(u)' BY <2>1, <2>2 DEF TableLen
    <3>2. TableLen(u)' = TableLen(u) BY <1>6
    <3>3. QED BY <2>1, <2>2, <3>1, <3>2 DEF Bidx, BucketOf
  <2>4. Chain(q)' = C(u, d)' /\ Mu(loc[q].tbl, Bidx(q))' = Mu(u, d)'
    BY <2>1, <2>2, <2>3 DEF Chain, C, Mu
  <2>5. C(u, d)' = C(u, d) /\ Mu(u, d)' = Mu(u, d) BY <1>6
  <2>6. QED BY <2>1, <2>2, <2>3, <2>4, <2>5
<1>8. ClaimsOK' BY <1>4 DEF ClaimsOK, ClaimOK
<1>9. LocksOK'
  <2>1. ASSUME NEW q \in Procs, pc'[q] \in Writing PROVE Mu(loc[q].tbl, Bidx(q))' = q
    <3>1. Mu(loc[q].tbl, Bidx(q)) = q BY <1>0, <1>7, <2>1 DEF DataInv, LocksOK
    <3>2. QED BY <1>7, <2>1, <3>1
  <2>2. QED BY <1>4, <2>1 DEF LocksOK, Copying
<1>10. WritersOK'
  <2>1. ASSUME NEW q \in Procs PROVE WriterOK(q)'
    <3>1. CASE pc'[q] \notin Writing BY <3>1 DEF WriterOK, Writing
    <3>2. CASE pc'[q] \in Writing
      <4>1. WriterOK(q) BY <1>0 DEF DataInv, WritersOK
      <4>2. pc[q] \in Writing \ {"newer"} => loc[q].tbl = table' BY <4>1 DEF WriterOK
      <4>3. ~Moved(Bidx(q))'
        <5>1. PICK b \in Nat : b = Bidx(q) /\ b = Bidx(q)' BY <1>7, <3>2
        <5>2. ~Moved(b)' BY <1>0, <1>1, NothingMoved
        <5>3. QED BY <5>1, <5>2 DEF Moved, Pending, Class
      <4>4. QED BY <1>7, <3>2, <4>1, <4>2, <4>3, WriterOn
    <3>3. QED BY <3>1, <3>2
  <2>2. QED BY <2>1 DEF WritersOK
<1>11. ASSUME NEW u \in 1..Count', NEW d \in 0..TableLen(u)' - 1
       PROVE  /\ ChainOK(C(u, d), d, TableLen(u))'
              /\ \A i \in DOMAIN C(u, d)' : Tidy(C(u, d)[i])' \/ \E q \in Procs : Touches(q, u, d, i)'
  <2>1. CASE u = c + 1
    <3>1. C(u, d)' = EmptyBucket BY <1>2, <1>11, <2>1 DEF Made
    <3>2. ChainOK(EmptyBucket, d, TableLen(u)') /\ AllTidy(EmptyBucket) BY EmptyOK
    <3>3. ChainOK(C(u, d), d, TableLen(u))' <=> ChainOK(C(u, d)', d, TableLen(u)') BY DEF ChainOK, BucketOf
    <3>4. \A i \in DOMAIN C(u, d)' : Tidy(C(u, d)[i])' <=> Tidy(C(u, d)'[i]) BY DEF Tidy
    <3>5. QED BY <3>1, <3>2, <3>3, <3>4 DEF AllTidy
  <2>2. CASE u # c + 1
    <3>1. u \in 1..Count BY <1>2, <2>2
    <3>2. C(u, d)' = C(u, d) /\ TableLen(u)' = TableLen(u) /\ d \in 0..TableLen(u) - 1 BY <1>6, <3>1
    <3>3. /\ ChainOK(C(u, d), d, TableLen(u))
          /\ \A i \in DOMAIN C(u, d) : Tidy(C(u, d)[i]) \/ \E q \in Procs : Touches(q, u, d, i)
      BY <1>0, <3>1, <3>2 DEF DataInv, ChainsOK
    <3>4. ChainOK(C(u, d), d, TableLen(u))' <=> ChainOK(C(u, d), d, TableLen(u)) BY <3>2 DEF ChainOK, BucketOf
    <3>5. \A i \in DOMAIN C(u, d)' : Tidy(C(u, d)[i])' <=> Tidy(C(u, d)[i]) BY <3>2 DEF Tidy
    <3>6. ASSUME NEW i, NEW q \in Procs, Touches(q, u, d, i) PROVE Touches(q, u, d, i)'
      <4>1. pc[q] \in {"insert.entry", "delete.entry"} /\ loc[q].tbl = u /\ Bidx(q) = d /\ loc[q].slot = i
        BY <3>6 DEF Touches
      <4>2. q # p /\ pc[q] \in Writing BY <4>1 DEF Writing
      <4>3. pc'[q] = pc[q] /\ loc'[q] = loc[q] BY <1>3, <4>2
      <4>4. Bidx(q)' = Bidx(q) BY <1>7, <4>2, <4>3
      <4>5. QED BY <4>1, <4>3, <4>4 DEF Touches
    <3>7. QED BY <3>2, <3>3, <3>4, <3>5, <3>6
  <2>3. QED BY <2>1, <2>2
<1>12. ChainsOK' BY <1>11 DEF ChainsOK
<1>13. \A q \in Procs : CopyOK(q)' BY <1>4 DEF CopyOK, Copying
<1>14. CopiedOK'
  <2>1. SUFFICES ASSUME NEW k \in Keys, NEW v \in Values
                 PROVE  ~In(C(Count, BucketOf(k, TableLen(Count))), k, v)' /\ ~Moved(BucketOf(k, TableLen(table)))'
    BY DEF CopiedOK
  <2>2. PICK u : u = c + 1 OBVIOUS
  <2>3. TableLen(Count)' = n
    <3>1. TableLen(Count)' = TableLen(u)' BY <1>2, <2>2 DEF TableLen
    <3>2. QED BY <1>2, <2>2, <3>1 DEF Made
  <2>4. PICK d : d = BucketOf(k, n) /\ d \in 0..n - 1 BY <1>0, BucketIn, CountFacts
  <2>5. BucketOf(k, TableLen(Count))' = d BY <2>3, <2>4 DEF BucketOf
  <2>6. C(u, d)' = EmptyBucket BY <1>2, <2>2, <2>4 DEF Made
  <2>7. C(Count, BucketOf(k, TableLen(Count)))' = EmptyBucket
    <3>1. C(Count, BucketOf(k, TableLen(Count)))' = C(u, d)' BY <1>2, <2>2, <2>5 DEF C
    <3>2. QED BY <2>6, <3>1
  <2>8. ~In(C(Count, BucketOf(k, TableLen(Count))), k, v)'
    <3>1. ~In(EmptyBucket, k, v) BY EmptyOK
    <3>2. QED BY <2>7, <3>1 DEF In
  <2>9. ~Moved(BucketOf(k, TableLen(table)))'
    <3>1. TableLen(table)' = TableLen(c)' BY <1>2 DEF TableLen
    <3>2. TableLen(c)' = TableLen(c) /\ TableLen(c) \in Nat \ {0} BY <1>0, <1>2, CountFacts DEF Made
    <3>3. PICK b \in Nat : b = BucketOf(k, TableLen(c))
      <4>1. BucketOf(k, TableLen(c)) \in 0..TableLen(c) - 1 BY <1>0, <3>2, BucketIn, CountFacts
      <4>2. QED BY <3>2, <4>1
    <3>4. BucketOf(k, TableLen(table))' = b BY <3>1, <3>2, <3>3 DEF BucketOf
    <3>5. ~Moved(b)' BY <1>0, <1>1, NothingMoved
    <3>6. QED BY <3>4, <3>5 DEF Moved, Pending, Class
  <2>10. QED BY <2>8, <2>9
<1>15. QED BY <1>8, <1>9, <1>10, <1>12, <1>13, <1>14 DEF DataInv, CopiesOK

\* The owner makes the new table.
LEMMA ResizeNewPlace ==
    ASSUME ControlInv, PlaceInv, NEW p \in Procs, ResizeNew(p) PROVE PlaceInv'
<1>0. /\ Shape /\ OwnerInv /\ CallsOK /\ TablesOK /\ TabsOK /\ StageInv /\ DataInv /\ ctl.seq \in Nat
      /\ nextTable \in {NoTable, Count}
  BY DEF ControlInv, PlaceInv, Shape, StageInv, BuildOK, TablesOK
<1>1. pc[p] = "resize.new" /\ UNCHANGED <<hash, table, ctl, nextTable>> BY <1>0, ResizeNewDoes
<1>t. table \in Nat /\ table \in 1..Count /\ TableLen(table) \in Nat \ {0} /\ Count \in Nat \ {0}
  BY <1>0, CountFacts
<1>p. pc[p] \notin Reading \cup {"idle", "table", "range", "return"} \cup Busy
  BY <1>1 DEF Reading, Busy, Writing, Copying
<1>2. CASE UNCHANGED <<tables, resizeIdx>> /\ Own(p, "resize.giveUp", loc[p])
  <2>1. Still BY <1>1, <1>2 DEF Still
  <2>2. OthersSame(p) /\ pc'[p] = "resize.giveUp" /\ loc'[p] = loc[p] BY <1>0, <1>2, OwnCall
  <2>3. "resize.giveUp" \notin Busy \cup UsesTable \cup {"idle"} \cup Writing
    BY DEF Busy, UsesTable, Reading, Writing, Copying
  <2>4. LabelOK("resize.giveUp", call[p], loc[p].tbl) BY <1>0, <1>p, <2>3, ResizeLabel
  <2>5. ASSUME SameLens PROVE StageInv'
    <3>1. \A q \in Procs \ {p} : loc'[q] = loc[q] /\ (pc'[q] = pc[q] \/ (pc[q] = "sleep" /\ pc'[q] = "wait"))
      BY <2>2 DEF OthersSame
    <3>2. /\ (Builds(p)' <=> Builds(p)) /\ (Opens(p)' <=> Opens(p))
          /\ Builds(p) => loc'[p].old = loc[p].old /\ loc'[p].new = loc[p].new
      BY <1>1, <2>2 DEF Builds, Opens, Moving
    <3>3. pc'[p] \notin Copying BY <2>2, <2>3 DEF Busy
    <3>4. nextTable' \in {NoTable, Count} /\ resizeIdx' = resizeIdx /\ ctl'.seq = ctl.seq BY <1>0, <1>1, <1>2
    <3>5. HelpOK(p)' BY <2>2 DEF HelpOK, Registered
    <3>6. QED BY <1>0, <2>2, <2>5, <3>1, <3>2, <3>3, <3>4, <3>5, StayStage
  <2>6. QED BY <1>2, <1>p, <2>1, <2>3, <2>4, <2>5, StillPlace
<1>3. ASSUME NEW n \in Nat \ {0}, LenOK(n), n = 2 * TableLen(table) \/ TableLen(table) = 2 * n,
             tables' = Append(tables, NewTable(n)), resizeIdx' = 0,
             NEW m, Own(p, "resize.next", m), m.old = table, m.new = Count + 1
      PROVE  PlaceInv'
  <2>1. Made(n) BY <1>0, <1>3, MakeTable
  <2>2. /\ OthersSame(p) /\ call' = [q \in Procs |-> call'[q]]
        /\ pc'[p] = "resize.next" /\ loc'[p] = m /\ call'[p] = call[p] /\ CallOK(p)
    BY <1>0, <1>3, OwnCall
  <2>3. TablesOK'
    <3>1. Count' = Count + 1 BY <2>1 DEF Made
    <3>2. table \in 1..Count' BY <1>t, <3>1
    <3>3. QED BY <1>0, <1>1, <1>3, <2>1, <3>2 DEF TablesOK, Made
  <2>4. CallsOK'
    <3>1. "resize.next" \notin UsesTable \cup {"idle"} \cup Writing BY DEF UsesTable, Reading, Writing
    <3>2. LabelOK("resize.next", call[p], m.tbl) BY <1>0, <1>p, <3>1, ResizeLabel
    <3>3. CallOK(p)' BY <1>0, <1>1, <1>t, <2>2, <3>1, <3>2, LabelCall DEF LabelOK
    <3>4. QED BY <1>0, <1>1, <1>t, <2>2, <3>3, OthersCalls
  <2>5. StageInv' BY <1>1, <1>3, <2>1, <2>2, NewStage
  <2>6. DataInv' BY <1>1, <1>3, <2>1, <2>2, NewData
  <2>7. QED BY <2>3, <2>4, <2>5, <2>6 DEF PlaceInv
<1>4. ASSUME NEW m, Own(p, "resize.next", m), m.old = table, m.new = Count + 1, resizeIdx' = 0,
             \/ tables' = Append(tables, NewTable(2 * TableLen(table)))
             \/ TableLen(table) > MinLen /\ tables' = Append(tables, NewTable(TableLen(table) \div 2))
      PROVE  PlaceInv'
  <2>1. PICK len \in Nat \ {0} : len = TableLen(table) /\ LenOK(len)
    <3>1. LenOK(TableLen(table)) BY <1>0, <1>t, TableFacts
    <3>2. QED BY <1>t, <3>1
  <2>2. CASE tables' = Append(tables, NewTable(2 * len))
    <3>1. LenOK(2 * len) BY <2>1, LenDouble
    <3>2. 2 * len \in Nat \ {0} BY <2>1
    <3>3. QED BY <1>3, <1>4, <2>1, <2>2, <3>1, <3>2
  <2>3. CASE len > MinLen /\ tables' = Append(tables, NewTable(len \div 2))
    <3>1. PICK n \in Nat \ {0} : len = 2 * n /\ len \div 2 = n /\ LenOK(n) BY <2>1, <2>3, LenHalf
    <3>2. QED BY <1>3, <1>4, <2>1, <2>3, <3>1
  <2>4. QED BY <1>4, <2>1, <2>2, <2>3
<1>5. \/ /\ \/ tables' = Append(tables, NewTable(2 * TableLen(table)))
            \/ TableLen(table) > MinLen /\ tables' = Append(tables, NewTable(TableLen(table) \div 2))
         /\ resizeIdx' = 0
         /\ \E m : Own(p, "resize.next", m) /\ m.old = table /\ m.new = Count + 1
      \/ UNCHANGED <<tables, resizeIdx>> /\ Own(p, "resize.giveUp", loc[p])
  BY <1>0, ResizeNewDoes
<1>6. QED BY <1>2, <1>4, <1>5

\* When the new table is published, nobody moves buckets, and every bucket has been moved.
LEMMA PublishFacts ==
    ASSUME ControlInv, PlaceInv, NEW p \in Procs, pc[p] = "resize.publish"
    PROVE  /\ Count = table + 1 /\ loc[p].new = Count
           /\ \A q \in Procs : /\ pc[q] \notin Copying /\ ~Opens(q)
                               /\ q # p => ~Builds(q)
           /\ \A b \in Nat : Moved(b)
<1>0. TablesOK /\ BuildOK /\ DoneOK /\ OwnerInv BY DEF PlaceInv, StageInv, ControlInv
<1>1. Count = table + 1 /\ loc[p].new = Count BY <1>0 DEF BuildOK, Builds
<1>2. \A q \in Procs : pc[q] \notin Copying BY <1>0 DEF DoneOK
<1>3. Owns(p) BY DEF Owns, Finishing
<1>4. ASSUME NEW q \in Procs PROVE ~Opens(q) /\ (q # p => ~Builds(q))
  <2>1. Owns(q) => q = p BY <1>0, <1>3 DEF OwnerInv
  <2>2. Opens(q) => Owns(q) BY DEF Opens, Owns, Offering
  <2>3. Builds(q) => Owns(q) BY DEF Builds, Owns, Offering, Finishing
  <2>4. ~Opens(p) BY DEF Opens, Moving
  <2>5. QED BY <2>1, <2>2, <2>3, <2>4
<1>5. Count > 1 /\ Base \in Nat /\ resizeIdx \in Nat BY <1>0, <1>1, CountFacts, BaseFacts
<1>6. Base <= resizeIdx BY <1>0, <1>4, <1>5 DEF DoneOK
<1>7. ASSUME NEW b \in Nat PROVE Moved(b)
  <2>1. \A q \in Procs : ~Pending(q, b) BY <1>2 DEF Pending
  <2>2. PICK x : x = Class(b) OBVIOUS
  <2>3. x \in 0..Base - 1 BY <1>0, <2>2, ClassFacts
  <2>4. Class(b) < resizeIdx BY <1>5, <1>6, <2>2, <2>3
  <2>5. QED BY <2>1, <2>4 DEF Moved
<1>8. QED BY <1>1, <1>2, <1>4, <1>7

\* The new table becomes the current one.
LEMMA ResizePublishPlace ==
    ASSUME ControlInv, PlaceInv, NEW p \in Procs, ResizePublish(p) PROVE PlaceInv'
<1>0. /\ Shape /\ CallsOK /\ TablesOK /\ TabsOK /\ StageInv /\ DataInv
      /\ nextTable \in {NoTable, Count}
  BY DEF ControlInv, PlaceInv, StageInv, BuildOK, TablesOK
<1>1. /\ pc[p] = "resize.publish" /\ UNCHANGED <<hash, tables, resizeIdx, ctl, nextTable>>
      /\ Own(p, "resize.clear", loc[p]) /\ table' = loc[p].new
  BY <1>0, ResizePublishDoes
<1>2. /\ Count = table + 1 /\ loc[p].new = Count
      /\ \A q \in Procs : /\ pc[q] \notin Copying /\ ~Opens(q)
                          /\ q # p => ~Builds(q)
      /\ \A b \in Nat : Moved(b)
  BY <1>1, PublishFacts
<1>3. /\ OthersSame(p) /\ call' = [q \in Procs |-> call'[q]]
      /\ pc'[p] = "resize.clear" /\ loc'[p] = loc[p] /\ call'[p] = call[p] /\ CallOK(p)
  BY <1>0, <1>1, OwnCall
<1>4. \A q \in Procs : loc'[q] = loc[q] /\ call'[q] = call[q] /\ (q # p => pc'[q] = pc[q])
  BY <1>3 DEF OthersSame
<1>5. PICK c \in Nat \ {0} : c = Count /\ table = c - 1 /\ Count' = c /\ table' = c /\ table \in Nat \ {0}
  BY <1>0, <1>1, <1>2, CountFacts DEF Count
<1>6. TabsOK' /\ (\A t : TableLen(t)' = TableLen(t)) /\ (\A t, b : C(t, b)' = C(t, b) /\ Mu(t, b)' = Mu(t, b))
  BY <1>0, <1>1 DEF TabsOK, Count, TableLen, C, Mu
<1>7. TablesOK'
  <2>1. c \in 1..c BY <1>5
  <2>2. QED BY <1>0, <1>1, <1>5, <1>6, <2>1 DEF TablesOK
<1>8. CallsOK'
  <2>1. pc[p] \notin Reading \cup {"idle", "table", "range", "return"} BY <1>1 DEF Reading
  <2>2. "resize.clear" \notin UsesTable \cup {"idle"} \cup Writing BY DEF UsesTable, Reading, Writing
  <2>3. LabelOK("resize.clear", call[p], loc[p].tbl) BY <1>0, <2>1, <2>2, ResizeLabel
  <2>4. table' \in Nat /\ table <= table' BY <1>5
  <2>5. CallOK(p)' BY <1>0, <1>3, <2>2, <2>3, <2>4, LabelCall DEF LabelOK
  <2>6. QED BY <1>0, <1>3, <2>4, <2>5, OthersCalls
<1>9. StageInv'
  <2>1. \A q \in Procs : ~Builds(q)'
    <3>1. ~Builds(p)' BY <1>3 DEF Builds, Moving
    <3>2. \A q \in Procs \ {p} : ~Builds(q)' BY <1>2, <1>4 DEF Builds
    <3>3. QED BY <3>1, <3>2
  <2>2. BuildOK' BY <1>0, <1>1, <1>5, <2>1 DEF BuildOK
  <2>3. ASSUME NEW q \in Procs PROVE HelpOK(q)'
    <3>0. HelpOK(q) BY <1>0 DEF StageInv, HelpsOK
    <3>1. CASE q = p
      <4>1. ~Registered(p)' BY <1>3 DEF Registered
      <4>2. QED BY <1>3, <3>1, <4>1 DEF HelpOK
    <3>2. CASE q # p
      <4>1. pc'[q] = pc[q] /\ loc'[q] = loc[q] /\ (Registered(q)' <=> Registered(q))
        BY <1>4, <3>2 DEF Registered
      <4>2. (\E r \in Procs : pc'[r] = "resize.new") => \E r \in Procs : pc[r] = "resize.new" BY <1>3, <1>4
      <4>3. QED BY <1>1, <1>5, <3>0, <4>1, <4>2 DEF HelpOK
    <3>3. QED BY <3>1, <3>2
  <2>4. DoneOK'
    <3>1. DoneOK /\ Count > 1 BY <1>0, <1>5 DEF StageInv
    <3>2. Base <= resizeIdx BY <1>2, <3>1 DEF DoneOK
    <3>3. Base' = Base BY <1>5, <1>6, <1>1 DEF Base, Prev, TableLen
    <3>4. \A q \in Procs : pc'[q] \notin Copying BY <1>2, <1>3, <1>4 DEF Copying
    <3>5. QED BY <1>1, <3>2, <3>3, <3>4 DEF DoneOK
  <2>5. QED BY <2>2, <2>3, <2>4 DEF StageInv, HelpsOK
<1>10. \A q \in Procs : pc'[q] \notin Copying /\ pc'[q] # "copied" BY <1>2, <1>3, <1>4 DEF Copying
<1>11. ASSUME NEW q \in Procs, pc'[q] \in Writing
       PROVE  /\ pc'[q] = pc[q] /\ pc[q] \in Writing /\ Bidx(q)' = Bidx(q) /\ Chain(q)' = Chain(q)
              /\ Mu(loc[q].tbl, Bidx(q))' = Mu(loc[q].tbl, Bidx(q))
              /\ Bidx(q) \in Nat /\ loc[q].tbl \in Nat /\ loc[q].tbl <= table
  <2>1. pc'[q] = pc[q] /\ pc[q] \in Writing BY <1>3, <1>4, <1>11 DEF Writing
  <2>2. Bidx(q)' = Bidx(q) BY <1>1, <1>4, <1>6 DEF Bidx, BucketOf, TableLen
  <2>3. Chain(q)' = Chain(q) /\ Mu(loc[q].tbl, Bidx(q))' = Mu(loc[q].tbl, Bidx(q))
    BY <1>1, <1>4, <2>2 DEF Chain, Mu
  <2>4. Bidx(q) \in 0..TableLen(loc[q].tbl) - 1 BY <1>0, <2>1, WriterFacts
  <2>5. loc[q].tbl \in 1..table BY <1>0, <2>1 DEF CallsOK, CallOK, UsesTable
  <2>6. QED BY <1>5, <2>1, <2>2, <2>3, <2>4, <2>5
<1>12. LocksOK'
  <2>1. ASSUME NEW q \in Procs, pc'[q] \in Writing PROVE Mu(loc[q].tbl, Bidx(q))' = q
    <3>1. Mu(loc[q].tbl, Bidx(q)) = q BY <1>0, <1>11, <2>1 DEF DataInv, LocksOK
    <3>2. QED BY <1>11, <2>1, <3>1
  <2>2. QED BY <1>10, <2>1 DEF LocksOK
<1>13. WritersOK'
  <2>1. ASSUME NEW q \in Procs PROVE WriterOK(q)'
    <3>1. CASE pc'[q] \notin Writing BY <3>1 DEF WriterOK, Writing
    <3>2. CASE pc'[q] \in Writing
      <4>1. WriterOK(q) BY <1>0 DEF DataInv, WritersOK
      <4>2. loc[q].tbl # table
        <5>1. Moved(Bidx(q)) BY <1>2, <1>11, <3>2
        <5>2. QED BY <1>2, <1>11, <3>2, <4>1, <5>1 DEF WriterOK
      <4>3. pc[q] = "newer" BY <1>11, <3>2, <4>1, <4>2 DEF WriterOK
      <4>4. loc[q].tbl # table' BY <1>5, <1>11, <3>2
      <4>5. QED BY <1>1, <1>4, <1>11, <3>2, <4>1, <4>3, <4>4, WriterOn
    <3>3. QED BY <3>1, <3>2
  <2>2. QED BY <2>1 DEF WritersOK
<1>14. ChainsOK'
  <2>1. ASSUME NEW u \in 1..Count', NEW d \in 0..TableLen(u)' - 1
        PROVE  /\ ChainOK(C(u, d), d, TableLen(u))'
               /\ \A i \in DOMAIN C(u, d)' : Tidy(C(u, d)[i])' \/ \E q \in Procs : Touches(q, u, d, i)'
    <3>1. u \in 1..Count /\ d \in 0..TableLen(u) - 1 BY <1>5, <1>6
    <3>2. /\ ChainOK(C(u, d), d, TableLen(u))
          /\ \A i \in DOMAIN C(u, d) : Tidy(C(u, d)[i]) \/ \E q \in Procs : Touches(q, u, d, i)
      BY <1>0, <3>1 DEF DataInv, ChainsOK
    <3>3. ChainOK(C(u, d), d, TableLen(u))' <=> ChainOK(C(u, d), d, TableLen(u))
      BY <1>1, <1>6 DEF ChainOK, BucketOf
    <3>4. \A i \in DOMAIN C(u, d)' : Tidy(C(u, d)[i])' <=> Tidy(C(u, d)[i]) BY <1>6 DEF Tidy
    <3>5. ASSUME NEW i, NEW q \in Procs, Touches(q, u, d, i) PROVE Touches(q, u, d, i)'
      <4>1. pc[q] \in {"insert.entry", "delete.entry"} /\ loc[q].tbl = u /\ Bidx(q) = d /\ loc[q].slot = i
        BY <3>5 DEF Touches
      <4>2. pc'[q] = pc[q] /\ pc[q] \in Writing BY <1>1, <1>4, <4>1 DEF Writing
      <4>3. Bidx(q)' = Bidx(q) BY <1>11, <4>2
      <4>4. QED BY <1>4, <4>1, <4>2, <4>3 DEF Touches
    <3>6. QED BY <1>6, <3>2, <3>3, <3>4, <3>5
  <2>2. QED BY <2>1 DEF ChainsOK
<1>15. DataInv'
  <2>1. ClaimsOK' BY <1>10 DEF ClaimsOK, ClaimOK
  <2>2. \A q \in Procs : CopyOK(q)' BY <1>10 DEF CopyOK
  <2>3. CopiedOK' BY <1>5 DEF CopiedOK
  <2>4. QED BY <1>12, <1>13, <1>14, <2>1, <2>2, <2>3 DEF DataInv, CopiesOK
<1>16. QED BY <1>7, <1>8, <1>9, <1>15 DEF PlaceInv

-----------------------------------------------------------------------------
(* The counters.                                                            *)

\* The number of tables is the same when their numbers are.
LEMMA CountSame == ASSUME TabsOK, TabsOK', DOMAIN tables' = DOMAIN tables PROVE Count' = Count
<1>1. Count \in Nat /\ Count' \in Nat /\ DOMAIN tables = 1..Count /\ DOMAIN tables' = 1..Count' BY DEF TabsOK, Count
<1>2. PICK m \in Nat, n \in Nat : m = Count /\ n = Count' BY <1>1
<1>3. 1..m = 1..n BY <1>1, <1>2
<1>4. m = n
  <2>1. m >= 1 => m \in 1..n BY <1>3
  <2>2. n >= 1 => n \in 1..m BY <1>3
  <2>3. QED BY <2>1, <2>2
<1>5. QED BY <1>2, <1>4

\* What a store to a chain leaves for the counters.
LEMMA StoreDoes ==
    ASSUME TabsOK, TabsOK', NEW t \in 1..Count, NEW b \in 0..TableLen(t) - 1, NEW r, NEW h,
           tables' = [tables EXCEPT ![t].chains[b] = r, ![t].mu[b] = h]
    PROVE  Stored(t, b, r)
<1>1. DOMAIN tables = 1..Count BY TableFacts
<1>2. ASSUME NEW u \in 1..Count PROVE tables[u] = [chains |-> tables[u].chains, mu |-> tables[u].mu, size |-> tables[u].size]
  BY TableFacts
<1>3. DOMAIN tables[t].chains = 0..TableLen(t) - 1 BY TableFacts
<1>4. tables'[t].size = tables[t].size /\ tables'[t].chains = [tables[t].chains EXCEPT ![b] = r]
  BY <1>1, <1>2
<1>5. \A u \in 1..Count : u # t => tables'[u] = tables[u] BY <1>1
<1>6. ASSUME NEW u \in 1..Count PROVE TableLen(u)' = TableLen(u) BY <1>4, <1>5 DEF TableLen
<1>7. ASSUME NEW u \in 1..Count, NEW d \in 0..TableLen(u) - 1
      PROVE  C(u, d)' = IF u = t /\ d = b THEN r ELSE C(u, d)
  <2>1. CASE u # t
    <3>1. tables'[u] = tables[u] BY <1>5, <2>1
    <3>2. C(u, d)' = C(u, d) BY <3>1 DEF C
    <3>3. QED BY <2>1, <3>2
  <2>2. CASE u = t
    <3>1. d \in DOMAIN tables[t].chains BY <1>3, <1>7, <2>2
    <3>2. tables'[t].chains[d] = IF d = b THEN r ELSE tables[t].chains[d] BY <1>4, <3>1
    <3>3. QED BY <2>2, <3>2 DEF C
  <2>3. QED BY <2>1, <2>2
<1>8. Count' = Count BY CountSame
<1>9. QED BY <1>4, <1>5, <1>6, <1>7, <1>8 DEF Stored

\* What a store to a lock leaves for them.
LEMMA MuDoes ==
    ASSUME TabsOK, TabsOK', NEW t, NEW b, NEW h, tables' = [tables EXCEPT ![t].mu[b] = h]
    PROVE  Untouched
<1>1. DOMAIN tables = 1..Count BY DEF TabsOK, Count
<1>2. ASSUME NEW u \in 1..Count PROVE tables[u] = [chains |-> tables[u].chains, mu |-> tables[u].mu, size |-> tables[u].size]
  BY TableFacts
<1>3. \A u \in 1..Count : tables'[u].size = tables[u].size /\ tables'[u].chains = tables[u].chains
  <2>1. CASE t \in 1..Count
    <3>1. \A u \in 1..Count : u # t => tables'[u] = tables[u] BY <1>1
    <3>2. tables'[t].size = tables[t].size /\ tables'[t].chains = tables[t].chains BY <1>1, <1>2, <2>1
    <3>3. QED BY <3>1, <3>2
  <2>2. CASE t \notin 1..Count BY <1>1, <2>2
  <2>3. QED BY <2>1, <2>2
<1>4. Count' = Count BY CountSame
<1>5. QED BY <1>3, <1>4 DEF Untouched, TableLen, C

\* A step that leaves the tables as they are.
LEMMA StillDoes == ASSUME tables' = tables PROVE Untouched
BY DEF Untouched, Count, TableLen, C

\* The keys after a step.
LEMMA HeldNext ==
    ASSUME hash \in Hashes, TabsOK, NEW t \in 1..Count, hash' = hash, TableLen(t)' = TableLen(t),
           NEW k \in Keys, NEW d, d = BucketOf(k, TableLen(t))
    PROVE  /\ d \in 0..TableLen(t) - 1
           /\ k \in Held(t)' <=> HasKey(C(t, d)', k)
<1>1. TableLen(t) \in Nat \ {0} BY TableFacts
<1>2. d \in 0..TableLen(t) - 1 BY <1>1, BucketIn
<1>3. BucketOf(k, TableLen(t))' = d BY DEF BucketOf
<1>4. HasKey(C(t, BucketOf(k, TableLen(t))), k)' <=> HasKey(C(t, d)', k) BY <1>3 DEF HasKey, C
<1>5. QED BY <1>2, <1>4 DEF Held

\* The goroutines that are about to change a counter, after a step of another one.
LEMMA LateSame ==
    ASSUME NEW p \in Procs, pc[p] # "addSize", pc'[p] # "addSize",
           \A q \in Procs \ {p} : loc'[q] = loc[q] /\ (pc'[q] = pc[q] \/ (pc[q] = "sleep" /\ pc'[q] = "wait"))
    PROVE  \A t, x : Late(t, x)' = Late(t, x)
<1>1. ASSUME NEW t, NEW x, NEW q \in Procs
      PROVE  (pc[q] = "addSize" /\ loc[q].tbl = t /\ loc[q].delta = x)' <=>
             (pc[q] = "addSize" /\ loc[q].tbl = t /\ loc[q].delta = x)
  <2>1. CASE q = p BY <2>1
  <2>2. CASE q # p BY <2>2
  <2>3. QED BY <2>1, <2>2
<1>2. QED BY <1>1 DEF Late

\* A step that changes neither keys nor counters.
LEMMA QuietSize ==
    ASSUME TabsOK, hash \in Hashes, SizeInv, NEW p \in Procs, pc[p] # "addSize", pc'[p] # "addSize",
           \A q \in Procs \ {p} : loc'[q] = loc[q] /\ (pc'[q] = pc[q] \/ (pc[q] = "sleep" /\ pc'[q] = "wait")),
           hash' = hash, Count' = Count,
           \A u \in 1..Count : tables'[u].size = tables[u].size /\ Held(u)' = Held(u)
    PROVE  SizeInv'
<1>1. \A t, x : Late(t, x)' = Late(t, x) BY LateSame
<1>2. ASSUME NEW t \in 1..Count PROVE SizeOK(t)'
  <2>1. SizeOK(t) BY DEF SizeInv
  <2>2. QED BY <1>1, <2>1 DEF SizeOK
<1>3. DeltaOK' BY DEF SizeInv, DeltaOK
<1>4. QED BY <1>2, <1>3 DEF SizeInv

\* A step that leaves the chains as they are leaves the keys.
LEMMA SameHeld ==
    ASSUME TabsOK, hash \in Hashes, hash' = hash, Untouched, NEW t \in 1..Count
    PROVE  Held(t)' = Held(t)
<1>1. TableLen(t)' = TableLen(t) BY DEF Untouched
<1>2. ASSUME NEW k \in Keys PROVE k \in Held(t)' <=> k \in Held(t)
  <2>1. PICK d : d = BucketOf(k, TableLen(t)) OBVIOUS
  <2>2. k \in Held(t)' <=> HasKey(C(t, d)', k) BY <1>1, <2>1, HeldNext
  <2>3. C(t, d)' = C(t, d) BY DEF Untouched
  <2>4. QED BY <2>1, <2>2, <2>3 DEF Held
<1>3. Held(t)' \subseteq Keys /\ Held(t) \subseteq Keys BY DEF Held
<1>4. QED BY <1>2, <1>3

\* A step of p that touches no chain and no counter.
LEMMA AsideSize ==
    ASSUME TabsOK, hash \in Hashes, SizeInv, NEW p \in Procs, pc[p] # "addSize", pc'[p] # "addSize",
           \A q \in Procs \ {p} : loc'[q] = loc[q] /\ (pc'[q] = pc[q] \/ (pc[q] = "sleep" /\ pc'[q] = "wait")),
           hash' = hash, Untouched
    PROVE  SizeInv'
<1>1. \A u \in 1..Count : tables'[u].size = tables[u].size /\ Held(u)' = Held(u)
  BY SameHeld DEF Untouched
<1>2. QED BY <1>1, QuietSize DEF Untouched

\* A store to the chain of k in table t, seen from the keys.
LEMMA StoreHeld ==
    ASSUME TabsOK, hash \in Hashes, hash' = hash, NEW t \in 1..Count, NEW b, NEW r, Stored(t, b, r),
           NEW k \in Keys, b = BucketOf(k, TableLen(t)),
           \A j \in Keys \ {k} : HasKey(r, j) <=> HasKey(C(t, b), j)
    PROVE  /\ \A u \in 1..Count : tables'[u].size = tables[u].size /\ (u # t => Held(u)' = Held(u))
           /\ Held(t)' = IF HasKey(r, k) THEN Held(t) \cup {k} ELSE Held(t) \ {k}
<1>1. ASSUME NEW u \in 1..Count, NEW j \in Keys
      PROVE  j \in Held(u)' <=> IF u = t /\ j = k THEN HasKey(r, k) ELSE j \in Held(u)
  <2>1. PICK d : d = BucketOf(j, TableLen(u)) OBVIOUS
  <2>2. TableLen(u)' = TableLen(u) BY DEF Stored
  <2>3. d \in 0..TableLen(u) - 1 /\ (j \in Held(u)' <=> HasKey(C(u, d)', j)) BY <2>1, <2>2, HeldNext
  <2>4. C(u, d)' = IF u = t /\ d = b THEN r ELSE C(u, d) BY <2>3 DEF Stored
  <2>5. j \in Held(u) <=> HasKey(C(u, d), j) BY <2>1 DEF Held
  <2>6. QED BY <2>1, <2>3, <2>4, <2>5
<1>2. \A u : Held(u)' \subseteq Keys /\ Held(u) \subseteq Keys BY DEF Held
<1>3. \A u \in 1..Count : u # t => Held(u)' = Held(u) BY <1>1, <1>2
<1>4. Held(t)' = IF HasKey(r, k) THEN Held(t) \cup {k} ELSE Held(t) \ {k} BY <1>1, <1>2
<1>5. QED BY <1>3, <1>4 DEF Stored

\* A writer has added or removed the key k, and has still to call addSize.
LEMMA WriterSize ==
    ASSUME TabsOK, hash \in Hashes, SizeInv, NEW p \in Procs, pc[p] # "addSize",
           hash' = hash, Count' = Count, NEW t \in 1..Count, NEW k, NEW m, NEW x,
           Own(p, "addSize", m), m.tbl = t, m.delta = x,
           \A u \in 1..Count : tables'[u].size = tables[u].size /\ (u # t => Held(u)' = Held(u)),
           \/ x = 1 /\ k \notin Held(t) /\ Held(t)' = Held(t) \cup {k}
           \/ x = -1 /\ k \in Held(t) /\ Held(t)' = Held(t) \ {k}
    PROVE  SizeInv'
<1>1. pc'[p] = "addSize" /\ loc'[p] = m /\ \A q \in Procs \ {p} : pc'[q] = pc[q] /\ loc'[q] = loc[q] BY DEF Own
<1>2. ASSUME NEW u, NEW y PROVE Late(u, y)' = IF u = t /\ y = x THEN Late(u, y) \cup {p} ELSE Late(u, y)
  BY <1>1 DEF Late
<1>3. \A u, y : p \notin Late(u, y) BY DEF Late
<1>4. DeltaOK' BY <1>1 DEF SizeInv, DeltaOK
<1>5. SizeOK(t) BY DEF SizeInv
<1>6. PICK s, a, z, h : /\ s = tables[t].size /\ a = Cardinality(Late(t, 1)) /\ z = Cardinality(Late(t, -1))
                        /\ h = Cardinality(Held(t))
  OBVIOUS
<1>7. s \in Int /\ a \in Nat /\ z \in Nat /\ h \in Nat /\ s + a - z = h
  BY <1>5, <1>6, TableFacts, FS_CardinalityType DEF SizeOK
<1>8. IsFiniteSet(Held(t)) /\ IsFiniteSet(Late(t, 1)) /\ IsFiniteSet(Late(t, -1)) BY <1>5 DEF SizeOK
<1>9. SizeOK(t)'
  <2>1. CASE x = 1 /\ k \notin Held(t) /\ Held(t)' = Held(t) \cup {k}
    <3>1. Late(t, 1)' = Late(t, 1) \cup {p} /\ Late(t, -1)' = Late(t, -1) BY <1>2, <2>1
    <3>2. IsFiniteSet(Late(t, 1)') /\ Cardinality(Late(t, 1)') = a + 1 BY <1>3, <1>6, <1>8, <3>1, FS_AddElement
    <3>3. IsFiniteSet(Held(t)') /\ Cardinality(Held(t)') = h + 1 BY <1>6, <1>8, <2>1, FS_AddElement
    <3>4. QED BY <1>6, <1>7, <1>8, <3>1, <3>2, <3>3 DEF SizeOK
  <2>2. CASE x = -1 /\ k \in Held(t) /\ Held(t)' = Held(t) \ {k}
    <3>1. Late(t, -1)' = Late(t, -1) \cup {p} /\ Late(t, 1)' = Late(t, 1) BY <1>2, <2>2
    <3>2. IsFiniteSet(Late(t, -1)') /\ Cardinality(Late(t, -1)') = z + 1 BY <1>3, <1>6, <1>8, <3>1, FS_AddElement
    <3>3. IsFiniteSet(Held(t)') /\ Cardinality(Held(t)') = h - 1 BY <1>6, <1>8, <2>2, FS_RemoveElement
    <3>4. QED BY <1>6, <1>7, <1>8, <3>1, <3>2, <3>3 DEF SizeOK
  <2>3. QED BY <2>1, <2>2
<1>10. ASSUME NEW u \in 1..Count, u # t PROVE SizeOK(u)'
  <2>1. SizeOK(u) BY DEF SizeInv
  <2>2. Late(u, 1)' = Late(u, 1) /\ Late(u, -1)' = Late(u, -1) BY <1>2, <1>10
  <2>3. QED BY <1>10, <2>1, <2>2 DEF SizeOK
<1>11. QED BY <1>4, <1>9, <1>10 DEF SizeInv

\* The store of a writer to the chain of its key.
LEMMA WriterStores ==
    ASSUME PlaceInv, TabsOK', NEW p \in Procs, pc[p] \in Writing, NEW r, NEW h, WriteChain(p, r, h)
    PROVE  \E t, b, k : /\ t \in 1..Count /\ k \in Keys /\ t = loc[p].tbl /\ k = call[p].key
                        /\ b = BucketOf(k, TableLen(t)) /\ Stored(t, b, r) /\ Chain(p) = C(t, b)
                        /\ (k \in Held(t) <=> HasKey(Chain(p), k))
<1>0. TablesOK /\ CallsOK /\ TabsOK BY DEF PlaceInv, TablesOK
<1>1. PICK t, b, k : /\ t \in 1..Count /\ k \in Keys /\ t = loc[p].tbl /\ k = call[p].key
                     /\ b = Bidx(p) /\ b \in 0..TableLen(t) - 1 /\ Chain(p) = C(t, b)
  BY <1>0, WriterFacts
<1>2. tables' = [tables EXCEPT ![t].chains[b] = r, ![t].mu[b] = h] BY <1>1 DEF WriteChain
<1>3. Stored(t, b, r) BY <1>0, <1>1, <1>2, StoreDoes
<1>4. b = BucketOf(k, TableLen(t)) BY <1>1 DEF Bidx
<1>5. k \in Held(t) <=> HasKey(Chain(p), k) BY <1>1, <1>4 DEF Held
<1>6. QED BY <1>1, <1>3, <1>4, <1>5

\* A store that keeps the key of the slot.
LEMMA KeepSize ==
    ASSUME PlaceInv, TabsOK', SizeInv, NEW p \in Procs, pc[p] \in Writing, NEW l, NEW m, Own(p, l, m),
           l # "addSize", hash' = hash, NEW s \in DOMAIN Chain(p), NEW e, e.key = Chain(p)[s].key,
           NEW h, WriteChain(p, [Chain(p) EXCEPT ![s] = e], h)
    PROVE  SizeInv'
<1>0. TabsOK /\ hash \in Hashes BY CountFacts DEF PlaceInv
<1>1. PICK r, c : r = [Chain(p) EXCEPT ![s] = e] /\ c = Chain(p) OBVIOUS
<1>2. PICK t, b, k : /\ t \in 1..Count /\ k \in Keys /\ b = BucketOf(k, TableLen(t)) /\ Stored(t, b, r)
                     /\ c = C(t, b) /\ (k \in Held(t) <=> HasKey(c, k))
  BY <1>1, WriterStores
<1>3. DOMAIN r = DOMAIN c /\ \A i \in DOMAIN c : r[i].key = c[i].key BY <1>1
<1>4. \A j : HasKey(r, j) <=> HasKey(c, j) BY <1>3 DEF HasKey
<1>5. /\ \A u \in 1..Count : tables'[u].size = tables[u].size /\ (u # t => Held(u)' = Held(u))
      /\ Held(t)' = IF HasKey(r, k) THEN Held(t) \cup {k} ELSE Held(t) \ {k}
  BY <1>0, <1>2, <1>4, StoreHeld
<1>6. Held(t)' = Held(t) BY <1>2, <1>4, <1>5
<1>7. pc[p] # "addSize" /\ pc'[p] # "addSize" BY DEF Own, Writing
<1>8. Count' = Count BY <1>2 DEF Stored
<1>9. \A q \in Procs \ {p} : loc'[q] = loc[q] /\ pc'[q] = pc[q] BY DEF Own
<1>10. QED BY <1>0, <1>5, <1>6, <1>7, <1>8, <1>9, QuietSize

\* The store of a new value counts nothing.
LEMMA UpdateSize ==
    ASSUME ControlInv, PlaceInv, TabsOK', SizeInv, NEW p \in Procs, Update(p) PROVE SizeInv'
<1>1. /\ pc[p] = "update" /\ hash' = hash /\ Own(p, "return", loc[p])
      /\ WriteChain(p, [Chain(p) EXCEPT ![loc[p].slot] = Slot(p)], Nobody)
  BY UpdateDoes DEF ControlInv
<1>2. pc[p] \in Writing BY <1>1 DEF Writing
<1>3. PICK s : s = loc[p].slot OBVIOUS
<1>4. s \in DOMAIN Chain(p) /\ Chain(p)[s].key = call[p].key BY <1>1, <1>2, <1>3, HolderFacts DEF Ready, Holds
<1>5. Slot(p).key = call[p].key BY DEF Slot
<1>6. QED BY <1>1, <1>2, <1>3, <1>4, <1>5, KeepSize

\* The two stores of a meta byte.
LEMMA MetaSize ==
    ASSUME ControlInv, PlaceInv, TabsOK', SizeInv, NEW p \in Procs, InsertMeta(p) \/ DeleteMeta(p) PROVE SizeInv'
<1>1. PICK l, m, x, h : /\ pc[p] \in {"insert.meta", "delete.meta"} /\ hash' = hash /\ Own(p, l, m) /\ l # "addSize"
                        /\ WriteChain(p, [Chain(p) EXCEPT ![loc[p].slot].meta = x], h)
  BY InsertMetaDoes, DeleteMetaDoes DEF ControlInv
<1>2. pc[p] \in Writing BY <1>1 DEF Writing
<1>3. PICK s : s = loc[p].slot OBVIOUS
<1>4. s \in DOMAIN Chain(p) BY <1>1, <1>2, <1>3, HolderFacts DEF Ready
<1>5. PICK e : e = [Chain(p)[s] EXCEPT !.meta = x] OBVIOUS
<1>6. Chain(p)[s] \in Slots
  <2>1. Chain(p) \in Seq(Slots) BY <1>2, WriterFacts DEF PlaceInv
  <2>2. QED BY <1>4, <2>1
<1>7. e.key = Chain(p)[s].key BY <1>5, <1>6 DEF Slots
<1>8. WriteChain(p, [Chain(p) EXCEPT ![s] = e], h) BY <1>1, <1>3, <1>5
<1>9. QED BY <1>1, <1>2, <1>4, <1>7, <1>8, KeepSize

\* A store that adds or removes the key of the call.
LEMMA EntrySize ==
    ASSUME PlaceInv, TabsOK', SizeInv, NEW p \in Procs, pc[p] \in Writing, NEW m, NEW x, Own(p, "addSize", m),
           m.tbl = loc[p].tbl, m.delta = x, hash' = hash, NEW r, WriteChain(p, r, Nobody),
           \A j \in Keys \ {call[p].key} : HasKey(r, j) <=> HasKey(Chain(p), j),
           \/ x = 1 /\ ~HasKey(Chain(p), call[p].key) /\ HasKey(r, call[p].key)
           \/ x = -1 /\ HasKey(Chain(p), call[p].key) /\ ~HasKey(r, call[p].key)
    PROVE  SizeInv'
<1>0. TabsOK /\ hash \in Hashes BY CountFacts DEF PlaceInv
<1>1. PICK c : c = Chain(p) OBVIOUS
<1>2. PICK t, b, k : /\ t \in 1..Count /\ k \in Keys /\ b = BucketOf(k, TableLen(t)) /\ Stored(t, b, r)
                     /\ t = loc[p].tbl /\ k = call[p].key /\ c = C(t, b) /\ (k \in Held(t) <=> HasKey(c, k))
  BY <1>1, WriterStores
<1>a. \A j \in Keys \ {k} : HasKey(r, j) <=> HasKey(C(t, b), j) BY <1>1, <1>2
<1>3. /\ \A u \in 1..Count : tables'[u].size = tables[u].size /\ (u # t => Held(u)' = Held(u))
      /\ Held(t)' = IF HasKey(r, k) THEN Held(t) \cup {k} ELSE Held(t) \ {k}
  <2>1. t \in 1..Count /\ k \in Keys /\ b = BucketOf(k, TableLen(t)) /\ Stored(t, b, r) BY <1>2
  <2>2. QED BY <1>0, <1>a, <2>1, StoreHeld, Zenon
<1>4. \/ x = 1 /\ k \notin Held(t) /\ Held(t)' = Held(t) \cup {k}
      \/ x = -1 /\ k \in Held(t) /\ Held(t)' = Held(t) \ {k}
  BY <1>1, <1>2, <1>3
<1>5. pc[p] # "addSize" BY DEF Writing
<1>6. Count' = Count BY <1>2 DEF Stored
<1>7. QED BY <1>0, <1>2, <1>3, <1>4, <1>5, <1>6, WriterSize

\* The store of a new key in a free slot.
LEMMA InsertEntrySize ==
    ASSUME ControlInv, PlaceInv, TabsOK', SizeInv, NEW p \in Procs, InsertEntry(p) PROVE SizeInv'
<1>1. /\ pc[p] = "insert.entry" /\ hash' = hash
      /\ WriteChain(p, [Chain(p) EXCEPT ![loc[p].slot] = Slot(p)], Nobody)
      /\ \E m : Own(p, "addSize", m) /\ m.tbl = loc[p].tbl /\ m.delta = 1
  BY InsertEntryDoes DEF ControlInv
<1>2. PICK m : Own(p, "addSize", m) /\ m.tbl = loc[p].tbl /\ m.delta = 1 BY <1>1
<1>3. pc[p] \in Writing BY <1>1 DEF Writing
<1>4. PICK s, c, k, e, r : /\ s = loc[p].slot /\ c = Chain(p) /\ k = call[p].key /\ e = Slot(p)
                           /\ r = [c EXCEPT ![s] = e]
  OBVIOUS
<1>5. s \in DOMAIN c /\ c[s].key = Absent /\ ~HasKey(c, k) BY <1>1, <1>3, <1>4, HolderFacts DEF Ready
<1>6. e.key = k BY <1>4 DEF Slot
<1>7. DOMAIN r = DOMAIN c /\ r[s].key = k /\ \A i \in DOMAIN c : i # s => r[i] = c[i] BY <1>4, <1>5, <1>6
<1>8. HasKey(r, k) BY <1>5, <1>7 DEF HasKey
<1>9. ASSUME NEW j \in Keys \ {k} PROVE HasKey(r, j) <=> HasKey(c, j)
  BY <1>5, <1>7, XsyncAssumption DEF HasKey
<1>10. WriteChain(p, r, Nobody) BY <1>1, <1>4
<1>11. \A j \in Keys \ {call[p].key} : HasKey(r, j) <=> HasKey(Chain(p), j) BY <1>4, <1>9
<1>12. ~HasKey(Chain(p), call[p].key) /\ HasKey(r, call[p].key) BY <1>4, <1>5, <1>8
<1>13. QED BY <1>1, <1>2, <1>3, <1>10, <1>11, <1>12, EntrySize

\* And in a new bucket of the chain.
LEMMA AppendBucketSize ==
    ASSUME ControlInv, PlaceInv, TabsOK', SizeInv, NEW p \in Procs, AppendBucket(p) PROVE SizeInv'
<1>1. /\ pc[p] = "append" /\ hash' = hash
      /\ WriteChain(p, Chain(p) \o [EmptyBucket EXCEPT ![1] = Slot(p)], Nobody)
      /\ \E m : Own(p, "addSize", m) /\ m.tbl = loc[p].tbl /\ m.delta = 1
  BY AppendBucketDoes DEF ControlInv
<1>2. PICK m : Own(p, "addSize", m) /\ m.tbl = loc[p].tbl /\ m.delta = 1 BY <1>1
<1>3. pc[p] \in Writing /\ hash \in Hashes /\ TablesOK /\ CallsOK /\ CallOK(p)
  BY <1>1, CountFacts DEF Writing, PlaceInv, CallsOK
<1>4. call[p].key \in Keys /\ Chain(p) \in Seq(Slots) BY <1>3, WriterFacts
<1>5. call[p].val \in Values BY <1>1, <1>3 DEF CallOK
<1>6. PICK k \in Keys, v \in Values : k = call[p].key /\ v = call[p].val /\ Slot(p) = EntryOf(k, v)
  BY <1>4, <1>5 DEF Slot, EntryOf
<1>7. PICK n, c, r : /\ n = TableLen(loc[p].tbl) /\ c = Chain(p) /\ r = Longer(c, k, v) /\ BucketOf(k, n) = Bidx(p)
  BY <1>6 DEF Bidx
<1>8. ChainOK(c, BucketOf(k, n), n) /\ ~HasKey(c, k) /\ c \in Seq(Slots)
  BY <1>1, <1>3, <1>4, <1>6, <1>7, HolderFacts DEF Ready
<1>9. \A j \in Keys : HasKey(r, j) <=> HasKey(c, j) \/ j = k
  <2>1. PICK b : b = BucketOf(k, n) OBVIOUS
  <2>2. ChainOK(r, b, n) /\ Gained(r, c, b, n, k, v) BY <1>3, <1>7, <1>8, <2>1, AddBucket
  <2>3. ASSUME NEW j \in Keys
        PROVE  /\ HasKey(r, j) <=> \E w \in Values : In(r, j, w)
               /\ HasKey(c, j) <=> \E w \in Values : In(c, j, w)
    BY <1>3, <1>8, <2>1, <2>2, KeyHasValue
  <2>4. QED BY <2>2, <2>3 DEF Gained
<1>10. WriteChain(p, r, Nobody) BY <1>1, <1>6, <1>7 DEF Longer
<1>11. \A j \in Keys \ {call[p].key} : HasKey(r, j) <=> HasKey(Chain(p), j) BY <1>6, <1>7, <1>9
<1>12. ~HasKey(Chain(p), call[p].key) /\ HasKey(r, call[p].key) BY <1>6, <1>7, <1>8, <1>9
<1>13. QED BY <1>1, <1>2, <1>3, <1>10, <1>11, <1>12, EntrySize

\* The store that removes a key.
LEMMA DeleteEntrySize ==
    ASSUME ControlInv, PlaceInv, TabsOK', SizeInv, NEW p \in Procs, DeleteEntry(p) PROVE SizeInv'
<1>1. /\ pc[p] = "delete.entry" /\ hash' = hash
      /\ WriteChain(p, [Chain(p) EXCEPT ![loc[p].slot] = EmptySlot], Nobody)
      /\ \E m : Own(p, "addSize", m) /\ m.tbl = loc[p].tbl /\ m.delta = -1
  BY DeleteEntryDoes DEF ControlInv
<1>2. PICK m : Own(p, "addSize", m) /\ m.tbl = loc[p].tbl /\ m.delta = -1 BY <1>1
<1>3. pc[p] \in Writing /\ TablesOK /\ CallsOK /\ hash \in Hashes BY <1>1, CountFacts DEF Writing, PlaceInv
<1>4. PICK s, c, k, r : s = loc[p].slot /\ c = Chain(p) /\ k = call[p].key /\ r = [c EXCEPT ![s] = EmptySlot]
  OBVIOUS
<1>5. s \in DOMAIN c /\ c[s].key = k BY <1>1, <1>3, <1>4, HolderFacts DEF Ready
<1>6. k # Absent BY <1>3, <1>4, WriterFacts, HashFacts
<1>7. DOMAIN r = DOMAIN c /\ r[s].key = Absent /\ \A i \in DOMAIN c : i # s => r[i] = c[i] BY <1>4, <1>5, EmptyFacts
<1>8. \A i, j \in DOMAIN c : c[i].key = c[j].key /\ c[i].key # Absent => i = j BY <1>3, <1>4, HolderFacts DEF ChainOK
<1>9. HasKey(c, k) /\ ~HasKey(r, k) BY <1>5, <1>6, <1>7, <1>8 DEF HasKey
<1>10. ASSUME NEW j \in Keys \ {k} PROVE HasKey(r, j) <=> HasKey(c, j)
  BY <1>5, <1>7, XsyncAssumption DEF HasKey
<1>11. WriteChain(p, r, Nobody) BY <1>1, <1>4
<1>12. \A j \in Keys \ {call[p].key} : HasKey(r, j) <=> HasKey(Chain(p), j) BY <1>4, <1>10
<1>13. HasKey(Chain(p), call[p].key) /\ ~HasKey(r, call[p].key) BY <1>4, <1>9
<1>14. PICK x : x = -1 OBVIOUS
<1>15. m.delta = x BY <1>2, <1>14
<1>16. QED BY <1>1, <1>2, <1>3, <1>11, <1>12, <1>13, <1>14, <1>15, EntrySize

\* The counter of the table that the call worked on.
LEMMA AddSizeSize ==
    ASSUME ControlInv, PlaceInv, TabsOK', SizeInv, NEW p \in Procs, AddSize(p) PROVE SizeInv'
<1>0. /\ Shape /\ TablesOK /\ TabsOK /\ hash \in Hashes /\ CallOK(p) /\ table \in 1..Count /\ Count \in Nat
  BY CountFacts DEF ControlInv, PlaceInv, CallsOK
<1>1. /\ pc[p] = "addSize" /\ hash' = hash /\ tables' = [tables EXCEPT ![loc[p].tbl].size = @ + loc[p].delta]
      /\ \E l, m : Own(p, l, m) /\ l \in {"return", "resize.fast"}
  BY <1>0, AddSizeDoes, Zenon
<1>2. PICK t \in 1..Count : t = loc[p].tbl BY <1>0, <1>1 DEF CallOK, UsesTable
<1>3. PICK x : x = loc[p].delta /\ x \in {1, -1} BY <1>1 DEF SizeInv, DeltaOK
<1>4. tables' = [tables EXCEPT ![t].size = @ + x] BY <1>1, <1>2, <1>3
<1>5. /\ DOMAIN tables = 1..Count /\ tables[t].size \in Int
      /\ tables[t] = [chains |-> tables[t].chains, mu |-> tables[t].mu, size |-> tables[t].size]
  BY <1>0, TableFacts
<1>6. /\ tables'[t].chains = tables[t].chains /\ tables'[t].size = tables[t].size + x
      /\ \A u \in 1..Count : u # t => tables'[u] = tables[u]
  BY <1>4, <1>5
<1>7. Count' = Count BY <1>0, <1>4, CountSame
<1>8. \A u \in 1..Count : TableLen(u)' = TableLen(u) /\ \A d : C(u, d)' = C(u, d) BY <1>6 DEF TableLen, C
<1>9. ASSUME NEW u \in 1..Count PROVE Held(u)' = Held(u)
  <2>1. ASSUME NEW k \in Keys PROVE k \in Held(u)' <=> k \in Held(u)
    <3>1. PICK d : d = BucketOf(k, TableLen(u)) OBVIOUS
    <3>2. k \in Held(u)' <=> HasKey(C(u, d)', k) BY <1>0, <1>1, <1>8, <3>1, HeldNext
    <3>3. QED BY <1>8, <3>1, <3>2 DEF Held
  <2>2. Held(u)' \subseteq Keys /\ Held(u) \subseteq Keys BY DEF Held
  <2>3. QED BY <2>1, <2>2
<1>10. PICK l, m : Own(p, l, m) /\ l \in {"return", "resize.fast"} BY <1>1
<1>11. pc'[p] # "addSize" /\ \A q \in Procs \ {p} : pc'[q] = pc[q] /\ loc'[q] = loc[q] BY <1>10 DEF Own
<1>12. ASSUME NEW u, NEW y PROVE Late(u, y)' = IF u = t /\ y = x THEN Late(u, y) \ {p} ELSE Late(u, y)
  BY <1>1, <1>2, <1>3, <1>11 DEF Late
<1>13. p \in Late(t, x) BY <1>1, <1>2, <1>3 DEF Late
<1>14. DeltaOK' BY <1>11 DEF SizeInv, DeltaOK
<1>15. SizeOK(t) BY DEF SizeInv
<1>16. PICK s, a, z, h : /\ s = tables[t].size /\ a = Cardinality(Late(t, 1)) /\ z = Cardinality(Late(t, -1))
                         /\ h = Cardinality(Held(t))
  OBVIOUS
<1>17. IsFiniteSet(Held(t)) /\ IsFiniteSet(Late(t, 1)) /\ IsFiniteSet(Late(t, -1)) BY <1>15 DEF SizeOK
<1>18. s \in Int /\ a \in Nat /\ z \in Nat /\ h \in Nat /\ s + a - z = h
  BY <1>5, <1>15, <1>16, <1>17, FS_CardinalityType DEF SizeOK
<1>19. SizeOK(t)'
  <2>1. CASE x = 1
    <3>1. Late(t, 1)' = Late(t, 1) \ {p} /\ Late(t, -1)' = Late(t, -1) BY <1>12, <2>1
    <3>2. IsFiniteSet(Late(t, 1)') /\ Cardinality(Late(t, 1)') = a - 1
      BY <1>13, <1>16, <1>17, <2>1, <3>1, FS_RemoveElement
    <3>3. QED BY <1>6, <1>9, <1>16, <1>17, <1>18, <2>1, <3>1, <3>2 DEF SizeOK
  <2>2. CASE x = -1
    <3>1. Late(t, -1)' = Late(t, -1) \ {p} /\ Late(t, 1)' = Late(t, 1) BY <1>12, <2>2
    <3>2. IsFiniteSet(Late(t, -1)') /\ Cardinality(Late(t, -1)') = z - 1
      BY <1>13, <1>16, <1>17, <2>2, <3>1, FS_RemoveElement
    <3>3. QED BY <1>6, <1>9, <1>16, <1>17, <1>18, <2>2, <3>1, <3>2 DEF SizeOK
  <2>3. QED BY <1>3, <2>1, <2>2
<1>20. ASSUME NEW u \in 1..Count, u # t PROVE SizeOK(u)'
  <2>1. SizeOK(u) BY DEF SizeInv
  <2>2. Late(u, 1)' = Late(u, 1) /\ Late(u, -1)' = Late(u, -1) BY <1>12, <1>20
  <2>3. QED BY <1>6, <1>9, <1>20, <2>1, <2>2 DEF SizeOK
<1>21. QED BY <1>7, <1>14, <1>19, <1>20 DEF SizeInv

\* The number of entries of a chain is the number of its keys.
LEMMA FilledIs ==
    ASSUME hash \in Hashes, NEW c \in Seq(Slots), NEW b, NEW n, ChainOK(c, b, n)
    PROVE  IsFiniteSet(KeysOf(c)) /\ Filled(c) = Cardinality(KeysOf(c))
<1>1. PICK S : S = {i \in DOMAIN c : c[i].key # Absent} OBVIOUS
<1>2. IsFiniteSet(S)
  <2>1. DOMAIN c = 1..Len(c) /\ Len(c) \in Nat OBVIOUS
  <2>2. IsFiniteSet(DOMAIN c) BY <2>1, FS_Interval
  <2>3. S \subseteq DOMAIN c BY <1>1
  <2>4. QED BY <2>2, <2>3, FS_Subset
<1>3. PICK f : f = [i \in S |-> c[i].key] OBVIOUS
<1>4. \A i \in DOMAIN c : c[i] \in Slots OBVIOUS
<1>5. \A i \in S : f[i] \in KeysOf(c) BY <1>1, <1>3, <1>4 DEF KeysOf, HasKey, Slots
<1>6. \A i, j \in S : f[i] = f[j] => i = j BY <1>1, <1>3 DEF ChainOK
<1>7. ASSUME NEW k \in KeysOf(c) PROVE \E i \in S : f[i] = k
  <2>1. k \in Keys /\ k # Absent /\ HasKey(c, k) BY HashFacts DEF KeysOf
  <2>2. QED BY <1>1, <1>3, <2>1 DEF HasKey
<1>a. f \in [S -> KeysOf(c)] BY <1>3, <1>5
<1>8. f \in Bijection(S, KeysOf(c)) BY <1>a, <1>6, <1>7 DEF Bijection, Injection, Surjection, IsInjective
<1>9. IsFiniteSet(KeysOf(c)) /\ Cardinality(KeysOf(c)) = Cardinality(S)
  BY <1>2, <1>8, FS_Bijection DEF ExistsBijection
<1>10. QED BY <1>1, <1>9 DEF Filled

\* What a merged chain holds.
LEMMA MergedKeys ==
    ASSUME hash \in Hashes, NEW r, NEW x, NEW c, NEW d, NEW n, NEW b, NEW m, Merged(r, x, c, d, n),
           ChainOK(x, d, n), ChainOK(c, b, m), NEW k \in Keys, BucketOf(k, n) = d
    PROVE  HasKey(r, k) <=> HasKey(x, k) \/ HasKey(c, k)
<1>1. HasKey(r, k) <=> \E v \in Values : In(r, k, v) BY KeyHasValue DEF Merged
<1>2. HasKey(x, k) <=> \E v \in Values : In(x, k, v) BY KeyHasValue
<1>3. HasKey(c, k) <=> \E v \in Values : In(c, k, v) BY KeyHasValue
<1>4. \A v \in Values : In(r, k, v) <=> In(x, k, v) \/ In(c, k, v) BY DEF Merged
<1>5. QED BY <1>1, <1>2, <1>3, <1>4

\* The keys of the bucket that has been moved are new keys of the new table.
LEMMA CopyHeld ==
    ASSUME ControlInv, PlaceInv, NEW p \in Procs, CopyEnd(p)
    PROVE  /\ \A u \in 1..Count : u # Count => Held(u)' = Held(u)
           /\ Held(Count)' = Held(Count) \cup KeysOf(C(table, loc[p].src))
           /\ Held(Count) \cap KeysOf(C(table, loc[p].src)) = {}
<1>0. /\ TabsOK /\ hash \in Hashes /\ ChainsOK /\ hash' = hash /\ pc[p] \in Copying
      /\ Moving2(table, loc[p].src, Count, loc[p].copy) /\ DOMAIN loc[p].copy = Dests(p)
      /\ \A d \in Dests(p) : Merged(loc[p].copy[d], C(Count, d), C(table, loc[p].src), d, TableLen(Count))
  BY CopyEndTables, CountFacts DEF PlaceInv, DataInv, Copying
<1>1. PICK t, n, s, f, c :
         /\ n \in 1..Count /\ n = Count /\ t = table /\ s = loc[p].src /\ f = loc[p].copy /\ Count = table + 1
         /\ c = C(table, loc[p].src) /\ s \in 0..TableLen(t) - 1 /\ ChainOK(c, s, TableLen(t))
         /\ Dests(p) = {d \in 0..TableLen(n) - 1 : Class(d) = loc[p].i}
  BY <1>0, MoveFacts
<1>2. Class(s) = loc[p].i BY <1>0, <1>1, ClaimFacts
<1>3. \A u \in 1..Count : TableLen(u)' = TableLen(u) BY <1>0 DEF Moving2
<1>4. ASSUME NEW u \in 1..Count, u # n PROVE Held(u)' = Held(u)
  <2>1. ASSUME NEW k \in Keys PROVE k \in Held(u)' <=> k \in Held(u)
    <3>1. PICK d : d = BucketOf(k, TableLen(u)) OBVIOUS
    <3>2. d \in 0..TableLen(u) - 1 /\ (k \in Held(u)' <=> HasKey(C(u, d)', k)) BY <1>0, <1>3, <3>1, HeldNext
    <3>3. C(u, d)' = C(u, d) BY <1>0, <1>1, <1>4, <3>2 DEF Moving2
    <3>4. QED BY <3>1, <3>2, <3>3 DEF Held
  <2>2. Held(u)' \subseteq Keys /\ Held(u) \subseteq Keys BY DEF Held
  <2>3. QED BY <2>1, <2>2
<1>5. ASSUME NEW k \in Keys
      PROVE  (k \in Held(n)' <=> k \in Held(n) \/ HasKey(c, k)) /\ ~(k \in Held(n) /\ HasKey(c, k))
  <2>1. PICK d : d = BucketOf(k, TableLen(n)) OBVIOUS
  <2>2. d \in 0..TableLen(n) - 1 /\ (k \in Held(n)' <=> HasKey(C(n, d)', k)) BY <1>0, <1>1, <1>3, <2>1, HeldNext
  <2>3. k \in Held(n) <=> HasKey(C(n, d), k) BY <2>1 DEF Held
  <2>4. HasKey(c, k) => d \in Dests(p)
    <3>1. HasKey(c, k) => BucketOf(k, TableLen(t)) = s BY <1>1, HashFacts, <1>0 DEF HasKey, ChainOK
    <3>2. Class(BucketOf(k, TableLen(n))) = Class(BucketOf(k, TableLen(t))) BY <1>1, SameClass
    <3>3. QED BY <1>1, <1>2, <2>1, <2>2, <3>1, <3>2
  <2>5. HasKey(c, k) => ~HasKey(C(n, d), k) BY <1>0, <1>1, <2>4, FreshKeys
  <2>6. CASE d \in Dests(p)
    <3>1. C(n, d)' = f[d] BY <1>0, <1>1, <2>2, <2>6 DEF Moving2
    <3>2. Merged(f[d], C(n, d), c, d, TableLen(n)) BY <1>0, <1>1, <2>6
    <3>3. ChainOK(C(n, d), d, TableLen(n)) BY <1>0, <1>1, <2>2 DEF ChainsOK
    <3>4. HasKey(f[d], k) <=> HasKey(C(n, d), k) \/ HasKey(c, k) BY <1>0, <1>1, <2>1, <3>2, <3>3, MergedKeys
    <3>5. QED BY <2>2, <2>3, <2>5, <3>1, <3>4
  <2>7. CASE d \notin Dests(p)
    <3>1. C(n, d)' = C(n, d) BY <1>0, <1>1, <2>2, <2>7 DEF Moving2
    <3>2. QED BY <2>2, <2>3, <2>4, <2>7, <3>1
  <2>8. QED BY <2>6, <2>7
<1>6. Held(n)' \subseteq Keys /\ Held(n) \subseteq Keys BY DEF Held
<1>7. KeysOf(c) = {k \in Keys : HasKey(c, k)} BY DEF KeysOf
<1>8. Held(n)' = Held(n) \cup KeysOf(c) /\ Held(n) \cap KeysOf(c) = {} BY <1>5, <1>6, <1>7
<1>9. Held(Count)' = Held(n)'
  <2>1. Count' = Count BY <1>0 DEF Moving2
  <2>2. Held(Count)' = Held(n)' BY <1>1, <2>1 DEF Held, C, TableLen, BucketOf
  <2>3. QED BY <2>2
<1>10. QED BY <1>1, <1>4, <1>8, <1>9

\* The bucket that has been moved is counted at once: nobody else counts in the new table.
LEMMA CopyEndSize ==
    ASSUME ControlInv, PlaceInv, SizeInv, NEW p \in Procs, CopyEnd(p) PROVE SizeInv'
<1>0. /\ TabsOK /\ hash \in Hashes /\ hash' = hash /\ pc[p] = "copied" /\ pc[p] \in Copying
      /\ Moving2(table, loc[p].src, Count, loc[p].copy)
  BY CopyEndTables, CountFacts DEF PlaceInv, Copying
<1>1. PICK l, m : GoesOn(p, l, m) BY CopyEndTables
<1>2. pc'[p] # "addSize" /\ \A q \in Procs \ {p} : pc'[q] = pc[q] /\ loc'[q] = loc[q] BY <1>1 DEF GoesOn, Own
<1>3. \A u, x : Late(u, x)' = Late(u, x) BY <1>0, <1>2, LateSame
<1>4. DeltaOK' BY <1>2 DEF SizeInv, DeltaOK
<1>5. PICK n, c, j : /\ n \in 1..Count /\ n = Count /\ c = C(table, loc[p].src) /\ c \in Seq(Slots)
                     /\ ChainOK(c, loc[p].src, TableLen(table)) /\ j = Filled(c)
  BY <1>0, MoveFacts
<1>6. /\ \A u \in 1..Count : u # n => Held(u)' = Held(u)
      /\ Held(n) \cap KeysOf(c) = {}
  BY <1>5, CopyHeld
<1>7. Held(n)' = Held(n) \cup KeysOf(c)
  <2>1. Count' = Count BY <1>0 DEF Moving2
  <2>2. Held(Count)' = Held(n)' BY <1>5, <2>1 DEF Held, C, TableLen, BucketOf
  <2>3. QED BY <1>5, <2>2, CopyHeld
<1>8. /\ Count' = Count /\ tables'[n].size = tables[n].size + j
      /\ \A u \in 1..Count : u # n => tables'[u].size = tables[u].size
  <2>1. \A u \in 1..Count : u # n => tables[u].size \in Int BY <1>0, TableFacts
  <2>2. QED BY <1>0, <1>5, <2>1 DEF Moving2
<1>9. IsFiniteSet(KeysOf(c)) /\ j = Cardinality(KeysOf(c)) BY <1>0, <1>5, FilledIs
<1>10. SizeOK(n)'
  <2>1. SizeOK(n) BY <1>5 DEF SizeInv
  <2>2. PICK s, a, z, h : /\ s = tables[n].size /\ a = Cardinality(Late(n, 1)) /\ z = Cardinality(Late(n, -1))
                          /\ h = Cardinality(Held(n))
    OBVIOUS
  <2>3. IsFiniteSet(Held(n)) /\ IsFiniteSet(Late(n, 1)) /\ IsFiniteSet(Late(n, -1)) BY <2>1 DEF SizeOK
  <2>4. s \in Int /\ a \in Nat /\ z \in Nat /\ h \in Nat /\ j \in Nat /\ s + a - z = h
    <3>1. s \in Int BY <1>0, <1>5, <2>2, TableFacts
    <3>2. a \in Nat /\ z \in Nat /\ h \in Nat /\ j \in Nat BY <1>9, <2>2, <2>3, FS_CardinalityType
    <3>3. s + a - z = h BY <2>1, <2>2 DEF SizeOK
    <3>4. QED BY <3>1, <3>2, <3>3
  <2>5. IsFiniteSet(Held(n)') /\ Cardinality(Held(n)') = h + j
    <3>1. /\ IsFiniteSet(Held(n) \cup KeysOf(c))
          /\ Cardinality(Held(n) \cup KeysOf(c)) =
                Cardinality(Held(n)) + Cardinality(KeysOf(c)) - Cardinality(Held(n) \cap KeysOf(c))
      BY <1>9, <2>3, FS_Union
    <3>2. Cardinality(Held(n) \cap KeysOf(c)) = 0 BY <1>6, FS_EmptySet
    <3>3. QED BY <1>7, <1>9, <2>2, <2>4, <3>1, <3>2
  <2>6. QED BY <1>3, <1>8, <2>2, <2>3, <2>4, <2>5 DEF SizeOK
<1>11. ASSUME NEW u \in 1..Count, u # n PROVE SizeOK(u)'
  <2>1. SizeOK(u) BY DEF SizeInv
  <2>2. QED BY <1>3, <1>6, <1>8, <1>11, <2>1 DEF SizeOK
<1>12. QED BY <1>4, <1>8, <1>10, <1>11 DEF SizeInv

\* A step that leaves the tables as they are.
LEMMA StillSize ==
    ASSUME PlaceInv, SizeInv, NEW p \in Procs, pc[p] # "addSize", pc'[p] # "addSize", hash' = hash, tables' = tables,
           \A q \in Procs \ {p} : loc'[q] = loc[q] /\ (pc'[q] = pc[q] \/ (pc[q] = "sleep" /\ pc'[q] = "wait"))
    PROVE  SizeInv'
<1>1. TabsOK /\ hash \in Hashes BY CountFacts DEF PlaceInv
<1>2. Untouched BY StillDoes
<1>3. QED BY <1>1, <1>2, AsideSize

\* A step that takes or releases the lock of a bucket.
LEMMA LockSize ==
    ASSUME PlaceInv, TabsOK', SizeInv, NEW p \in Procs, pc[p] # "addSize", NEW l, NEW m, Own(p, l, m), l # "addSize",
           hash' = hash, NEW t, NEW b, NEW h, tables' = [tables EXCEPT ![t].mu[b] = h]
    PROVE  SizeInv'
<1>1. TabsOK /\ hash \in Hashes BY CountFacts DEF PlaceInv
<1>2. Untouched BY <1>1, MuDoes
<1>3. pc'[p] # "addSize" /\ \A q \in Procs \ {p} : loc'[q] = loc[q] /\ pc'[q] = pc[q] BY DEF Own
<1>4. QED BY <1>1, <1>2, <1>3, AsideSize

\* A table that has been made is empty, and no call works on it.
LEMMA MadeSize ==
    ASSUME PlaceInv, SizeInv, NEW p \in Procs, pc[p] # "addSize", NEW l, NEW m, Own(p, l, m), l # "addSize",
           hash' = hash, NEW n \in Nat \ {0}, Made(n)
    PROVE  SizeInv'
<1>0. TabsOK /\ TablesOK /\ CallsOK /\ hash \in Hashes /\ Count \in Nat /\ table \in 1..Count
  BY CountFacts DEF PlaceInv
<1>1. pc'[p] # "addSize" /\ \A q \in Procs \ {p} : loc'[q] = loc[q] /\ pc'[q] = pc[q] BY DEF Own
<1>2. \A u, x : Late(u, x)' = Late(u, x) BY <1>1, LateSame
<1>3. DeltaOK' BY <1>1 DEF SizeInv, DeltaOK
<1>4. PICK c \in Nat : c = Count /\ Count' = c + 1 BY <1>0 DEF Made
<1>5. ASSUME NEW u \in 1..c PROVE SizeOK(u)'
  <2>1. SizeOK(u) /\ TableLen(u)' = TableLen(u) /\ tables'[u] = tables[u] BY <1>4 DEF SizeInv, Made
  <2>2. ASSUME NEW k \in Keys PROVE k \in Held(u)' <=> k \in Held(u)
    <3>1. PICK d : d = BucketOf(k, TableLen(u)) OBVIOUS
    <3>2. k \in Held(u)' <=> HasKey(C(u, d)', k) BY <1>0, <1>4, <2>1, <3>1, HeldNext
    <3>3. C(u, d)' = C(u, d) BY <2>1 DEF C
    <3>4. QED BY <3>1, <3>2, <3>3 DEF Held
  <2>3. Held(u)' \subseteq Keys /\ Held(u) \subseteq Keys BY DEF Held
  <2>4. Held(u)' = Held(u) BY <2>2, <2>3
  <2>5. QED BY <1>2, <2>1, <2>4 DEF SizeOK
<1>6. ASSUME NEW u \in {c + 1} PROVE SizeOK(u)'
  <2>1. /\ TableLen(u)' = n /\ tables'[u] = NewTable(n) /\ \A d \in 0..n - 1 : C(u, d)' = EmptyBucket
    BY <1>4, <1>6 DEF Made
  <2>2. tables'[u].size = 0 BY <2>1 DEF NewTable
  <2>3. \A x : Late(u, x) = {}
    <3>1. ASSUME NEW q \in Procs, pc[q] = "addSize" PROVE loc[q].tbl # u
      <4>1. CallOK(q) BY <1>0 DEF CallsOK
      <4>2. loc[q].tbl \in 1..table /\ table \in Nat BY <1>0, <3>1, <4>1, CountFacts DEF CallOK, UsesTable
      <4>3. QED BY <1>0, <1>4, <1>6, <4>2
    <3>2. QED BY <3>1 DEF Late
  <2>4. Held(u)' = {}
    <3>1. ASSUME NEW k \in Keys PROVE k \notin Held(u)'
      <4>1. PICK d : d = BucketOf(k, n)' /\ d \in 0..n - 1
        <5>1. BucketOf(k, n) \in 0..n - 1 BY <1>0, BucketIn
        <5>2. BucketOf(k, n)' = BucketOf(k, n) BY DEF BucketOf
        <5>3. QED BY <5>1, <5>2
      <4>2. ~HasKey(EmptyBucket, k)
        <5>1. k # Absent /\ EmptySlot.key = Absent /\ \A i \in DOMAIN EmptyBucket : EmptyBucket[i] = EmptySlot
          BY <1>0, HashFacts, EmptyFacts
        <5>2. QED BY <5>1 DEF HasKey
      <4>3. BucketOf(k, TableLen(u))' = d BY <2>1, <4>1 DEF BucketOf
      <4>4. HasKey(C(u, BucketOf(k, TableLen(u))), k)' <=> HasKey(C(u, d)', k) BY <4>3 DEF HasKey, C
      <4>5. ~HasKey(C(u, d)', k) BY <2>1, <4>1, <4>2
      <4>6. QED BY <4>4, <4>5 DEF Held
    <3>2. Held(u)' \subseteq Keys BY DEF Held
    <3>3. QED BY <3>1, <3>2
  <2>5. IsFiniteSet({}) /\ Cardinality({}) = 0 BY FS_EmptySet
  <2>6. Late(u, 1)' = {} /\ Late(u, -1)' = {} BY <1>2, <2>3
  <2>7. QED BY <2>2, <2>4, <2>5, <2>6 DEF SizeOK
<1>7. \A u \in 1..Count' : u \in 1..c \/ u \in {c + 1} BY <1>4
<1>8. QED BY <1>3, <1>5, <1>6, <1>7 DEF SizeInv

\* The step that makes the table.
LEMMA ResizeNewSize ==
    ASSUME ControlInv, PlaceInv, SizeInv, NEW p \in Procs, ResizeNew(p) PROVE SizeInv'
<1>0. Shape /\ TabsOK /\ TablesOK BY CountFacts DEF ControlInv, PlaceInv
<1>1. pc[p] = "resize.new" /\ hash' = hash BY <1>0, ResizeNewDoes
<1>2. CASE UNCHANGED <<tables, resizeIdx>> /\ Own(p, "resize.giveUp", loc[p])
  <2>1. pc'[p] # "addSize" /\ \A q \in Procs \ {p} : loc'[q] = loc[q] /\ pc'[q] = pc[q] BY <1>2 DEF Own
  <2>2. QED BY <1>1, <1>2, <2>1, StillSize
<1>3. ASSUME NEW m, Own(p, "resize.next", m),
             \/ tables' = Append(tables, NewTable(2 * TableLen(table)))
             \/ TableLen(table) > MinLen /\ tables' = Append(tables, NewTable(TableLen(table) \div 2))
      PROVE  SizeInv'
  <2>1. PICK len \in Nat \ {0} : len = TableLen(table) /\ LenOK(len)
    <3>1. table \in 1..Count BY <1>0, CountFacts
    <3>2. QED BY <1>0, <3>1, TableFacts
  <2>2. PICK n \in Nat \ {0} : LenOK(n) /\ tables' = Append(tables, NewTable(n))
    <3>1. CASE tables' = Append(tables, NewTable(2 * len))
      <4>1. LenOK(2 * len) BY <2>1, LenDouble
      <4>2. 2 * len \in Nat \ {0} BY <2>1
      <4>3. QED BY <3>1, <4>1, <4>2
    <3>2. CASE len > MinLen /\ tables' = Append(tables, NewTable(len \div 2))
      <4>1. PICK h \in Nat \ {0} : len \div 2 = h /\ LenOK(h) BY <2>1, <3>2, LenHalf
      <4>2. QED BY <3>2, <4>1
    <3>3. QED BY <1>3, <2>1, <3>1, <3>2
  <2>3. Made(n) BY <1>0, <2>2, MakeTable
  <2>4. QED BY <1>1, <1>3, <2>3, MadeSize
<1>4. \/ \E m : /\ Own(p, "resize.next", m)
                /\ \/ tables' = Append(tables, NewTable(2 * TableLen(table)))
                   \/ TableLen(table) > MinLen /\ tables' = Append(tables, NewTable(TableLen(table) \div 2))
      \/ UNCHANGED <<tables, resizeIdx>> /\ Own(p, "resize.giveUp", loc[p])
  BY <1>0, ResizeNewDoes
<1>5. QED BY <1>2, <1>3, <1>4

\* Every step preserves the invariant of the counters.
LEMMA SizeStep ==
    ASSUME ControlInv, PlaceInv, TabsOK', SizeInv, NEW p \in Procs,
           Work(p) \/ \E c \in Abs!Invocations : Invoke(p, c)
    PROVE  SizeInv'
<1>0. /\ Shape /\ CallOK(p) /\ call = [q \in Procs |-> call[q]] BY DEF ControlInv, PlaceInv, CallsOK
<1>1. ASSUME NEW l, NEW m, Own(p, l, m), l # "addSize", pc[p] # "addSize", hash' = hash, tables' = tables
      PROVE  SizeInv'
  <2>1. pc'[p] # "addSize" /\ \A q \in Procs \ {p} : loc'[q] = loc[q] /\ pc'[q] = pc[q] BY <1>1 DEF Own
  <2>2. QED BY <1>1, <2>1, StillSize
<1>2. ASSUME NEW l, NEW m, Own(p, l, m), l # "addSize", pc[p] # "addSize", Still PROVE SizeInv'
  <2>1. hash' = hash /\ tables' = tables BY <1>2 DEF Still
  <2>2. QED BY <1>1, <1>2, <2>1
<1>b. ASSUME pc[p] # "addSize", Broadcast(p, AfterResize(p)), loc' = loc, hash' = hash, tables' = tables PROVE SizeInv'
  <2>1. pc'[p] # "addSize" BY <1>b DEF Broadcast, AfterResize
  <2>2. \A q \in Procs \ {p} : loc'[q] = loc[q] /\ (pc'[q] = pc[q] \/ (pc[q] = "sleep" /\ pc'[q] = "wait"))
    BY <1>b DEF Broadcast
  <2>3. QED BY <1>b, <2>1, <2>2, StillSize
<1>3. CASE LookupSteps(p)
  <2>1. CASE ReadTable(p)
    <3>1. pc[p] = "table" /\ Still /\ \E l, m : Own(p, l, m) /\ l # "addSize" BY <1>0, <2>1, ReadTableDoes
    <3>2. QED BY <1>2, <3>1
  <2>2. CASE ReadMeta(p)
    <3>1. pc[p] = "meta" /\ Still /\ \E m : Own(p, "entry", m) BY <1>0, <2>2, ReadMetaDoes
    <3>2. QED BY <1>2, <3>1
  <2>3. CASE ReadEntry(p)
    <3>1. pc[p] = "entry" /\ Still /\ \E l, m : Own(p, l, m) /\ l # "addSize" BY <1>0, <2>3, ReadEntryDoes
    <3>2. QED BY <1>2, <3>1
  <2>4. CASE ReadNext(p)
    <3>1. pc[p] = "entry" /\ Still /\ \E l, m : Own(p, l, m) /\ l # "addSize" BY <1>0, <2>4, ReadNextDoes
    <3>2. QED BY <1>2, <3>1
  <2>5. CASE RangeBucket(p)
    <3>1. pc[p] = "range" /\ Still /\ \E m : Own(p, "range", m) BY <1>0, <2>5, RangeBucketDoes
    <3>2. QED BY <1>2, <3>1
  <2>6. CASE RangeEnd(p)
    <3>1. pc[p] = "range" /\ Still /\ Own(p, "return", loc[p]) BY <1>0, <2>6, RangeEndDoes
    <3>2. QED BY <1>2, <3>1
  <2>7. CASE Return(p)
    <3>1. /\ pc[p] = "return" /\ pc'[p] = "idle" /\ hash' = hash /\ tables' = tables
          /\ \A q \in Procs \ {p} : pc'[q] = pc[q] /\ loc'[q] = loc[q]
      BY <1>0, <2>7, ReturnDoes DEF Still
    <3>2. QED BY <3>1, StillSize
  <2>8. QED BY <1>3, <2>1, <2>2, <2>3, <2>4, <2>5, <2>6, <2>7 DEF LookupSteps
<1>4. CASE WriteSteps(p)
  <2>1. CASE LockRoot(p)
    <3>1. /\ pc[p] = "lock" /\ hash' = hash
          /\ \E l, m : Own(p, l, m) /\ l # "addSize" /\ (tables' = tables \/ Lock(p))
      BY <1>0, <2>1, LockRootDoes
    <3>2. QED BY <1>1, <3>1, LockSize DEF Lock
  <2>2. CASE CheckNewer(p)
    <3>1. /\ pc[p] = "newer" /\ hash' = hash
          /\ \E l, m : Own(p, l, m) /\ l # "addSize" /\ (tables' = tables \/ Unlock(p))
      BY <1>0, <2>2, CheckNewerDoes
    <3>2. QED BY <1>1, <3>1, LockSize DEF Unlock
  <2>3. CASE Search(p)
    <3>1. pc[p] = "search" /\ call[p].op \in Abs!WriteOps
      <4>1. pc[p] = "search" BY <2>3 DEF Search
      <4>2. QED BY <1>0, <4>1 DEF CallOK, Reading
    <3>2. /\ hash' = hash
          /\ \E l, m : Own(p, l, m) /\ l # "addSize" /\ (tables' = tables \/ Unlock(p))
      BY <1>0, <2>3, <3>1, SearchDoes DEF Gives, Takes
    <3>3. QED BY <1>1, <3>1, <3>2, LockSize DEF Unlock
  <2>4. CASE Update(p) BY <2>4, UpdateSize
  <2>5. CASE InsertMeta(p) BY <2>5, MetaSize
  <2>6. CASE InsertEntry(p) BY <2>6, InsertEntrySize
  <2>7. CASE AppendBucket(p) BY <2>7, AppendBucketSize
  <2>8. CASE DeleteMeta(p) BY <2>8, MetaSize
  <2>9. CASE DeleteEntry(p) BY <2>9, DeleteEntrySize
  <2>10. CASE AddSize(p) BY <2>10, AddSizeSize
  <2>11. QED BY <1>4, <2>1, <2>2, <2>3, <2>4, <2>5, <2>6, <2>7, <2>8, <2>9, <2>10 DEF WriteSteps
<1>5. CASE ResizeSteps(p)
  <2>1. CASE ResizeFast(p)
    <3>1. pc[p] = "resize.fast" /\ Still /\ \E l, m : Own(p, l, m) /\ l # "addSize" BY <1>0, <2>1, ResizeFastDoes
    <3>2. QED BY <1>2, <3>1
  <2>2. CASE ResizeSeq(p)
    <3>1. pc[p] = "resize.seq" /\ Still /\ \E l, m : Own(p, l, m) /\ l # "addSize" BY <1>0, <2>2, ResizeSeqDoes
    <3>2. QED BY <1>2, <3>1
  <2>3. CASE ResizeCas(p)
    <3>1. /\ pc[p] = "resize.cas" /\ Still /\ \E l, m : Own(p, l, m) /\ l # "addSize"
      <4>1. pc[p] = "resize.cas" BY <2>3 DEF ResizeCas
      <4>2. QED BY <1>0, <2>3, <4>1, ResizeCasDoes
    <3>2. QED BY <1>2, <3>1
  <2>4. CASE ResizeNew(p) BY <2>4, ResizeNewSize
  <2>5. CASE ResizeGiveUp(p) BY <1>b, <2>5 DEF ResizeGiveUp
  <2>6. CASE ResizeNext(p)
    <3>1. pc[p] = "resize.next" /\ Still /\ Own(p, "claim", loc[p]) BY <1>0, <2>6, ResizeNextDoes
    <3>2. QED BY <1>2, <3>1
  <2>7. CASE ResizeWait(p)
    <3>1. pc[p] = "resize.wait" /\ Still /\ Own(p, "resize.publish", loc[p]) BY <1>0, <2>7, ResizeWaitDoes
    <3>2. QED BY <1>2, <3>1
  <2>8. CASE ResizePublish(p)
    <3>1. pc[p] = "resize.publish" /\ hash' = hash /\ tables' = tables /\ Own(p, "resize.clear", loc[p])
      BY <1>0, <2>8, ResizePublishDoes
    <3>2. QED BY <1>1, <3>1
  <2>9. CASE ResizeClear(p)
    <3>1. pc[p] = "resize.clear" /\ Still /\ Own(p, "resize.mu", loc[p]) BY <1>0, <2>9, ResizeClearDoes
    <3>2. QED BY <1>2, <3>1
  <2>10. CASE ResizeMu(p)
    <3>1. pc[p] = "resize.mu" /\ Still /\ Own(p, "resize.end", loc[p]) BY <1>0, <2>10, ResizeMuDoes
    <3>2. QED BY <1>2, <3>1
  <2>11. CASE ResizeEnd(p) BY <1>b, <2>11 DEF ResizeEnd
  <2>12. QED BY <1>5, <2>1, <2>2, <2>3, <2>4, <2>5, <2>6, <2>7, <2>8, <2>9, <2>10, <2>11 DEF ResizeSteps
<1>6. CASE HelpSteps(p)
  <2>1. CASE Claim(p)
    <3>1. \/ \E l : Own(p, l, loc[p]) /\ l \in {"resize.wait", "help.leave"}
          \/ \E m : Own(p, "copy", m)
      BY <1>0, <2>1, ClaimDoes, Zenon
    <3>2. pc[p] = "claim" /\ hash' = hash /\ tables' = tables BY <1>0, <2>1, ClaimDoes
    <3>3. QED BY <1>1, <3>1, <3>2
  <2>2. CASE CopyBegin(p)
    <3>1. /\ pc[p] = "copy" /\ hash' = hash /\ tables' = [tables EXCEPT ![loc[p].old].mu[loc[p].src] = p]
          /\ \E m : Own(p, "copied", m)
      BY <1>0, <2>2, CopyBeginDoes, Zenon
    <3>2. QED BY <3>1, LockSize
  <2>3. CASE CopyEnd(p) BY <2>3, CopyEndSize
  <2>4. CASE HelpTable(p)
    <3>1. pc[p] = "help.table" /\ Still /\ \E m : Own(p, "help.next", m) BY <1>0, <2>4, HelpTableDoes
    <3>2. QED BY <1>2, <3>1
  <2>5. CASE HelpNext(p)
    <3>1. pc[p] = "help.next" /\ Still /\ \E m : Own(p, "help.check", m) BY <1>0, <2>5, HelpNextDoes
    <3>2. QED BY <1>2, <3>1
  <2>6. CASE HelpCheck(p)
    <3>1. pc[p] = "help.check" /\ Still /\ \E l, m : Own(p, l, m) /\ l # "addSize"
      BY <1>0, <2>6, HelpCheckDoes DEF AfterResize
    <3>2. QED BY <1>2, <3>1
  <2>7. CASE HelpJoin(p)
    <3>1. pc[p] = "help.join" /\ Still /\ \E l, m : Own(p, l, m) /\ l # "addSize" BY <1>0, <2>7, HelpJoinDoes
    <3>2. QED BY <1>2, <3>1
  <2>8. CASE HelpLeave(p)
    <3>1. pc[p] = "help.leave" /\ Still /\ Own(p, "wait", loc[p]) BY <1>0, <2>8, HelpLeaveDoes
    <3>2. QED BY <1>2, <3>1
  <2>9. CASE WaitForResize(p)
    <3>1. pc[p] = "wait" /\ Still /\ \E l, m : Own(p, l, m) /\ l # "addSize"
      BY <1>0, <2>9, WaitForResizeDoes DEF AfterResize
    <3>2. QED BY <1>2, <3>1
  <2>10. QED BY <1>6, <2>1, <2>2, <2>3, <2>4, <2>5, <2>6, <2>7, <2>8, <2>9 DEF HelpSteps
<1>7. ASSUME NEW c \in Abs!Invocations, Invoke(p, c) PROVE SizeInv'
  <2>1. /\ pc[p] = "idle" /\ pc'[p] = "table" /\ hash' = hash /\ tables' = tables /\ loc' = loc
        /\ \A q \in Procs \ {p} : pc'[q] = pc[q]
    BY <1>0, <1>7, InvokeDoes DEF Still
  <2>2. QED BY <2>1, StillSize
<1>8. QED BY <1>3, <1>4, <1>5, <1>6, <1>7 DEF Work

\* With the bijection from the keys of a table to the places of its entries, the invariant says
\* what its counter is.
LEMMA SizeIs == ASSUME PlaceInv, SizeInv PROVE SizeExact
<1>0. TablesOK /\ TabsOK /\ ChainsOK /\ hash \in Hashes BY CountFacts DEF PlaceInv, DataInv
<1>1. DOMAIN tables = 1..Count BY <1>0 DEF TabsOK, Count
<1>2. ASSUME NEW t \in 1..Count PROVE Cardinality(Entries(t)) = Cardinality(Held(t))
  <2>1. TableLen(t) \in Nat \ {0} /\ DOMAIN tables[t].chains = 0..TableLen(t) - 1 BY <1>0, TableFacts
  <2>2. \A z : z \in Entries(t) <=>
           \E b \in 0..TableLen(t) - 1 : \E i \in DOMAIN C(t, b) : z = <<b, i>> /\ C(t, b)[i].key # Absent
    BY <2>1 DEF Entries, C
  <2>3. \A b \in 0..TableLen(t) - 1 : ChainOK(C(t, b), b, TableLen(t)) BY <1>0 DEF ChainsOK
  <2>4. \A b \in 0..TableLen(t) - 1 : \A i \in DOMAIN C(t, b) : C(t, b)[i] \in Slots
    BY <1>0, TableFacts
  <2>5. PICK f : f = [z \in Entries(t) |-> C(t, z[1])[z[2]].key] OBVIOUS
  <2>6. ASSUME NEW z \in Entries(t)
        PROVE  \E b \in 0..TableLen(t) - 1 : \E i \in DOMAIN C(t, b) :
                  /\ z = <<b, i>> /\ f[z] = C(t, b)[i].key /\ f[z] \in Keys /\ b = BucketOf(f[z], TableLen(t))
                  /\ \A j \in DOMAIN C(t, b) : C(t, b)[j].key = f[z] => j = i
    <3>1. PICK b \in 0..TableLen(t) - 1 : \E i \in DOMAIN C(t, b) : z = <<b, i>> /\ C(t, b)[i].key # Absent
      BY <2>2
    <3>2. PICK i \in DOMAIN C(t, b) : z = <<b, i>> /\ C(t, b)[i].key # Absent BY <3>1
    <3>3. f[z] = C(t, b)[i].key BY <2>5, <3>2
    <3>4. C(t, b)[i].key \in Keys BY <2>4, <3>2 DEF Slots
    <3>5. ChainOK(C(t, b), b, TableLen(t)) BY <2>3
    <3>6. QED BY <3>2, <3>3, <3>4, <3>5 DEF ChainOK
  <2>7. ASSUME NEW z \in Entries(t) PROVE f[z] \in Held(t)
    <3>1. PICK b \in 0..TableLen(t) - 1 : \E i \in DOMAIN C(t, b) :
                  f[z] = C(t, b)[i].key /\ f[z] \in Keys /\ b = BucketOf(f[z], TableLen(t))
      BY <2>6
    <3>2. HasKey(C(t, b), f[z]) BY <3>1 DEF HasKey
    <3>3. QED BY <3>1, <3>2 DEF Held
  <2>8. ASSUME NEW y \in Entries(t), NEW z \in Entries(t), f[y] = f[z] PROVE y = z
    <3>1. PICK b \in 0..TableLen(t) - 1 : \E i \in DOMAIN C(t, b) :
                  /\ y = <<b, i>> /\ f[y] = C(t, b)[i].key /\ b = BucketOf(f[y], TableLen(t))
                  /\ \A j \in DOMAIN C(t, b) : C(t, b)[j].key = f[y] => j = i
      BY <2>6
    <3>2. PICK d \in 0..TableLen(t) - 1 : \E i \in DOMAIN C(t, d) :
                  z = <<d, i>> /\ f[z] = C(t, d)[i].key /\ d = BucketOf(f[z], TableLen(t))
      BY <2>6
    <3>3. b = d BY <2>8, <3>1, <3>2
    <3>4. QED BY <2>8, <3>1, <3>2, <3>3
  <2>9. ASSUME NEW k \in Held(t) PROVE \E z \in Entries(t) : f[z] = k
    <3>1. PICK b : b = BucketOf(k, TableLen(t)) /\ HasKey(C(t, b), k) /\ k \in Keys BY DEF Held
    <3>2. b \in 0..TableLen(t) - 1 BY <1>0, <2>1, <3>1, BucketIn
    <3>3. PICK i \in DOMAIN C(t, b) : C(t, b)[i].key = k BY <3>1 DEF HasKey
    <3>4. k # Absent BY <1>0, <3>1, HashFacts
    <3>5. <<b, i>> \in Entries(t) BY <2>2, <3>2, <3>3, <3>4
    <3>6. f[<<b, i>>] = k BY <2>5, <3>3, <3>5
    <3>7. QED BY <3>5, <3>6
  <2>10. f \in [Entries(t) -> Held(t)] BY <2>5, <2>7
  <2>11. f \in Bijection(Entries(t), Held(t)) BY <2>8, <2>9, <2>10 DEF Bijection, Injection, Surjection, IsInjective
  <2>12. IsFiniteSet(Held(t)) BY DEF SizeInv, SizeOK
  <2>13. IsFiniteSet(Entries(t)) BY <2>11, <2>12, FS_Injection DEF Bijection
  <2>14. QED BY <2>11, <2>13, FS_Bijection DEF ExistsBijection
<1>3. ASSUME NEW t \in DOMAIN tables
      PROVE  tables[t].size + Cardinality(Late(t, 1)) - Cardinality(Late(t, -1)) = Cardinality(Entries(t))
  BY <1>1, <1>2, <1>3 DEF SizeInv, SizeOK
<1>4. QED BY <1>3 DEF SizeExact, Late

-----------------------------------------------------------------------------
(* Every step.                                                              *)

\* A step that changes nothing.
LEMMA NoStep ==
    ASSUME PlaceInv, SizeInv, UNCHANGED vars PROVE PlaceInv' /\ SizeInv'
<1>0. TablesOK /\ CallsOK /\ StageInv /\ DataInv BY DEF PlaceInv
<1>1. UNCHANGED <<hash, tables, table, nextTable, ctl, resizeIdx, pc, call, loc>> BY DEF vars, shared
<1>2. SizeInv'
  <2>1. DeltaOK' BY <1>1 DEF SizeInv, DeltaOK
  <2>2. Count' = Count BY <1>1 DEF Count
  <2>3. ASSUME NEW u \in 1..Count PROVE SizeOK(u)'
    <3>1. SizeOK(u) BY DEF SizeInv
    <3>2. \A x : Late(u, x)' = Late(u, x) BY <1>1 DEF Late
    <3>3. Held(u)' = Held(u) BY <1>1 DEF Held, HasKey, C, BucketOf, TableLen
    <3>4. QED BY <1>1, <3>1, <3>2, <3>3 DEF SizeOK
  <2>4. QED BY <2>1, <2>2, <2>3 DEF SizeInv
<1>3. TablesOK' /\ SameTables /\ SameLens BY <1>0, <1>1, StillTables DEF Still, SameTables
<1>4. CallsOK' BY <1>0, <1>1 DEF CallsOK, CallOK
<1>5. Count' = Count /\ (\A t : TableLen(t)' = TableLen(t)) /\ (\A t, b : C(t, b)' = C(t, b) /\ Mu(t, b)' = Mu(t, b))
  BY <1>1 DEF Count, TableLen, C, Mu
<1>6. \A q \in Procs : /\ (Builds(q)' <=> Builds(q)) /\ (Opens(q)' <=> Opens(q))
                       /\ (Registered(q)' <=> Registered(q)) /\ Kept(q)
  BY <1>1 DEF Builds, Opens, Registered, Kept
<1>7. StageInv'
  <2>1. BuildOK' BY <1>0, <1>1, <1>5, <1>6 DEF StageInv, BuildOK, TableLen
  <2>2. HelpsOK' BY <1>0, <1>1, <1>5, <1>6 DEF StageInv, HelpsOK, HelpOK
  <2>3. Base' = Base BY <1>0, <1>3, SameBase
  <2>4. DoneOK' BY <1>0, <1>1, <1>5, <1>6, <2>3 DEF StageInv, DoneOK
  <2>5. QED BY <2>1, <2>2, <2>4 DEF StageInv
<1>8. ClaimsOK' BY <1>0, <1>1, <1>3, <1>6, SameClaims DEF DataInv
<1>9. \A b : Moved(b)' <=> Moved(b) BY <1>0, <1>1, <1>3, <1>6, SameMoved
<1>10. \A q \in Procs : Bidx(q)' = Bidx(q) BY <1>1, <1>5 DEF Bidx, BucketOf, TableLen
<1>11. \A q \in Procs : Chain(q)' = Chain(q) BY <1>1, <1>10 DEF Chain
<1>12. LocksOK' BY <1>0, <1>1, <1>10 DEF DataInv, LocksOK, Mu
<1>13. WritersOK'
  <2>1. ASSUME NEW q \in Procs PROVE WriterOK(q)'
    <3>1. WriterOK(q) BY <1>0 DEF DataInv, WritersOK
    <3>2. Moved(Bidx(q))' => Moved(Bidx(q))
      <4>1. PICK b : b = Bidx(q) OBVIOUS
      <4>2. Moved(Bidx(q))' <=> Moved(b)' BY <1>10, <4>1 DEF Moved, Pending, Class
      <4>3. QED BY <1>9, <4>1, <4>2
    <3>3. pc[q] \in Writing \ {"newer"} => loc[q].tbl = table' BY <1>1, <3>1 DEF WriterOK
    <3>4. pc[q] \in Writing /\ loc[q].tbl = table' /\ Count' = table' + 1 => ~Moved(Bidx(q))'
      BY <1>1, <1>5, <3>1, <3>2 DEF WriterOK
    <3>5. QED BY <1>1, <1>11, <3>1, <3>3, <3>4, WriterOn
  <2>2. QED BY <2>1 DEF WritersOK
<1>14. ChainsOK'
  <2>1. ASSUME NEW u \in 1..Count', NEW d \in 0..TableLen(u)' - 1
        PROVE  /\ ChainOK(C(u, d), d, TableLen(u))'
               /\ \A i \in DOMAIN C(u, d)' : Tidy(C(u, d)[i])' \/ \E q \in Procs : Touches(q, u, d, i)'
    <3>1. u \in 1..Count /\ d \in 0..TableLen(u) - 1 BY <1>5
    <3>2. /\ ChainOK(C(u, d), d, TableLen(u))
          /\ \A i \in DOMAIN C(u, d) : Tidy(C(u, d)[i]) \/ \E q \in Procs : Touches(q, u, d, i)
      BY <1>0, <3>1 DEF DataInv, ChainsOK
    <3>3. ChainOK(C(u, d), d, TableLen(u))' <=> ChainOK(C(u, d), d, TableLen(u))
      BY <1>1, <1>5 DEF ChainOK, BucketOf
    <3>4. \A i \in DOMAIN C(u, d)' : Tidy(C(u, d)[i])' <=> Tidy(C(u, d)[i]) BY <1>5 DEF Tidy
    <3>5. \A q \in Procs, i \in DOMAIN C(u, d) : Touches(q, u, d, i) => Touches(q, u, d, i)'
      BY <1>1, <1>10 DEF Touches
    <3>6. QED BY <1>5, <3>2, <3>3, <3>4, <3>5
  <2>2. QED BY <2>1 DEF ChainsOK
<1>15. ASSUME NEW q \in Procs PROVE CopyOK(q)'
  <2>1. CopyOK(q) BY <1>0 DEF DataInv, CopiesOK
  <2>2. Dests(q)' = Dests(q) BY <1>1 DEF Dests, BaseLen, TableLen
  <2>3. ASSUME NEW d \in Dests(q)
        PROVE  Merged(loc[q].copy[d], C(loc[q].new, d), C(loc[q].old, loc[q].src), d, TableLen(loc[q].new))' <=>
               Merged(loc[q].copy[d], C(loc[q].new, d), C(loc[q].old, loc[q].src), d, TableLen(loc[q].new))
    <3>1. PICK r, x, c, n : /\ r = loc[q].copy[d] /\ x = C(loc[q].new, d) /\ c = C(loc[q].old, loc[q].src)
                            /\ n = TableLen(loc[q].new)
      OBVIOUS
    <3>2. Merged(r, x, c, d, n)' <=> Merged(r, x, c, d, n) BY <1>1, SameHash
    <3>3. r = loc'[q].copy[d] /\ x = C(loc[q].new, d)' /\ c = C(loc[q].old, loc[q].src)' /\ n = TableLen(loc[q].new)'
      BY <1>1, <3>1 DEF C, TableLen
    <3>4. Merged(loc[q].copy[d], C(loc[q].new, d), C(loc[q].old, loc[q].src), d, TableLen(loc[q].new))' <=>
          Merged(r, x, c, d, n)'
      BY <3>3 DEF Merged, ChainOK, BucketOf
    <3>5. QED BY <3>1, <3>2, <3>4
  <2>4. QED BY <1>1, <2>1, <2>2, <2>3 DEF CopyOK
<1>16. CopiedOK' BY <1>0, <1>3, <1>5, <1>9, CopiedStays DEF DataInv, CopiesOK
<1>17. DataInv' BY <1>8, <1>12, <1>13, <1>14, <1>15, <1>16 DEF DataInv, CopiesOK
<1>18. QED BY <1>2, <1>3, <1>4, <1>7, <1>17 DEF PlaceInv

\* Every step preserves the invariant of the entries.
LEMMA PlaceStep ==
    ASSUME ControlInv, PlaceInv, SizeInv, [Next]_vars PROVE PlaceInv' /\ SizeInv'
<1>0. ASSUME PlaceInv' PROVE TabsOK' BY <1>0 DEF PlaceInv, TablesOK
<1>z. DeltaOK BY DEF SizeInv
<1>1. ASSUME NEW p \in Procs, Work(p) PROVE PlaceInv'
  <2>1. CASE LookupSteps(p)
    BY <2>1, ReadTablePlace, ReadMetaPlace, ReadEntryPlace, ReadNextPlace, RangeBucketPlace, RangeEndPlace,
       ReturnPlace DEF LookupSteps
  <2>2. CASE WriteSteps(p)
    BY <1>z, <2>2, LockRootPlace, CheckNewerPlace, SearchPlace, UpdatePlace, InsertMetaPlace, InsertEntryPlace,
       AppendBucketPlace, DeleteMetaPlace, DeleteEntryPlace, AddSizePlace DEF WriteSteps
  <2>3. CASE ResizeSteps(p)
    BY <2>3, ResizeFastPlace, ResizeSeqPlace, ResizeCasPlace, ResizeNewPlace, ResizeGiveUpPlace, ResizeNextPlace,
       ResizeWaitPlace, ResizePublishPlace, ResizeClearPlace, ResizeMuPlace, ResizeEndPlace DEF ResizeSteps
  <2>4. CASE HelpSteps(p)
    BY <2>4, ClaimPlace, CopyBeginPlace, CopyEndPlace, HelpTablePlace, HelpNextPlace, HelpCheckPlace,
       HelpJoinPlace, HelpLeavePlace, WaitForResizePlace DEF HelpSteps
  <2>5. QED BY <1>1, <2>1, <2>2, <2>3, <2>4 DEF Work
<1>2. ASSUME NEW p \in Procs, NEW c \in Abs!Invocations, Invoke(p, c) PROVE PlaceInv'
  BY <1>2, InvokePlace
<1>3. CASE UNCHANGED vars BY <1>3, NoStep
<1>4. CASE Next
  <2>1. PICK p \in Procs : Work(p) \/ \E c \in Abs!Invocations : Invoke(p, c) BY <1>4 DEF Next
  <2>2. PlaceInv' BY <1>1, <1>2, <2>1
  <2>3. QED BY <1>0, <2>1, <2>2, SizeStep
<1>5. QED BY <1>3, <1>4

\* It holds initially.
LEMMA PlaceInit == ASSUME Init PROVE PlaceInv /\ SizeInv
<1>0. /\ hash \in Hashes /\ tables = <<NewTable(MinLen)>> /\ table = 1 /\ nextTable = NoTable /\ resizeIdx = 0
      /\ \A p \in Procs : pc[p] = "idle" /\ loc[p] = NoLocals /\ call[p] = Abs!Idle
      /\ call = [p \in Procs |-> call[p]]
  BY DEF Init, InitRest
<1> DEFINE x == NewTable(MinLen)
<1>1. MinLen \in Nat \ {0} /\ LenOK(MinLen) BY LenMin
<1>2. x \in TablesOf(MinLen) BY <1>1, NewTableOf
<1>3. x.chains = [b \in 0..MinLen - 1 |-> EmptyBucket] /\ DOMAIN x.chains = 0..MinLen - 1 BY DEF NewTable
<1> HIDE DEF x
<1>4. tables = <<x>> BY <1>0 DEF x
<1>5. Count = 1 /\ tables[1] = x BY <1>4 DEF Count
<1>6. TableLen(1) = MinLen BY <1>1, <1>3, <1>5, IntervalLen DEF TableLen
<1>7. tables \in Seq(UNION {TablesOf(n) : n \in Nat})
  <2>1. x \in UNION {TablesOf(n) : n \in Nat} BY <1>1, <1>2
  <2>2. PICK X : X = UNION {TablesOf(n) : n \in Nat} OBVIOUS
  <2>3. <<x>> \in Seq(X) BY <2>1, <2>2
  <2>4. QED BY <1>4, <2>2, <2>3
<1>8. TabsOK BY <1>1, <1>2, <1>5, <1>6, <1>7 DEF TabsOK
<1>9. TablesOK BY <1>0, <1>5, <1>8 DEF TablesOK
<1>10. CallsOK BY <1>0 DEF CallsOK, CallOK, Reading, UsesTable, Writing
<1>11. NoLocals.owner = FALSE BY DEF NoLocals
<1>12. \A p \in Procs : ~Builds(p) /\ ~Registered(p) BY <1>0 DEF Builds, Registered, Moving
<1>13. StageInv
  <2>1. BuildOK BY <1>0, <1>5, <1>12 DEF BuildOK
  <2>2. HelpsOK BY <1>0, <1>12 DEF HelpsOK, HelpOK
  <2>3. DoneOK BY <1>0, <1>5 DEF DoneOK
  <2>4. QED BY <2>1, <2>2, <2>3 DEF StageInv
<1>14. \A p \in Procs : pc[p] \notin Writing /\ pc[p] \notin Copying /\ pc[p] # "copied"
  BY <1>0 DEF Writing, Copying
<1>15. ChainsOK
  <2>1. ASSUME NEW t \in 1..Count, NEW b \in 0..TableLen(t) - 1
        PROVE  ChainOK(C(t, b), b, TableLen(t)) /\ AllTidy(C(t, b))
    <3>1. t = 1 /\ tables[t] = x BY <1>5
    <3>2. b \in 0..MinLen - 1 BY <1>6, <3>1
    <3>3. C(t, b) = EmptyBucket BY <1>3, <3>1, <3>2 DEF C
    <3>4. QED BY <3>3, EmptyOK
  <2>2. QED BY <2>1 DEF ChainsOK, AllTidy
<1>16. DataInv
  <2>1. ClaimsOK BY <1>14 DEF ClaimsOK, ClaimOK
  <2>2. LocksOK BY <1>14 DEF LocksOK
  <2>3. WritersOK BY <1>14 DEF WritersOK, WriterOK, Writing
  <2>4. CopiesOK BY <1>0, <1>5, <1>14 DEF CopiesOK, CopyOK, CopiedOK
  <2>5. QED BY <1>15, <2>1, <2>2, <2>3, <2>4 DEF DataInv
<1>17. SizeInv
  <2>1. DeltaOK BY <1>0 DEF DeltaOK
  <2>2. ASSUME NEW t \in 1..Count PROVE SizeOK(t)
    <3>1. t = 1 /\ tables[t].size = 0 BY <1>5 DEF x, NewTable
    <3>2. \A d : Late(t, d) = {} BY <1>0 DEF Late
    <3>3. Held(t) = {}
      <4>1. ASSUME NEW k \in Keys PROVE ~HasKey(C(t, BucketOf(k, TableLen(t))), k)
        <5>1. PICK b \in 0..MinLen - 1 : b = BucketOf(k, TableLen(t)) BY <1>0, <1>1, <1>6, <3>1, BucketIn
        <5>2. C(t, b) = EmptyBucket BY <1>3, <1>5, <3>1 DEF C
        <5>3. k # Absent /\ EmptySlot.key = Absent /\ \A i \in DOMAIN EmptyBucket : EmptyBucket[i] = EmptySlot
          BY <1>0, HashFacts, EmptyFacts
        <5>4. QED BY <5>1, <5>2, <5>3 DEF HasKey
      <4>2. QED BY <4>1 DEF Held
    <3>4. IsFiniteSet({}) /\ Cardinality({}) = 0 BY FS_EmptySet
    <3>5. QED BY <3>1, <3>2, <3>3, <3>4 DEF SizeOK
  <2>3. QED BY <2>1, <2>2 DEF SizeInv
<1>18. QED BY <1>9, <1>10, <1>13, <1>16, <1>17 DEF PlaceInv

\* The invariant says where the entries are.
LEMMA PlaceIs == ASSUME PlaceInv PROVE OnePlace
<1>0. TablesOK /\ TabsOK /\ ChainsOK BY DEF PlaceInv, DataInv, TablesOK
<1>1. SUFFICES ASSUME NEW t \in DOMAIN tables, NEW x \in Entries(t), NEW y \in Entries(t)
               PROVE  LET e == tables[t].chains[x[1]][x[2]]
                      IN  /\ BucketOf(e.key, TableLen(t)) = x[1] /\ e.meta \in {0, hash.h2[e.key]}
                          /\ tables[t].chains[y[1]][y[2]].key = e.key => x = y
  BY DEF OnePlace
<1>2. t \in 1..Count /\ DOMAIN tables[t].chains = 0..TableLen(t) - 1
  <2>1. DOMAIN tables = 1..Count BY <1>0 DEF TabsOK, Count
  <2>2. QED BY <1>0, <2>1, TableFacts
<1>3. ASSUME NEW z \in Entries(t)
      PROVE  \E b \in 0..TableLen(t) - 1 : \E i \in DOMAIN C(t, b) :
                z = <<b, i>> /\ C(t, b)[i].key # Absent
  BY <1>2, <1>3 DEF Entries, C
<1>4. PICK b \in 0..TableLen(t) - 1 : \E i \in DOMAIN C(t, b) : x = <<b, i>> /\ C(t, b)[i].key # Absent BY <1>3
<1>5. PICK i \in DOMAIN C(t, b) : x = <<b, i>> /\ C(t, b)[i].key # Absent BY <1>4
<1>6. PICK d \in 0..TableLen(t) - 1 : \E j \in DOMAIN C(t, d) : y = <<d, j>> /\ C(t, d)[j].key # Absent BY <1>3
<1>7. PICK j \in DOMAIN C(t, d) : y = <<d, j>> /\ C(t, d)[j].key # Absent BY <1>6
<1>8. ChainOK(C(t, b), b, TableLen(t)) /\ ChainOK(C(t, d), d, TableLen(t)) BY <1>0, <1>2 DEF ChainsOK
<1>9. BucketOf(C(t, b)[i].key, TableLen(t)) = b /\ C(t, b)[i].meta \in {0, hash.h2[C(t, b)[i].key]}
  BY <1>5, <1>8 DEF ChainOK
<1>10. ASSUME C(t, d)[j].key = C(t, b)[i].key PROVE x = y
  <2>1. d = b BY <1>7, <1>8, <1>9, <1>10 DEF ChainOK
  <2>2. i = j BY <1>5, <1>7, <1>8, <1>10, <2>1 DEF ChainOK
  <2>3. QED BY <1>5, <1>7, <2>1, <2>2
<1>11. tables[t].chains[x[1]][x[2]] = C(t, b)[i] /\ tables[t].chains[y[1]][y[2]] = C(t, d)[j] /\ x[1] = b
  BY <1>5, <1>7 DEF C
<1>12. QED BY <1>9, <1>10, <1>11

\* The invariants of the control, of the entries and of the counters hold together.
LEMMA AllInv == Spec => [](ControlInv /\ PlaceInv /\ SizeInv)
<1>1. Init => ControlInv /\ PlaceInv /\ SizeInv BY ControlInit, PlaceInit
<1>2. ControlInv /\ PlaceInv /\ SizeInv /\ [Next]_vars => (ControlInv /\ PlaceInv /\ SizeInv)'
  BY ControlStep, PlaceStep
<1>3. QED BY <1>1, <1>2, PTL DEF Spec

\* For any number of goroutines, keys, buckets and resizes, and for any hash function: an entry
\* is only ever in the chain of its key, and no table holds a key twice.  This is also so for
\* the table that several goroutines fill without its locks (transferBucketUnsafe), and for
\* writers that retry after a resize: whoever has passed newerTableExists under the lock of the
\* bucket works on a bucket that has not been moved.
THEOREM OnePlaceAlways == Spec => []OnePlace
<1>1. PlaceInv => OnePlace BY PlaceIs
<1>2. QED BY <1>1, AllInv, PTL

\* And Size() is exact but for the addSize calls that are still to come: a bucket that is moved
\* is counted once in the table that it is moved to, a writer counts in the table that it wrote
\* to, even if that one is no longer the current one, and no store adds or removes more than
\* one key.
THEOREM SizeExactAlways == Spec => []SizeExact
<1>1. PlaceInv /\ SizeInv => SizeExact BY SizeIs
<1>2. QED BY <1>1, AllInv, PTL

=============================================================================
