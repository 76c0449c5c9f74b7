-------------------------- MODULE ProxyGroup_proofs --------------------------
(***************************************************************************)
(* Proofs about proxy groups, for any callers, names, lists, delays and    *)
(* tolerances: type correctness, that a cached list is the list of the     *)
(* provider when it has its version, that a selection takes effect, and    *)
(* what the groups that go by tests choose from a list.                    *)
(*                                                                         *)
(* The inductive invariant says of every caller what it carries where it   *)
(* stands (Local), that no version that was read or cached is ahead of the *)
(* provider (Versions), that those who wait in fastSingle wait for a call  *)
(* that is still to return (Waits, Registered), and which results go by    *)
(* the selection in force (Remembered, FreshOK).  On top of it, Search says*)
(* what a caller knows of the proxies that it has looked at so far, by the *)
(* records that have not changed since it began.                           *)
(***************************************************************************)
EXTENDS ProxyGroup, TLAPS, WellFoundedInduction

Proxies == Objects \cup {EmptyFallback}

Labels == {"idle", "do", "version", "proxies", "choose", "done", "store", "wait", "chosen",
           "find", "clear", "fixed", "walk", "keep", "return", "set", "test", "reset", "returned"}

NodeRec == [obj : Proxies, sel : Names \cup {NoName}, set : BOOLEAN]

LocRec == [op : {"none", "choose", "set"}, arg : Names \cup {NoName} \cup Callers,
           version : 0..MaxVersion, list : Seq(Proxies), node : NodeRec, fresh : BOOLEAN]

FnRec == [i : Nat \ {0}, sel : Names \cup {NoName}, fast : Proxies, min : 0..MaxDelay, exist : BOOLEAN]

SinceRec == [changed : SUBSET Objects, raced : BOOLEAN]

Shape ==
    /\ kind \in Kinds
    /\ provider \in [version : 0..MaxVersion, names : Seq(Names)]
    /\ real \in [Names -> Delays \cup {0}]
    /\ health \in [Objects -> Delays \cup {0, Untested}]
    /\ cache \in [version : 0..MaxVersion + 1, list : Seq(Proxies)]
    /\ selected \in Names \cup {NoName}
    /\ fastNode \in Proxies
    /\ idx \in Nat
    /\ single \in [call : Callers \cup {NoCaller}, result : NodeRec]
    /\ failedTimes \in 0..MaxFailedTimes
    /\ pc \in [Callers -> Labels]
    /\ loc \in [Callers -> LocRec]
    /\ fn \in [Callers -> FnRec]
    /\ since \in [Callers -> SinceRec]

\* No version is ahead of the provider, and a version stands for one list.
Versions ==
    /\ \A c \in Callers : pc[c] = "proxies" => loc[c].version <= provider.version
    /\ cache.version <= MaxVersion => cache.version <= provider.version /\ cache.list # <<>>
    /\ cache.version = provider.version => cache.list = Listed

\* Where fn of a url-test group goes through its list.
Walking == {"fixed", "walk", "keep", "return"}

\* What a caller at label l carries, with f as the locals of its search.
Local(l, v, f) ==
    /\ l \in {"version", "proxies"} => v.op \in {"choose", "set"}
    /\ l \in {"do", "wait", "choose", "done", "store"} \cup Choosing => v.op = "choose"
    /\ l \in {"do", "wait", "done", "store", "reset"} \cup Walking => kind = "url-test"
    /\ l \in {"find", "clear"} => kind = "fallback"
    /\ l \in {"set", "test"} => v.op = "set"
    /\ v.op = "set" => v.arg \in Names
    /\ l \in {"choose", "set", "test"} \cup Choosing => v.list # <<>>
    /\ l \in Choosing => f.i \in DOMAIN v.list
    /\ l = "test" => HasName(v.list, v.arg)

Locals == \A c \in Callers : Local(pc[c], loc[c], fn[c])

\* Caller c runs fn of fastSingle.Do, which has not returned.
Runs(c) == pc[c] \in InFn /\ loc[c].op = "choose"

Waits == \A c \in Callers : pc[c] = "wait" => loc[c].arg \in Callers /\ Runs(loc[c].arg)

Registered == single.call # NoCaller => Runs(single.call) \/ pc[single.call] = "store"

NoReset == \A c \in Callers : pc[c] # "reset"

\* What caller c has read or found in fn goes by the selection in force.
GoesAt(l, v, f) ==
    /\ l \in Walking => f.sel = selected
    /\ l \in {"done", "store"} => v.node.sel = selected

Goes(c) == GoesAt(pc[c], loc[c], fn[c])

\* When no change of the selection is under way, what fastSingle remembers, and what the call
\* under way has found, goes by the selection in force.
Remembered ==
    NoReset =>
        /\ single.result.set => single.result.sel = selected
        /\ single.call # NoCaller => Goes(single.call)

\* What a caller that began after the last change has found, or will be given.
FreshOK ==
    \A c \in Callers : loc[c].fresh =>
        /\ NoReset /\ Goes(c)
        /\ pc[c] = "chosen" => loc[c].node.sel = selected
        /\ pc[c] = "wait" => Goes(loc[c].arg)

Shared == IF kind = "url-test" THEN Waits /\ Registered /\ Remembered /\ FreshOK
          ELSE single.call = NoCaller

IInv == Shape /\ Versions /\ Locals /\ Shared

-----------------------------------------------------------------------------
(* The least element of a set of numbers, and the first index of a set.      *)

\* Any set of natural numbers that is not empty has a least element.
LEMMA NatMin ==
    ASSUME NEW U \in SUBSET Nat, U # {}
    PROVE  \E x \in U : \A y \in U : x <= y
<1> DEFINE R == {ss \in Nat \X Nat : ss[1] < ss[2]}
<1>1. OpToRel(<, Nat) = R
  BY DEF OpToRel
<1>2. IsWellFoundedOn(R, Nat)
  BY <1>1, NatLessThanWellFounded
<1>3. PICK x \in U : \A y \in U : ~(<<y, x>> \in R)
  <2> HIDE DEF R
  <2> QED  BY <1>2, WFMin
<1>4. ASSUME NEW y \in U PROVE x <= y
  <2>1. ~(y < x)
    BY <1>3
  <2>2. QED  BY <2>1
<1>5. QED  BY <1>4

\* A set of positions of a sequence has a first one.
LEMMA FirstPosition ==
    ASSUME NEW S, NEW list \in Seq(S), NEW U \in SUBSET DOMAIN list, U # {}
    PROVE  \E i \in U : \A j \in 1..i - 1 : j \notin U
<1>1. U \in SUBSET Nat /\ DOMAIN list = 1..Len(list)
  OBVIOUS
<1>2. PICK i \in U : \A y \in U : i <= y
  BY <1>1, NatMin
<1>3. ASSUME NEW j \in 1..i - 1 PROVE j \notin U
  BY <1>1, <1>2
<1>4. QED  BY <1>3

\* First finds a proxy that is alive if the list has one.
LEMMA FirstAlive ==
    ASSUME NEW list \in Seq(Proxies), list # <<>>
    PROVE  /\ First(list, Alive) \in DOMAIN list
           /\ (\E i \in DOMAIN list : Alive(list[i])) => Alive(list[First(list, Alive)])
<1> DEFINE U == {i \in DOMAIN list : Alive(list[i])}
<1>1. 1 \in DOMAIN list
  OBVIOUS
<1>2. CASE \E i \in DOMAIN list : Alive(list[i])
  <2>1. PICK i \in U : \A j \in 1..i - 1 : j \notin U
    BY <1>2, FirstPosition
  <2>2. \A j \in 1..i - 1 : j \in DOMAIN list
    BY <2>1
  <2>3. i \in DOMAIN list /\ Alive(list[i]) /\ \A j \in 1..i - 1 : ~Alive(list[j])
    BY <2>1, <2>2
  <2>4. First(list, Alive) = CHOOSE k \in DOMAIN list : Alive(list[k]) /\ \A j \in 1..k - 1 : ~Alive(list[j])
    BY <1>2 DEF First
  <2>5. First(list, Alive) \in DOMAIN list /\ Alive(list[First(list, Alive)])
    BY <2>3, <2>4
  <2>6. QED  BY <2>5
<1>3. CASE ~ \E i \in DOMAIN list : Alive(list[i])
  BY <1>1, <1>3 DEF First
<1>4. QED  BY <1>2, <1>3

\* PositionOf finds the proxy of a name if the list has it.
LEMMA FirstNamed ==
    ASSUME NEW list \in Seq(Proxies), list # <<>>, NEW n
    PROVE  /\ PositionOf(list, n) \in DOMAIN list
           /\ HasName(list, n) => list[PositionOf(list, n)][1] = n
<1> DEFINE U == {i \in DOMAIN list : list[i][1] = n}
<1>1. 1 \in DOMAIN list
  OBVIOUS
<1>2. CASE \E i \in DOMAIN list : list[i][1] = n
  <2>1. PICK i \in U : \A j \in 1..i - 1 : j \notin U
    BY <1>2, FirstPosition
  <2>2. \A j \in 1..i - 1 : j \in DOMAIN list
    BY <2>1
  <2>3. i \in DOMAIN list /\ list[i][1] = n /\ \A j \in 1..i - 1 : ~(list[j][1] = n)
    BY <2>1, <2>2
  <2>4. PositionOf(list, n)
          = CHOOSE k \in DOMAIN list : list[k][1] = n /\ \A j \in 1..k - 1 : ~(list[j][1] = n)
    BY <1>2 DEF PositionOf, First
  <2>5. \E k \in DOMAIN list : list[k][1] = n /\ \A j \in 1..k - 1 : ~(list[j][1] = n)
    BY <2>3
  <2>6. QED  BY <2>4, <2>5
<1>3. CASE ~ \E i \in DOMAIN list : list[i][1] = n
  BY <1>1, <1>3 DEF PositionOf, First, HasName
<1>4. QED  BY <1>2, <1>3

-----------------------------------------------------------------------------
(* What the kinds of groups choose from a list.                             *)

\* Delays are numbers up to MaxDelay, and the delay of a proxy that is not alive is MaxDelay.
LEMMA DelayFacts ==
    ASSUME Shape, NEW o \in Proxies
    PROVE  /\ LastDelay(o) \in 0..MaxDelay
           /\ LastDelay(o) < MaxDelay => Alive(o)
<1>1. MaxDelay \in Nat /\ Delays \subseteq 1..MaxDelay - 1
  BY ProxyGroupAssumption
<1>2. o # EmptyFallback => health[o] \in Delays \cup {0, MaxDelay}
  BY DEF Shape, Proxies, Untested
<1>3. CASE o = EmptyFallback \/ health[o] = 0
  BY <1>1, <1>3 DEF LastDelay
<1>4. CASE ~(o = EmptyFallback \/ health[o] = 0)
  <2>1. LastDelay(o) = health[o] /\ Alive(o)
    BY <1>4 DEF LastDelay, Alive
  <2>2. \A d \in Delays \cup {0, MaxDelay} : d \in 0..MaxDelay
    BY <1>1
  <2>3. health[o] \in 0..MaxDelay
    BY <1>2, <1>4, <2>2
  <2>4. QED  BY <2>1, <2>3
<1>5. QED  BY <1>3, <1>4

\* Going round a list of n from any place meets every position.
LEMMA Rotation ==
    ASSUME NEW k \in Nat, NEW n \in Nat, n > 0, NEW i \in 1..n
    PROVE  \E j \in 1..n : ((k + j - 1) % n) + 1 = i
<1> DEFINE q == k \div n
           r == k % n
<1>1. k = q * n + r /\ q \in Nat /\ r \in 0..n - 1
  OBVIOUS
<1>2. ASSUME NEW p \in Int, NEW m \in 0..n - 1 PROVE (p * n + m) % n = m
  OBVIOUS
<1> HIDE DEF q, r
<1>3. (q * n + (i - 1)) % n = i - 1 /\ ((q + 1) * n + (i - 1)) % n = i - 1
  BY <1>1, <1>2
<1>4. (q + 1) * n = q * n + n /\ q * n \in Int
  BY <1>1
<1>5. CASE r <= i - 1
  <2>1. i - r \in 1..n /\ k + (i - r) - 1 = q * n + (i - 1)
    BY <1>1, <1>4, <1>5
  <2>2. ((k + (i - r) - 1) % n) + 1 = i
    BY <1>3, <2>1
  <2>3. PICK j : j = i - r
    OBVIOUS
  <2>4. QED  BY <2>1, <2>2, <2>3
<1>6. CASE r > i - 1
  <2>1. i - r + n \in 1..n /\ k + (i - r + n) - 1 = (q + 1) * n + (i - 1)
    BY <1>1, <1>4, <1>6
  <2>2. ((k + (i - r + n) - 1) % n) + 1 = i
    BY <1>3, <2>1
  <2>3. PICK j : j = i - r + n
    OBVIOUS
  <2>4. QED  BY <2>1, <2>2, <2>3
<1>7. QED  BY <1>1, <1>5, <1>6

\* The round robin meets every proxy of the list, so it finds one that is alive if there is one.
LEMMA RoundRobinFacts ==
    ASSUME Shape, NEW list \in Seq(Proxies), list # <<>>
    PROVE  /\ RoundRobin(list)[2] \in Nat
           /\ \E i \in DOMAIN list : RoundRobin(list)[1] = list[i]
           /\ (\E i \in DOMAIN list : Alive(list[i])) => Alive(RoundRobin(list)[1])
<1> DEFINE n == Len(list)
           at(i) == ((idx + i - 1) % n) + 1
           turn == [i \in 1..n |-> list[at(i)]]
<1>1. n \in Nat \ {0} /\ DOMAIN list = 1..n /\ 1 \in 1..n /\ idx \in Nat
  BY DEF Shape
<1> HIDE DEF n
<1>2. \A i \in 1..n : at(i) \in 1..n
  BY <1>1
<1>3. turn \in Seq(Proxies) /\ turn # <<>> /\ DOMAIN turn = 1..n
  <2>1. \A i \in 1..n : list[at(i)] \in Proxies
    BY <1>1, <1>2
  <2>2. turn \in [1..n -> Proxies]
    BY <2>1
  <2> HIDE DEF turn
  <2>3. turn \in Seq(Proxies) /\ Len(turn) = n
    BY <1>1, <2>2
  <2>4. QED  BY <1>1, <2>2, <2>3
<1>4. \A i \in 1..n : turn[i] = list[at(i)]
  OBVIOUS
<1>5. \A i \in 1..n : \E j \in 1..n : at(j) = i
  <2>1. idx \in Nat /\ n \in Nat /\ n > 0
    BY <1>1
  <2>2. QED  BY <2>1, Rotation
<1>6. (\E i \in DOMAIN list : Alive(list[i])) => \E j \in 1..n : Alive(turn[j])
  <2>1. SUFFICES ASSUME NEW i \in 1..n, Alive(list[i]) PROVE \E j \in 1..n : Alive(turn[j])
    BY <1>1
  <2>2. PICK j \in 1..n : at(j) = i
    BY <1>5
  <2>3. turn[j] = list[i]
    BY <1>4, <2>2
  <2>4. QED  BY <2>1, <2>2, <2>3
<1>7. RoundRobin(list) = IF \E j \in 1..n : Alive(turn[j])
                         THEN <<turn[First(turn, Alive)], (idx + First(turn, Alive)) % n>>
                         ELSE <<list[1], (idx + n) % n>>
  BY DEF RoundRobin, n
<1> HIDE DEF turn
<1>8. CASE \E j \in 1..n : Alive(turn[j])
  <2>1. First(turn, Alive) \in 1..n /\ Alive(turn[First(turn, Alive)])
    BY <1>3, <1>8, FirstAlive
  <2>2. RoundRobin(list) = <<turn[First(turn, Alive)], (idx + First(turn, Alive)) % n>>
    BY <1>7, <1>8
  <2>3. (idx + First(turn, Alive)) % n \in Nat
    BY <1>1, <2>1
  <2>4. turn[First(turn, Alive)] = list[at(First(turn, Alive))] /\ at(First(turn, Alive)) \in DOMAIN list
    BY <1>1, <1>2, <1>4, <2>1
  <2> HIDE DEF at
  <2>5. QED  BY <2>1, <2>2, <2>3, <2>4
<1>9. CASE ~ \E j \in 1..n : Alive(turn[j])
  <2>1. RoundRobin(list) = <<list[1], (idx + n) % n>>
    BY <1>7, <1>9
  <2>2. (idx + n) % n \in Nat
    BY <1>1
  <2>3. QED  BY <1>1, <1>6, <1>9, <2>1, <2>2
<1>10. QED  BY <1>8, <1>9

\* A consistent hash meets proxies of the list, and only dead ones if all are dead.
LEMMA ConsistentFacts ==
    ASSUME NEW list \in Seq(Proxies), list # <<>>, NEW o \in ConsistentHashing(list)
    PROVE  /\ \E i \in DOMAIN list : o = list[i]
           /\ (\E i \in DOMAIN list : Alive(list[i])) => Alive(o)
<1>1. 1 \in DOMAIN list
  OBVIOUS
<1>2. Range(list) = {list[i] : i \in DOMAIN list}
  BY DEF Range
<1>3. CASE {p \in Range(list) : Alive(p)} = {}
  <2>1. o = list[1]
    BY <1>3 DEF ConsistentHashing
  <2>2. QED  BY <1>1, <1>2, <1>3, <2>1
<1>4. CASE {p \in Range(list) : Alive(p)} # {}
  <2>1. o \in {p \in Range(list) : Alive(p)}
    BY <1>4 DEF ConsistentHashing
  <2>2. QED  BY <1>2, <2>1
<1>5. QED  BY <1>3, <1>4

\* What Choose does, for the kinds of groups that choose in one step.
LEMMA ChooseFacts ==
    ASSUME Shape, Locals, NEW c \in Callers, Choose(c)
    PROVE  \E o \in Proxies :
             /\ Found(c, o, selected) /\ idx' \in Nat
             /\ kind \in {"select", "round-robin", "consistent-hashing"}
             /\ kind # "select" =>
                  /\ HasName(loc[c].list, o[1])
                  /\ Passed(loc[c].list) # {} => Alive(o)
<1> DEFINE list == loc[c].list
<1>1. list \in Seq(Proxies) /\ list # <<>>
  <2>1. loc[c] \in LocRec /\ pc[c] = "choose"
    BY DEF Shape, Choose
  <2>2. QED  BY <2>1 DEF LocRec, Locals, Local
<1>2. \A i \in DOMAIN list : list[i] \in Proxies /\ HasName(list, list[i][1])
  BY <1>1 DEF HasName
<1>3. Passed(list) # {} => \E i \in DOMAIN list : Alive(list[i])
  BY DEF Passed
<1>4. idx \in Nat
  BY DEF Shape
<1> HIDE DEF list
<1>5. CASE kind = "select" /\ Found(c, SelectedProxy(list), selected) /\ UNCHANGED idx
  <2>1. SelectedProxy(list) \in Proxies
    BY <1>1, <1>2, FirstNamed DEF SelectedProxy
  <2>2. QED  BY <1>4, <1>5, <2>1
<1>6. CASE kind = "round-robin" /\ Found(c, RoundRobin(list)[1], selected) /\ idx' = RoundRobin(list)[2]
  <2>1. /\ RoundRobin(list)[2] \in Nat
        /\ RoundRobin(list)[1] \in Proxies /\ HasName(list, RoundRobin(list)[1][1])
        /\ Passed(list) # {} => Alive(RoundRobin(list)[1])
    BY <1>1, <1>2, <1>3, RoundRobinFacts
  <2>2. QED  BY <1>6, <2>1 DEF list
<1>7. CASE /\ kind = "consistent-hashing" /\ UNCHANGED idx
           /\ \E o \in ConsistentHashing(list) : Found(c, o, selected)
  <2>1. PICK o \in ConsistentHashing(list) : Found(c, o, selected)
    BY <1>7
  <2>2. o \in Proxies /\ HasName(list, o[1]) /\ (Passed(list) # {} => Alive(o))
    BY <1>1, <1>2, <1>3, <2>1, ConsistentFacts
  <2>3. QED  BY <1>4, <1>7, <2>1, <2>2 DEF list
<1>8. QED  BY <1>5, <1>6, <1>7 DEF Choose, list

-----------------------------------------------------------------------------
(* A step of one caller.                                                    *)

\* What a step of caller c that leaves it at label l with v may do, in a url-test group.
Fits(c, l, v) ==
    /\ pc[c] # "done" /\ l \notin {"reset", "store"}
    /\ Runs(c) => l \in InFn /\ v.op = "choose"
    /\ pc[c] = "reset" => single'.call = NoCaller /\ ~single'.result.set
    /\ l = "wait" => /\ v.arg \in Callers \ {c} /\ Runs(v.arg)
                     /\ v.fresh => Goes(v.arg)
    /\ v.fresh => loc[c].fresh \/ (NoReset /\ Goes(c))
    /\ Goes(c) => GoesAt(l, v, fn'[c])
    /\ l = "chosen" /\ v.fresh => v.node.sel = selected
    /\ single'.call \in {NoCaller, single.call, c}
    /\ single'.call = c => l \in InFn /\ v.op = "choose" /\ (single.call = c \/ Goes(c))
    /\ NoReset /\ single'.result.set => single'.result.sel = selected

\* A step of one caller keeps what is shared, if it fits.
LEMMA SharedStep ==
    ASSUME IInv, NEW c \in Callers, NEW l \in Labels, NEW v \in LocRec,
           \A d \in Callers \ {c} : pc'[d] = pc[d] /\ loc'[d] = loc[d] /\ fn'[d] = fn[d],
           pc'[c] = l, loc'[c] = v, UNCHANGED <<kind, selected>>, single'.call \in Callers \cup {NoCaller},
           kind = "url-test", Fits(c, l, v)
    PROVE  Shared'
<1>1. Waits /\ Registered /\ Remembered /\ FreshOK
  BY DEF IInv, Shared
<1>2. NoCaller \notin Callers
  BY ProxyGroupAssumption
<1>3. \A d \in Callers : Runs(d) => Runs(d)'
  BY DEF Runs, InFn, Fits
<1>4. NoReset' => NoReset \/ pc[c] = "reset"
  BY DEF NoReset
<1>5. NoReset => NoReset'
  BY DEF NoReset, Fits
<1>6. \A d \in Callers : Goes(d) => Goes(d)'
  <2>1. Goes(c) => Goes(c)'
    BY DEF Goes, GoesAt, Fits
  <2>2. ASSUME NEW d \in Callers \ {c} PROVE Goes(d) => Goes(d)'
    BY DEF Goes, GoesAt, Walking
  <2>3. QED  BY <2>1, <2>2
<1>7. Waits'
  <2>1. ASSUME NEW d \in Callers, pc'[d] = "wait" PROVE loc'[d].arg \in Callers /\ Runs(loc'[d].arg)
    BY <1>1, <2>1 DEF Waits, Fits
  <2>2. QED  BY <1>3, <2>1 DEF Waits, Runs
<1>8. Registered'
  <2>1. CASE single'.call = NoCaller
    BY <2>1 DEF Registered
  <2>2. CASE single'.call = c
    BY <1>2, <2>2 DEF Registered, Runs, InFn, Fits
  <2>3. CASE single'.call = single.call /\ single.call # NoCaller /\ single.call # c
    <3>1. single.call \in Callers \ {c}
      BY <2>3
    <3>2. Runs(single.call) \/ pc[single.call] = "store"
      BY <1>1, <2>3 DEF Registered
    <3>3. QED  BY <2>3, <3>1, <3>2 DEF Registered, Runs, InFn
  <2>4. QED  BY <2>1, <2>2, <2>3 DEF Fits
<1>9. Remembered'
  <2>1. SUFFICES ASSUME NoReset'
                 PROVE  /\ single'.result.set => single'.result.sel = selected
                        /\ single'.call # NoCaller => Goes(single.call)'
    BY DEF Remembered
  <2>2. CASE pc[c] = "reset"
    BY <2>2 DEF Fits
  <2>3. CASE NoReset
    <3>1. CASE single'.call = c
      <4>1. Goes(c)'
        BY <1>1, <1>2, <1>6, <2>3, <3>1 DEF Remembered, Fits
      <4>2. QED  BY <2>3, <3>1, <4>1 DEF Goes, GoesAt, Fits
    <3>2. CASE single'.call # c /\ single'.call # NoCaller
      <4>1. single'.call = single.call /\ single.call \in Callers \ {c}
        BY <3>2 DEF Fits
      <4>2. Goes(single'.call)
        BY <1>1, <2>3, <3>2, <4>1 DEF Remembered
      <4>3. QED  BY <2>3, <4>1, <4>2 DEF Goes, GoesAt, Fits
    <3>3. CASE single'.call = NoCaller
      BY <2>3, <3>3 DEF Fits
    <3>4. QED  BY <3>1, <3>2, <3>3
  <2>4. QED  BY <1>4, <2>1, <2>2, <2>3
<1>10. FreshOK'
  <2>1. SUFFICES ASSUME NEW d \in Callers, loc'[d].fresh
                 PROVE  /\ NoReset' /\ Goes(d)'
                        /\ pc'[d] = "chosen" => loc'[d].node.sel = selected
                        /\ pc'[d] = "wait" => Goes(loc[d].arg)'
    BY DEF FreshOK
  <2>2. loc[d].fresh \/ (d = c /\ NoReset /\ Goes(c))
    BY <2>1 DEF Fits
  <2>3. NoReset' /\ Goes(d)'
    BY <1>1, <1>5, <1>6, <2>2 DEF FreshOK
  <2>4. pc'[d] = "chosen" => loc'[d].node.sel = selected
    BY <1>1, <2>1 DEF FreshOK, Fits
  <2>5. ASSUME pc'[d] = "wait" PROVE Goes(loc[d].arg)'
    <3> DEFINE a == loc'[d].arg
    <3>1. a \in Callers
      BY <1>7, <2>5 DEF Waits
    <3>2. Goes(a)
      BY <1>1, <2>1, <2>5 DEF FreshOK, Fits
    <3>3. PICK e \in Callers : e = a
      BY <3>1
    <3>4. Goes(e)'
      BY <1>6, <3>2, <3>3
    <3>5. QED  BY <3>3, <3>4 DEF Goes, GoesAt, Walking
  <2>6. QED  BY <2>3, <2>4, <2>5
<1>11. QED  BY <1>7, <1>8, <1>9, <1>10 DEF Shared

\* A step of one caller, from what it does to that caller.
LEMMA CallerStep ==
    ASSUME IInv, NEW c \in Callers, NEW l \in Labels, NEW v \in LocRec,
           pc' = [pc EXCEPT ![c] = l], loc' = [loc EXCEPT ![c] = v],
           \A d \in Callers \ {c} : fn'[d] = fn[d],
           kind' = kind, kind = "url-test" => selected' = selected,
           single' \in [call : Callers \cup {NoCaller}, result : NodeRec],
           Local(l, v, fn'[c]), l = "proxies" => v.version <= provider.version,
           IF kind = "url-test" THEN Fits(c, l, v) ELSE single'.call = NoCaller
    PROVE  /\ pc' \in [Callers -> Labels] /\ loc' \in [Callers -> LocRec]
           /\ Locals' /\ Shared'
           /\ \A d \in Callers : pc'[d] = "proxies" => loc'[d].version <= provider.version
<1>1. pc \in [Callers -> Labels] /\ loc \in [Callers -> LocRec]
  BY DEF IInv, Shape
<1>2. pc' \in [Callers -> Labels] /\ loc' \in [Callers -> LocRec]
  BY <1>1
<1>3. \A d \in Callers \ {c} : pc'[d] = pc[d] /\ loc'[d] = loc[d]
  BY <1>1
<1>4. pc'[c] = l /\ loc'[c] = v
  BY <1>1
<1>5. Locals'
  <2>1. ASSUME NEW d \in Callers PROVE Local(pc'[d], loc'[d], fn'[d])
    BY <1>3, <1>4 DEF IInv, Locals
  <2>2. QED  BY <2>1 DEF Locals, Local, HasName
<1>6. Shared'
  <2>1. CASE kind = "url-test"
    <3>1. single'.call \in Callers \cup {NoCaller} /\ UNCHANGED <<kind, selected>> /\ Fits(c, l, v)
      BY <2>1
    <3>2. QED  BY <1>3, <1>4, <2>1, <3>1, SharedStep
  <2>2. CASE kind # "url-test"
    BY <2>2 DEF Shared
  <2>3. QED  BY <2>1, <2>2
<1>7. \A d \in Callers : pc'[d] = "proxies" => loc'[d].version <= provider.version
  BY <1>3, <1>4 DEF IInv, Versions
<1>8. QED  BY <1>2, <1>5, <1>6, <1>7

\* A step that leaves the callers, the provider and the cache alone keeps Versions.
LEMMA VersionsStep ==
    ASSUME Versions, UNCHANGED <<provider, cache>>,
           \A d \in Callers : pc'[d] = "proxies" => loc'[d].version <= provider.version
    PROVE  Versions'
BY DEF Versions, Listed

\* The proxies of the provider are proxies.
LEMMA ListedFacts ==
    ASSUME Shape
    PROVE  Listed \in Seq(Proxies) /\ Range(Listed) \subseteq Objects
<1>1. provider.names \in Seq(Names) /\ provider.version \in 0..MaxVersion
  BY DEF Shape
<1>2. DOMAIN provider.names = 1..Len(provider.names) /\ Len(provider.names) \in Nat
  BY <1>1
<1>3. \A i \in DOMAIN provider.names : <<provider.names[i], provider.version>> \in Objects
  BY <1>1 DEF Objects
<1>4. Listed \in [1..Len(provider.names) -> Proxies]
  BY <1>2, <1>3 DEF Listed, Proxies
<1>5. Listed \in Seq(Proxies)
  BY <1>2, <1>4
<1>6. Range(Listed) \subseteq Objects
  BY <1>3 DEF Range, Listed
<1>7. QED  BY <1>5, <1>6

\* The record of a caller that is at rest.
LEMMA RestFacts == Rest \in LocRec /\ NoNode \in NodeRec /\ ~NoNode.set
<1>1. EmptyFallback \in Proxies
  BY DEF Proxies
<1>2. NoNode \in NodeRec /\ ~NoNode.set
  BY <1>1 DEF NoNode, NodeRec
<1>3. 0 \in 0..MaxVersion
  BY ProxyGroupAssumption
<1>4. QED  BY <1>2, <1>3 DEF Rest, LocRec

\* The locals of a search that begins, and what has happened since then.
LEMMA BeginFacts == Begin \in FnRec /\ Quiet \in SinceRec
<1>1. EmptyFallback \in Proxies /\ 0 \in 0..MaxDelay /\ 1 \in Nat \ {0}
  BY ProxyGroupAssumption DEF Proxies
<1>2. QED  BY <1>1 DEF Begin, FnRec, Quiet, SinceRec

\* The record of a caller with another list.
LEMMA PutList ==
    ASSUME NEW w \in LocRec, NEW x \in Seq(Proxies)
    PROVE  LET v == [w EXCEPT !.list = x, !.version = 0]
           IN  v \in LocRec /\ v.list = x /\ v.op = w.op /\ v.arg = w.arg /\ v.fresh = w.fresh
<1>1. 0 \in 0..MaxVersion
  BY ProxyGroupAssumption
<1>2. QED  BY <1>1 DEF LocRec

\* The record of a caller with the proxy that was chosen.
LEMMA PutNode ==
    ASSUME NEW w \in LocRec, NEW x \in NodeRec
    PROVE  LET v == [w EXCEPT !.node = x, !.list = <<>>]
           IN  v \in LocRec /\ v.node = x /\ v.op = w.op /\ v.arg = w.arg /\ v.fresh = w.fresh
<1>1. <<>> \in Seq(Proxies)
  OBVIOUS
<1>2. QED  BY <1>1 DEF LocRec

-----------------------------------------------------------------------------
(* Every action keeps the invariant.                                        *)

\* Who does not run fn of fastSingle.Do is not the call under way.
LEMMA NotRegistered ==
    ASSUME IInv, kind = "url-test", NEW c \in Callers, ~Runs(c), pc[c] # "store"
    PROVE  single.call # c
BY ProxyGroupAssumption DEF IInv, Shared, Registered

\* A connection enters the group.
LEMMA DialStep ==
    ASSUME IInv, NEW c \in Callers, Dial(c)
    PROVE  IInv'
<1> DEFINE l == IF kind = "url-test" THEN "do" ELSE "version"
           v == [Rest EXCEPT !.op = "choose", !.fresh = \A d \in Callers : pc[d] # "reset"]
<1>1. /\ pc[c] = "idle" /\ pc' = [pc EXCEPT ![c] = l] /\ loc' = [loc EXCEPT ![c] = v]
      /\ UNCHANGED <<kind, provider, real, health, check, cache, selected, fastNode, idx, single,
                     failedTimes, testing, fn, since>>
  BY DEF Dial
<1>2. l \in Labels /\ v \in LocRec /\ v.op = "choose" /\ (v.fresh => NoReset)
  <2>1. l \in Labels
    BY DEF Labels
  <2>2. v \in LocRec
    BY RestFacts DEF LocRec
  <2>3. v.op = "choose" /\ (v.fresh <=> \A d \in Callers : pc[d] # "reset")
    BY DEF Rest
  <2>4. QED  BY <2>1, <2>2, <2>3 DEF NoReset
<1>3. Local(l, v, fn'[c])
  BY <1>2 DEF Local, Choosing, Walking
<1>4. single \in [call : Callers \cup {NoCaller}, result : NodeRec]
  BY DEF IInv, Shape
<1> HIDE DEF v
<1>5. ASSUME kind = "url-test" PROVE Fits(c, l, v)
  <2>1. single.call # c
    BY <1>1, <1>5, NotRegistered DEF Runs, InFn, Goes, GoesAt, Walking
  <2>2. NoReset /\ single.result.set => single.result.sel = selected
    BY <1>5 DEF IInv, Shared, Remembered
  <2>3. QED  BY <1>1, <1>2, <1>5, <2>1, <2>2 DEF Fits, Runs, InFn, Goes, GoesAt, Walking
<1>6. IF kind = "url-test" THEN Fits(c, l, v) ELSE single'.call = NoCaller
  BY <1>1, <1>5 DEF IInv, Shared
<1>7. /\ pc' \in [Callers -> Labels] /\ loc' \in [Callers -> LocRec]
      /\ Locals' /\ Shared'
      /\ \A d \in Callers : pc'[d] = "proxies" => loc'[d].version <= provider.version
  BY <1>1, <1>2, <1>3, <1>4, <1>6, CallerStep
<1>8. QED  BY <1>1, <1>7, VersionsStep DEF IInv, Shape

\* The UI selects a proxy by name.
LEMMA SetStep ==
    ASSUME IInv, NEW c \in Callers, NEW n \in Names, Set(c, n)
    PROVE  IInv'
<1> DEFINE l == "version"
           v == [Rest EXCEPT !.op = "set", !.arg = n]
<1>1. /\ pc[c] = "idle" /\ pc' = [pc EXCEPT ![c] = l] /\ loc' = [loc EXCEPT ![c] = v]
      /\ UNCHANGED <<kind, provider, real, health, check, cache, selected, fastNode, idx, single,
                     failedTimes, testing, fn, since>>
  BY DEF Set
<1>2. l \in Labels /\ v \in LocRec /\ v.op = "set" /\ v.arg = n /\ ~v.fresh
  <2>1. l \in Labels
    BY DEF Labels
  <2>2. v \in LocRec
    BY RestFacts DEF LocRec
  <2>3. QED  BY <2>1, <2>2 DEF Rest
<1>3. Local(l, v, fn'[c])
  BY <1>2 DEF Local, Choosing, Walking
<1>4. single \in [call : Callers \cup {NoCaller}, result : NodeRec]
  BY DEF IInv, Shape
<1> HIDE DEF v
<1>5. ASSUME kind = "url-test" PROVE Fits(c, l, v)
  <2>1. single.call # c
    BY <1>1, <1>5, NotRegistered DEF Runs, InFn, Goes, GoesAt, Walking
  <2>2. NoReset /\ single.result.set => single.result.sel = selected
    BY <1>5 DEF IInv, Shared, Remembered
  <2>3. QED  BY <1>1, <1>2, <1>5, <2>1, <2>2 DEF Fits, Runs, InFn, Goes, GoesAt, Walking
<1>6. IF kind = "url-test" THEN Fits(c, l, v) ELSE single'.call = NoCaller
  BY <1>1, <1>5 DEF IInv, Shared
<1>7. /\ pc' \in [Callers -> Labels] /\ loc' \in [Callers -> LocRec]
      /\ Locals' /\ Shared'
      /\ \A d \in Callers : pc'[d] = "proxies" => loc'[d].version <= provider.version
  BY <1>1, <1>2, <1>3, <1>4, <1>6, CallerStep
<1>8. QED  BY <1>1, <1>7, VersionsStep DEF IInv, Shape

\* GetProxies reads the version of the provider.
LEMMA ReadVersionStep ==
    ASSUME IInv, NEW c \in Callers, ReadVersion(c)
    PROVE  IInv'
<1> DEFINE l == "proxies"
           v == [loc[c] EXCEPT !.version = provider.version]
<1>0. loc[c] \in LocRec /\ loc \in [Callers -> LocRec] /\ provider.version \in 0..MaxVersion
  BY DEF IInv, Shape
<1>1. /\ pc[c] = "version" /\ pc' = [pc EXCEPT ![c] = l] /\ loc' = [loc EXCEPT ![c] = v]
      /\ UNCHANGED <<kind, provider, real, health, check, cache, selected, fastNode, idx, single,
                     failedTimes, testing, fn, since>>
  BY <1>0 DEF ReadVersion
<1>2. /\ l \in Labels /\ v \in LocRec /\ v.version = provider.version
      /\ v.op = loc[c].op /\ v.arg = loc[c].arg /\ v.fresh = loc[c].fresh
  <2>1. l \in Labels
    BY DEF Labels
  <2>2. v \in LocRec
    BY <1>0 DEF LocRec
  <2>3. QED  BY <1>0, <2>1, <2>2 DEF LocRec
<1>3. Local(l, v, fn'[c]) /\ v.version <= provider.version
  BY <1>0, <1>1, <1>2 DEF Local, Choosing, Walking, IInv, Locals
<1>4. single \in [call : Callers \cup {NoCaller}, result : NodeRec]
  BY DEF IInv, Shape
<1> HIDE DEF v
<1>5. ASSUME kind = "url-test" PROVE Fits(c, l, v)
  <2>1. single.call = c => v.op = "choose"
    BY <1>1, <1>2, <1>5, NotRegistered DEF Runs, InFn, Goes, GoesAt, Walking
  <2>2. NoReset /\ single.result.set => single.result.sel = selected
    BY <1>5 DEF IInv, Shared, Remembered
  <2>3. QED  BY <1>1, <1>2, <1>5, <2>1, <2>2 DEF Fits, Runs, InFn, Goes, GoesAt, Walking
<1>6. IF kind = "url-test" THEN Fits(c, l, v) ELSE single'.call = NoCaller
  BY <1>1, <1>5 DEF IInv, Shared
<1>7. /\ pc' \in [Callers -> Labels] /\ loc' \in [Callers -> LocRec]
      /\ Locals' /\ Shared'
      /\ \A d \in Callers : pc'[d] = "proxies" => loc'[d].version <= provider.version
  BY <1>1, <1>2, <1>3, <1>4, <1>6, CallerStep
<1>8. QED  BY <1>1, <1>7, VersionsStep DEF IInv, Shape

\* GetProxies answers from its cache or reads the list of the provider.
LEMMA GetProxiesStep ==
    ASSUME IInv, NEW c \in Callers, GetProxies(c)
    PROVE  IInv'
<1> DEFINE hit == cache.version = loc[c].version
           list == IF hit THEN cache.list ELSE IF Listed = <<>> THEN <<EmptyFallback>> ELSE Listed
           l == loc[c].op
           v == [loc[c] EXCEPT !.list = list, !.version = 0]
<1>0. loc[c] \in LocRec /\ loc \in [Callers -> LocRec] /\ MaxVersion \in Nat
  BY ProxyGroupAssumption DEF IInv, Shape
<1>1. /\ pc[c] = "proxies" /\ pc' = [pc EXCEPT ![c] = l] /\ loc' = [loc EXCEPT ![c] = v]
      /\ cache' = IF hit \/ Listed = <<>> THEN cache ELSE [version |-> loc[c].version, list |-> list]
      /\ UNCHANGED <<kind, provider, real, health, check, selected, fastNode, idx, single,
                     failedTimes, testing, fn, since>>
  BY <1>0 DEF GetProxies
<1>9. /\ list \in Seq(Proxies) /\ list # <<>>
      /\ loc[c].version \in 0..MaxVersion /\ loc[c].version <= provider.version
  <2>1. loc[c].version \in 0..MaxVersion /\ loc[c].version <= provider.version
    BY <1>0, <1>1 DEF LocRec, IInv, Versions
  <2>2. CASE hit
    BY <1>0, <2>1, <2>2 DEF IInv, Versions, Shape
  <2>3. CASE ~hit /\ Listed = <<>>
    BY <2>1, <2>3 DEF Proxies
  <2>4. CASE ~hit /\ Listed # <<>>
    BY <2>1, <2>4, ListedFacts DEF IInv
  <2>5. QED  BY <2>2, <2>3, <2>4
<1>2. /\ l \in {"choose", "set"} /\ l \in Labels /\ v \in LocRec /\ v.list = list
      /\ v.op = loc[c].op /\ v.arg = loc[c].arg /\ v.fresh = loc[c].fresh
  <2>1. l \in {"choose", "set"}
    BY <1>1 DEF IInv, Locals, Local, Choosing, Walking
  <2> HIDE DEF list
  <2>2. /\ v \in LocRec /\ v.list = list
        /\ v.op = loc[c].op /\ v.arg = loc[c].arg /\ v.fresh = loc[c].fresh
    BY <1>0, <1>9, PutList
  <2>3. QED  BY <2>1, <2>2 DEF Labels
<1>3. Local(l, v, fn'[c])
  <2> HIDE DEF list, v
  <2>1. v.list # <<>>
    BY <1>2, <1>9
  <2>2. v.op = "set" => v.arg \in Names
    BY <1>2 DEF IInv, Locals, Local, Choosing, Walking
  <2>3. QED  BY <1>2, <2>1, <2>2 DEF Local, Choosing, Walking
<1>4. single \in [call : Callers \cup {NoCaller}, result : NodeRec]
  BY DEF IInv, Shape
<1> HIDE DEF v
<1>5. ASSUME kind = "url-test" PROVE Fits(c, l, v)
  <2>1. single.call = c => v.op = "choose"
    BY <1>1, <1>2, <1>5, NotRegistered DEF Runs, InFn, Goes, GoesAt, Walking
  <2>2. NoReset /\ single.result.set => single.result.sel = selected
    BY <1>5 DEF IInv, Shared, Remembered
  <2>3. QED  BY <1>1, <1>2, <1>5, <2>1, <2>2 DEF Fits, Runs, InFn, Goes, GoesAt, Walking
<1>6. IF kind = "url-test" THEN Fits(c, l, v) ELSE single'.call = NoCaller
  BY <1>1, <1>5 DEF IInv, Shared
<1>7. /\ pc' \in [Callers -> Labels] /\ loc' \in [Callers -> LocRec]
      /\ Locals' /\ Shared'
      /\ \A d \in Callers : pc'[d] = "proxies" => loc'[d].version <= provider.version
  BY <1>1, <1>2, <1>3, <1>4, <1>6, CallerStep
<1> HIDE DEF l
<1>8. Shape'
  <2>1. cache' \in [version : 0..MaxVersion + 1, list : Seq(Proxies)]
    <3> HIDE DEF list
    <3>1. loc[c].version \in 0..MaxVersion + 1
      BY <1>0, <1>9
    <3>2. cache \in [version : 0..MaxVersion + 1, list : Seq(Proxies)]
      BY DEF IInv, Shape
    <3>3. QED  BY <1>1, <1>9, <3>1, <3>2
  <2>2. QED  BY <1>1, <1>7, <2>1 DEF IInv, Shape
<1>10. Versions'
  <2>1. CASE hit \/ Listed = <<>>
    <3>1. UNCHANGED <<provider, cache>>
      BY <1>1, <2>1
    <3>2. QED  BY <1>7, <3>1, VersionsStep DEF IInv
  <2>2. CASE ~(hit \/ Listed = <<>>)
    <3>1. cache' = [version |-> loc[c].version, list |-> Listed]
      BY <1>1, <2>2
    <3>2. Listed' = Listed
      BY <1>1 DEF Listed
    <3>3. QED  BY <1>1, <1>7, <1>9, <2>2, <3>1, <3>2 DEF Versions
  <2>3. QED  BY <2>1, <2>2
<1>11. QED  BY <1>7, <1>8, <1>10 DEF IInv

\* The locals of a caller whose search is over.
LEMMA OverFacts ==
    ASSUME Shape, NEW c \in Callers, Over(c)
    PROVE  /\ fn' \in [Callers -> FnRec] /\ since' \in [Callers -> SinceRec]
           /\ \A d \in Callers \ {c} : fn'[d] = fn[d] /\ since'[d] = since[d]
           /\ since'[c] = Quiet
BY BeginFacts DEF Over, Shape

\* A change of the node in use is noted by the other callers.
LEMMA RacedFacts ==
    ASSUME Shape, NEW c \in Callers, NEW o
    PROVE  /\ Raced(c, o) \in [Callers -> SinceRec] /\ Raced(c, o)[c] = since[c]
           /\ \A d \in Callers : /\ Raced(c, o)[d].changed = since[d].changed
                                 /\ pc[d] \notin Choosing \/ o = fastNode => Raced(c, o)[d] = since[d]
                                 /\ since[d].raced => Raced(c, o)[d].raced
           /\ \A d \in Callers \ {c} : pc[d] \in Choosing /\ o # fastNode => Raced(c, o)[d].raced
<1>1. ASSUME NEW d \in Callers
      PROVE  /\ Raced(c, o)[d] \in SinceRec
             /\ Raced(c, o)[d].changed = since[d].changed
             /\ d = c \/ pc[d] \notin Choosing \/ o = fastNode => Raced(c, o)[d] = since[d]
             /\ since[d].raced => Raced(c, o)[d].raced
             /\ d # c /\ pc[d] \in Choosing /\ o # fastNode => Raced(c, o)[d].raced
  <2>1. Raced(c, o)[d] = IF d # c /\ pc[d] \in Choosing /\ o # fastNode
                         THEN [since[d] EXCEPT !.raced = TRUE] ELSE since[d]
    BY DEF Raced
  <2>2. since[d] \in SinceRec
    BY DEF Shape
  <2>3. QED  BY <2>1, <2>2 DEF SinceRec
<1>2. Raced(c, o) \in [Callers -> SinceRec]
  BY <1>1 DEF Raced
<1>3. QED  BY <1>1, <1>2

\* A caller finds its proxy.
LEMMA FoundStep ==
    ASSUME IInv, NEW c \in Callers, pc[c] \in {"choose"} \cup Choosing,
           NEW o \in Proxies, NEW sel \in Names \cup {NoName}, Found(c, o, sel),
           kind = "url-test" => selected' = selected /\ pc[c] \in Walking /\ (Goes(c) => sel = selected),
           selected' \in Names \cup {NoName}, fastNode' \in Proxies, idx' \in Nat,
           fn' \in [Callers -> FnRec], \A d \in Callers \ {c} : fn'[d] = fn[d],
           since' \in [Callers -> SinceRec],
           UNCHANGED <<kind, provider, real, health, check, cache, single, failedTimes, testing>>
    PROVE  IInv'
<1> DEFINE l == IF kind = "url-test" THEN "done" ELSE "chosen"
           v == [loc[c] EXCEPT !.node = Node(o, sel), !.list = <<>>]
<1>0. loc[c] \in LocRec /\ loc \in [Callers -> LocRec]
  BY DEF IInv, Shape
<1>1. pc' = [pc EXCEPT ![c] = l] /\ loc' = [loc EXCEPT ![c] = v]
  BY <1>0 DEF Found
<1>2. /\ l \in Labels /\ v \in LocRec /\ v.node.sel = sel
      /\ v.op = loc[c].op /\ v.arg = loc[c].arg /\ v.fresh = loc[c].fresh
  <2>1. Node(o, sel) \in NodeRec /\ Node(o, sel).sel = sel
    BY DEF Node, NodeRec
  <2> HIDE DEF Node
  <2>2. v \in LocRec /\ v.node = Node(o, sel)
        /\ v.op = loc[c].op /\ v.arg = loc[c].arg /\ v.fresh = loc[c].fresh
    BY <1>0, <2>1, PutNode
  <2>3. QED  BY <2>1, <2>2 DEF Labels
<1> HIDE DEF v
<1>3. Local(l, v, fn'[c]) /\ v.op = "choose"
  BY <1>1, <1>2 DEF IInv, Locals, Local, Choosing, Walking
<1>4. single' \in [call : Callers \cup {NoCaller}, result : NodeRec]
  BY DEF IInv, Shape
<1>5. ASSUME kind = "url-test" PROVE Fits(c, l, v)
  <2>1. NoReset /\ single.result.set => single.result.sel = selected
    BY <1>5 DEF IInv, Shared, Remembered
  <2>2. Goes(c) => GoesAt(l, v, fn'[c])
    BY <1>2, <1>5 DEF GoesAt, Walking
  <2>3. pc[c] \in Walking
    BY <1>5
  <2>4. QED  BY <1>2, <1>3, <1>5, <2>1, <2>2, <2>3 DEF Fits, Runs, InFn, Walking
<1>6. IF kind = "url-test" THEN Fits(c, l, v) ELSE single'.call = NoCaller
  BY <1>5 DEF IInv, Shared
<1>7. /\ pc' \in [Callers -> Labels] /\ loc' \in [Callers -> LocRec]
      /\ Locals' /\ Shared'
      /\ \A d \in Callers : pc'[d] = "proxies" => loc'[d].version <= provider.version
  BY <1>1, <1>2, <1>3, <1>4, <1>6, CallerStep
<1>8. QED  BY <1>7, VersionsStep DEF IInv, Shape

\* A caller goes on with its list.
LEMMA MoveStep ==
    ASSUME IInv, NEW c \in Callers, pc[c] \in {"choose"} \cup Choosing,
           NEW l \in Choosing, NEW f \in FnRec,
           pc' = [pc EXCEPT ![c] = l], fn' = [fn EXCEPT ![c] = f], f.i \in DOMAIN loc[c].list,
           l \in Walking => kind = "url-test", l \notin Walking => kind = "fallback",
           kind = "url-test" => selected' = selected /\ (Goes(c) => f.sel = selected),
           selected' \in Names \cup {NoName}, fastNode' \in Proxies,
           since' \in [Callers -> SinceRec],
           UNCHANGED <<kind, provider, real, health, check, cache, idx, single, failedTimes, testing, loc>>
    PROVE  IInv'
<1> DEFINE v == loc[c]
<1>0. loc[c] \in LocRec /\ loc \in [Callers -> LocRec] /\ fn \in [Callers -> FnRec]
  BY DEF IInv, Shape
<1>1. loc' = [loc EXCEPT ![c] = v] /\ v \in LocRec /\ l \in Labels
  BY <1>0 DEF Choosing, Labels
<1>2. fn' \in [Callers -> FnRec] /\ fn'[c] = f /\ \A d \in Callers \ {c} : fn'[d] = fn[d]
  BY <1>0
<1>3. Local(l, v, fn'[c]) /\ v.op = "choose"
  BY <1>2 DEF IInv, Locals, Local, Choosing, Walking
<1>4. single' \in [call : Callers \cup {NoCaller}, result : NodeRec]
  BY DEF IInv, Shape
<1>5. ASSUME kind = "url-test" PROVE Fits(c, l, v)
  <2>1. NoReset /\ single.result.set => single.result.sel = selected
    BY <1>5 DEF IInv, Shared, Remembered
  <2>2. l \in Walking
    BY <1>5
  <2>3. Goes(c) => GoesAt(l, v, fn'[c])
    BY <1>2, <1>5, <2>2 DEF GoesAt, Walking
  <2>4. pc[c] # "done" /\ pc[c] # "reset"
    BY DEF Choosing
  <2>5. QED  BY <1>3, <1>5, <2>1, <2>2, <2>3, <2>4 DEF Fits, Runs, InFn, Walking
<1>6. IF kind = "url-test" THEN Fits(c, l, v) ELSE single'.call = NoCaller
  BY <1>5 DEF IInv, Shared
<1>7. "proxies" \notin Choosing
  BY DEF Choosing
<1>8. /\ pc' \in [Callers -> Labels] /\ loc' \in [Callers -> LocRec]
      /\ Locals' /\ Shared'
      /\ \A d \in Callers : pc'[d] = "proxies" => loc'[d].version <= provider.version
  BY <1>1, <1>2, <1>3, <1>4, <1>6, <1>7, CallerStep
<1>9. QED  BY <1>2, <1>8, VersionsStep DEF IInv, Shape

\* The list of a caller that goes through it, and where it is.
LEMMA ThisFacts ==
    ASSUME IInv, NEW c \in Callers, pc[c] \in Choosing
    PROVE  /\ loc[c].list \in Seq(Proxies) /\ loc[c].list # <<>> /\ fn[c] \in FnRec
           /\ fn[c].i \in DOMAIN loc[c].list /\ fn[c].i \in Nat \ {0}
           /\ ~AtEnd(c) => fn[c].i + 1 \in DOMAIN loc[c].list
           /\ AtEnd(c) => DOMAIN loc[c].list = 1..fn[c].i
           /\ 1 \in DOMAIN loc[c].list
           /\ This(c) \in Proxies /\ This(c) = loc[c].list[fn[c].i]
           /\ \A i \in DOMAIN loc[c].list : loc[c].list[i] \in Proxies
           /\ \A i \in 1..fn[c].i - 1 : i \in DOMAIN loc[c].list
<1>1. loc[c] \in LocRec /\ fn[c] \in FnRec
  BY DEF IInv, Shape
<1>2. Local(pc[c], loc[c], fn[c])
  BY DEF IInv, Locals
<1>3. PICK list \in Seq(Proxies) : list = loc[c].list
  BY <1>1 DEF LocRec
<1>4. list # <<>> /\ fn[c].i \in DOMAIN list
  BY <1>2, <1>3 DEF Local, Choosing, Walking
<1>5. PICK i \in Nat \ {0} : i = fn[c].i
  BY <1>1 DEF FnRec
<1>6. /\ 1 \in DOMAIN list /\ \A k \in DOMAIN list : list[k] \in Proxies
      /\ i # Len(list) => i + 1 \in DOMAIN list
      /\ i = Len(list) => DOMAIN list = 1..i
      /\ \A k \in 1..i - 1 : k \in DOMAIN list
  BY <1>4, <1>5
<1>7. QED  BY <1>1, <1>3, <1>4, <1>5, <1>6 DEF This, AtEnd

\* A proxy is chosen from the list in one step.
LEMMA ChooseStep ==
    ASSUME IInv, NEW c \in Callers, Choose(c)
    PROVE  IInv'
<1>1. PICK o \in Proxies :
        Found(c, o, selected) /\ idx' \in Nat /\ kind \in {"select", "round-robin", "consistent-hashing"}
  BY ChooseFacts DEF IInv
<1>2. pc[c] = "choose" /\ UNCHANGED <<kind, provider, real, health, check, cache, selected, fastNode,
                                      single, failedTimes, testing, fn, since>>
  BY DEF Choose
<1>3. /\ selected' \in Names \cup {NoName} /\ selected \in Names \cup {NoName} /\ fastNode' \in Proxies
      /\ fn' \in [Callers -> FnRec] /\ \A d \in Callers \ {c} : fn'[d] = fn[d]
      /\ since' \in [Callers -> SinceRec]
  BY <1>2 DEF IInv, Shape
<1>4. QED  BY <1>1, <1>2, <1>3, FoundStep

\* A url-test or fallback group begins to go through its list.
LEMMA ChooseBeginStep ==
    ASSUME IInv, NEW c \in Callers, ChooseBegin(c)
    PROVE  IInv'
<1> DEFINE l == IF kind = "fallback" THEN "find" ELSE IF selected = NoName THEN "walk" ELSE "fixed"
           f == [Begin EXCEPT !.sel = IF kind = "url-test" THEN selected ELSE NoName]
<1>1. /\ pc[c] = "choose" /\ kind \in {"fallback", "url-test"}
      /\ pc' = [pc EXCEPT ![c] = l] /\ fn' = [fn EXCEPT ![c] = f]
      /\ UNCHANGED <<kind, provider, real, health, check, cache, selected, fastNode, idx, single,
                     failedTimes, testing, loc, since>>
  BY DEF ChooseBegin
<1>2. /\ selected \in Names \cup {NoName} /\ fastNode' \in Proxies /\ since' \in [Callers -> SinceRec]
      /\ selected' \in Names \cup {NoName}
  BY <1>1 DEF IInv, Shape
<1>3. f \in FnRec /\ f.i = 1 /\ (kind = "url-test" => f.sel = selected)
  BY <1>2, BeginFacts DEF Begin, FnRec
<1> HIDE DEF f
<1>4. l \in Choosing /\ (l \in Walking => kind = "url-test") /\ (l \notin Walking => kind = "fallback")
  BY <1>1 DEF Choosing, Walking
<1>5. f.i \in DOMAIN loc[c].list
  <2>1. loc[c] \in LocRec /\ loc[c].list # <<>>
    BY <1>1 DEF IInv, Shape, Locals, Local
  <2>2. PICK list \in Seq(Proxies) : list = loc[c].list
    BY <2>1 DEF LocRec
  <2>3. 1 \in DOMAIN list
    BY <2>1, <2>2
  <2>4. QED  BY <1>3, <2>2, <2>3
<1> HIDE DEF l
<1>6. QED  BY <1>1, <1>2, <1>3, <1>4, <1>5, MoveStep

\* findAliveProxy goes on.
LEMMA FindNextStep ==
    ASSUME IInv, NEW c \in Callers, pc[c] \in {"find", "clear"}, NEW sel \in Names \cup {NoName},
           FindNext(c, sel), selected' \in Names \cup {NoName},
           UNCHANGED <<kind, provider, real, health, check, cache, fastNode, idx, single,
                       failedTimes, testing>>
    PROVE  IInv'
<1>1. kind = "fallback" /\ pc[c] \in Choosing
  BY DEF IInv, Locals, Local, Choosing
<1>2. fastNode' \in Proxies /\ idx' \in Nat
  BY DEF IInv, Shape
<1>3. CASE AtEnd(c)
  <2>1. Found(c, loc[c].list[1], sel) /\ Over(c)
    BY <1>3 DEF FindNext
  <2>2. /\ fn' \in [Callers -> FnRec] /\ since' \in [Callers -> SinceRec]
        /\ \A d \in Callers \ {c} : fn'[d] = fn[d]
    BY <2>1, OverFacts DEF IInv
  <2>3. loc[c].list[1] \in Proxies
    BY <1>1, ThisFacts
  <2>4. QED  BY <1>1, <1>2, <2>1, <2>2, <2>3, FoundStep
<1>4. CASE ~AtEnd(c)
  <2> DEFINE i == fn[c].i + 1
             f == [fn[c] EXCEPT !.i = i, !.sel = sel]
  <2>1. fn \in [Callers -> FnRec] /\ fn[c] \in FnRec
    BY DEF IInv, Shape
  <2>2. fn' = [fn EXCEPT ![c] = f] /\ pc' = [pc EXCEPT ![c] = "find"] /\ UNCHANGED <<loc, since>>
    BY <1>4, <2>1 DEF FindNext
  <2>3. f \in FnRec /\ f.i = fn[c].i + 1
    <3>1. i \in Nat \ {0}
      BY <1>1, ThisFacts
    <3> HIDE DEF i
    <3>2. f \in FnRec /\ f.i = i
      BY <2>1, <3>1 DEF FnRec
    <3>3. QED  BY <3>2 DEF i
  <2>4. f.i \in DOMAIN loc[c].list
    BY <1>1, <1>4, <2>3, ThisFacts
  <2>5. since' \in [Callers -> SinceRec]
    BY <2>2 DEF IInv, Shape
  <2>6. "find" \in Choosing /\ "find" \notin Walking
    BY DEF Choosing, Walking
  <2> HIDE DEF f
  <2>7. QED  BY <1>1, <1>2, <2>2, <2>3, <2>4, <2>5, <2>6, MoveStep
<1>5. QED  BY <1>3, <1>4

\* findAliveProxy looks at one proxy.
LEMMA FindAliveProxyStep ==
    ASSUME IInv, NEW c \in Callers, FindAliveProxy(c)
    PROVE  IInv'
<1> DEFINE o   == This(c)
           sel == IF selected = NoName THEN fn[c].sel ELSE selected
<1>1. /\ pc[c] = "find"
      /\ UNCHANGED <<kind, provider, real, health, check, cache, selected, fastNode, idx, single,
                     failedTimes, testing>>
  BY DEF FindAliveProxy
<1>2. kind = "fallback" /\ pc[c] \in Choosing
  BY <1>1 DEF IInv, Locals, Local, Choosing
<1>3. /\ fn \in [Callers -> FnRec] /\ fn[c] \in FnRec /\ fastNode' \in Proxies /\ idx' \in Nat
      /\ selected \in Names \cup {NoName} /\ selected' \in Names \cup {NoName}
      /\ since \in [Callers -> SinceRec]
  BY <1>1 DEF IInv, Shape
<1>4. sel \in Names \cup {NoName} /\ o \in Proxies
  BY <1>2, <1>3, ThisFacts DEF FnRec
<1>5. CASE Found(c, o, sel) /\ Over(c)
  <2>1. /\ fn' \in [Callers -> FnRec] /\ since' \in [Callers -> SinceRec]
        /\ \A d \in Callers \ {c} : fn'[d] = fn[d]
    BY <1>5, OverFacts DEF IInv
  <2> HIDE DEF sel, o
  <2>2. QED  BY <1>1, <1>2, <1>3, <1>4, <1>5, <2>1, FoundStep
<1>6. CASE FindNext(c, sel)
  <2> HIDE DEF sel
  <2>1. QED  BY <1>1, <1>3, <1>4, <1>6, FindNextStep
<1>7. CASE /\ fn' = [fn EXCEPT ![c].sel = selected]
           /\ pc' = [pc EXCEPT ![c] = "clear"]
           /\ UNCHANGED <<loc, since>>
  <2> DEFINE f == [fn[c] EXCEPT !.sel = selected]
  <2>1. fn' = [fn EXCEPT ![c] = f] /\ f \in FnRec /\ f.i = fn[c].i
    BY <1>3, <1>7 DEF FnRec
  <2>2. f.i \in DOMAIN loc[c].list
    BY <1>2, <2>1, ThisFacts
  <2>3. "clear" \in Choosing /\ "clear" \notin Walking
    BY DEF Choosing, Walking
  <2> HIDE DEF f
  <2>4. QED  BY <1>1, <1>2, <1>3, <1>7, <2>1, <2>2, <2>3, MoveStep
<1>8. QED  BY <1>5, <1>6, <1>7 DEF FindAliveProxy

\* findAliveProxy gives up the selection.
LEMMA ClearSelectedStep ==
    ASSUME IInv, NEW c \in Callers, ClearSelected(c)
    PROVE  IInv'
<1>1. /\ pc[c] = "clear" /\ selected' = NoName /\ FindNext(c, fn[c].sel)
      /\ UNCHANGED <<kind, provider, real, health, check, cache, fastNode, idx, single,
                     failedTimes, testing>>
  BY DEF ClearSelected
<1>2. fn[c].sel \in Names \cup {NoName}
  BY DEF IInv, Shape, FnRec
<1>3. QED  BY <1>1, <1>2, FindNextStep

\* A url-test group looks for its selection.
LEMMA FixedStep ==
    ASSUME IInv, NEW c \in Callers, Fixed(c)
    PROVE  IInv'
<1> DEFINE o == This(c)
<1>1. /\ pc[c] = "fixed"
      /\ UNCHANGED <<kind, provider, real, health, check, cache, selected, idx, single,
                     failedTimes, testing>>
  BY DEF Fixed
<1>2. kind = "url-test" /\ pc[c] \in Choosing /\ pc[c] \in Walking
  BY <1>1 DEF IInv, Locals, Local, Choosing, Walking
<1>3. /\ fn \in [Callers -> FnRec] /\ fn[c] \in FnRec /\ fastNode \in Proxies /\ idx' \in Nat
      /\ selected \in Names \cup {NoName} /\ selected' \in Names \cup {NoName}
      /\ since \in [Callers -> SinceRec]
  BY <1>1 DEF IInv, Shape
<1>4. o \in Proxies
  BY <1>2, ThisFacts
<1>5. CASE Alive(o) /\ o[1] = selected
  <2>1. /\ Found(c, o, selected) /\ fastNode' = o /\ fn' = [fn EXCEPT ![c] = Begin]
        /\ since' = [Raced(c, o) EXCEPT ![c] = Quiet]
    BY <1>5 DEF Fixed
  <2>2. fn' \in [Callers -> FnRec] /\ \A d \in Callers \ {c} : fn'[d] = fn[d]
    BY <1>3, <2>1, BeginFacts
  <2>3. Raced(c, o) \in [Callers -> SinceRec]
    BY RacedFacts DEF IInv
  <2>4. since' \in [Callers -> SinceRec]
    BY <2>1, <2>3, BeginFacts
  <2> HIDE DEF o
  <2>5. QED  BY <1>1, <1>2, <1>3, <1>4, <2>1, <2>2, <2>4, FoundStep
<1>6. CASE ~(Alive(o) /\ o[1] = selected)
  <2> DEFINE l == IF AtEnd(c) THEN "walk" ELSE "fixed"
             i == IF AtEnd(c) THEN 1 ELSE fn[c].i + 1
             f == [fn[c] EXCEPT !.i = i, !.sel = selected]
  <2>1. /\ fn' = [fn EXCEPT ![c] = f] /\ pc' = [pc EXCEPT ![c] = l]
        /\ UNCHANGED <<loc, fastNode, since>>
    BY <1>3, <1>6 DEF Fixed
  <2>2. f \in FnRec /\ f.i = (IF AtEnd(c) THEN 1 ELSE fn[c].i + 1) /\ f.sel = selected
    <3>1. i \in Nat \ {0}
      BY <1>2, ThisFacts
    <3> HIDE DEF i
    <3>2. f \in FnRec /\ f.i = i /\ f.sel = selected
      BY <1>3, <3>1 DEF FnRec
    <3>3. QED  BY <3>2 DEF i
  <2>3. f.i \in DOMAIN loc[c].list
    BY <1>2, <2>2, ThisFacts
  <2>4. l \in Choosing /\ l \in Walking
    BY DEF Choosing, Walking
  <2> HIDE DEF f, l
  <2>5. QED  BY <1>1, <1>2, <1>3, <2>1, <2>2, <2>3, <2>4, MoveStep
<1>7. QED  BY <1>5, <1>6

\* What is known after one more proxy.
LEMMA WalkFacts ==
    ASSUME IInv, NEW c \in Callers, Walk(c)
    PROVE  LET o == This(c)
               f == fn[c]
               g == fn'[c]
               faster == f.i = 1 \/ (Alive(o) /\ LastDelay(o) < f.min)
           IN  /\ fn' = [fn EXCEPT ![c] = g] /\ g \in FnRec /\ g.sel = f.sel
               /\ g.i = IF AtEnd(c) THEN 1 ELSE f.i + 1
               /\ g.exist = (f.exist \/ (f.i > 1 /\ fastNode # EmptyFallback /\ o[1] = fastNode[1]))
               /\ g.fast = IF faster THEN o ELSE f.fast
               /\ g.min = IF faster THEN LastDelay(o) ELSE f.min
               /\ pc' = [pc EXCEPT ![c] = IF AtEnd(c) THEN "keep" ELSE "walk"]
<1> DEFINE o == This(c)
           f == fn[c]
           faster == f.i = 1 \/ (Alive(o) /\ LastDelay(o) < f.min)
           i == IF AtEnd(c) THEN 1 ELSE f.i + 1
           e == f.exist \/ (f.i > 1 /\ fastNode # EmptyFallback /\ o[1] = fastNode[1])
           x == IF faster THEN o ELSE f.fast
           m == IF faster THEN LastDelay(o) ELSE f.min
           g == [f EXCEPT !.i = i, !.exist = e, !.fast = x, !.min = m]
<1>1. fn \in [Callers -> FnRec] /\ f \in FnRec /\ pc[c] \in Choosing
  BY DEF IInv, Shape, Walk, Choosing
<1>2. o \in Proxies /\ i \in Nat \ {0}
  BY <1>1, ThisFacts
<1>3. LastDelay(o) \in 0..MaxDelay
  BY <1>2, DelayFacts DEF IInv
<1>4. fn' = [fn EXCEPT ![c] = g] /\ pc' = [pc EXCEPT ![c] = IF AtEnd(c) THEN "keep" ELSE "walk"]
  BY DEF Walk
<1> HIDE DEF o
<1>5. x \in Proxies /\ m \in 0..MaxDelay /\ e \in BOOLEAN
  BY <1>1, <1>2, <1>3 DEF FnRec
<1> HIDE DEF i, e, x, m
<1>6. g \in FnRec /\ g.i = i /\ g.exist = e /\ g.fast = x /\ g.min = m /\ g.sel = f.sel
  BY <1>1, <1>2, <1>5 DEF FnRec
<1> HIDE DEF g
<1>7. fn'[c] = g
  BY <1>1, <1>4
<1>8. QED  BY <1>4, <1>6, <1>7 DEF o, i, e, x, m

\* A url-test group looks at one proxy.
LEMMA WalkStep ==
    ASSUME IInv, NEW c \in Callers, Walk(c)
    PROVE  IInv'
<1> DEFINE l == IF AtEnd(c) THEN "keep" ELSE "walk"
           f == fn'[c]
<1>1. /\ pc[c] = "walk"
      /\ UNCHANGED <<kind, provider, real, health, check, cache, selected, fastNode, idx, single,
                     failedTimes, testing, loc, since>>
  BY DEF Walk
<1>2. kind = "url-test" /\ pc[c] \in Choosing /\ pc[c] \in Walking
  BY <1>1 DEF IInv, Locals, Local, Choosing, Walking
<1>3. /\ fn' = [fn EXCEPT ![c] = f] /\ f \in FnRec /\ f.sel = fn[c].sel
      /\ f.i = (IF AtEnd(c) THEN 1 ELSE fn[c].i + 1) /\ pc' = [pc EXCEPT ![c] = l]
  BY WalkFacts
<1>4. /\ fastNode' \in Proxies /\ selected' \in Names \cup {NoName} /\ since' \in [Callers -> SinceRec]
  BY <1>1 DEF IInv, Shape
<1>5. Goes(c) => f.sel = selected
  BY <1>2, <1>3 DEF Goes, GoesAt, Walking
<1>6. f.i \in DOMAIN loc[c].list
  BY <1>2, <1>3, ThisFacts
<1>7. l \in Choosing /\ l \in Walking
  BY DEF Choosing, Walking
<1> HIDE DEF f, l
<1>8. QED  BY <1>1, <1>2, <1>3, <1>4, <1>5, <1>6, <1>7, MoveStep

\* A url-test group keeps or changes the node in use.
LEMMA KeepStep ==
    ASSUME IInv, NEW c \in Callers, Keep(c)
    PROVE  IInv'
<1> DEFINE f == fn[c]
<1>1. /\ pc[c] = "keep" /\ fastNode' \in {fastNode, f.fast} /\ since' = Raced(c, fastNode')
      /\ pc' = [pc EXCEPT ![c] = "return"]
      /\ UNCHANGED <<kind, provider, real, health, check, cache, selected, idx, single,
                     failedTimes, testing, loc, fn>>
  BY DEF Keep
<1>2. kind = "url-test" /\ pc[c] \in Choosing /\ pc[c] \in Walking
  BY <1>1 DEF IInv, Locals, Local, Choosing, Walking
<1>3. fn \in [Callers -> FnRec] /\ f \in FnRec /\ fastNode \in Proxies /\ selected' \in Names \cup {NoName}
  BY <1>1 DEF IInv, Shape
<1>4. fastNode' \in Proxies /\ fn' = [fn EXCEPT ![c] = f]
  BY <1>1, <1>3 DEF FnRec
<1>5. since' \in [Callers -> SinceRec]
  BY <1>1, RacedFacts DEF IInv
<1>6. Goes(c) => f.sel = selected
  BY <1>2 DEF Goes, GoesAt, Walking
<1>7. f.i \in DOMAIN loc[c].list
  BY <1>2, ThisFacts
<1>8. "return" \in Choosing /\ "return" \in Walking
  BY DEF Choosing, Walking
<1> HIDE DEF f
<1>9. QED  BY <1>1, <1>2, <1>3, <1>4, <1>5, <1>6, <1>7, <1>8, MoveStep

\* fn returns the node in use.
LEMMA ReturnFastStep ==
    ASSUME IInv, NEW c \in Callers, ReturnFast(c)
    PROVE  IInv'
<1>1. /\ pc[c] = "return" /\ Found(c, fastNode, fn[c].sel) /\ Over(c)
      /\ UNCHANGED <<kind, provider, real, health, check, cache, selected, fastNode, idx, single,
                     failedTimes, testing>>
  BY DEF ReturnFast
<1>2. kind = "url-test" /\ pc[c] \in Choosing /\ pc[c] \in Walking
  BY <1>1 DEF IInv, Locals, Local, Choosing, Walking
<1>3. /\ fn[c].sel \in Names \cup {NoName} /\ fastNode \in Proxies /\ fastNode' \in Proxies
      /\ selected' \in Names \cup {NoName} /\ idx' \in Nat
  BY <1>1 DEF IInv, Shape, FnRec
<1>4. Goes(c) => fn[c].sel = selected
  BY <1>2 DEF Goes, GoesAt, Walking
<1>5. /\ fn' \in [Callers -> FnRec] /\ since' \in [Callers -> SinceRec]
      /\ \A d \in Callers \ {c} : fn'[d] = fn[d]
  BY <1>1, OverFacts DEF IInv
<1>6. QED  BY <1>1, <1>2, <1>3, <1>4, <1>5, FoundStep

\* The call inside fastSingle returns its result to those who wait.
LEMMA StoreStep ==
    ASSUME IInv, NEW c \in Callers, Store(c)
    PROVE  IInv'
<1> DEFINE l == "chosen"
           v == loc[c]
<1>0. loc[c] \in LocRec /\ loc \in [Callers -> LocRec]
  BY DEF IInv, Shape
<1>1. /\ pc[c] = "store" /\ pc' = [pc EXCEPT ![c] = l] /\ loc' = [loc EXCEPT ![c] = v]
      /\ single' = IF single.call = c THEN [call |-> NoCaller, result |-> loc[c].node] ELSE single
      /\ UNCHANGED <<kind, provider, real, health, check, cache, selected, fastNode, idx,
                     failedTimes, testing, loc, fn, since>>
  BY <1>0 DEF Store
<1>2. l \in Labels /\ v \in LocRec
  BY <1>0 DEF Labels
<1>3. Local(l, v, fn'[c])
  BY <1>1 DEF IInv, Locals, Local, Choosing, Walking
<1>4. single' \in [call : Callers \cup {NoCaller}, result : NodeRec]
  BY <1>0, <1>1 DEF IInv, Shape, LocRec
<1>5. kind = "url-test"
  BY <1>1 DEF IInv, Locals, Local, Choosing, Walking
<1>6. Fits(c, l, v)
  <2>1. Remembered /\ FreshOK /\ NoCaller # c
    BY <1>5, ProxyGroupAssumption DEF IInv, Shared
  <2>2. NoReset /\ single'.result.set => single'.result.sel = selected
    BY <1>1, <2>1, ProxyGroupAssumption DEF Remembered, Goes, GoesAt, Walking
  <2>3. v.fresh => v.node.sel = selected
    BY <1>1, <2>1 DEF FreshOK, Goes, GoesAt, Walking
  <2>4. single'.call \in {NoCaller, single.call} /\ single'.call # c
    BY <1>1, <2>1
  <2>5. QED  BY <1>1, <2>2, <2>3, <2>4 DEF Fits, Runs, InFn, Goes, GoesAt, Walking
<1>7. /\ pc' \in [Callers -> Labels] /\ loc' \in [Callers -> LocRec]
      /\ Locals' /\ Shared'
      /\ \A d \in Callers : pc'[d] = "proxies" => loc'[d].version <= provider.version
  BY <1>1, <1>2, <1>3, <1>4, <1>5, <1>6, CallerStep
<1>8. QED  BY <1>1, <1>4, <1>7, VersionsStep DEF IInv, Shape

\* Set returns.
LEMMA SetReturnStep ==
    ASSUME IInv, NEW c \in Callers, SetReturn(c)
    PROVE  IInv'
<1> DEFINE l == "idle"
           v == Rest
<1>1. /\ pc[c] = "returned" /\ pc' = [pc EXCEPT ![c] = l] /\ loc' = [loc EXCEPT ![c] = v]
      /\ UNCHANGED <<kind, provider, real, health, check, cache, selected, fastNode, idx, single,
                     failedTimes, testing, fn, since>>
  BY DEF SetReturn
<1>2. l \in Labels /\ v \in LocRec /\ v.op = "none" /\ ~v.fresh
  BY RestFacts DEF Labels, Rest
<1>3. Local(l, v, fn'[c])
  BY <1>2 DEF Local, Choosing, Walking
<1>4. single \in [call : Callers \cup {NoCaller}, result : NodeRec]
  BY DEF IInv, Shape
<1>5. ASSUME kind = "url-test" PROVE Fits(c, l, v)
  <2>1. single.call # c
    BY <1>1, <1>5, NotRegistered DEF Runs, InFn, Goes, GoesAt, Walking
  <2>2. NoReset /\ single.result.set => single.result.sel = selected
    BY <1>5 DEF IInv, Shared, Remembered
  <2>3. QED  BY <1>1, <1>2, <1>5, <2>1, <2>2 DEF Fits, Runs, InFn, Goes, GoesAt, Walking
<1>6. IF kind = "url-test" THEN Fits(c, l, v) ELSE single'.call = NoCaller
  BY <1>1, <1>5 DEF IInv, Shared
<1>7. /\ pc' \in [Callers -> Labels] /\ loc' \in [Callers -> LocRec]
      /\ Locals' /\ Shared'
      /\ \A d \in Callers : pc'[d] = "proxies" => loc'[d].version <= provider.version
  BY <1>1, <1>2, <1>3, <1>4, <1>6, CallerStep
<1>8. QED  BY <1>1, <1>7, VersionsStep DEF IInv, Shape

\* A selection in a url-test group drops what fastSingle remembers.
LEMMA SetResetStep ==
    ASSUME IInv, NEW c \in Callers, SetReset(c)
    PROVE  IInv'
<1> DEFINE l == "idle"
           v == Rest
<1>1. /\ pc[c] = "reset" /\ pc' = [pc EXCEPT ![c] = l] /\ loc' = [loc EXCEPT ![c] = v]
      /\ single' = [call |-> NoCaller, result |-> NoNode]
      /\ UNCHANGED <<kind, provider, real, health, check, cache, selected, fastNode, idx,
                     failedTimes, testing, fn, since>>
  BY DEF SetReset, Reset
<1>2. l \in Labels /\ v \in LocRec /\ v.op = "none" /\ ~v.fresh
  BY RestFacts DEF Labels, Rest
<1>3. Local(l, v, fn'[c])
  BY <1>2 DEF Local, Choosing, Walking
<1>4. single' \in [call : Callers \cup {NoCaller}, result : NodeRec] /\ ~single'.result.set
  BY <1>1, RestFacts
<1>5. Fits(c, l, v)
  BY <1>1, <1>2, <1>4, ProxyGroupAssumption DEF Fits, Runs, InFn, Goes, GoesAt, Walking
<1>6. single'.call = NoCaller
  BY <1>1
<1>7. /\ pc' \in [Callers -> Labels] /\ loc' \in [Callers -> LocRec]
      /\ Locals' /\ Shared'
      /\ \A d \in Callers : pc'[d] = "proxies" => loc'[d].version <= provider.version
  BY <1>1, <1>2, <1>3, <1>4, <1>5, <1>6, CallerStep
<1>8. QED  BY <1>1, <1>4, <1>7, VersionsStep DEF IInv, Shape

\* A result that is remembered is taken over.
LEMMA DoResultStep ==
    ASSUME IInv, NEW c \in Callers, pc[c] = "do", NEW x \in NodeRec,
           NoReset => x.sel = selected,
           pc' = [pc EXCEPT ![c] = "chosen"], loc' = [loc EXCEPT ![c].node = x],
           UNCHANGED <<kind, provider, real, health, check, cache, selected, fastNode, idx, single,
                       failedTimes, testing, fn, since>>
    PROVE  IInv'
<1> DEFINE l == "chosen"
           v == [loc[c] EXCEPT !.node = x]
<1>0. loc[c] \in LocRec /\ loc \in [Callers -> LocRec]
  BY DEF IInv, Shape
<1>1. pc' = [pc EXCEPT ![c] = l] /\ loc' = [loc EXCEPT ![c] = v]
  BY <1>0
<1>2. /\ l \in Labels /\ v \in LocRec /\ v.node = x
      /\ v.op = loc[c].op /\ v.arg = loc[c].arg /\ v.fresh = loc[c].fresh
  BY <1>0 DEF LocRec, Labels
<1> HIDE DEF v
<1>3. Local(l, v, fn'[c]) /\ kind = "url-test"
  BY <1>1, <1>2 DEF IInv, Locals, Local, Choosing, Walking
<1>4. single \in [call : Callers \cup {NoCaller}, result : NodeRec]
  BY DEF IInv, Shape
<1>5. ASSUME kind = "url-test" PROVE Fits(c, l, v)
  <2>1. single.call # c
    BY <1>5, NotRegistered DEF Runs, InFn, Goes, GoesAt, Walking
  <2>2. NoReset /\ single.result.set => single.result.sel = selected
    BY <1>5 DEF IInv, Shared, Remembered
  <2>3. loc[c].fresh => NoReset
    BY <1>5 DEF IInv, Shared, FreshOK
  <2>4. QED  BY <1>1, <1>2, <1>5, <2>1, <2>2, <2>3 DEF Fits, Runs, InFn, Goes, GoesAt, Walking
<1>6. IF kind = "url-test" THEN Fits(c, l, v) ELSE single'.call = NoCaller
  BY <1>1, <1>5 DEF IInv, Shared
<1>7. /\ pc' \in [Callers -> Labels] /\ loc' \in [Callers -> LocRec]
      /\ Locals' /\ Shared'
      /\ \A d \in Callers : pc'[d] = "proxies" => loc'[d].version <= provider.version
  BY <1>1, <1>2, <1>3, <1>4, <1>6, CallerStep
<1>8. QED  BY <1>1, <1>7, VersionsStep DEF IInv, Shape

\* A call that is under way is waited for.
LEMMA DoWaitStep ==
    ASSUME IInv, NEW c \in Callers, pc[c] = "do", single.call # NoCaller, pc[single.call] # "store",
           pc' = [pc EXCEPT ![c] = "wait"], loc' = [loc EXCEPT ![c].arg = single.call],
           UNCHANGED <<kind, provider, real, health, check, cache, selected, fastNode, idx, single,
                       failedTimes, testing, fn, since>>
    PROVE  IInv'
<1> DEFINE l == "wait"
           v == [loc[c] EXCEPT !.arg = single.call]
<1>0. loc[c] \in LocRec /\ loc \in [Callers -> LocRec] /\ single.call \in Callers
  BY DEF IInv, Shape
<1>1. pc' = [pc EXCEPT ![c] = l] /\ loc' = [loc EXCEPT ![c] = v]
  BY <1>0
<1>2. /\ l \in Labels /\ v \in LocRec
      /\ v.op = loc[c].op /\ v.arg = single.call /\ v.fresh = loc[c].fresh
  BY <1>0 DEF LocRec, Labels
<1> HIDE DEF v
<1>3. Local(l, v, fn'[c]) /\ kind = "url-test"
  BY <1>2 DEF IInv, Locals, Local, Choosing, Walking
<1>4. single \in [call : Callers \cup {NoCaller}, result : NodeRec]
  BY DEF IInv, Shape
<1>5. ASSUME kind = "url-test" PROVE Fits(c, l, v)
  <2>1. single.call # c
    BY <1>5, NotRegistered DEF Runs, InFn, Goes, GoesAt, Walking
  <2>2. NoReset /\ single.result.set => single.result.sel = selected
    BY <1>5 DEF IInv, Shared, Remembered
  <2>3. loc[c].fresh => NoReset
    BY <1>5 DEF IInv, Shared, FreshOK
  <2>4. Runs(single.call)
    BY <1>5 DEF IInv, Shared, Registered
  <2>5. NoReset => Goes(single.call)
    BY <1>5 DEF IInv, Shared, Remembered
  <2>6. ~Runs(c)
    BY DEF Runs, InFn
  <2>7. GoesAt(l, v, fn'[c])
    BY DEF GoesAt, Walking
  <2>8. QED  BY <1>0, <1>1, <1>2, <1>5, <2>1, <2>2, <2>3, <2>4, <2>5, <2>6, <2>7 DEF Fits
<1>6. IF kind = "url-test" THEN Fits(c, l, v) ELSE single'.call = NoCaller
  BY <1>1, <1>5 DEF IInv, Shared
<1>7. /\ pc' \in [Callers -> Labels] /\ loc' \in [Callers -> LocRec]
      /\ Locals' /\ Shared'
      /\ \A d \in Callers : pc'[d] = "proxies" => loc'[d].version <= provider.version
  BY <1>1, <1>2, <1>3, <1>4, <1>6, CallerStep
<1>8. QED  BY <1>1, <1>7, VersionsStep DEF IInv, Shape

\* A call of one's own.
LEMMA DoCallStep ==
    ASSUME IInv, NEW c \in Callers, pc[c] = "do", ~single.result.set,
           pc' = [pc EXCEPT ![c] = "version"], single' = [single EXCEPT !.call = c],
           UNCHANGED <<kind, provider, real, health, check, cache, selected, fastNode, idx,
                       failedTimes, testing, loc, fn, since>>
    PROVE  IInv'
<1> DEFINE l == "version"
           v == loc[c]
<1>0. loc[c] \in LocRec /\ loc \in [Callers -> LocRec]
  BY DEF IInv, Shape
<1>1. pc' = [pc EXCEPT ![c] = l] /\ loc' = [loc EXCEPT ![c] = v]
  BY <1>0
<1>2. l \in Labels /\ v \in LocRec
  BY <1>0 DEF Labels
<1>3. Local(l, v, fn'[c]) /\ kind = "url-test" /\ v.op = "choose"
  BY DEF IInv, Locals, Local, Choosing, Walking
<1>4. /\ single' \in [call : Callers \cup {NoCaller}, result : NodeRec]
      /\ single'.call = c /\ single'.result = single.result
  BY DEF IInv, Shape
<1>5. Fits(c, l, v)
  BY <1>3, <1>4 DEF Fits, Runs, InFn, Goes, GoesAt, Walking
<1>7. /\ pc' \in [Callers -> Labels] /\ loc' \in [Callers -> LocRec]
      /\ Locals' /\ Shared'
      /\ \A d \in Callers : pc'[d] = "proxies" => loc'[d].version <= provider.version
  BY <1>1, <1>2, <1>3, <1>4, <1>5, CallerStep
<1>8. QED  BY <1>1, <1>4, <1>7, VersionsStep DEF IInv, Shape

\* fastSingle answers, makes its caller wait, or starts a call.
LEMMA DoStep ==
    ASSUME IInv, NEW c \in Callers, Do(c)
    PROVE  IInv'
<1>1. /\ pc[c] = "do"
      /\ UNCHANGED <<kind, provider, real, health, check, cache, selected, fastNode, idx,
                     failedTimes, testing, fn, since>>
  BY DEF Do
<1>2. Remembered /\ single.result \in NodeRec /\ single.call \in Callers \cup {NoCaller}
  BY <1>1 DEF IInv, Shape, Shared, Locals, Local
<1>3. CASE /\ single.result.set
           /\ loc' = [loc EXCEPT ![c].node = single.result]
           /\ pc'  = [pc EXCEPT ![c] = "chosen"]
           /\ UNCHANGED single
  BY <1>1, <1>2, <1>3, DoResultStep DEF Remembered
<1>4. CASE ~single.result.set /\ single.call # NoCaller /\ pc[single.call] = "store"
  <2>1. /\ loc' = [loc EXCEPT ![c].node = loc[single.call].node]
        /\ pc'  = [pc EXCEPT ![c] = "chosen"]
        /\ UNCHANGED single
    BY <1>4 DEF Do
  <2>2. loc[single.call].node \in NodeRec /\ (NoReset => loc[single.call].node.sel = selected)
    BY <1>2, <1>4 DEF Remembered, Goes, GoesAt, IInv, Shape, LocRec
  <2>3. QED  BY <1>1, <2>1, <2>2, DoResultStep
<1>5. CASE ~single.result.set /\ single.call # NoCaller /\ pc[single.call] # "store"
  <2>1. /\ loc' = [loc EXCEPT ![c].arg = single.call]
        /\ pc'  = [pc EXCEPT ![c] = "wait"]
        /\ UNCHANGED single
    BY <1>5 DEF Do
  <2>2. QED  BY <1>1, <1>5, <2>1, DoWaitStep
<1>6. CASE ~single.result.set /\ single.call = NoCaller
  <2>1. /\ single' = [single EXCEPT !.call = c]
        /\ pc' = [pc EXCEPT ![c] = "version"]
        /\ UNCHANGED loc
    BY <1>6 DEF Do
  <2>2. QED  BY <1>1, <1>6, <2>1, DoCallStep
<1>7. QED  BY <1>3, <1>4, <1>5, <1>6 DEF Do

\* A record is a measured delay; who goes through a list knows of every record that changed.
LEMMA RecordFacts ==
    ASSUME Shape, NEW o \in Objects, Record(o)
    PROVE  /\ health' \in [Objects -> Delays \cup {0, Untested}]
           /\ since' \in [Callers -> SinceRec]
           /\ \A c \in Callers : pc[c] \notin Choosing => since'[c] = since[c]
           /\ \A c \in Callers : pc[c] \in Choosing =>
                /\ since[c].changed \subseteq since'[c].changed /\ since'[c].raced = since[c].raced
                /\ \A x \in Objects \ since'[c].changed : health'[x] = health[x]
<1>1. /\ health \in [Objects -> Delays \cup {0, Untested}] /\ real \in [Names -> Delays \cup {0}]
      /\ since \in [Callers -> SinceRec]
  BY DEF Shape
<1>2. real[o[1]] \in Delays \cup {0}
  BY <1>1 DEF Objects
<1>3. health' = [health EXCEPT ![o] = real[o[1]]]
  BY DEF Record
<1>4. ASSUME NEW c \in Callers
      PROVE  /\ since'[c] \in SinceRec
             /\ pc[c] \notin Choosing \/ health[o] = real[o[1]] => since'[c] = since[c]
             /\ pc[c] \in Choosing /\ health[o] # real[o[1]] =>
                  since'[c].changed = since[c].changed \cup {o} /\ since'[c].raced = since[c].raced
  <2>1. since'[c] = IF pc[c] \in Choosing /\ health[o] # real[o[1]]
                    THEN [since[c] EXCEPT !.changed = @ \cup {o}] ELSE since[c]
    BY DEF Record
  <2>2. since[c] \in SinceRec
    BY <1>1
  <2>3. QED  BY <2>1, <2>2 DEF SinceRec
<1>5. since' \in [Callers -> SinceRec]
  BY <1>4 DEF Record
<1>6. \A x \in Objects : x = o \/ health'[x] = health[x]
  BY <1>1, <1>3
<1>7. health[o] = real[o[1]] => health'[o] = health[o]
  BY <1>1, <1>3
<1>8. ASSUME NEW c \in Callers, pc[c] \in Choosing
      PROVE  /\ since[c].changed \subseteq since'[c].changed /\ since'[c].raced = since[c].raced
             /\ \A x \in Objects \ since'[c].changed : health'[x] = health[x]
  BY <1>4, <1>6, <1>7, <1>8
<1>9. QED  BY <1>1, <1>2, <1>3, <1>4, <1>5, <1>8

\* The proxy that Set tests is one of the list.
LEMMA SetTestFacts ==
    ASSUME IInv, NEW c \in Callers, pc[c] = "test"
    PROVE  loc[c].list[PositionOf(loc[c].list, loc[c].arg)] \in Objects
<1> DEFINE list == loc[c].list
<1>1. /\ list \in Seq(Proxies) /\ list # <<>>
      /\ HasName(list, loc[c].arg) /\ loc[c].arg \in Names
  <2>1. loc[c] \in LocRec
    BY DEF IInv, Shape
  <2>2. QED  BY <2>1 DEF IInv, Locals, Local, LocRec
<1> HIDE DEF list
<1>2. PICK i \in DOMAIN list : i = PositionOf(list, loc[c].arg) /\ list[i][1] = loc[c].arg
  BY <1>1, FirstNamed
<1>3. list[i] \in Proxies /\ list[i] # EmptyFallback
  BY <1>1, <1>2, ProxyGroupAssumption DEF EmptyFallback
<1>4. QED  BY <1>2, <1>3 DEF Proxies, list

\* A fallback group has tested the proxy that was selected.
LEMMA SetTestStep ==
    ASSUME IInv, NEW c \in Callers, SetTest(c)
    PROVE  IInv'
<1> DEFINE l == "returned"
           v == loc[c]
           o == loc[c].list[PositionOf(loc[c].list, loc[c].arg)]
<1>0. loc[c] \in LocRec /\ loc \in [Callers -> LocRec]
  BY DEF IInv, Shape
<1>1. /\ pc[c] = "test" /\ pc' = [pc EXCEPT ![c] = l] /\ loc' = [loc EXCEPT ![c] = v]
      /\ Record(o)
      /\ UNCHANGED <<kind, provider, real, check, cache, selected, fastNode, idx, single,
                     failedTimes, testing, fn>>
  BY <1>0 DEF SetTest
<1>2. l \in Labels /\ v \in LocRec
  BY <1>0 DEF Labels
<1>3. Local(l, v, fn'[c]) /\ v.op = "set"
  BY <1>1 DEF IInv, Locals, Local, Choosing, Walking
<1>4. single \in [call : Callers \cup {NoCaller}, result : NodeRec]
  BY DEF IInv, Shape
<1>5. ASSUME kind = "url-test" PROVE Fits(c, l, v)
  <2>1. single.call # c
    BY <1>1, <1>5, NotRegistered DEF Runs, InFn, Goes, GoesAt, Walking
  <2>2. NoReset /\ single.result.set => single.result.sel = selected
    BY <1>5 DEF IInv, Shared, Remembered
  <2>3. QED  BY <1>1, <1>2, <1>5, <2>1, <2>2 DEF Fits, Runs, InFn, Goes, GoesAt, Walking
<1>6. IF kind = "url-test" THEN Fits(c, l, v) ELSE single'.call = NoCaller
  BY <1>1, <1>5 DEF IInv, Shared
<1>7. /\ pc' \in [Callers -> Labels] /\ loc' \in [Callers -> LocRec]
      /\ Locals' /\ Shared'
      /\ \A d \in Callers : pc'[d] = "proxies" => loc'[d].version <= provider.version
  BY <1>1, <1>2, <1>3, <1>4, <1>6, CallerStep
<1>8. health' \in [Objects -> Delays \cup {0, Untested}] /\ since' \in [Callers -> SinceRec]
  BY <1>1, SetTestFacts, RecordFacts DEF IInv
<1>9. QED  BY <1>1, <1>7, <1>8, VersionsStep DEF IInv, Shape

\* What the end of a dial does to the failure counter and to fastSingle.
LEMMA DialledFacts ==
    ASSUME IInv, NEW c \in Callers, Dialled(c)
    PROVE  /\ failedTimes' \in 0..MaxFailedTimes
           /\ single' = single \/ (kind = "url-test" /\ single' = [call |-> NoCaller, result |-> NoNode])
<1>1. failedTimes \in 0..MaxFailedTimes /\ MaxFailedTimes \in Nat /\ MaxFailedTimes >= 1
  BY ProxyGroupAssumption DEF IInv, Shape
<1>2. CASE UNCHANGED <<single, testing, check, failedTimes>>
  BY <1>1, <1>2
<1>3. CASE OnDialSuccess
  BY <1>1, <1>3 DEF OnDialSuccess
<1>4. CASE OnDialFailed
  <2>1. CASE HealthCheck /\ UNCHANGED failedTimes
    BY <1>1, <2>1 DEF HealthCheck, Reset
  <2>2. CASE HealthCheck /\ failedTimes' = MaxFailedTimes
    BY <1>1, <2>2 DEF HealthCheck, Reset
  <2>3. CASE /\ failedTimes' \in {n \in {0} : failedTimes + 1 > 1}
                                  \cup {n \in {failedTimes + 1} : n < MaxFailedTimes \/ n = 1}
             /\ UNCHANGED single
    BY <1>1, <2>3
  <2>4. QED  BY <1>4, <2>1, <2>2, <2>3 DEF OnDialFailed
<1>5. QED  BY <1>2, <1>3, <1>4 DEF Dialled

\* The dial succeeds or fails, and failures are counted.
LEMMA DialledStep ==
    ASSUME IInv, NEW c \in Callers, Dialled(c)
    PROVE  IInv'
<1> DEFINE l == "idle"
           v == Rest
<1>1. /\ pc[c] = "chosen" /\ pc' = [pc EXCEPT ![c] = l] /\ loc' = [loc EXCEPT ![c] = v]
      /\ UNCHANGED <<kind, provider, real, health, cache, selected, fastNode, idx, fn, since>>
  BY DEF Dialled
<1>2. l \in Labels /\ v \in LocRec /\ v.op = "none" /\ ~v.fresh
  BY RestFacts DEF Labels, Rest
<1>3. Local(l, v, fn'[c])
  BY <1>2 DEF Local, Choosing, Walking
<1>4. single' \in [call : Callers \cup {NoCaller}, result : NodeRec]
  <2>1. single \in [call : Callers \cup {NoCaller}, result : NodeRec]
    BY DEF IInv, Shape
  <2>2. QED  BY <2>1, DialledFacts, RestFacts
<1>5. ASSUME kind = "url-test" PROVE Fits(c, l, v)
  <2>1. single.call # c
    BY <1>1, <1>5, NotRegistered DEF Runs, InFn, Goes, GoesAt, Walking
  <2>2. NoReset /\ single.result.set => single.result.sel = selected
    BY <1>5 DEF IInv, Shared, Remembered
  <2>3. single'.call \in {NoCaller, single.call} /\ (single'.result = single.result \/ ~single'.result.set)
    BY DialledFacts, RestFacts
  <2>4. QED  BY <1>1, <1>2, <1>5, <2>1, <2>2, <2>3, ProxyGroupAssumption DEF Fits, Runs, InFn, Goes, GoesAt, Walking
<1>6. IF kind = "url-test" THEN Fits(c, l, v) ELSE single'.call = NoCaller
  BY <1>1, <1>5, DialledFacts DEF IInv, Shared
<1>7. /\ pc' \in [Callers -> Labels] /\ loc' \in [Callers -> LocRec]
      /\ Locals' /\ Shared'
      /\ \A d \in Callers : pc'[d] = "proxies" => loc'[d].version <= provider.version
  BY <1>1, <1>2, <1>3, <1>4, <1>6, CallerStep
<1>8. QED  BY <1>1, <1>4, <1>7, VersionsStep, DialledFacts DEF IInv, Shape

\* A change of the selection: nothing is fresh, and a reset is under way.
LEMMA SelectStep ==
    ASSUME IInv, NEW c \in Callers, NEW n \in Names \cup {NoName}, NEW next \in {"idle", "test", "returned"},
           pc[c] \in {"idle", "set"}, Select(c, n, next), Local(next, loc[c], fn[c]),
           UNCHANGED <<kind, provider, real, health, check, cache, fastNode, idx, single, failedTimes, testing, fn, since>>
    PROVE  IInv'
<1> DEFINE l == IF kind = "url-test" THEN "reset" ELSE next
<1>1. pc \in [Callers -> Labels] /\ loc \in [Callers -> LocRec]
  BY DEF IInv, Shape
<1>2. /\ selected' = n
      /\ pc' = [pc EXCEPT ![c] = l]
      /\ loc' = [d \in Callers |-> [loc[d] EXCEPT !.fresh = FALSE]]
  BY DEF Select
<1>3. l \in Labels
  BY DEF Labels
<1>4. ASSUME NEW w \in LocRec
      PROVE  LET v == [w EXCEPT !.fresh = FALSE]
             IN  /\ v \in LocRec /\ v.op = w.op /\ v.arg = w.arg /\ v.version = w.version
                 /\ v.list = w.list /\ v.node = w.node /\ ~v.fresh
  BY DEF LocRec
<1>5. ASSUME NEW d \in Callers
      PROVE  /\ loc'[d] \in LocRec /\ loc'[d].op = loc[d].op /\ loc'[d].arg = loc[d].arg
             /\ loc'[d].version = loc[d].version /\ loc'[d].list = loc[d].list
             /\ loc'[d].node = loc[d].node /\ ~loc'[d].fresh
             /\ pc'[d] = IF d = c THEN l ELSE pc[d]
  <2>1. loc'[d] = [loc[d] EXCEPT !.fresh = FALSE] /\ loc[d] \in LocRec
    BY <1>1, <1>2
  <2>2. pc'[d] = IF d = c THEN l ELSE pc[d]
    BY <1>1, <1>2
  <2>3. QED  BY <1>4, <2>1, <2>2
<1>6. pc' \in [Callers -> Labels] /\ loc' \in [Callers -> LocRec]
  <2>1. pc' \in [Callers -> Labels]
    BY <1>1, <1>2, <1>3
  <2>2. QED  BY <1>2, <1>5, <2>1
<1>7. Locals'
  <2>1. ASSUME NEW d \in Callers PROVE Local(pc[d], loc[d], fn[d])'
    <3>1. CASE d = c
      BY <1>5, <3>1 DEF Local, HasName, Choosing, Walking
    <3>2. CASE d # c
      BY <1>5, <3>2 DEF IInv, Locals, Local, HasName
    <3>3. QED  BY <3>1, <3>2
  <2>2. QED  BY <2>1 DEF Locals
<1>8. Versions'
  BY <1>5, VersionsStep DEF IInv, Versions
<1>9. Shared'
  <2>1. CASE kind = "url-test"
    <3>1. Waits /\ Registered
      BY <2>1 DEF IInv, Shared
    <3>2. \A d \in Callers : Runs(d) => Runs(d)'
      BY <1>5 DEF Runs, InFn, Goes, GoesAt, Walking
    <3>3. pc'[c] = "reset" /\ \A d \in Callers \ {c} : pc'[d] = pc[d]
      BY <1>5, <2>1
    <3>4. Waits'
      BY <1>5, <3>1, <3>2, <3>3 DEF Waits, Runs, InFn, Goes, GoesAt, Walking
    <3>5. Registered'
      <4>1. single.call \in Callers \cup {NoCaller}
        BY DEF IInv, Shape
      <4>2. QED  BY <1>5, <3>1, <3>2, <4>1, NotRegistered, <2>1 DEF Registered, Runs, InFn, Goes, GoesAt, Walking
    <3>6. Remembered' /\ FreshOK'
      BY <1>5, <3>3 DEF Remembered, FreshOK, NoReset
    <3>7. QED  BY <2>1, <3>4, <3>5, <3>6 DEF Shared
  <2>2. CASE kind # "url-test"
    BY <2>2 DEF IInv, Shared
  <2>3. QED  BY <2>1, <2>2
<1>10. Shape'
  BY <1>2, <1>6 DEF IInv, Shape
<1>11. QED  BY <1>7, <1>8, <1>9, <1>10 DEF IInv

\* Set writes the selection.
LEMMA SetSelectedStep ==
    ASSUME IInv, NEW c \in Callers, SetSelected(c)
    PROVE  IInv'
<1>0. loc[c] \in LocRec /\ loc \in [Callers -> LocRec]
  BY DEF IInv, Shape
<1>1. /\ pc[c] = "set"
      /\ UNCHANGED <<kind, provider, real, health, check, cache, fastNode, idx, single,
                     failedTimes, testing, fn, since>>
  BY DEF SetSelected
<1>2. loc[c].op = "set" /\ loc[c].arg \in Names /\ loc[c].list # <<>>
  BY <1>1 DEF IInv, Locals, Local, Choosing, Walking
<1>3. CASE HasName(loc[c].list, loc[c].arg)
  <2>1. PICK next \in {"test", "returned"} : Select(c, loc[c].arg, next)
    BY <1>3 DEF SetSelected
  <2>2. Local(next, loc[c], fn[c])
    BY <1>2, <1>3 DEF Local, Choosing, Walking
  <2>3. QED  BY <1>1, <1>2, <2>1, <2>2, SelectStep
<1>4. CASE ~HasName(loc[c].list, loc[c].arg)
  <2> DEFINE l == "returned"
             v == loc[c]
  <2>1. pc' = [pc EXCEPT ![c] = l] /\ loc' = [loc EXCEPT ![c] = v] /\ selected' = selected
    BY <1>0, <1>4 DEF SetSelected
  <2>2. l \in Labels /\ v \in LocRec
    BY <1>0 DEF Labels
  <2>3. Local(l, v, fn'[c])
    BY <1>2 DEF Local, Choosing, Walking
  <2>4. single \in [call : Callers \cup {NoCaller}, result : NodeRec]
    BY DEF IInv, Shape
  <2>5. ASSUME kind = "url-test" PROVE Fits(c, l, v)
    <3>1. single.call # c
      BY <1>1, <2>5, NotRegistered DEF Runs, InFn, Goes, GoesAt, Walking
    <3>2. NoReset /\ single.result.set => single.result.sel = selected
      BY <2>5 DEF IInv, Shared, Remembered
    <3>3. QED  BY <1>1, <2>5, <3>1, <3>2 DEF Fits, Runs, InFn, Goes, GoesAt, Walking
  <2>6. IF kind = "url-test" THEN Fits(c, l, v) ELSE single'.call = NoCaller
    BY <1>1, <2>5 DEF IInv, Shared
  <2>7. /\ pc' \in [Callers -> Labels] /\ loc' \in [Callers -> LocRec]
        /\ Locals' /\ Shared'
        /\ \A d \in Callers : pc'[d] = "proxies" => loc'[d].version <= provider.version
    BY <1>1, <2>1, <2>2, <2>3, <2>4, <2>6, CallerStep
  <2>8. QED  BY <1>1, <2>1, <2>7, VersionsStep DEF IInv, Shape
<1>5. QED  BY <1>3, <1>4

\* ForceSet with an empty name drops the selection.
LEMMA UnfixStep ==
    ASSUME IInv, NEW c \in Callers, Unfix(c)
    PROVE  IInv'
<1>1. /\ pc[c] = "idle" /\ Select(c, NoName, "idle")
      /\ UNCHANGED <<kind, provider, real, health, check, cache, fastNode, idx, single, failedTimes, testing, fn, since>>
  BY DEF Unfix
<1>2. Local("idle", loc[c], fn[c])
  BY <1>1 DEF IInv, Locals, Local, Choosing, Walking
<1>3. QED  BY <1>1, <1>2, SelectStep

\* fn returns: all who wait for it are given what it found.
LEMMA DoneStep ==
    ASSUME IInv, NEW c \in Callers, Done(c)
    PROVE  IInv'
<1> DEFINE waits(d) == pc[d] = "wait" /\ loc[d].arg = c
<1>1. pc \in [Callers -> Labels] /\ loc \in [Callers -> LocRec] /\ single.call \in Callers \cup {NoCaller}
  BY DEF IInv, Shape
<1>2. /\ pc[c] = "done"
      /\ UNCHANGED <<kind, provider, real, health, check, cache, selected, fastNode, idx, single,
                     failedTimes, testing, fn, since>>
  BY DEF Done
<1>3. /\ pc'  = [d \in Callers |-> IF d = c THEN "store" ELSE IF waits(d) THEN "chosen" ELSE pc[d]]
      /\ loc' = [d \in Callers |-> IF waits(d) THEN [loc[d] EXCEPT !.node = loc[c].node] ELSE loc[d]]
  BY DEF Done
<1>4. kind = "url-test" /\ Waits /\ Registered /\ Remembered /\ FreshOK
  BY <1>2 DEF IInv, Shared, Locals, Local
<1>5. ASSUME NEW w \in LocRec, NEW x \in NodeRec
      PROVE  LET v == [w EXCEPT !.node = x]
             IN  /\ v \in LocRec /\ v.op = w.op /\ v.arg = w.arg /\ v.version = w.version
                 /\ v.list = w.list /\ v.node = x /\ v.fresh = w.fresh
  BY DEF LocRec
<1>6. ASSUME NEW d \in Callers, waits(d)
      PROVE  /\ d # c /\ pc'[d] = "chosen"
             /\ loc'[d] \in LocRec /\ loc'[d].op = loc[d].op /\ loc'[d].arg = loc[d].arg
             /\ loc'[d].node = loc[c].node /\ loc'[d].fresh = loc[d].fresh
  <2>1. d # c /\ pc'[d] = "chosen" /\ loc'[d] = [loc[d] EXCEPT !.node = loc[c].node]
    BY <1>2, <1>3, <1>6
  <2>2. loc[d] \in LocRec /\ loc[c].node \in NodeRec
    BY <1>1 DEF LocRec
  <2>3. QED  BY <1>5, <2>1, <2>2
<1>7. ASSUME NEW d \in Callers, ~waits(d)
      PROVE  loc'[d] = loc[d] /\ pc'[d] = IF d = c THEN "store" ELSE pc[d]
  BY <1>3, <1>7
<1>8. ~waits(c)
  BY <1>2
<1> HIDE DEF waits
<1>9. pc' \in [Callers -> Labels] /\ loc' \in [Callers -> LocRec]
  <2>1. \A d \in Callers : pc'[d] \in Labels /\ loc'[d] \in LocRec
    <3>1. SUFFICES ASSUME NEW d \in Callers PROVE pc'[d] \in Labels /\ loc'[d] \in LocRec
      OBVIOUS
    <3>2. CASE waits(d)
      BY <1>6, <3>2 DEF Labels
    <3>3. CASE ~waits(d)
      BY <1>1, <1>7, <3>3 DEF Labels
    <3>4. QED  BY <3>2, <3>3
  <2>2. QED  BY <1>3, <2>1
<1>10. Locals'
  <2>1. ASSUME NEW d \in Callers PROVE Local(pc[d], loc[d], fn[d])'
    <3>0. Local(pc[d], loc[d], fn[d]) /\ Local(pc[c], loc[c], fn[c])
      BY DEF IInv, Locals
    <3>1. CASE waits(d)
      BY <1>6, <3>0, <3>1 DEF Local, waits, Choosing, Walking
    <3>2. CASE ~waits(d)
      BY <1>2, <1>4, <1>7, <3>0, <3>2 DEF Local, HasName, Choosing, Walking
    <3>3. QED  BY <3>1, <3>2
  <2>2. QED  BY <2>1 DEF Locals
<1>11. Versions'
  <2>1. ASSUME NEW d \in Callers, pc'[d] = "proxies" PROVE loc'[d].version <= provider.version
    BY <1>6, <1>7, <2>1 DEF IInv, Versions
  <2>2. QED  BY <1>2, <2>1, VersionsStep DEF IInv
<1>12. \A d \in Callers : Runs(d) \/ pc[d] = "store" => ~waits(d)
  BY DEF Runs, InFn, Goes, GoesAt, waits
<1>13. Waits'
  <2>1. ASSUME NEW d \in Callers, pc'[d] = "wait" PROVE loc'[d].arg \in Callers /\ Runs(loc[d].arg)'
    <3>1. ~waits(d) /\ d # c /\ loc'[d] = loc[d] /\ pc[d] = "wait"
      BY <1>6, <1>7, <2>1
    <3>2. loc[d].arg \in Callers /\ Runs(loc[d].arg) /\ loc[d].arg # c
      BY <1>4, <3>1 DEF Waits, waits
    <3>3. QED  BY <1>7, <1>12, <3>1, <3>2 DEF Runs, InFn, Goes, GoesAt, Walking
  <2>2. QED  BY <2>1 DEF Waits
<1>14. Registered'
  <2>1. SUFFICES ASSUME single.call # NoCaller PROVE Runs(single.call)' \/ pc'[single.call] = "store"
    BY <1>2 DEF Registered
  <2>2. Runs(single.call) \/ pc[single.call] = "store"
    BY <1>4, <2>1 DEF Registered
  <2>3. single.call \in Callers /\ ~waits(single.call)
    BY <1>1, <1>12, <2>1, <2>2
  <2>4. QED  BY <1>2, <1>7, <2>2, <2>3 DEF Runs, InFn, Goes, GoesAt, Walking
<1>15. ASSUME NEW d \in Callers PROVE pc'[d] = "reset" <=> pc[d] = "reset"
  BY <1>2, <1>6, <1>7 DEF waits
<1>16. NoReset' <=> NoReset
  BY <1>15 DEF NoReset
<1>17. \A d \in Callers : Goes(d) => Goes(d)'
  <2>1. ASSUME NEW d \in Callers, Goes(d) PROVE Goes(d)'
    <3>1. CASE waits(d)
      BY <1>6, <3>1 DEF Goes, GoesAt, Walking
    <3>2. CASE ~waits(d)
      BY <1>2, <1>7, <2>1, <3>2 DEF Goes, GoesAt, Walking
    <3>3. QED  BY <3>1, <3>2
  <2>2. QED  BY <2>1
<1>18. Remembered'
  <2>1. SUFFICES ASSUME NoReset, single.call # NoCaller PROVE Goes(single.call)'
    BY <1>2, <1>4, <1>16 DEF Remembered
  <2>2. single.call \in Callers /\ Goes(single.call)
    BY <1>1, <1>4, <2>1 DEF Remembered
  <2>3. PICK e \in Callers : e = single.call
    BY <2>2
  <2>4. Goes(e)'
    BY <1>17, <2>2, <2>3
  <2>5. QED  BY <1>2, <2>3, <2>4 DEF Goes, GoesAt, Walking
<1>19. FreshOK'
  <2>1. SUFFICES ASSUME NEW d \in Callers, loc'[d].fresh
                 PROVE  /\ NoReset /\ Goes(d)'
                        /\ pc'[d] = "chosen" => loc'[d].node.sel = selected
                        /\ pc'[d] = "wait" => Goes(loc[d].arg)'
    BY <1>2, <1>16 DEF FreshOK
  <2>2. loc[d].fresh /\ NoReset /\ Goes(d)
    BY <1>4, <1>6, <1>7, <2>1 DEF FreshOK
  <2>3. pc'[d] = "chosen" => loc'[d].node.sel = selected
    <3>1. CASE waits(d)
      <4>1. Goes(c)
        BY <1>4, <2>2, <3>1 DEF FreshOK, waits
      <4>2. QED  BY <1>2, <1>6, <3>1, <4>1 DEF Goes, GoesAt, Walking
    <3>2. CASE ~waits(d)
      BY <1>2, <1>4, <1>7, <2>2, <3>2 DEF FreshOK
    <3>3. QED  BY <3>1, <3>2
  <2>4. ASSUME pc'[d] = "wait" PROVE Goes(loc[d].arg)'
    <3>1. ~waits(d) /\ loc'[d] = loc[d] /\ pc[d] = "wait"
      BY <1>6, <1>7, <2>4
    <3>2. loc[d].arg \in Callers /\ Goes(loc[d].arg)
      BY <1>4, <2>2, <3>1 DEF Waits, FreshOK
    <3>3. PICK e \in Callers : e = loc[d].arg
      BY <3>2
    <3>4. Goes(e)'
      BY <1>17, <3>2, <3>3
    <3>5. QED  BY <3>1, <3>3, <3>4 DEF Goes, GoesAt, Walking
  <2>5. QED  BY <1>17, <2>2, <2>3, <2>4
<1>20. Shared'
  BY <1>2, <1>4, <1>13, <1>14, <1>18, <1>19 DEF Shared
<1>21. Shape'
  BY <1>2, <1>9 DEF IInv, Shape
<1>22. QED  BY <1>10, <1>11, <1>20, <1>21 DEF IInv

\* fastSingle is reset, or forgets its result.
LEMMA ForgetStep ==
    ASSUME IInv, single' \in [call : {single.call, NoCaller}, result : {NoNode}],
           failedTimes' \in 0..MaxFailedTimes,
           UNCHANGED <<kind, provider, real, health, cache, selected, fastNode, idx, pc, loc, fn, since>>
    PROVE  IInv'
<1>1. /\ single'.call \in {single.call, NoCaller} /\ ~single'.result.set
      /\ single' \in [call : Callers \cup {NoCaller}, result : NodeRec]
  BY RestFacts DEF IInv, Shape
<1>2. Shape'
  BY <1>1 DEF IInv, Shape
<1>3. Versions' /\ Locals'
  BY DEF IInv, Versions, Listed, Locals, Local, HasName
<1>4. Shared'
  <2>1. CASE kind = "url-test"
    BY <1>1, <2>1 DEF IInv, Shared, Waits, Registered, Remembered, FreshOK, NoReset, Runs, InFn, Goes, GoesAt, Walking
  <2>2. CASE kind # "url-test"
    BY <1>1, <2>2 DEF IInv, Shared
  <2>3. QED  BY <2>1, <2>2
<1>5. QED  BY <1>2, <1>3, <1>4 DEF IInv

\* A step that changes what is known of the proxies, the servers or the provider.
LEMMA OutsideStep ==
    ASSUME IInv, Shape', Versions',
           UNCHANGED <<kind, selected, single, pc, loc, fn>>
    PROVE  IInv'
<1>1. Locals'
  BY DEF IInv, Locals, Local, HasName
<1>2. Shared'
  BY DEF IInv, Shared, Waits, Registered, Remembered, FreshOK, NoReset, Runs, InFn, Goes, GoesAt, Walking
<1>3. QED  BY <1>1, <1>2 DEF IInv

\* The result that fastSingle remembers becomes too old.
LEMMA ExpireStep ==
    ASSUME IInv, Expire
    PROVE  IInv'
<1>1. /\ single' \in [call : {single.call, NoCaller}, result : {NoNode}]
      /\ UNCHANGED <<kind, provider, real, health, cache, selected, fastNode, idx, failedTimes, pc, loc, fn, since>>
  BY DEF Expire, IInv, Shape
<1>2. failedTimes' \in 0..MaxFailedTimes
  BY <1>1 DEF IInv, Shape
<1>3. QED  BY <1>1, <1>2, ForgetStep

\* The health check that failures started ends.
LEMMA GroupCheckEndStep ==
    ASSUME IInv, GroupCheckEnd
    PROVE  IInv'
<1>1. /\ failedTimes' = 0
      /\ UNCHANGED <<kind, provider, real, health, cache, selected, fastNode, idx, pc, loc, fn, since>>
  BY DEF GroupCheckEnd
<1>2. failedTimes' \in 0..MaxFailedTimes
  BY <1>1, ProxyGroupAssumption
<1>3. CASE kind = "url-test"
  <2>1. single' \in [call : {single.call, NoCaller}, result : {NoNode}]
    BY <1>3 DEF GroupCheckEnd, Reset
  <2>2. QED  BY <1>1, <1>2, <2>1, ForgetStep
<1>4. CASE kind # "url-test"
  <2>1. UNCHANGED single
    BY <1>4 DEF GroupCheckEnd
  <2>2. Shape'
    BY <1>1, <1>2, <2>1 DEF IInv, Shape
  <2>3. Versions'
    BY <1>1, VersionsStep DEF IInv, Versions
  <2>4. QED  BY <1>1, <2>1, <2>2, <2>3, OutsideStep
<1>5. QED  BY <1>3, <1>4

\* A health check records what it measured.
LEMMA ChecksStep ==
    ASSUME IInv, Checks
    PROVE  IInv'
<1>1. UNCHANGED <<kind, provider, real, cache, selected, fastNode, idx, single, failedTimes, testing,
                  pc, loc, fn>>
  BY DEF Checks, CheckBegin, URLTest, CheckEnd
<1>2. health' \in [Objects -> Delays \cup {0, Untested}] /\ since' \in [Callers -> SinceRec]
  <2>1. CASE \E o \in Objects : URLTest(o)
    BY <2>1, RecordFacts DEF URLTest, IInv
  <2>2. CASE CheckBegin \/ CheckEnd
    BY <2>2 DEF CheckBegin, CheckEnd, IInv, Shape
  <2>3. QED  BY <2>1, <2>2 DEF Checks
<1>3. Shape'
  BY <1>1, <1>2 DEF IInv, Shape
<1>4. Versions'
  BY <1>1, VersionsStep DEF IInv, Versions
<1>5. QED  BY <1>1, <1>3, <1>4, OutsideStep

\* The provider gets a new list.
LEMMA SetProxiesStep ==
    ASSUME IInv, NEW names \in Lists, SetProxies(names)
    PROVE  IInv'
<1>1. /\ provider.version < MaxVersion
      /\ provider' = [version |-> provider.version + 1, names |-> names]
      /\ UNCHANGED <<kind, real, health, check, cache, selected, fastNode, idx, single,
                     failedTimes, testing, pc, loc, fn, since>>
  BY DEF SetProxies
<1>2. /\ names \in Seq(Names) /\ MaxVersion \in Nat /\ provider.version \in 0..MaxVersion
      /\ cache.version \in 0..MaxVersion + 1
  BY ProxyGroupAssumption DEF IInv, Shape
<1>3. provider'.version = provider.version + 1 /\ provider.version + 1 \in 0..MaxVersion
  BY <1>1, <1>2
<1>4. Shape'
  <2>1. provider' \in [version : 0..MaxVersion, names : Seq(Names)]
    BY <1>1, <1>2, <1>3
  <2>2. QED  BY <1>1, <2>1 DEF IInv, Shape
<1>5. Versions'
  <2>1. ASSUME NEW c \in Callers, pc[c] = "proxies" PROVE loc[c].version <= provider.version + 1
    <3>1. loc[c].version \in 0..MaxVersion /\ loc[c].version <= provider.version
      BY <2>1 DEF IInv, Versions, Shape, LocRec
    <3>2. QED  BY <1>2, <3>1
  <2>2. cache.version <= MaxVersion => cache.version <= provider.version /\ cache.list # <<>>
    BY DEF IInv, Versions
  <2>3. cache.version # provider.version + 1
    BY <1>2, <1>3, <2>2
  <2>4. QED  BY <1>1, <1>2, <1>3, <2>1, <2>2, <2>3 DEF Versions
<1>6. QED  BY <1>1, <1>4, <1>5, OutsideStep

\* A server dies, comes back or becomes slower.
LEMMA WorldStep ==
    ASSUME IInv, NEW n \in Names, NEW d \in Delays \cup {0}, World(n, d)
    PROVE  IInv'
<1>1. /\ real' = [real EXCEPT ![n] = d]
      /\ UNCHANGED <<kind, provider, health, check, cache, selected, fastNode, idx, single,
                     failedTimes, testing, pc, loc, fn, since>>
  BY DEF World
<1>2. Shape'
  BY <1>1 DEF IInv, Shape
<1>3. Versions'
  BY <1>1, VersionsStep DEF IInv, Versions
<1>4. QED  BY <1>1, <1>2, <1>3, OutsideStep

-----------------------------------------------------------------------------
(* The theorems.                                                            *)

\* IInv holds initially.
LEMMA InitInv == Init => IInv
<1> SUFFICES ASSUME Init PROVE IInv
  OBVIOUS
<1>1. PICK names \in Lists \ {<<>>} : provider = [version |-> 0, names |-> names]
  BY DEF Init
<1>2. names \in Seq(Names) /\ MaxVersion \in Nat /\ MaxFailedTimes \in Nat /\ Untested \in {0, Untested}
  BY ProxyGroupAssumption
<1>3. Shape
  <2>1. provider \in [version : 0..MaxVersion, names : Seq(Names)]
    BY <1>1, <1>2
  <2>2. real \in [Names -> Delays \cup {0}] /\ health \in [Objects -> Delays \cup {0, Untested}]
    BY DEF Init
  <2>3. cache \in [version : 0..MaxVersion + 1, list : Seq(Proxies)]
    BY <1>2 DEF Init
  <2>4. selected \in Names \cup {NoName}
    BY <1>1, <1>2 DEF Init, Range
  <2>5. fastNode \in Proxies /\ idx \in Nat /\ failedTimes \in 0..MaxFailedTimes /\ kind \in Kinds
    BY <1>2 DEF Init, Proxies
  <2>6. single \in [call : Callers \cup {NoCaller}, result : NodeRec]
    BY RestFacts DEF Init
  <2>7. /\ pc \in [Callers -> Labels] /\ loc \in [Callers -> LocRec]
        /\ fn \in [Callers -> FnRec] /\ since \in [Callers -> SinceRec]
    BY RestFacts, BeginFacts DEF Init, Labels
  <2>8. QED  BY <2>1, <2>2, <2>3, <2>4, <2>5, <2>6, <2>7 DEF Shape
<1>4. Versions
  BY <1>1, <1>2 DEF Init, Versions
<1>5. Locals
  BY DEF Init, Locals, Local, Rest, Choosing, Walking
<1>6. Shared
  BY RestFacts DEF Init, Shared, Waits, Registered, Remembered, FreshOK, Rest
<1>7. QED  BY <1>3, <1>4, <1>5, <1>6 DEF IInv

\* Every step keeps IInv.
LEMMA NextInv == IInv /\ [Next]_vars => IInv'
<1> SUFFICES ASSUME IInv, [Next]_vars PROVE IInv'
  OBVIOUS
<1>1. ASSUME NEW c \in Callers, Dial(c) \/ Unfix(c) \/ (\E n \in Names : Set(c, n)) \/ Continue(c)
      PROVE  IInv'
  BY <1>1, DialStep, UnfixStep, SetStep, ReadVersionStep, GetProxiesStep, DoStep, ChooseStep,
     ChooseBeginStep, FindAliveProxyStep, ClearSelectedStep, FixedStep, WalkStep, KeepStep, ReturnFastStep,
     DoneStep, StoreStep, DialledStep, SetSelectedStep, SetTestStep, SetResetStep, SetReturnStep
     DEF Continue
<1>2. CASE \E l \in Lists : SetProxies(l)
  BY <1>2, SetProxiesStep
<1>3. CASE \E n \in Names, d \in Delays \cup {0} : World(n, d)
  BY <1>3, WorldStep
<1>4. CASE UNCHANGED vars
  <2>1. Shape' /\ Versions'
    BY <1>4 DEF IInv, vars, Shape, Versions, Listed
  <2>2. QED  BY <1>4, <2>1, OutsideStep DEF vars
<1>5. QED
  BY <1>1, <1>2, <1>3, <1>4, ExpireStep, GroupCheckEndStep, ChecksStep DEF Next, Calls

\* The inductive invariant holds in every state.
THEOREM Invariance == Spec => []IInv
<1>1. QED  BY InitInv, NextInv, PTL DEF Spec

\* Type correctness; who waits in fastSingle waits for a call that is still to return, and the
\* call that is registered has not ended.
THEOREM TypesCorrect == Spec => []TypeOK
<1>1. IInv => TypeOK
  <2> SUFFICES ASSUME IInv PROVE TypeOK
    OBVIOUS
  <2>1. /\ kind \in Kinds /\ selected \in Names \cup {NoName} /\ fastNode \in Objects \cup {EmptyFallback}
        /\ health \in [Objects -> Delays \cup {0, Untested}] /\ failedTimes \in 0..MaxFailedTimes
    BY DEF IInv, Shape, Proxies
  <2>2. single.call # NoCaller => pc[single.call] \in InFn \cup {"store"}
    BY DEF IInv, Shared, Registered, Runs
  <2>3. ASSUME NEW c \in Callers, pc[c] = "wait"
        PROVE  pc[loc[c].arg] \in InFn
    BY <2>3 DEF IInv, Locals, Local, Shared, Waits, Runs, InFn, Goes, GoesAt, Walking
  <2>4. QED  BY <2>1, <2>2, <2>3 DEF TypeOK
<1>2. QED  BY <1>1, Invariance, PTL

\* The cached list is that of the provider whenever it has its version.
THEOREM CacheCorrect == Spec => []CacheFresh
<1>1. IInv => CacheFresh
  BY DEF IInv, Versions, CacheFresh
<1>2. QED  BY <1>1, Invariance, PTL

\* A url-test group that is asked after Set or ForceSet has returned goes by the new selection.
THEOREM SelectionCorrect == Spec => []SetWins
<1>1. IInv => SetWins
  BY DEF IInv, Shared, FreshOK, SetWins
<1>2. QED  BY <1>1, Invariance, PTL

-----------------------------------------------------------------------------
(* What is known while a list is gone through.                              *)

\* The places of the list that caller c has looked at.
Met(c) == IF pc[c] \in {"find", "walk"} THEN 1..fn[c].i - 1 ELSE DOMAIN loc[c].list

\* A fallback group without a selection passes over proxies that are not alive.
Finding(c) ==
    /\ pc[c] = "clear" => fn[c].sel # NoName
    /\ pc[c] = "find" /\ fn[c].sel = NoName =>
         \A j \in Met(c) : Alive(loc[c].list[j]) => loc[c].list[j] \in since[c].changed

\* fast is the fastest of those that were met, by the records that have not changed, and
\* fastNode is in the list if it was met.
Walked(c) ==
    /\ fn[c].exist /\ ~since[c].raced => HasName(loc[c].list, fastNode[1])
    /\ \/ pc[c] = "walk" /\ fn[c].i = 1
       \/ /\ \E j \in Met(c) : loc[c].list[j] = fn[c].fast
          /\ fn[c].fast \notin since[c].changed => fn[c].min = LastDelay(fn[c].fast)
          /\ \A j \in Met(c) : loc[c].list[j] \notin since[c].changed =>
                                 fn[c].min <= LastDelay(loc[c].list[j])

\* Proxy o is a good choice from the list, by the records that have not changed.
Live(c, o) ==
    /\ HasName(loc[c].list, o[1])
    /\ (\E i \in Passed(loc[c].list) : loc[c].list[i] \notin since[c].changed) =>
         Alive(o) \/ o \in since[c].changed

Near(c, o) ==
    since[c].changed = {} =>
      \A i \in Passed(loc[c].list) : LastDelay(o) <= LastDelay(loc[c].list[i]) + Tolerance

Searched(c) ==
    /\ pc[c] \notin Choosing => since[c] = Quiet
    /\ Finding(c)
    /\ pc[c] = "fixed" => ~fn[c].exist
    /\ pc[c] \in {"walk", "keep"} => Walked(c)
    /\ pc[c] = "return" /\ ~since[c].raced => Live(c, fastNode) /\ Near(c, fastNode)

Search == \A c \in Callers : Searched(c)

\* Records that change, and changes of the node in use, leave what is known of the others.
LEMMA FrameStep ==
    ASSUME IInv, IInv', NEW c \in Callers, Searched(c), pc[c] \in Choosing,
           pc'[c] = pc[c], loc'[c].list = loc[c].list, fn'[c] = fn[c],
           since[c].changed \subseteq since'[c].changed,
           \A x \in Objects \ since'[c].changed : health'[x] = health[x],
           since[c].raced => since'[c].raced, since'[c].raced \/ fastNode' = fastNode
    PROVE  Searched(c)'
<1>1. /\ fn[c].fast \in Proxies /\ fastNode \in Proxies
      /\ \A j \in DOMAIN loc[c].list : loc[c].list[j] \in Proxies
  BY ThisFacts DEF IInv, Shape, FnRec
<1>2. ASSUME NEW x \in Proxies, x \notin since'[c].changed
      PROVE  /\ x \notin since[c].changed
             /\ (x = EmptyFallback \/ health'[x] = 0) <=> (x = EmptyFallback \/ health[x] = 0)
             /\ x # EmptyFallback => health'[x] = health[x]
  BY <1>2 DEF Proxies
<1>3. pc[c] = "find" => Met(c) \subseteq DOMAIN loc[c].list
  BY ThisFacts DEF Met
<1>4. pc[c] \in {"walk", "keep"} => Met(c) \subseteq DOMAIN loc[c].list
  BY ThisFacts DEF Met
<1>5. Finding(c)'
  BY <1>1, <1>2, <1>3 DEF Searched, Finding, Met, Alive
<1>6. ASSUME pc[c] \in {"walk", "keep"} PROVE Walked(c)'
  <2>1. Walked(c) /\ Met(c) \subseteq DOMAIN loc[c].list
    BY <1>4, <1>6 DEF Searched
  <2>2. Met(c)' = Met(c)
    BY DEF Met
  <2>3. fn'[c].exist /\ ~since'[c].raced => HasName(loc'[c].list, fastNode'[1])
    BY <2>1 DEF Walked, HasName
  <2>4. \/ pc[c] = "walk" /\ fn[c].i = 1
        \/ /\ \E j \in Met(c) : loc[c].list[j] = fn[c].fast
           /\ fn[c].fast \notin since'[c].changed => fn[c].min = LastDelay(fn[c].fast)'
           /\ \A j \in Met(c) : loc[c].list[j] \notin since'[c].changed =>
                                  fn[c].min <= LastDelay(loc[c].list[j])'
    BY <1>1, <1>2, <2>1 DEF Walked, LastDelay
  <2>5. QED  BY <2>2, <2>3, <2>4 DEF Walked, HasName, LastDelay
<1>7. ASSUME pc[c] = "return", ~since'[c].raced PROVE Live(c, fastNode)' /\ Near(c, fastNode)'
  <2>1. Live(c, fastNode) /\ Near(c, fastNode) /\ fastNode' = fastNode
    BY <1>7 DEF Searched
  <2>2. \A i \in Passed(loc[c].list)' : loc[c].list[i] \notin since'[c].changed => i \in Passed(loc[c].list)
    BY <1>1, <1>2 DEF Passed, Alive, LastDelay
  <2>3. HasName(loc'[c].list, fastNode'[1])
    BY <2>1 DEF Live, HasName
  <2>4. ASSUME NEW i \in Passed(loc[c].list)', loc[c].list[i] \notin since'[c].changed
        PROVE  Alive(fastNode)' \/ fastNode \in since'[c].changed
    <3>1. i \in Passed(loc[c].list) /\ i \in DOMAIN loc[c].list
      BY <2>2, <2>4 DEF Passed
    <3>2. loc[c].list[i] \notin since[c].changed
      BY <2>4
    <3>3. Alive(fastNode) \/ fastNode \in since[c].changed
      BY <2>1, <3>1, <3>2 DEF Live
    <3>4. QED  BY <1>1, <1>2, <2>1, <3>3 DEF Alive
  <2>5. ASSUME since'[c].changed = {}, NEW i \in Passed(loc[c].list)'
        PROVE  LastDelay(fastNode)' <= LastDelay(loc[c].list[i])' + Tolerance
    <3>1. since[c].changed = {} /\ i \in Passed(loc[c].list) /\ loc[c].list[i] \in Proxies
      BY <1>1, <2>2, <2>5 DEF Passed
    <3>2. LastDelay(fastNode) <= LastDelay(loc[c].list[i]) + Tolerance
      BY <2>1, <3>1 DEF Near
    <3>3. LastDelay(fastNode)' = LastDelay(fastNode)
      BY <1>1, <1>2, <2>1, <2>5 DEF LastDelay
    <3>4. LastDelay(loc[c].list[i])' = LastDelay(loc[c].list[i])
      BY <1>2, <2>5, <3>1 DEF LastDelay
    <3>5. QED  BY <3>2, <3>3, <3>4
  <2>6. QED  BY <2>1, <2>3, <2>4, <2>5 DEF Live, Near
<1>8. QED  BY <1>5, <1>6, <1>7 DEF Searched

\* Nothing is known of a caller that is not at its list.
LEMMA IdleStep ==
    ASSUME NEW c \in Callers, pc'[c] \notin Choosing, since'[c] = Quiet
    PROVE  Searched(c)'
BY DEF Searched, Finding, Choosing

\* The choice that a step of caller c makes is one that its group should make.
Good(c) ==
    LET o == loc'[c].node
    IN  /\ kind # "select" /\ (kind = "fallback" => o.sel = NoName) /\ ~since[c].raced
        => /\ Live(c, o.obj)
           /\ kind = "url-test" /\ ~HasName(loc[c].list, o.sel) => Near(c, o.obj)

\* A caller that has found its proxy.
LEMMA FoundFacts ==
    ASSUME Shape, NEW c \in Callers, NEW o, NEW sel, Found(c, o, sel)
    PROVE  /\ pc'[c] \in {"done", "chosen"} /\ pc'[c] \notin Choosing
           /\ loc'[c].node.obj = o /\ loc'[c].node.sel = sel
           /\ \A d \in Callers \ {c} : pc'[d] = pc[d] /\ loc'[d] = loc[d]
<1>1. loc \in [Callers -> LocRec] /\ loc[c] \in LocRec /\ pc \in [Callers -> Labels]
  BY DEF Shape
<1>2. loc' = [loc EXCEPT ![c].node = Node(o, sel), ![c].list = <<>>]
      /\ pc' = [pc EXCEPT ![c] = IF kind = "url-test" THEN "done" ELSE "chosen"]
  BY DEF Found
<1>3. pc'[c] \in {"done", "chosen"} /\ pc'[c] \notin Choosing
  BY <1>1, <1>2 DEF Choosing
<1>4. loc'[c].node = Node(o, sel)
  BY <1>1, <1>2 DEF LocRec
<1>5. \A d \in Callers \ {c} : pc'[d] = pc[d] /\ loc'[d] = loc[d]
  BY <1>1, <1>2
<1>6. QED  BY <1>3, <1>4, <1>5 DEF Node

\* A proxy of the list that is alive.
LEMMA LiveFacts ==
    ASSUME NEW c \in Callers, NEW i \in DOMAIN loc[c].list, Alive(loc[c].list[i])
    PROVE  Live(c, loc[c].list[i])
BY DEF Live, HasName

\* A search begins with nothing known.
LEMMA ChooseBeginSearch ==
    ASSUME IInv, Search, NEW c \in Callers, ChooseBegin(c)
    PROVE  Searched(c)' /\ pc'[c] \in Choosing
<1>1. pc \in [Callers -> Labels] /\ fn \in [Callers -> FnRec] /\ since[c] = Quiet /\ since' = since
  BY DEF IInv, Shape, Search, Searched, ChooseBegin, Choosing
<1>2. fn'[c] = [Begin EXCEPT !.sel = IF kind = "url-test" THEN selected ELSE NoName]
  BY <1>1 DEF ChooseBegin
<1>3. fn'[c].i = 1 /\ fn'[c].exist = FALSE
  BY <1>2 DEF Begin
<1>4. pc'[c] \in {"find", "walk", "fixed"}
  BY <1>1 DEF ChooseBegin
<1>5. pc'[c] = "find" => Met(c)' = {}
  BY <1>3 DEF Met
<1>6. Finding(c)' /\ (pc'[c] = "walk" => Walked(c)')
  BY <1>3, <1>4, <1>5 DEF Finding, Walked
<1>7. QED  BY <1>3, <1>4, <1>6 DEF Searched, Choosing

\* findAliveProxy goes on, or takes the first proxy if all are dead by what is known.
LEMMA FindNextSearch ==
    ASSUME IInv, Search, NEW c \in Callers, pc[c] \in {"find", "clear"}, NEW sel, FindNext(c, sel),
           UNCHANGED <<kind, health>>, kind = "fallback",
           sel = NoName => pc[c] = "find" /\ fn[c].sel = NoName /\ ~Alive(This(c))
    PROVE  Searched(c)' /\ (pc'[c] \notin Choosing => Good(c))
<1>1. pc[c] \in Choosing /\ Searched(c)
  BY DEF Choosing, Search
<1>2. /\ loc[c].list \in Seq(Proxies) /\ fn[c].i \in Nat \ {0} /\ This(c) = loc[c].list[fn[c].i]
      /\ AtEnd(c) => DOMAIN loc[c].list = 1..fn[c].i
      /\ 1 \in DOMAIN loc[c].list
  BY <1>1, ThisFacts
<1>3. sel = NoName => \A j \in 1..fn[c].i : Alive(loc[c].list[j]) => loc[c].list[j] \in since[c].changed
  <2>1. SUFFICES ASSUME sel = NoName, NEW j \in 1..fn[c].i, Alive(loc[c].list[j])
                 PROVE  loc[c].list[j] \in since[c].changed
    OBVIOUS
  <2>2. j # fn[c].i
    BY <1>2, <2>1
  <2>3. j \in Met(c)
    BY <1>2, <2>1, <2>2 DEF Met
  <2>4. QED  BY <1>1, <2>1, <2>3 DEF Searched, Finding
<1>4. CASE AtEnd(c)
  <2>1. Found(c, loc[c].list[1], sel) /\ Over(c)
    BY <1>4 DEF FindNext
  <2>2. pc'[c] \notin Choosing /\ loc'[c].node.obj = loc[c].list[1] /\ loc'[c].node.sel = sel
    BY <2>1, FoundFacts DEF IInv
  <2>3. since'[c] = Quiet
    BY <2>1, OverFacts DEF IInv
  <2>4. HasName(loc[c].list, loc[c].list[1][1])
    BY <1>2 DEF HasName
  <2>5. sel = NoName => ~ \E i \in Passed(loc[c].list) : loc[c].list[i] \notin since[c].changed
    BY <1>2, <1>3, <1>4 DEF Passed
  <2>6. sel = NoName => Live(c, loc[c].list[1])
    BY <2>4, <2>5 DEF Live
  <2>7. Good(c)
    BY <2>2, <2>6 DEF Good
  <2>8. QED  BY <2>2, <2>3, <2>7, IdleStep
<1>5. CASE ~AtEnd(c)
  <2>1. /\ fn' = [fn EXCEPT ![c].i = @ + 1, ![c].sel = sel]
        /\ pc' = [pc EXCEPT ![c] = "find"] /\ UNCHANGED <<loc, since>>
    BY <1>5 DEF FindNext
  <2>2. fn \in [Callers -> FnRec] /\ fn[c] \in FnRec /\ pc \in [Callers -> Labels]
    BY DEF IInv, Shape
  <2>3. fn'[c].i = fn[c].i + 1 /\ fn'[c].sel = sel /\ pc'[c] = "find"
    BY <2>1, <2>2 DEF FnRec
  <2>4. Met(c)' = 1..fn[c].i
    BY <1>2, <2>3 DEF Met
  <2>5. Finding(c)'
    BY <1>3, <2>1, <2>3, <2>4 DEF Finding, Alive
  <2>6. QED  BY <2>3, <2>5 DEF Searched, Choosing
<1>6. QED  BY <1>4, <1>5

\* findAliveProxy, one proxy.
LEMMA FindAliveProxySearch ==
    ASSUME IInv, Search, NEW c \in Callers, FindAliveProxy(c)
    PROVE  Searched(c)' /\ (pc'[c] \notin Choosing => Good(c))
<1> DEFINE o   == This(c)
           sel == IF selected = NoName THEN fn[c].sel ELSE selected
<1>1. /\ pc[c] = "find" /\ pc[c] \in Choosing /\ Searched(c)
      /\ UNCHANGED <<kind, provider, real, health, check, cache, selected, fastNode, idx, single,
                     failedTimes, testing>>
  BY DEF FindAliveProxy, Choosing, Search
<1>2. kind = "fallback"
  BY <1>1 DEF IInv, Locals, Local
<1>3. o \in Proxies /\ o = loc[c].list[fn[c].i] /\ fn[c].i \in DOMAIN loc[c].list
  BY <1>1, ThisFacts
<1>4. CASE selected \in {NoName, o[1]} /\ Alive(o) /\ Found(c, o, sel) /\ Over(c)
  <2>1. pc'[c] \notin Choosing /\ loc'[c].node.obj = o /\ since'[c] = Quiet
    BY <1>4, FoundFacts, OverFacts DEF IInv
  <2>2. Live(c, o)
    BY <1>3, <1>4, LiveFacts
  <2>3. QED  BY <1>2, <2>1, <2>2, IdleStep DEF Good
<1>5. CASE selected = NoName /\ ~Alive(o) /\ FindNext(c, sel)
  BY <1>1, <1>2, <1>5, FindNextSearch
<1>6. CASE selected \notin {NoName, o[1]} /\ FindNext(c, sel)
  BY <1>1, <1>2, <1>6, FindNextSearch
<1>7. CASE /\ selected = o[1] /\ ~Alive(o)
           /\ fn' = [fn EXCEPT ![c].sel = selected]
           /\ pc' = [pc EXCEPT ![c] = "clear"]
           /\ UNCHANGED <<loc, since>>
  <2>1. selected # NoName
    BY <1>3, <1>7, ProxyGroupAssumption DEF Alive, Proxies, Objects
  <2>2. fn \in [Callers -> FnRec] /\ fn[c] \in FnRec /\ pc \in [Callers -> Labels]
    BY DEF IInv, Shape
  <2>3. pc'[c] = "clear" /\ fn'[c].sel # NoName
    BY <1>7, <2>1, <2>2 DEF FnRec
  <2>4. QED  BY <2>3 DEF Searched, Finding, Choosing
<1>8. QED  BY <1>4, <1>5, <1>6, <1>7 DEF FindAliveProxy

\* findAliveProxy gives up the selection.
LEMMA ClearSelectedSearch ==
    ASSUME IInv, Search, NEW c \in Callers, ClearSelected(c)
    PROVE  Searched(c)' /\ (pc'[c] \notin Choosing => Good(c))
<1>1. pc[c] = "clear" /\ FindNext(c, fn[c].sel) /\ UNCHANGED <<kind, health>>
  BY DEF ClearSelected
<1>2. kind = "fallback" /\ fn[c].sel # NoName
  BY <1>1 DEF IInv, Locals, Local, Search, Searched, Finding
<1>3. QED  BY <1>1, <1>2, FindNextSearch

\* A url-test group looks for its selection.
LEMMA FixedSearch ==
    ASSUME IInv, Search, NEW c \in Callers, Fixed(c)
    PROVE  Searched(c)' /\ (pc'[c] \notin Choosing => Good(c))
<1> DEFINE o == This(c)
<1>1. pc[c] = "fixed" /\ pc[c] \in Choosing /\ ~fn[c].exist
  BY DEF Fixed, Choosing, Search, Searched
<1>2. o = loc[c].list[fn[c].i] /\ fn[c].i \in DOMAIN loc[c].list
  BY <1>1, ThisFacts
<1>3. CASE Alive(o) /\ o[1] = selected
  <2>1. Found(c, o, selected) /\ since' = [Raced(c, o) EXCEPT ![c] = Quiet]
    BY <1>3 DEF Fixed
  <2>2. Raced(c, o) \in [Callers -> SinceRec]
    BY RacedFacts DEF IInv
  <2>3. since'[c] = Quiet
    BY <2>1, <2>2
  <2>4. pc'[c] \notin Choosing /\ loc'[c].node.obj = o /\ loc'[c].node.sel = selected
    BY <2>1, FoundFacts DEF IInv
  <2>5. Live(c, o) /\ HasName(loc[c].list, selected)
    BY <1>2, <1>3, LiveFacts DEF Live
  <2>6. QED  BY <2>3, <2>4, <2>5, IdleStep DEF Good
<1>4. CASE ~(Alive(o) /\ o[1] = selected)
  <2> DEFINE i == IF AtEnd(c) THEN 1 ELSE fn[c].i + 1
  <2>1. /\ fn' = [fn EXCEPT ![c].i = i, ![c].sel = selected]
        /\ pc' = [pc EXCEPT ![c] = IF AtEnd(c) THEN "walk" ELSE "fixed"]
    BY <1>4 DEF Fixed
  <2>2. fn \in [Callers -> FnRec] /\ fn[c] \in FnRec /\ pc \in [Callers -> Labels]
    BY DEF IInv, Shape
  <2>3. fn'[c].i = i /\ fn'[c].exist = fn[c].exist
    <3> HIDE DEF i
    <3>1. QED  BY <2>1, <2>2 DEF FnRec
  <2>4. pc'[c] \in {"walk", "fixed"} /\ (pc'[c] = "walk" => fn'[c].i = 1)
    BY <2>1, <2>2, <2>3
  <2>5. pc'[c] = "walk" => Walked(c)'
    BY <1>1, <2>3, <2>4 DEF Walked
  <2>6. QED  BY <1>1, <2>3, <2>4, <2>5 DEF Searched, Finding, Choosing
<1>5. QED  BY <1>3, <1>4

\* A url-test group looks at one proxy.
LEMMA WalkSearch ==
    ASSUME IInv, Search, NEW c \in Callers, Walk(c)
    PROVE  Searched(c)' /\ pc'[c] \in Choosing
<1> DEFINE o == This(c)
           f == fn[c]
           g == fn'[c]
           list == loc[c].list
           changed == since[c].changed
           faster == f.i = 1 \/ (Alive(o) /\ LastDelay(o) < f.min)
<1>1. /\ pc[c] = "walk" /\ pc[c] \in Choosing /\ Walked(c)
      /\ UNCHANGED <<kind, health, fastNode, loc, since>>
  BY DEF Walk, Choosing, Search, Searched
<1>2. /\ g.i = IF AtEnd(c) THEN 1 ELSE f.i + 1
      /\ g.exist = (f.exist \/ (f.i > 1 /\ fastNode # EmptyFallback /\ o[1] = fastNode[1]))
      /\ g.fast = IF faster THEN o ELSE f.fast
      /\ g.min = IF faster THEN LastDelay(o) ELSE f.min
      /\ pc' = [pc EXCEPT ![c] = IF AtEnd(c) THEN "keep" ELSE "walk"]
  BY WalkFacts
<1>3. /\ f \in FnRec /\ f.i \in Nat \ {0} /\ f.min \in 0..MaxDelay
      /\ o \in Proxies /\ o = list[f.i] /\ f.i \in DOMAIN list
      /\ AtEnd(c) => DOMAIN list = 1..f.i
      /\ \A j \in DOMAIN list : list[j] \in Proxies
      /\ \A j \in 1..f.i - 1 : j \in DOMAIN list
  BY <1>1, ThisFacts DEF FnRec
<1>4. pc'[c] = IF AtEnd(c) THEN "keep" ELSE "walk"
  BY <1>2 DEF IInv, Shape
<1>5. Met(c)' = 1..f.i
  BY <1>1, <1>2, <1>3, <1>4 DEF Met
<1>6. Met(c) = 1..f.i - 1
  BY <1>1 DEF Met
<1>7. /\ LastDelay(o) \in 0..MaxDelay /\ MaxDelay \in Nat
      /\ ~Alive(o) => LastDelay(o) = MaxDelay
  <2>1. ~Alive(o) => LastDelay(o) = MaxDelay
    BY DEF Alive, LastDelay
  <2>2. QED  BY <1>3, <2>1, DelayFacts, ProxyGroupAssumption DEF IInv
<1> HIDE DEF o, list, changed, g
<1>8. g.exist /\ ~since[c].raced => HasName(list, fastNode[1])
  <2>1. f.exist /\ ~since[c].raced => HasName(list, fastNode[1])
    BY <1>1 DEF Walked, list
  <2>2. o[1] = fastNode[1] => HasName(list, fastNode[1])
    BY <1>3 DEF HasName
  <2>3. QED  BY <1>2, <2>1, <2>2
<1>9. /\ \E j \in 1..f.i : list[j] = g.fast
      /\ g.fast \notin changed => g.min = LastDelay(g.fast)
      /\ \A j \in 1..f.i : list[j] \notin changed => g.min <= LastDelay(list[j])
  <2>1. CASE f.i = 1
    <3>1. g.fast = o /\ g.min = LastDelay(o)
      BY <1>2, <2>1
    <3>2. 1..f.i = {1} /\ list[1] = o
      BY <1>3, <2>1
    <3>3. QED  BY <1>7, <3>1, <3>2
  <2>2. CASE f.i # 1
    <3>1. /\ \E j \in 1..f.i - 1 : list[j] = f.fast
          /\ f.fast \notin changed => f.min = LastDelay(f.fast)
          /\ \A j \in 1..f.i - 1 : list[j] \notin changed => f.min <= LastDelay(list[j])
      BY <1>1, <1>6, <2>2 DEF Walked, list, changed
    <3>2. \A j \in 1..f.i : j \in 1..f.i - 1 \/ j = f.i
      BY <1>3
    <3>3. \A j \in 1..f.i - 1 : j \in DOMAIN list
      BY <1>3
    <3>4. \A j \in 1..f.i - 1 : LastDelay(list[j]) \in Nat
      BY <1>3, <1>7, <3>3, DelayFacts DEF IInv
    <3>5. CASE faster
      <4>1. g.fast = o /\ g.min = LastDelay(o) /\ LastDelay(o) < f.min
        BY <1>2, <2>2, <3>5
      <4>2. \A j \in 1..f.i - 1 : list[j] \notin changed => g.min <= LastDelay(list[j])
        BY <1>3, <1>7, <3>1, <3>4, <4>1
      <4>3. f.i \in 1..f.i /\ g.min <= LastDelay(list[f.i])
        BY <1>3, <1>7, <4>1
      <4>4. QED  BY <1>3, <3>2, <4>1, <4>2, <4>3
    <3>6. CASE ~faster
      <4>1. g.fast = f.fast /\ g.min = f.min
        BY <1>2, <3>6
      <4>2. f.min <= LastDelay(o)
        BY <1>3, <1>7, <2>2, <3>6
      <4>3. \A j \in 1..f.i - 1 : j \in 1..f.i
        BY <1>3
      <4>4. \E j \in 1..f.i : list[j] = g.fast
        BY <3>1, <4>1, <4>3
      <4>5. \A j \in 1..f.i : list[j] \notin changed => g.min <= LastDelay(list[j])
        BY <1>3, <3>1, <3>2, <4>1, <4>2
      <4>6. QED  BY <3>1, <4>1, <4>4, <4>5
    <3>7. QED  BY <3>5, <3>6
  <2>3. QED  BY <2>1, <2>2
<1>10. Walked(c)'
  <2>1. \A x : LastDelay(x)' = LastDelay(x)
    BY <1>1 DEF LastDelay
  <2>2. (\E j \in Met(c) : loc[c].list[j] = fn[c].fast)'
    BY <1>1, <1>5, <1>9 DEF list, g
  <2>3. (fn[c].fast \notin since[c].changed => fn[c].min = LastDelay(fn[c].fast))'
    <3>1. LastDelay(fn[c].fast)' = LastDelay(fn'[c].fast)
      BY <1>1 DEF LastDelay
    <3>2. QED  BY <1>1, <1>9, <3>1 DEF changed, g
  <2>4. (\A j \in Met(c) : loc[c].list[j] \notin since[c].changed =>
                             fn[c].min <= LastDelay(loc[c].list[j]))'
    <3>1. SUFFICES ASSUME NEW j \in Met(c)', loc'[c].list[j] \notin since'[c].changed
                   PROVE  fn'[c].min <= LastDelay(loc[c].list[j])'
      OBVIOUS
    <3>2. g.min <= LastDelay(list[j])
      BY <1>1, <1>5, <1>9, <3>1 DEF list, changed
    <3>3. LastDelay(loc[c].list[j])' = LastDelay(list[j])
      BY <1>1 DEF LastDelay, list
    <3>4. QED  BY <3>2, <3>3 DEF g
  <2>5. (fn[c].exist /\ ~since[c].raced => HasName(loc[c].list, fastNode[1]))'
    BY <1>1, <1>8 DEF list, g, HasName
  <2>6. QED  BY <2>2, <2>3, <2>4, <2>5 DEF Walked
<1>11. QED  BY <1>4, <1>10 DEF Searched, Finding, Choosing


\* A url-test group settles on the fastest proxy or on the one in use.
LEMMA KeepSearch ==
    ASSUME IInv, Search, NEW c \in Callers, Keep(c)
    PROVE  Searched(c)' /\ pc'[c] \in Choosing
<1> DEFINE f == fn[c]
           list == loc[c].list
           changed == since[c].changed
           n == fastNode'
<1>1. /\ pc[c] = "keep" /\ pc[c] \in Choosing /\ Walked(c)
      /\ n = (IF KeepsFast(c) THEN fastNode ELSE f.fast)
      /\ since' = Raced(c, n) /\ pc' = [pc EXCEPT ![c] = "return"]
      /\ UNCHANGED <<health, loc, fn>>
  BY DEF Keep, Choosing, Search, Searched
<1>2. since'[c] = since[c] /\ pc'[c] = "return"
  BY <1>1, RacedFacts DEF IInv, Shape
<1>3. /\ f.fast \in Proxies /\ fastNode \in Proxies
      /\ \A j \in DOMAIN list : list[j] \in Proxies
  BY <1>1, ThisFacts DEF FnRec, IInv, Shape
<1>4. Met(c) = DOMAIN list
  BY <1>1 DEF Met
<1>5. /\ f.exist /\ ~since[c].raced => HasName(list, fastNode[1])
      /\ \E j \in DOMAIN list : list[j] = f.fast
      /\ f.fast \notin changed => f.min = LastDelay(f.fast)
      /\ \A j \in DOMAIN list : list[j] \notin changed => f.min <= LastDelay(list[j])
  BY <1>1, <1>4 DEF Walked
<1>6. \A x \in Proxies : LastDelay(x) \in 0..MaxDelay /\ (LastDelay(x) < MaxDelay => Alive(x))
  BY DelayFacts DEF IInv
<1>7. \A i \in Passed(list) : i \in DOMAIN list /\ LastDelay(list[i]) < MaxDelay
  BY DEF Passed
<1>8. MaxDelay \in Nat /\ Tolerance \in 0..MaxDelay
  BY ProxyGroupAssumption
<1> HIDE DEF n, list, changed, f
<1>9. changed = {} =>
        \A i \in Passed(list) : LastDelay(f.fast) <= LastDelay(list[i])
  BY <1>3, <1>5, <1>6, <1>7
<1>10. ~since[c].raced => Live(c, n)
  <2>1. CASE ~KeepsFast(c)
    <3>1. n = f.fast
      BY <1>1, <2>1
    <3>2. HasName(list, n[1])
      BY <1>5, <3>1 DEF HasName
    <3>3. ASSUME NEW i \in Passed(list), list[i] \notin changed, f.fast \notin changed
          PROVE  Alive(f.fast)
      <4>1. LastDelay(f.fast) <= LastDelay(list[i]) /\ LastDelay(list[i]) < MaxDelay
        BY <1>5, <1>7, <3>3
      <4>2. LastDelay(f.fast) \in 0..MaxDelay /\ LastDelay(list[i]) \in 0..MaxDelay
        BY <1>3, <1>6, <1>7, <3>3
      <4>3. LastDelay(f.fast) < MaxDelay
        BY <1>8, <4>1, <4>2
      <4>4. QED  BY <1>3, <1>6, <4>3
    <3>4. QED  BY <3>1, <3>2, <3>3 DEF Live, list, changed
  <2>2. CASE KeepsFast(c)
    BY <1>1, <1>5, <2>2 DEF KeepsFast, Live, list, changed, f
  <2>3. QED  BY <2>1, <2>2
<1>11. Near(c, n)
  <2>1. SUFFICES ASSUME changed = {}, NEW i \in Passed(list)
                 PROVE  LastDelay(n) <= LastDelay(list[i]) + Tolerance
    BY DEF Near, list, changed
  <2>2. /\ LastDelay(f.fast) <= LastDelay(list[i])
        /\ LastDelay(f.fast) \in 0..MaxDelay /\ LastDelay(list[i]) \in 0..MaxDelay
    BY <1>3, <1>6, <1>7, <1>9, <2>1
  <2>3. CASE ~KeepsFast(c)
    <3>1. n = f.fast
      BY <1>1, <2>3
    <3>2. QED  BY <1>8, <2>2, <3>1
  <2>4. CASE KeepsFast(c)
    <3>1. n = fastNode /\ LastDelay(fastNode) <= Limit(f.fast)
      BY <1>1, <2>4 DEF KeepsFast, f
    <3>2. LastDelay(fastNode) \in 0..MaxDelay
      BY <1>3, <1>6
    <3>3. Limit(f.fast) \in Nat /\ Limit(f.fast) <= LastDelay(f.fast) + Tolerance
      <4>1. PICK x \in Nat : x = LastDelay(f.fast) + Tolerance
        BY <1>8, <2>2
      <4>2. x % (MaxDelay + 1) \in Nat /\ x % (MaxDelay + 1) <= x
        BY <1>8
      <4>3. QED  BY <4>1, <4>2 DEF Limit
    <3>4. QED  BY <1>8, <2>2, <3>1, <3>2, <3>3
  <2>5. QED  BY <2>3, <2>4
<1>12. ~since[c].raced => Live(c, fastNode)' /\ Near(c, fastNode)'
  <2>1. (\A x : LastDelay(x)' = LastDelay(x)) /\ \A x : Alive(x)' = Alive(x)
    BY <1>1 DEF LastDelay, Alive
  <2>2. Passed(list)' = Passed(list)
    BY <1>1 DEF Passed, list, LastDelay, Alive
  <2>3. Live(c, n) => Live(c, fastNode)'
    BY <1>1, <1>2 DEF Live, HasName, Passed, n, LastDelay, Alive
  <2>4. Near(c, n) => Near(c, fastNode)'
    BY <1>1, <1>2 DEF Near, Passed, n, LastDelay, Alive
  <2>5. QED  BY <1>10, <1>11, <2>3, <2>4
<1>13. QED  BY <1>2, <1>12 DEF Searched, Finding, Choosing

\* fn returns what it knows to be good.
LEMMA ReturnFastSearch ==
    ASSUME IInv, Search, NEW c \in Callers, ReturnFast(c)
    PROVE  Searched(c)' /\ pc'[c] \notin Choosing /\ Good(c)
<1>1. /\ pc[c] = "return" /\ Found(c, fastNode, fn[c].sel) /\ Over(c)
      /\ ~since[c].raced => Live(c, fastNode) /\ Near(c, fastNode)
  BY DEF ReturnFast, Search, Searched
<1>2. pc'[c] \notin Choosing /\ loc'[c].node.obj = fastNode
  BY <1>1, FoundFacts DEF IInv
<1>3. since'[c] = Quiet
  BY <1>1, OverFacts DEF IInv
<1>4. Good(c)
  BY <1>1, <1>2 DEF Good
<1>5. QED  BY <1>2, <1>3, <1>4, IdleStep

\* The groups that choose in one step.
LEMMA ChooseSearch ==
    ASSUME IInv, Search, NEW c \in Callers, Choose(c)
    PROVE  Searched(c)' /\ pc'[c] \notin Choosing /\ Good(c)
<1>1. PICK o \in Proxies :
        /\ Found(c, o, selected)
        /\ kind \in {"select", "round-robin", "consistent-hashing"}
        /\ kind # "select" =>
             /\ HasName(loc[c].list, o[1])
             /\ Passed(loc[c].list) # {} => Alive(o)
  BY ChooseFacts DEF IInv
<1>2. pc'[c] \notin Choosing /\ loc'[c].node.obj = o
  BY <1>1, FoundFacts DEF IInv
<1>3. since'[c] = Quiet
  BY DEF Choose, Search, Searched, Choosing
<1>4. Good(c)
  BY <1>1, <1>2 DEF Good, Live
<1>5. QED  BY <1>2, <1>3, <1>4, IdleStep

-----------------------------------------------------------------------------
(* The steps of the others.                                                 *)

\* What a step leaves caller c to go on with.
Kept(c) ==
    /\ pc[c] \in Choosing \cup {"choose"} =>
         pc'[c] = pc[c] /\ loc'[c].list = loc[c].list /\ fn'[c] = fn[c]
    /\ pc[c] \notin Choosing => pc'[c] \notin Choosing /\ since'[c] = since[c]
    /\ pc[c] \in Choosing =>
         /\ since[c].changed \subseteq since'[c].changed
         /\ \A x \in Objects \ since'[c].changed : health'[x] = health[x]
         /\ since[c].raced => since'[c].raced
         /\ since'[c].raced \/ fastNode' = fastNode

\* What a step does to the search of caller c.
Stepped(c) ==
    /\ Searched(c)'
    /\ pc[c] \in Choosing \cup {"choose"} /\ pc'[c] \in {"done", "chosen"} => Good(c)

LEMMA KeptStep ==
    ASSUME IInv, IInv', Search, NEW c \in Callers, Kept(c)
    PROVE  Stepped(c)
<1>1. Searched(c)
  BY DEF Search
<1>2. CASE pc[c] \in Choosing
  <2>1. Searched(c)'
    BY <1>1, <1>2, FrameStep DEF Kept
  <2>2. QED  BY <1>2, <2>1 DEF Kept, Stepped, Choosing
<1>3. CASE pc[c] \notin Choosing
  <2>1. Searched(c)'
    BY <1>1, <1>3, IdleStep DEF Kept, Searched
  <2>2. QED  BY <1>3, <2>1 DEF Kept, Stepped
<1>4. QED  BY <1>2, <1>3

\* Steps that have nothing to do with the choice.
LEMMA QuietKept ==
    ASSUME IInv, NEW c \in Callers, NEW d \in Callers,
           \/ Dial(d) \/ Unfix(d) \/ (\E n \in Names : Set(d, n))
           \/ ReadVersion(d) \/ GetProxies(d) \/ Do(d) \/ Done(d) \/ Store(d) \/ Dialled(d)
           \/ SetSelected(d) \/ SetReset(d) \/ SetReturn(d)
    PROVE  Kept(c)
<1>1. pc \in [Callers -> Labels] /\ loc \in [Callers -> LocRec]
  BY DEF IInv, Shape
<1>2. loc[c] \in LocRec /\ loc[d] \in LocRec
  BY <1>1
<1>3. ASSUME UNCHANGED <<health, fastNode, fn, since>>,
             pc[c] \in Choosing \cup {"choose"} => pc'[c] = pc[c] /\ loc'[c].list = loc[c].list,
             pc[c] \notin Choosing => pc'[c] \notin Choosing
      PROVE  Kept(c)
  BY <1>3 DEF Kept
<1>4. ASSUME NEW l, NEW v, pc' = [pc EXCEPT ![d] = l], loc' = [loc EXCEPT ![d] = v],
             l \notin Choosing, pc[d] \notin Choosing \cup {"choose"},
             UNCHANGED <<health, fastNode, fn, since>>
      PROVE  Kept(c)
  BY <1>1, <1>3, <1>4
<1>5. CASE Dial(d)
  BY <1>4, <1>5 DEF Dial, Choosing
<1>6. CASE \E n \in Names : Set(d, n)
  BY <1>4, <1>6 DEF Set, Choosing
<1>7. CASE ReadVersion(d)
  BY <1>1, <1>3, <1>7 DEF ReadVersion, Choosing
<1>8. CASE GetProxies(d)
  <2>1. loc[d].op \in {"choose", "set"}
    BY <1>8 DEF GetProxies, IInv, Locals, Local
  <2>2. /\ pc[d] = "proxies" /\ pc' = [pc EXCEPT ![d] = loc[d].op]
        /\ UNCHANGED <<health, fastNode, fn, since>>
    BY <1>8 DEF GetProxies
  <2>3. c # d => loc'[c] = loc[c]
    BY <1>1, <1>8 DEF GetProxies
  <2>4. QED  BY <1>1, <1>3, <2>1, <2>2, <2>3 DEF Choosing
<1>9. CASE Do(d)
  BY <1>1, <1>3, <1>9 DEF Do, Choosing
<1>10. CASE Done(d)
  <2>1. UNCHANGED <<health, fastNode, fn, since>> /\ pc[d] = "done"
    BY <1>10 DEF Done
  <2>2. pc'[c] = IF c = d THEN "store" ELSE IF pc[c] = "wait" /\ loc[c].arg = d THEN "chosen" ELSE pc[c]
    BY <1>10 DEF Done
  <2>3. loc'[c].list = loc[c].list
    BY <1>2, <1>10 DEF Done, LocRec
  <2>4. QED  BY <1>3, <2>1, <2>2, <2>3 DEF Choosing
<1>11. CASE Store(d)
  BY <1>1, <1>3, <1>11 DEF Store, Choosing
<1>12. CASE Dialled(d)
  <2>1. /\ pc[d] = "chosen" /\ pc' = [pc EXCEPT ![d] = "idle"] /\ loc' = [loc EXCEPT ![d] = Rest]
        /\ UNCHANGED <<health, fastNode, fn, since>>
    BY <1>12 DEF Dialled
  <2>2. QED  BY <1>4, <2>1 DEF Choosing
<1>13. ASSUME NEW n, NEW next, Select(d, n, next), next \notin Choosing,
              pc[d] \notin Choosing \cup {"choose"}, UNCHANGED <<health, fastNode, fn, since>>
       PROVE  Kept(c)
  <2>1. loc'[c].list = loc[c].list
    BY <1>2, <1>13 DEF Select, LocRec
  <2>2. QED  BY <1>1, <1>3, <1>13, <2>1 DEF Select, Choosing
<1>14. CASE Unfix(d)
  <2>1. Select(d, NoName, "idle") /\ pc[d] = "idle" /\ UNCHANGED <<health, fastNode, fn, since>>
    BY <1>14 DEF Unfix
  <2>2. QED  BY <1>13, <2>1 DEF Choosing
<1>15. CASE SetSelected(d)
  <2>1. pc[d] = "set" /\ UNCHANGED <<health, fastNode, fn, since>>
    BY <1>15 DEF SetSelected
  <2>2. CASE HasName(loc[d].list, loc[d].arg)
    <3>1. \E next \in {"test", "returned"} : Select(d, loc[d].arg, next)
      BY <1>15, <2>2 DEF SetSelected
    <3>2. QED  BY <1>13, <2>1, <3>1 DEF Choosing
  <2>3. CASE ~HasName(loc[d].list, loc[d].arg)
    <3>1. pc' = [pc EXCEPT ![d] = "returned"] /\ loc' = loc
      BY <1>15, <2>3 DEF SetSelected
    <3>2. QED  BY <1>1, <1>3, <2>1, <3>1 DEF Choosing
  <2>4. QED  BY <2>2, <2>3
<1>16. CASE SetReset(d)
  BY <1>4, <1>16 DEF SetReset, Choosing
<1>17. CASE SetReturn(d)
  BY <1>4, <1>17 DEF SetReturn, Choosing
<1>18. QED  BY <1>5, <1>6, <1>7, <1>8, <1>9, <1>10, <1>11, <1>12, <1>14, <1>15, <1>16, <1>17

\* A test that is recorded.
LEMMA RecordKept ==
    ASSUME IInv, NEW c \in Callers, NEW o \in Objects, Record(o), UNCHANGED <<fastNode, fn, loc>>,
           pc[c] \in Choosing \cup {"choose"} => pc'[c] = pc[c],
           pc[c] \notin Choosing => pc'[c] \notin Choosing
    PROVE  Kept(c)
BY RecordFacts DEF Kept, IInv

\* The choice of another caller.
LEMMA OthersKept ==
    ASSUME IInv, NEW d \in Callers, NEW c \in Callers \ {d},
           \/ Choose(d) \/ ChooseBegin(d) \/ FindAliveProxy(d) \/ ClearSelected(d)
           \/ Fixed(d) \/ Walk(d) \/ Keep(d) \/ ReturnFast(d)
    PROVE  Kept(c)
<1>1. /\ pc \in [Callers -> Labels] /\ loc \in [Callers -> LocRec]
      /\ fn \in [Callers -> FnRec] /\ since \in [Callers -> SinceRec] /\ Shape
  BY DEF IInv, Shape
<1>2. ASSUME UNCHANGED <<health, fastNode>>, pc'[c] = pc[c], loc'[c] = loc[c], fn'[c] = fn[c],
             since'[c] = since[c]
      PROVE  Kept(c)
  BY <1>2 DEF Kept
<1>3. ASSUME NEW o, NEW sel, Found(d, o, sel) PROVE pc'[c] = pc[c] /\ loc'[c] = loc[c]
  BY <1>1, <1>3, FoundFacts
<1>4. Over(d) => fn'[c] = fn[c] /\ since'[c] = since[c]
  BY <1>1, OverFacts
<1>5. ASSUME NEW sel, FindNext(d, sel)
      PROVE  pc'[c] = pc[c] /\ loc'[c] = loc[c] /\ fn'[c] = fn[c] /\ since'[c] = since[c]
  <2>1. CASE AtEnd(d)
    BY <1>3, <1>4, <1>5, <2>1 DEF FindNext
  <2>2. CASE ~AtEnd(d)
    BY <1>1, <1>5, <2>2 DEF FindNext
  <2>3. QED  BY <2>1, <2>2
<1>6. CASE Choose(d)
  <2>1. UNCHANGED <<health, fastNode, fn, since>>
    BY <1>6 DEF Choose
  <2>2. \E o \in Proxies : Found(d, o, selected)
    BY <1>6, ChooseFacts DEF IInv
  <2>3. QED  BY <1>2, <1>3, <2>1, <2>2
<1>7. CASE ChooseBegin(d)
  <2>1. UNCHANGED <<health, fastNode, loc, since>> /\ pc'[c] = pc[c] /\ fn'[c] = fn[c]
    BY <1>1, <1>7 DEF ChooseBegin
  <2>2. QED  BY <1>2, <2>1
<1>8. CASE FindAliveProxy(d)
  <2>1. UNCHANGED <<health, fastNode>>
    BY <1>8 DEF FindAliveProxy
  <2>2. \/ \E sel : Found(d, This(d), sel) /\ Over(d)
        \/ \E sel : FindNext(d, sel)
        \/ /\ fn' = [fn EXCEPT ![d].sel = selected] /\ pc' = [pc EXCEPT ![d] = "clear"]
           /\ UNCHANGED <<loc, since>>
    BY <1>8 DEF FindAliveProxy
  <2>3. pc'[c] = pc[c] /\ loc'[c] = loc[c] /\ fn'[c] = fn[c] /\ since'[c] = since[c]
    BY <1>1, <1>3, <1>4, <1>5, <2>2
  <2>4. QED  BY <1>2, <2>1, <2>3
<1>9. CASE ClearSelected(d)
  <2>1. UNCHANGED <<health, fastNode>> /\ FindNext(d, fn[d].sel)
    BY <1>9 DEF ClearSelected
  <2>2. QED  BY <1>2, <1>5, <2>1
<1>10. ASSUME UNCHANGED health, pc'[c] = pc[c], loc'[c] = loc[c], fn'[c] = fn[c],
              since'[c] = Raced(d, fastNode')[c]
       PROVE  Kept(c)
  BY <1>1, <1>10, RacedFacts DEF Kept
<1>11. CASE Fixed(d)
  <2>1. CASE Alive(This(d)) /\ This(d)[1] = selected
    <3>1. /\ Found(d, This(d), selected) /\ fastNode' = This(d)
          /\ fn' = [fn EXCEPT ![d] = Begin]
          /\ since' = [Raced(d, This(d)) EXCEPT ![d] = Quiet] /\ UNCHANGED health
      BY <1>11, <2>1 DEF Fixed
    <3>2. since'[c] = Raced(d, fastNode')[c]
      BY <1>1, <3>1, RacedFacts
    <3>3. QED  BY <1>1, <1>3, <1>10, <3>1, <3>2
  <2>2. CASE ~(Alive(This(d)) /\ This(d)[1] = selected)
    <3>1. UNCHANGED <<health, loc, fastNode, since>> /\ pc'[c] = pc[c] /\ fn'[c] = fn[c]
      BY <1>1, <1>11, <2>2 DEF Fixed
    <3>2. QED  BY <1>2, <3>1
  <2>3. QED  BY <2>1, <2>2
<1>12. CASE Walk(d)
  <2>1. UNCHANGED <<health, fastNode, loc, since>> /\ pc'[c] = pc[c] /\ fn'[c] = fn[c]
    BY <1>1, <1>12 DEF Walk
  <2>2. QED  BY <1>2, <2>1
<1>13. CASE Keep(d)
  <2>1. since' = Raced(d, fastNode') /\ UNCHANGED <<health, loc, fn>> /\ pc'[c] = pc[c]
    BY <1>1, <1>13 DEF Keep
  <2>2. QED  BY <1>10, <2>1
<1>14. CASE ReturnFast(d)
  <2>1. Found(d, fastNode, fn[d].sel) /\ Over(d) /\ UNCHANGED <<health, fastNode>>
    BY <1>14 DEF ReturnFast
  <2>2. QED  BY <1>2, <1>3, <1>4, <2>1
<1>15. QED  BY <1>6, <1>7, <1>8, <1>9, <1>11, <1>12, <1>13, <1>14

\* The choice of a caller itself.
LEMMA OwnStepped ==
    ASSUME IInv, Search, NEW c \in Callers,
           \/ Choose(c) \/ ChooseBegin(c) \/ FindAliveProxy(c) \/ ClearSelected(c)
           \/ Fixed(c) \/ Walk(c) \/ Keep(c) \/ ReturnFast(c)
    PROVE  Stepped(c)
<1>1. Searched(c)' /\ (pc'[c] \in Choosing \/ Good(c))
  BY ChooseSearch, ChooseBeginSearch, FindAliveProxySearch, ClearSelectedSearch, FixedSearch,
     WalkSearch, KeepSearch, ReturnFastSearch
<1>2. QED  BY <1>1 DEF Stepped, Choosing

LEMMA InitSearch == Init => Search
BY DEF Init, Search, Searched, Finding, Choosing

\* What every step does to the search of every caller.
LEMMA NextSearch ==
    ASSUME IInv, IInv', Search, [Next]_vars
    PROVE  \A c \in Callers : Stepped(c)
<1> SUFFICES ASSUME NEW c \in Callers PROVE Stepped(c)
  OBVIOUS
<1>1. ASSUME NEW d \in Callers, Dial(d) \/ Unfix(d) \/ (\E n \in Names : Set(d, n)) \/ Continue(d)
      PROVE  Stepped(c)
  <2>1. CASE \/ Choose(d) \/ ChooseBegin(d) \/ FindAliveProxy(d) \/ ClearSelected(d)
             \/ Fixed(d) \/ Walk(d) \/ Keep(d) \/ ReturnFast(d)
    BY <2>1, OwnStepped, OthersKept, KeptStep
  <2>2. CASE SetTest(d)
    <3> DEFINE o == loc[d].list[PositionOf(loc[d].list, loc[d].arg)]
    <3>1. /\ pc[d] = "test" /\ Record(o) /\ UNCHANGED <<fastNode, fn, loc>>
          /\ pc' = [pc EXCEPT ![d] = "returned"]
      BY <2>2 DEF SetTest
    <3>2. o \in Objects
      BY <3>1, SetTestFacts
    <3>3. pc \in [Callers -> Labels]
      BY DEF IInv, Shape
    <3>4. /\ pc[c] \in Choosing \cup {"choose"} => pc'[c] = pc[c]
          /\ pc[c] \notin Choosing => pc'[c] \notin Choosing
      BY <3>1, <3>3 DEF Choosing
    <3> HIDE DEF o
    <3>5. QED  BY <3>1, <3>2, <3>4, RecordKept, KeptStep
  <2>3. CASE \/ Dial(d) \/ Unfix(d) \/ (\E n \in Names : Set(d, n))
             \/ ReadVersion(d) \/ GetProxies(d) \/ Do(d) \/ Done(d) \/ Store(d) \/ Dialled(d)
             \/ SetSelected(d) \/ SetReset(d) \/ SetReturn(d)
    BY <2>3, QuietKept, KeptStep
  <2>4. QED  BY <1>1, <2>1, <2>2, <2>3 DEF Continue
<1>2. CASE \E o \in Objects : URLTest(o)
  <2>1. PICK o \in Objects : URLTest(o)
    BY <1>2
  <2>2. Record(o) /\ UNCHANGED <<fastNode, fn, loc, pc>>
    BY <2>1 DEF URLTest
  <2>3. QED  BY <2>2, RecordKept, KeptStep
<1>3. ASSUME UNCHANGED <<health, fastNode, pc, loc, fn, since>> PROVE Stepped(c)
  BY <1>3, KeptStep DEF Kept
<1>4. CASE Expire \/ CheckBegin \/ CheckEnd \/ GroupCheckEnd \/ UNCHANGED vars
  BY <1>3, <1>4 DEF Expire, CheckBegin, CheckEnd, GroupCheckEnd, vars
<1>5. CASE \E l \in Lists : SetProxies(l)
  BY <1>3, <1>5 DEF SetProxies
<1>6. CASE \E n \in Names, x \in Delays \cup {0} : World(n, x)
  BY <1>3, <1>6 DEF World
<1>7. QED  BY <1>1, <1>2, <1>4, <1>5, <1>6 DEF Next, Calls, Checks

THEOREM SearchInvariance == Spec => []Search
<1>1. IInv /\ IInv' /\ Search /\ [Next]_vars => Search'
  BY NextSearch DEF Stepped, Search
<1>2. QED  BY <1>1, InitSearch, Invariance, PTL DEF Spec

\* A group that chooses by tests chooses a name of its list, never a proxy that failed its last
\* test while another one passed, whatever is tested while it goes through the list; a url-test
\* group without a selection chooses within the tolerance (findAliveProxy, URLTest.fast,
\* strategyRoundRobin, strategyConsistentHashing).
THEOREM ChoiceCorrect == Spec => ChoosesWell
<1> DEFINE Chosen(c) ==
        LET o    == loc'[c].node
            list == loc[c].list
            h    == since[c]
        IN  /\ pc[c] \in Choosing \cup {"choose"} /\ pc'[c] \in {"done", "chosen"}
            /\ kind # "select" /\ (kind = "fallback" => o.sel = NoName) /\ ~h.raced
            => /\ HasName(list, o.obj[1])
               /\ (\E i \in Passed(list) : list[i] \notin h.changed) =>
                    Alive(o.obj) \/ o.obj \in h.changed
               /\ kind = "url-test" /\ ~HasName(list, o.sel) /\ h.changed = {} =>
                    \A i \in Passed(list) : LastDelay(o.obj) <= LastDelay(list[i]) + Tolerance
<1>1. IInv /\ IInv' /\ Search /\ [Next]_vars => [\A c \in Callers : Chosen(c)]_vars
  <2>1. SUFFICES ASSUME IInv, IInv', Search, [Next]_vars, NEW c \in Callers PROVE Chosen(c)
    OBVIOUS
  <2>2. Stepped(c)
    BY <2>1, NextSearch
  <2>3. QED  BY <2>2 DEF Stepped, Good, Live, Near
<1>2. QED  BY <1>1, Invariance, SearchInvariance, PTL DEF Spec, ChoosesWell
=============================================================================
