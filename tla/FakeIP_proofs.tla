--------------------------- MODULE FakeIP_proofs ---------------------------
(***************************************************************************)
(* Proofs about the fake-ip pool, for any number of goroutines, hosts,     *)
(* addresses, reloads and any size of the caches: an address stands for    *)
(* the host that was given it, unless a failed write has spoilt it, the    *)
(* two caches in memory hold the same pairs in the same order, and a       *)
(* shutdown loses nothing.                                                 *)
(*                                                                         *)
(* The inductive invariant IInv adds to these that the mutex of a pool is  *)
(* held by the one Lookup that is allocating (Mutex), that no list holds a *)
(* key twice (Lists), and what the two directions have to do with each     *)
(* other between the steps of a Lookup, of a flush and of a clone: as      *)
(* caches in memory (Memory), where they mirror each other, and in the     *)
(* cache file (OnFile), where only one direction of the agreement is kept. *)
(***************************************************************************)
EXTENDS FakeIP, SequenceTheorems, TLAPS

IPEntry   == [key : Hosts, val : Nat]
HostEntry == [key : Nat, val : Hosts]

PoolRec == [last : Nat, offset : Nat, cycle : BOOLEAN, mux : Callers \cup {Nobody},
            cacheIP : Seq(IPEntry), cacheHost : Seq(HostEntry)]

FileRec == [cacheIP : Seq(IPEntry), cacheHost : Seq(HostEntry), offset : Nat, cycle : BOOLEAN]

QueryRec == [pool : Nat, host : Hosts \cup {NoHost}, ip : Nat]

Shape ==
    /\ persistent \in BOOLEAN
    /\ pools \in Seq(PoolRec)
    /\ file \in FileRec
    /\ pc \in [Callers -> {"idle", "lookup"} \cup Mid]
    /\ q \in [Callers -> QueryRec]
    /\ flush \in [at : {"idle", "ip", "offset"}, pool : Nat]
    /\ reload \in {"idle", "host", "ip", "swap"}
    /\ raced \in BOOLEAN /\ spoilt \in SUBSET Nat

\* The pool in use is the last one that is complete; everybody works on that or on an older one.
Places ==
    /\ cur \in DOMAIN pools
    /\ Len(pools) = IF reload = "idle" THEN cur ELSE cur + 1
    /\ \A c \in Callers : pc[c] # "idle" => q[c].pool \in 1..cur /\ q[c].host \in Hosts
    /\ flush.at # "idle" => flush.pool \in 1..cur
    /\ flush.at = "ip" => ~persistent
    /\ reload \in {"host", "ip"} => ~persistent

\* Offsets are from the range of the pool, and none of them is NoOffset.
Offsets ==
    /\ \A i \in DOMAIN pools :
         First < pools[i].last /\ First - 1 <= pools[i].offset /\ pools[i].offset <= pools[i].last
    /\ file.offset = NoOffset \/ First - 1 <= file.offset

\* The mutex of a pool belongs to the Lookup that is allocating there.
Mutex ==
    \A c \in Callers : \A i \in DOMAIN pools :
        pools[i].mux = c <=> pc[c] \in Mid /\ q[c].pool = i

\* No key is in the list of a cache twice.
Unique(c) == \A i, j \in DOMAIN c : c[i].key = c[j].key => i = j

Lists ==
    /\ \A i \in DOMAIN pools :
         /\ Unique(pools[i].cacheIP) /\ Len(pools[i].cacheIP) <= Size
         /\ Unique(pools[i].cacheHost) /\ Len(pools[i].cacheHost) <= Size
    /\ Unique(file.cacheIP) /\ Unique(file.cacheHost)

\* The two directions hold the same pairs in the same order.
Mirror(ips, hosts) ==
    /\ Len(hosts) = Len(ips)
    /\ \A i \in DOMAIN ips : hosts[i].key = ips[i].val /\ hosts[i].val = ips[i].key

Agree(i) == Mirror(pools[i].cacheIP, pools[i].cacheHost)

\* What a Lookup finds between its steps.  Before its last one, the directions agree again as
\* soon as the host is put in.
Between(at, ips, hosts, h, ip) ==
    /\ at # "putByHost" => Mirror(ips, hosts)
    /\ at \in Mid => ~Exist(ips, h)
    /\ at = "putByIP" => ~Exist(hosts, ip)
    /\ at = "putByHost" => Mirror(Set(ips, h, ip, Size), hosts)

Holder(c) == pc[c] \in Mid => LET p == pools[q[c].pool]
                              IN  Between(pc[c], p.cacheIP, p.cacheHost, q[c].host, q[c].ip)

\* The caches in memory, as long as nothing has overlapped a Lookup.
Memory ==
    ~persistent /\ ~raced =>
        /\ \A i \in 1..cur :
             pools[i].mux = Nobody /\ ~(flush.at = "ip" /\ flush.pool = i) => Agree(i)
        /\ \A c \in Callers : Holder(c)
        /\ flush.at = "ip" => ~Busy /\ pools[flush.pool].cacheIP = <<>>
        /\ reload = "host" => Agree(Len(pools))
        /\ reload = "ip" => /\ ~Busy /\ flush.at = "idle"
                            /\ pools[Len(pools)].cacheIP = pools[cur].cacheIP
        /\ reload = "swap" => Agree(Len(pools))

\* Every host that has an address is the one that the address stands for, unless the address
\* is in bad.
Belong(ips, hosts, bad) ==
    \A i \in DOMAIN ips :
        ips[i].val \notin bad => Exist(hosts, ips[i].val) /\ Value(hosts, ips[i].val) = ips[i].key

\* What a Lookup finds in the cache file between its steps.
FileBetween(at, ips, hosts, h, ip, bad) ==
    ip \notin bad =>
        /\ at = "putByIP" => \A i \in DOMAIN ips : ips[i].val # ip
        /\ at = "putByHost" => Exist(hosts, ip) /\ Value(hosts, ip) = h

FileHolder(c) ==
    pc[c] \in Mid => FileBetween(pc[c], file.cacheIP, file.cacheHost, q[c].host, q[c].ip, spoilt)

\* The cache file, as long as nothing has overlapped a Lookup.
OnFile ==
    persistent /\ ~raced =>
        /\ Belong(file.cacheIP, file.cacheHost, spoilt)
        /\ \A c \in Callers : FileHolder(c)
        /\ \A c, d \in Callers : pc[c] \in Mid /\ pc[d] \in Mid => c = d

IInv == Shape /\ Places /\ Offsets /\ Mutex /\ Lists /\ Memory /\ OnFile

-----------------------------------------------------------------------------
(* Caches.                                                                  *)

\* A list without its i-th element.
LEMMA Removed ==
    ASSUME NEW S, NEW c \in Seq(S), NEW i \in 1..Len(c)
    PROVE  /\ RemoveAt(c, i) \in Seq(S)
           /\ Len(RemoveAt(c, i)) = Len(c) - 1
           /\ \A j \in 1..Len(c) - 1 : RemoveAt(c, i)[j] = IF j < i THEN c[j] ELSE c[j + 1]
<1> DEFINE a == SubSeq(c, 1, i - 1)
           b == SubSeq(c, i + 1, Len(c))
<1>1. Len(c) \in Nat /\ i \in Nat /\ i <= Len(c) /\ 1 <= i
  OBVIOUS
<1>2. a \in Seq(S) /\ Len(a) = i - 1 /\ \A j \in 1..i - 1 : a[j] = c[j]
  <2>1. i - 1 \in Int /\ 1 \in Int /\ \A j \in 1..i - 1 : c[j] \in S
    BY <1>1
  <2>2. /\ a \in Seq(S)
        /\ Len(a) = IF 1 <= i - 1 THEN (i - 1) - 1 + 1 ELSE 0
        /\ \A j \in 1..(i - 1) - 1 + 1 : a[j] = c[1 + j - 1]
    BY <2>1, SubSeqProperties
  <2>3. QED BY <1>1, <2>2
<1>3. b \in Seq(S) /\ Len(b) = Len(c) - i /\ \A j \in 1..Len(c) - i : b[j] = c[i + j]
  <2>1. i + 1 \in Int /\ Len(c) \in Int /\ \A j \in i + 1..Len(c) : c[j] \in S
    BY <1>1
  <2>2. /\ b \in Seq(S)
        /\ Len(b) = IF i + 1 <= Len(c) THEN Len(c) - (i + 1) + 1 ELSE 0
        /\ \A j \in 1..Len(c) - (i + 1) + 1 : b[j] = c[(i + 1) + j - 1]
    BY <2>1, SubSeqProperties
  <2>3. QED BY <1>1, <2>2
<1>4. RemoveAt(c, i) = a \o b
  BY DEF RemoveAt
<1> HIDE DEF a, b
<1>5. /\ a \o b \in Seq(S) /\ Len(a \o b) = Len(a) + Len(b)
      /\ \A j \in 1..Len(a) + Len(b) : (a \o b)[j] = IF j <= Len(a) THEN a[j] ELSE b[j - Len(a)]
  BY <1>2, <1>3, ConcatProperties
<1>6. ASSUME NEW j \in 1..Len(c) - 1
      PROVE  (a \o b)[j] = IF j < i THEN c[j] ELSE c[j + 1]
  <2>1. CASE j < i
    BY <1>1, <1>2, <1>3, <1>5, <1>6, <2>1
  <2>2. CASE ~(j < i)
    <3>1. (a \o b)[j] = b[j - (i - 1)] /\ j - (i - 1) \in 1..Len(c) - i
      BY <1>1, <1>2, <1>3, <1>5, <1>6, <2>2
    <3>2. b[j - (i - 1)] = c[i + (j - (i - 1))] /\ i + (j - (i - 1)) = j + 1
      BY <1>1, <1>3, <1>6, <3>1
    <3>3. QED BY <2>2, <3>1, <3>2
  <2>3. QED BY <2>1, <2>2
<1>7. QED BY <1>1, <1>2, <1>3, <1>4, <1>5, <1>6

\* A key that exists is where Position says, and nowhere else.
LEMMA Found ==
    ASSUME NEW S, NEW c \in Seq(S), NEW k, Exist(c, k)
    PROVE  /\ Position(c, k) \in 1..Len(c) /\ Position(c, k) \in DOMAIN c
           /\ c[Position(c, k)].key = k
           /\ Unique(c) => \A i \in DOMAIN c : c[i].key = k => i = Position(c, k)
<1>1. DOMAIN c = 1..Len(c)
  OBVIOUS
<1>2. Position(c, k) \in DOMAIN c /\ c[Position(c, k)].key = k
  BY DEF Exist, Position
<1>3. QED BY <1>1, <1>2 DEF Unique

\* Delete, entry by entry.
LEMMA Deleted ==
    ASSUME NEW S, NEW c \in Seq(S), Unique(c), NEW k
    PROVE  /\ Delete(c, k) \in Seq(S) /\ Unique(Delete(c, k)) /\ ~Exist(Delete(c, k), k)
           /\ Len(Delete(c, k)) = IF Exist(c, k) THEN Len(c) - 1 ELSE Len(c)
           /\ \A j \in DOMAIN Delete(c, k) : \E i \in DOMAIN c :
                    Delete(c, k)[j] = c[i] /\ c[i].key # k
           /\ \A i \in DOMAIN c : c[i].key # k =>
                    \E j \in DOMAIN Delete(c, k) : Delete(c, k)[j] = c[i]
<1>1. CASE ~Exist(c, k)
  BY <1>1 DEF Delete, Exist
<1>2. CASE Exist(c, k)
  <2>1. PICK p \in 1..Len(c) : p = Position(c, k)
    BY <1>2, Found
  <2>2. c[p].key = k /\ \A i \in DOMAIN c : c[i].key = k => i = p
    BY <1>2, <2>1, Found
  <2>3. PICK d : d = Delete(c, k)
    OBVIOUS
  <2>4. d = RemoveAt(c, p)
    BY <1>2, <2>1, <2>3 DEF Delete
  <2>5. /\ d \in Seq(S) /\ Len(d) = Len(c) - 1
        /\ \A j \in 1..Len(c) - 1 : d[j] = IF j < p THEN c[j] ELSE c[j + 1]
    BY <2>4, Removed
  <2>6. DOMAIN d = 1..Len(c) - 1 /\ DOMAIN c = 1..Len(c) /\ Len(c) \in Nat
    BY <2>5
  <2>7. \A j \in DOMAIN d : \E i \in DOMAIN c : d[j] = c[i] /\ c[i].key # k
    <3>1. TAKE j \in DOMAIN d
    <3>2. CASE j < p
      BY <2>2, <2>5, <2>6, <3>2
    <3>3. CASE ~(j < p)
      <4>1. j + 1 \in DOMAIN c /\ j + 1 # p /\ d[j] = c[j + 1]
        BY <2>1, <2>5, <2>6, <3>3
      <4>2. QED BY <2>2, <4>1
    <3>4. QED BY <3>2, <3>3
  <2>8. \A i \in DOMAIN c : c[i].key # k => \E j \in DOMAIN d : d[j] = c[i]
    <3>1. SUFFICES ASSUME NEW i \in DOMAIN c, c[i].key # k
                   PROVE  \E j \in DOMAIN d : d[j] = c[i]
      OBVIOUS
    <3>2. i # p
      BY <2>2, <3>1
    <3>3. CASE i < p
      <4>1. i \in DOMAIN d /\ d[i] = c[i]
        BY <2>1, <2>5, <2>6, <3>3
      <4>2. QED BY <4>1
    <3>4. CASE i > p
      <4>1. i - 1 \in DOMAIN d /\ ~(i - 1 < p) /\ (i - 1) + 1 = i
        BY <2>1, <2>6, <3>4
      <4>2. d[i - 1] = c[i]
        BY <2>5, <2>6, <4>1
      <4>3. QED BY <4>1, <4>2
    <3>5. QED BY <2>1, <2>6, <3>2, <3>3, <3>4
  <2>9. Unique(d)
    <3>1. SUFFICES ASSUME NEW i \in DOMAIN d, NEW j \in DOMAIN d, d[i].key = d[j].key
                   PROVE  i = j
      BY DEF Unique
    <3>2. PICK a \in DOMAIN c : a = IF i < p THEN i ELSE i + 1
      BY <2>1, <2>6
    <3>3. PICK b \in DOMAIN c : b = IF j < p THEN j ELSE j + 1
      BY <2>1, <2>6
    <3>4. d[i] = c[a] /\ d[j] = c[b]
      BY <2>5, <2>6, <3>2, <3>3
    <3>5. a = b
      BY <3>1, <3>4 DEF Unique
    <3>6. QED BY <2>1, <2>6, <3>2, <3>3, <3>5
  <2>10. ~Exist(d, k)
    BY <2>7 DEF Exist
  <2>11. QED BY <1>2, <2>3, <2>5, <2>7, <2>8, <2>9, <2>10
<1>3. QED BY <1>1, <1>2

\* An entry that goes to the back, in place of what its key had.
Pushed(c, k, v) == Append(Delete(c, k), [key |-> k, val |-> v])

\* Pushed, entry by entry.
LEMMA PushedOK ==
    ASSUME NEW S, NEW c \in Seq(S), Unique(c), NEW k, NEW v, [key |-> k, val |-> v] \in S
    PROVE  /\ Pushed(c, k, v) \in Seq(S) /\ Unique(Pushed(c, k, v))
           /\ Len(Pushed(c, k, v)) = IF Exist(c, k) THEN Len(c) ELSE Len(c) + 1
           /\ Exist(Pushed(c, k, v), k) /\ Value(Pushed(c, k, v), k) = v
           /\ \A j \in DOMAIN Pushed(c, k, v) :
                \/ Pushed(c, k, v)[j] = [key |-> k, val |-> v]
                \/ \E i \in DOMAIN c : Pushed(c, k, v)[j] = c[i] /\ c[i].key # k
           /\ \A i \in DOMAIN c : c[i].key # k =>
                \E j \in DOMAIN Pushed(c, k, v) : Pushed(c, k, v)[j] = c[i]
<1>1. PICK d : d = Delete(c, k)
  OBVIOUS
<1>2. /\ d \in Seq(S) /\ Unique(d) /\ ~Exist(d, k)
      /\ Len(d) = IF Exist(c, k) THEN Len(c) - 1 ELSE Len(c)
      /\ \A j \in DOMAIN d : \E i \in DOMAIN c : d[j] = c[i] /\ c[i].key # k
      /\ \A i \in DOMAIN c : c[i].key # k => \E j \in DOMAIN d : d[j] = c[i]
  BY <1>1, Deleted
<1>3. PICK e \in S : e = [key |-> k, val |-> v]
  OBVIOUS
<1>4. PICK n : n = Append(d, e)
  OBVIOUS
<1>5. /\ n \in Seq(S) /\ Len(n) = Len(d) + 1 /\ n[Len(d) + 1] = e
      /\ DOMAIN n = 1..Len(d) + 1 /\ DOMAIN d = 1..Len(d) /\ Len(d) \in Nat
      /\ \A j \in 1..Len(d) : n[j] = d[j]
  BY <1>2, <1>4
<1>6. e.key = k /\ e.val = v
  BY <1>3
<1>7. Unique(n)
  <2>1. SUFFICES ASSUME NEW i \in DOMAIN n, NEW j \in DOMAIN n, n[i].key = n[j].key
                 PROVE  i = j
    BY DEF Unique
  <2>2. CASE i \in DOMAIN d /\ j \in DOMAIN d
    <3>1. d[i].key = d[j].key
      BY <1>5, <2>1, <2>2
    <3>2. QED BY <1>2, <2>2, <3>1 DEF Unique
  <2>3. CASE i = Len(d) + 1 /\ j = Len(d) + 1
    BY <2>3
  <2>4. CASE i = Len(d) + 1 /\ j \in DOMAIN d
    <3>1. d[j].key = k
      BY <1>5, <1>6, <2>1, <2>4
    <3>2. QED BY <1>2, <2>4, <3>1 DEF Exist
  <2>5. CASE j = Len(d) + 1 /\ i \in DOMAIN d
    <3>1. d[i].key = k
      BY <1>5, <1>6, <2>1, <2>5
    <3>2. QED BY <1>2, <2>5, <3>1 DEF Exist
  <2>6. QED BY <1>5, <2>2, <2>3, <2>4, <2>5
<1>8. Exist(n, k)
  BY <1>5, <1>6 DEF Exist
<1>9. Value(n, k) = v
  <2>1. Position(n, k) = Len(d) + 1
    BY <1>5, <1>6, <1>7, <1>8, Found
  <2>2. QED BY <1>5, <1>6, <2>1 DEF Value
<1>10. \A j \in DOMAIN n : n[j] = e \/ \E i \in DOMAIN c : n[j] = c[i] /\ c[i].key # k
  BY <1>2, <1>5
<1>11. \A i \in DOMAIN c : c[i].key # k => \E j \in DOMAIN n : n[j] = c[i]
  <2>1. SUFFICES ASSUME NEW i \in DOMAIN c, c[i].key # k PROVE \E j \in DOMAIN n : n[j] = c[i]
    OBVIOUS
  <2>2. PICK j \in DOMAIN d : d[j] = c[i]
    BY <1>2, <2>1
  <2>3. j \in DOMAIN n /\ n[j] = c[i]
    BY <1>5, <2>2
  <2>4. QED BY <2>3
<1>12. Pushed(c, k, v) = n
  BY <1>1, <1>3, <1>4 DEF Pushed
<1>13. Len(n) = IF Exist(c, k) THEN Len(c) ELSE Len(c) + 1
  <2>1. Len(c) \in Nat
    OBVIOUS
  <2>2. QED BY <1>2, <1>5, <2>1
<1>14. QED BY <1>3, <1>5, <1>7, <1>8, <1>9, <1>10, <1>11, <1>12, <1>13

\* Set keeps a cache within its size.
LEMMA SetOK ==
    ASSUME NEW S, NEW c \in Seq(S), Unique(c), NEW k, NEW v, [key |-> k, val |-> v] \in S,
           Len(c) <= Size
    PROVE  /\ Set(c, k, v, Size) \in Seq(S) /\ Unique(Set(c, k, v, Size))
           /\ Len(Set(c, k, v, Size)) <= Size
<1>1. PICK n : n = Pushed(c, k, v)
  OBVIOUS
<1>2. /\ n \in Seq(S) /\ Unique(n) /\ Len(n) = IF Exist(c, k) THEN Len(c) ELSE Len(c) + 1
  BY <1>1, PushedOK
<1>3. Set(c, k, v, Size) = IF Len(n) > Size THEN Tail(n) ELSE n
  BY <1>1 DEF Set, Pushed
<1>4. Size \in Nat \ {0} /\ Len(c) \in Nat
  BY FakeIPAssumption
<1>5. CASE Len(n) > Size
  <2>1. n # <<>>
    BY <1>4, <1>5
  <2>2. /\ Tail(n) \in Seq(S) /\ Len(Tail(n)) = Len(n) - 1
        /\ \A i \in 1..Len(Tail(n)) : Tail(n)[i] = n[i + 1]
    BY <1>2, <2>1, HeadTailProperties
  <2>3. Unique(Tail(n))
    <3>1. PICK t \in Seq(S) : t = Tail(n)
      BY <2>2
    <3>2. DOMAIN t = 1..Len(n) - 1 /\ DOMAIN n = 1..Len(n) /\ Len(n) \in Nat
      BY <1>2, <2>2, <3>1
    <3>3. SUFFICES ASSUME NEW i \in DOMAIN t, NEW j \in DOMAIN t, t[i].key = t[j].key PROVE i = j
      BY <3>1 DEF Unique
    <3>4. n[i + 1].key = n[j + 1].key /\ i + 1 \in DOMAIN n /\ j + 1 \in DOMAIN n
      BY <2>2, <3>1, <3>2, <3>3
    <3>5. i + 1 = j + 1
      BY <1>2, <3>4 DEF Unique
    <3>6. QED BY <3>2, <3>5
  <2>4. QED BY <1>2, <1>3, <1>4, <1>5, <2>2, <2>3
<1>6. CASE ~(Len(n) > Size)
  BY <1>2, <1>3, <1>4, <1>6
<1>7. QED BY <1>5, <1>6

\* Get keeps the contents of a cache.
LEMMA TouchOK ==
    ASSUME NEW S, \A e \in S : e = [key |-> e.key, val |-> e.val],
           NEW c \in Seq(S), Unique(c), NEW k
    PROVE  /\ Touch(c, k) \in Seq(S) /\ Unique(Touch(c, k))
           /\ Len(Touch(c, k)) = Len(c)
<1>1. CASE ~Exist(c, k)
  BY <1>1 DEF Touch
<1>2. CASE Exist(c, k)
  <2>1. Position(c, k) \in DOMAIN c /\ c[Position(c, k)].key = k
    BY <1>2, Found
  <2>2. c[Position(c, k)] \in S
    BY <2>1, ElementOfSeq
  <2>3. [key |-> k, val |-> Value(c, k)] \in S
    BY <2>1, <2>2 DEF Value
  <2>4. Touch(c, k) = Pushed(c, k, Value(c, k))
    BY <1>2 DEF Touch, Pushed
  <2>5. QED BY <1>2, <2>3, <2>4, PushedOK
<1>3. QED BY <1>1, <1>2

\* The two directions of a pool.
Pair(ips, hosts) ==
    /\ ips \in Seq(IPEntry) /\ Unique(ips)
    /\ hosts \in Seq(HostEntry) /\ Unique(hosts)

\* In caches that mirror each other a host and its address are at the same place.
LEMMA SamePlace ==
    ASSUME NEW ips, NEW hosts, Pair(ips, hosts), Mirror(ips, hosts)
    PROVE  /\ DOMAIN ips = 1..Len(ips) /\ DOMAIN hosts = 1..Len(ips) /\ Len(ips) \in Nat
           /\ \A ip : Exist(hosts, ip) =>
                /\ Exist(ips, Value(hosts, ip)) /\ Value(ips, Value(hosts, ip)) = ip
                /\ Position(ips, Value(hosts, ip)) = Position(hosts, ip)
           /\ \A h : Exist(ips, h) =>
                /\ Exist(hosts, Value(ips, h)) /\ Value(hosts, Value(ips, h)) = h
                /\ Position(hosts, Value(ips, h)) = Position(ips, h)
<1>1. DOMAIN ips = 1..Len(ips) /\ DOMAIN hosts = 1..Len(ips) /\ Len(ips) \in Nat
  BY DEF Pair, Mirror
<1>2. ASSUME NEW ip, Exist(hosts, ip)
      PROVE  /\ Exist(ips, Value(hosts, ip)) /\ Value(ips, Value(hosts, ip)) = ip
             /\ Position(ips, Value(hosts, ip)) = Position(hosts, ip)
  <2>1. PICK i : i = Position(hosts, ip)
    OBVIOUS
  <2>2. i \in DOMAIN hosts /\ hosts[i].key = ip
    BY <1>2, <2>1, Found DEF Pair
  <2>3. Value(hosts, ip) = hosts[i].val
    BY <2>1 DEF Value
  <2>4. i \in DOMAIN ips /\ ips[i].key = Value(hosts, ip) /\ ips[i].val = ip
    BY <1>1, <2>2, <2>3 DEF Mirror
  <2>5. Exist(ips, Value(hosts, ip))
    BY <2>4 DEF Exist
  <2>6. Position(ips, Value(hosts, ip)) = i
    BY <2>4, <2>5, Found DEF Pair
  <2>7. QED BY <2>1, <2>4, <2>5, <2>6 DEF Value
<1>3. ASSUME NEW h, Exist(ips, h)
      PROVE  /\ Exist(hosts, Value(ips, h)) /\ Value(hosts, Value(ips, h)) = h
             /\ Position(hosts, Value(ips, h)) = Position(ips, h)
  <2>1. PICK i : i = Position(ips, h)
    OBVIOUS
  <2>2. i \in DOMAIN ips /\ ips[i].key = h
    BY <1>3, <2>1, Found DEF Pair
  <2>3. Value(ips, h) = ips[i].val
    BY <2>1 DEF Value
  <2>4. i \in DOMAIN hosts /\ hosts[i].key = Value(ips, h) /\ hosts[i].val = h
    BY <1>1, <2>2, <2>3 DEF Mirror
  <2>5. Exist(hosts, Value(ips, h))
    BY <2>4 DEF Exist
  <2>6. Position(hosts, Value(ips, h)) = i
    BY <2>4, <2>5, Found DEF Pair
  <2>7. QED BY <2>1, <2>4, <2>5, <2>6 DEF Value
<1>4. QED BY <1>1, <1>2, <1>3

\* A host and its address are deleted together.
LEMMA MirrorDelete ==
    ASSUME NEW ips, NEW hosts, Pair(ips, hosts), Mirror(ips, hosts), NEW ip, Exist(hosts, ip)
    PROVE  Mirror(Delete(ips, Value(hosts, ip)), Delete(hosts, ip))
<1>1. PICK p : p = Position(hosts, ip)
  OBVIOUS
<1>2. /\ Exist(ips, Value(hosts, ip)) /\ Position(ips, Value(hosts, ip)) = p
      /\ DOMAIN ips = 1..Len(ips) /\ Len(ips) \in Nat
  BY <1>1, SamePlace
<1>3. p \in 1..Len(ips) /\ p \in 1..Len(hosts) /\ Len(hosts) = Len(ips)
  BY <1>1, Found DEF Pair, Mirror
<1>4. PICK a : a = RemoveAt(ips, p)
  OBVIOUS
<1>5. PICK b : b = RemoveAt(hosts, p)
  OBVIOUS
<1>6. Delete(ips, Value(hosts, ip)) = a /\ Delete(hosts, ip) = b
  BY <1>1, <1>2, <1>4, <1>5 DEF Delete
<1>7. /\ a \in Seq(IPEntry) /\ Len(a) = Len(ips) - 1
      /\ \A j \in 1..Len(ips) - 1 : a[j] = IF j < p THEN ips[j] ELSE ips[j + 1]
  BY <1>3, <1>4, Removed DEF Pair
<1>8. /\ b \in Seq(HostEntry) /\ Len(b) = Len(ips) - 1
      /\ \A j \in 1..Len(ips) - 1 : b[j] = IF j < p THEN hosts[j] ELSE hosts[j + 1]
  BY <1>3, <1>5, Removed DEF Pair
<1>9. ASSUME NEW j \in DOMAIN a PROVE b[j].key = a[j].val /\ b[j].val = a[j].key
  <2>1. j \in 1..Len(ips) - 1
    BY <1>7
  <2>2. PICK i : i = IF j < p THEN j ELSE j + 1
    OBVIOUS
  <2>3. i \in DOMAIN ips /\ a[j] = ips[i] /\ b[j] = hosts[i]
    BY <1>2, <1>3, <1>7, <1>8, <2>1, <2>2
  <2>4. QED BY <2>3 DEF Mirror
<1>10. Mirror(a, b)
  BY <1>7, <1>8, <1>9 DEF Mirror
<1>11. QED BY <1>6, <1>10

\* A pair that goes to the back of both.
LEMMA MirrorAppend ==
    ASSUME NEW ips \in Seq(IPEntry), NEW hosts \in Seq(HostEntry), Mirror(ips, hosts),
           NEW h \in Hosts, NEW ip \in Nat
    PROVE  Mirror(Append(ips, [key |-> h, val |-> ip]), Append(hosts, [key |-> ip, val |-> h]))
<1>1. PICK e \in IPEntry : e = [key |-> h, val |-> ip]
  BY DEF IPEntry
<1>2. PICK f \in HostEntry : f = [key |-> ip, val |-> h]
  BY DEF HostEntry
<1>3. PICK a : a = Append(ips, e)
  OBVIOUS
<1>4. PICK b : b = Append(hosts, f)
  OBVIOUS
<1>5. Len(hosts) = Len(ips) /\ Len(ips) \in Nat /\ DOMAIN ips = 1..Len(ips)
  BY DEF Mirror
<1>6. /\ Len(a) = Len(ips) + 1 /\ DOMAIN a = 1..Len(ips) + 1
      /\ a[Len(ips) + 1] = e /\ \A i \in 1..Len(ips) : a[i] = ips[i]
  BY <1>3, <1>5
<1>7. /\ Len(b) = Len(ips) + 1
      /\ b[Len(ips) + 1] = f /\ \A i \in 1..Len(ips) : b[i] = hosts[i]
  BY <1>4, <1>5
<1>8. ASSUME NEW i \in DOMAIN a PROVE b[i].key = a[i].val /\ b[i].val = a[i].key
  <2>1. CASE i \in 1..Len(ips)
    BY <1>5, <1>6, <1>7, <2>1 DEF Mirror
  <2>2. CASE i = Len(ips) + 1
    BY <1>1, <1>2, <1>6, <1>7, <2>2
  <2>3. QED BY <1>5, <1>6, <2>1, <2>2
<1>9. QED BY <1>1, <1>2, <1>3, <1>4, <1>6, <1>7, <1>8 DEF Mirror

\* What has the same length on both sides loses its first pair on both.
LEMMA MirrorTail ==
    ASSUME NEW ips \in Seq(IPEntry), NEW hosts \in Seq(HostEntry), Mirror(ips, hosts), ips # <<>>
    PROVE  Mirror(Tail(ips), Tail(hosts))
<1>1. Len(hosts) = Len(ips) /\ Len(ips) \in Nat /\ Len(ips) # 0 /\ DOMAIN ips = 1..Len(ips)
  BY DEF Mirror
<1>2. hosts # <<>>
  BY <1>1
<1>3. PICK a \in Seq(IPEntry) : a = Tail(ips)
  BY HeadTailProperties
<1>4. PICK b \in Seq(HostEntry) : b = Tail(hosts)
  BY <1>2, HeadTailProperties
<1>5. Len(a) = Len(ips) - 1 /\ \A i \in 1..Len(a) : a[i] = ips[i + 1]
  BY <1>3, HeadTailProperties
<1>6. Len(b) = Len(ips) - 1 /\ \A i \in 1..Len(b) : b[i] = hosts[i + 1]
  BY <1>1, <1>2, <1>4, HeadTailProperties
<1>7. ASSUME NEW i \in DOMAIN a PROVE b[i].key = a[i].val /\ b[i].val = a[i].key
  <2>1. i \in 1..Len(a) /\ i \in 1..Len(b) /\ i + 1 \in DOMAIN ips
    BY <1>1, <1>5, <1>6
  <2>2. QED BY <1>5, <1>6, <2>1 DEF Mirror
<1>8. QED BY <1>3, <1>4, <1>5, <1>6, <1>7 DEF Mirror

\* Get refreshes a host and its address together.
LEMMA MirrorTouch ==
    ASSUME NEW ips, NEW hosts, Pair(ips, hosts), Mirror(ips, hosts), NEW ip, Exist(hosts, ip)
    PROVE  Mirror(Touch(ips, Value(hosts, ip)), Touch(hosts, ip))
<1>1. PICK h : h = Value(hosts, ip)
  OBVIOUS
<1>2. Exist(ips, h) /\ Value(ips, h) = ip
  BY <1>1, SamePlace
<1>3. PICK i \in DOMAIN hosts : hosts[i].key = ip /\ hosts[i].val = h
  BY <1>1, Found DEF Value, Pair
<1>4. hosts[i] \in HostEntry
  BY <1>3, ElementOfSeq DEF Pair
<1>5. h \in Hosts /\ ip \in Nat
  BY <1>3, <1>4 DEF HostEntry
<1>6. Mirror(Delete(ips, h), Delete(hosts, ip))
  BY <1>1, MirrorDelete
<1>7. Delete(ips, h) \in Seq(IPEntry) /\ Delete(hosts, ip) \in Seq(HostEntry)
  BY Deleted DEF Pair
<1>8. Mirror(Append(Delete(ips, h), [key |-> h, val |-> ip]),
             Append(Delete(hosts, ip), [key |-> ip, val |-> h]))
  BY <1>5, <1>6, <1>7, MirrorAppend
<1>9. QED BY <1>1, <1>2, <1>8 DEF Touch

\* A new pair pushes the same pair out of both caches.
LEMMA MirrorPut ==
    ASSUME NEW ips, NEW hosts, Pair(ips, hosts), Mirror(ips, hosts),
           NEW h \in Hosts, NEW ip \in Nat, ~Exist(ips, h), ~Exist(hosts, ip)
    PROVE  Mirror(Set(ips, h, ip, Size), Set(hosts, ip, h, Size))
<1>1. PICK e \in IPEntry : e = [key |-> h, val |-> ip]
  BY DEF IPEntry
<1>2. PICK f \in HostEntry : f = [key |-> ip, val |-> h]
  BY DEF HostEntry
<1>3. PICK a : a = Append(ips, e)
  OBVIOUS
<1>4. PICK b : b = Append(hosts, f)
  OBVIOUS
<1>5. a \in Seq(IPEntry) /\ b \in Seq(HostEntry) /\ Len(a) = Len(ips) + 1 /\ Len(ips) \in Nat
  BY <1>3, <1>4 DEF Pair
<1>6. Mirror(a, b)
  BY <1>1, <1>2, <1>3, <1>4, MirrorAppend DEF Pair
<1>7. Len(b) = Len(a) /\ a # <<>>
  BY <1>5, <1>6 DEF Mirror
<1>8. Delete(ips, h) = ips /\ Delete(hosts, ip) = hosts
  BY DEF Delete
<1>9. /\ Set(ips, h, ip, Size) = IF Len(a) > Size THEN Tail(a) ELSE a
      /\ Set(hosts, ip, h, Size) = IF Len(b) > Size THEN Tail(b) ELSE b
  BY <1>1, <1>2, <1>3, <1>4, <1>8 DEF Set
<1>10. Mirror(Tail(a), Tail(b))
  BY <1>5, <1>6, <1>7, MirrorTail
<1>11. QED BY <1>6, <1>7, <1>9, <1>10

\* Belong, in terms of the entries.
LEMMA BelongMeans ==
    ASSUME NEW ips, NEW hosts, NEW bad, Pair(ips, hosts)
    PROVE  Belong(ips, hosts, bad) <=>
             \A i \in DOMAIN ips : ips[i].val \notin bad => \E j \in DOMAIN hosts :
                 hosts[j].key = ips[i].val /\ hosts[j].val = ips[i].key
<1>1. ASSUME Belong(ips, hosts, bad), NEW i \in DOMAIN ips, ips[i].val \notin bad
      PROVE  \E j \in DOMAIN hosts : hosts[j].key = ips[i].val /\ hosts[j].val = ips[i].key
  <2>1. Exist(hosts, ips[i].val) /\ Value(hosts, ips[i].val) = ips[i].key
    BY <1>1 DEF Belong
  <2>2. /\ Position(hosts, ips[i].val) \in DOMAIN hosts
        /\ hosts[Position(hosts, ips[i].val)].key = ips[i].val
    BY <2>1, Found DEF Pair
  <2>3. QED BY <2>1, <2>2 DEF Value
<1>2. ASSUME NEW i \in DOMAIN ips, NEW j \in DOMAIN hosts,
             hosts[j].key = ips[i].val, hosts[j].val = ips[i].key
      PROVE  Exist(hosts, ips[i].val) /\ Value(hosts, ips[i].val) = ips[i].key
  <2>1. Exist(hosts, ips[i].val)
    BY <1>2 DEF Exist
  <2>2. j = Position(hosts, ips[i].val)
    BY <1>2, <2>1, Found DEF Pair
  <2>3. QED BY <1>2, <2>1, <2>2 DEF Value
<1>3. QED BY <1>1, <1>2 DEF Belong

\* DelByIP keeps both directions well formed, and leaves no host with the address.
LEMMA DelByIPPair ==
    ASSUME NEW ips, NEW hosts, Pair(ips, hosts), NEW ip, NEW d, d = DelByIP(ips, hosts, ip)
    PROVE  /\ Pair(d[1], d[2]) /\ Len(d[1]) <= Len(ips) /\ Len(d[2]) <= Len(hosts)
           /\ ~Exist(d[2], ip)
           /\ \A h : ~Exist(ips, h) => ~Exist(d[1], h)
<1>1. /\ d[1] = IF Exist(hosts, ip) THEN Delete(ips, Value(hosts, ip)) ELSE ips
      /\ d[2] = Delete(hosts, ip)
  BY DEF DelByIP
<1>2. Len(ips) \in Nat /\ Len(hosts) \in Nat
  BY DEF Pair
<1>3. /\ d[2] \in Seq(HostEntry) /\ Unique(d[2]) /\ ~Exist(d[2], ip)
      /\ Len(d[2]) = IF Exist(hosts, ip) THEN Len(hosts) - 1 ELSE Len(hosts)
  BY <1>1, Deleted DEF Pair
<1>4. PICK h : h = Value(hosts, ip)
  OBVIOUS
<1>5. /\ Delete(ips, h) \in Seq(IPEntry) /\ Unique(Delete(ips, h))
      /\ Len(Delete(ips, h)) = IF Exist(ips, h) THEN Len(ips) - 1 ELSE Len(ips)
      /\ \A j \in DOMAIN Delete(ips, h) : \E i \in DOMAIN ips :
              Delete(ips, h)[j] = ips[i] /\ ips[i].key # h
  BY Deleted DEF Pair
<1>6. \A g : ~Exist(ips, g) => ~Exist(Delete(ips, h), g)
  BY <1>5 DEF Exist
<1>7. d[1] \in Seq(IPEntry) /\ Unique(d[1]) /\ Len(d[1]) <= Len(ips)
  BY <1>1, <1>2, <1>4, <1>5 DEF Pair
<1>8. \A g : ~Exist(ips, g) => ~Exist(d[1], g)
  BY <1>1, <1>4, <1>6
<1>9. QED BY <1>2, <1>3, <1>7, <1>8 DEF Pair

\* It keeps caches that mirror each other so.
LEMMA DelByIPMirror ==
    ASSUME NEW ips, NEW hosts, Pair(ips, hosts), Mirror(ips, hosts), NEW ip, NEW d,
           d = DelByIP(ips, hosts, ip)
    PROVE  Mirror(d[1], d[2])
<1>1. /\ d[1] = IF Exist(hosts, ip) THEN Delete(ips, Value(hosts, ip)) ELSE ips
      /\ d[2] = Delete(hosts, ip)
  BY DEF DelByIP
<1>2. CASE Exist(hosts, ip)
  BY <1>1, <1>2, MirrorDelete
<1>3. CASE ~Exist(hosts, ip)
  BY <1>1, <1>3 DEF Delete
<1>4. QED BY <1>2, <1>3

\* It takes the address from the one host that has it.
LEMMA DelByIPBelong ==
    ASSUME NEW ips, NEW hosts, NEW bad, Pair(ips, hosts), Belong(ips, hosts, bad), NEW ip, NEW d,
           d = DelByIP(ips, hosts, ip)
    PROVE  /\ Belong(d[1], d[2], bad)
           /\ ip \notin bad => \A i \in DOMAIN d[1] : d[1][i].val # ip
<1>1. /\ d[1] = IF Exist(hosts, ip) THEN Delete(ips, Value(hosts, ip)) ELSE ips
      /\ d[2] = Delete(hosts, ip)
  BY DEF DelByIP
<1>2. Pair(d[1], d[2])
  BY DelByIPPair
<1>3. CASE ~Exist(hosts, ip)
  <2>1. d[1] = ips /\ d[2] = hosts
    BY <1>1, <1>3 DEF Delete
  <2>2. QED BY <1>3, <2>1 DEF Belong
<1>4. CASE Exist(hosts, ip)
  <2>1. PICK h : h = Value(hosts, ip)
    OBVIOUS
  <2>2. \A j \in DOMAIN d[1] : \E i \in DOMAIN ips : d[1][j] = ips[i] /\ ips[i].key # h
    <3>1. d[1] = Delete(ips, h)
      BY <1>1, <1>4, <2>1
    <3>2. \A j \in DOMAIN Delete(ips, h) : \E i \in DOMAIN ips :
               Delete(ips, h)[j] = ips[i] /\ ips[i].key # h
      BY Deleted DEF Pair
    <3>3. QED BY <3>1, <3>2
  <2>3. \A j \in DOMAIN hosts : hosts[j].key # ip => \E k \in DOMAIN d[2] : d[2][k] = hosts[j]
    BY <1>1, Deleted DEF Pair
  <2>4. ASSUME NEW j \in DOMAIN d[1], d[1][j].val \notin bad
        PROVE  /\ d[1][j].val # ip
               /\ \E k \in DOMAIN d[2] : d[2][k].key = d[1][j].val /\ d[2][k].val = d[1][j].key
    <3>1. PICK i \in DOMAIN ips : d[1][j] = ips[i] /\ ips[i].key # h
      BY <2>2
    <3>2. Value(hosts, ips[i].val) = ips[i].key
      BY <2>4, <3>1 DEF Belong
    <3>3. ips[i].val # ip
      BY <2>1, <3>1, <3>2
    <3>4. PICK k \in DOMAIN hosts : hosts[k].key = ips[i].val /\ hosts[k].val = ips[i].key
      BY <2>4, <3>1, BelongMeans
    <3>5. PICK m \in DOMAIN d[2] : d[2][m] = hosts[k]
      BY <2>3, <3>3, <3>4
    <3>6. QED BY <3>1, <3>3, <3>4, <3>5
  <2>5. QED BY <1>2, <2>4, BelongMeans
<1>5. QED BY <1>3, <1>4

\* An address that nobody has is given to a host.
LEMMA BelongPutByIP ==
    ASSUME NEW ips, NEW hosts, NEW bad, Pair(ips, hosts), Belong(ips, hosts, bad),
           NEW ip \in Nat, NEW h \in Hosts,
           ip \notin bad => \A i \in DOMAIN ips : ips[i].val # ip
    PROVE  /\ Pair(ips, Pushed(hosts, ip, h)) /\ Belong(ips, Pushed(hosts, ip, h), bad)
           /\ Exist(Pushed(hosts, ip, h), ip) /\ Value(Pushed(hosts, ip, h), ip) = h
<1>1. PICK n : n = Pushed(hosts, ip, h)
  OBVIOUS
<1>2. [key |-> ip, val |-> h] \in HostEntry
  BY DEF HostEntry
<1>3. /\ n \in Seq(HostEntry) /\ Unique(n) /\ Exist(n, ip) /\ Value(n, ip) = h
      /\ \A i \in DOMAIN hosts : hosts[i].key # ip => \E j \in DOMAIN n : n[j] = hosts[i]
  BY <1>1, <1>2, PushedOK DEF Pair
<1>4. Pair(ips, n)
  BY <1>3 DEF Pair
<1>5. ASSUME NEW i \in DOMAIN ips, ips[i].val \notin bad
      PROVE  \E j \in DOMAIN n : n[j].key = ips[i].val /\ n[j].val = ips[i].key
  <2>1. PICK k \in DOMAIN hosts : hosts[k].key = ips[i].val /\ hosts[k].val = ips[i].key
    BY <1>5, BelongMeans
  <2>2. PICK j \in DOMAIN n : n[j] = hosts[k]
    BY <1>3, <1>5, <2>1
  <2>3. QED BY <2>1, <2>2
<1>6. QED BY <1>1, <1>3, <1>4, <1>5, BelongMeans

\* A host gets the address that stands for it.
LEMMA BelongPutByHost ==
    ASSUME NEW ips, NEW hosts, NEW bad, Pair(ips, hosts), Belong(ips, hosts, bad),
           NEW ip \in Nat, NEW h \in Hosts,
           ip \notin bad => Exist(hosts, ip) /\ Value(hosts, ip) = h
    PROVE  Pair(Pushed(ips, h, ip), hosts) /\ Belong(Pushed(ips, h, ip), hosts, bad)
<1>1. PICK n : n = Pushed(ips, h, ip)
  OBVIOUS
<1>2. [key |-> h, val |-> ip] \in IPEntry
  BY DEF IPEntry
<1>3. /\ n \in Seq(IPEntry) /\ Unique(n)
      /\ \A j \in DOMAIN n : \/ n[j] = [key |-> h, val |-> ip]
                             \/ \E i \in DOMAIN ips : n[j] = ips[i] /\ ips[i].key # h
  BY <1>1, <1>2, PushedOK DEF Pair
<1>4. Pair(n, hosts)
  BY <1>3 DEF Pair
<1>5. ASSUME NEW j \in DOMAIN n, n[j].val \notin bad
      PROVE  Exist(hosts, n[j].val) /\ Value(hosts, n[j].val) = n[j].key
  BY <1>3, <1>5 DEF Belong
<1>6. QED BY <1>1, <1>4, <1>5 DEF Belong

\* Caches that mirror each other hold for every host the address that stands for it.
LEMMA MirrorBelong ==
    ASSUME NEW ips, NEW hosts, NEW bad, Pair(ips, hosts), Mirror(ips, hosts)
    PROVE  Belong(ips, hosts, bad)
<1>1. DOMAIN ips = DOMAIN hosts
  BY SamePlace
<1>2. QED BY <1>1, BelongMeans DEF Mirror

-----------------------------------------------------------------------------
(* Lookup and LookBack.                                                     *)

\* The two directions that a pool works on.
LEMMA Current ==
    ASSUME Shape, Lists, NEW i \in DOMAIN pools
    PROVE  /\ Pair(CacheIP(i), CacheHost(i))
           /\ ~persistent => /\ CacheIP(i) = pools[i].cacheIP /\ Len(CacheIP(i)) <= Size
                             /\ CacheHost(i) = pools[i].cacheHost /\ Len(CacheHost(i)) <= Size
           /\ persistent => CacheIP(i) = file.cacheIP /\ CacheHost(i) = file.cacheHost
<1>1. pools[i] \in PoolRec /\ file \in FileRec
  BY DEF Shape
<1>2. CASE persistent
  BY <1>1, <1>2 DEF CacheIP, CacheHost, FileRec, Pair, Lists
<1>3. CASE ~persistent
  BY <1>1, <1>3 DEF CacheIP, CacheHost, PoolRec, Pair, Lists
<1>4. QED BY <1>2, <1>3

\* np and nf are the pool and the file after the directions have become ips and hosts.
Written(i, np, nf, ips, hosts) ==
    /\ np \in PoolRec /\ nf \in FileRec
    /\ persistent => /\ np.cacheIP = pools[i].cacheIP /\ np.cacheHost = pools[i].cacheHost
                     /\ nf.cacheIP = ips /\ nf.cacheHost = hosts /\ nf.offset = file.offset
    /\ ~persistent => np.cacheIP = ips /\ np.cacheHost = hosts /\ nf = file

\* Store writes the directions where they belong.
LEMMA StoreForm ==
    ASSUME Shape, NEW i \in DOMAIN pools, NEW p \in PoolRec, NEW ips, NEW hosts, Pair(ips, hosts),
           p.cacheIP = pools[i].cacheIP, p.cacheHost = pools[i].cacheHost,
           Store(i, p, ips, hosts)
    PROVE  \E np, nf : /\ Written(i, np, nf, ips, hosts)
                       /\ np.mux = p.mux /\ np.offset = p.offset /\ np.last = p.last
                       /\ pools' = [pools EXCEPT ![i] = np] /\ file' = nf
<1>1. CASE persistent
  <2>1. PICK f1 : f1 = [file EXCEPT !.cacheIP = ips]
    OBVIOUS
  <2>2. f1 \in FileRec /\ f1.cacheIP = ips /\ f1.offset = file.offset
    BY <2>1 DEF Shape, FileRec, Pair
  <2>3. PICK f2 : f2 = [f1 EXCEPT !.cacheHost = hosts]
    OBVIOUS
  <2>4. f2 \in FileRec /\ f2.cacheIP = ips /\ f2.cacheHost = hosts /\ f2.offset = file.offset
    BY <2>2, <2>3 DEF FileRec, Pair
  <2>5. file' = f2 /\ pools' = [pools EXCEPT ![i] = p]
    BY <1>1, <2>1, <2>3 DEF Store
  <2>6. Written(i, p, f2, ips, hosts)
    BY <1>1, <2>4 DEF Written
  <2>7. QED BY <2>5, <2>6
<1>2. CASE ~persistent
  <2>1. PICK p1 : p1 = [p EXCEPT !.cacheIP = ips]
    OBVIOUS
  <2>2. /\ p1 \in PoolRec /\ p1.cacheIP = ips
        /\ p1.mux = p.mux /\ p1.offset = p.offset /\ p1.last = p.last
    BY <2>1 DEF PoolRec, Pair
  <2>3. PICK p2 : p2 = [p1 EXCEPT !.cacheHost = hosts]
    OBVIOUS
  <2>4. /\ p2 \in PoolRec /\ p2.cacheIP = ips /\ p2.cacheHost = hosts
        /\ p2.mux = p.mux /\ p2.offset = p.offset /\ p2.last = p.last
    BY <2>2, <2>3 DEF PoolRec, Pair
  <2>5. pools' = [pools EXCEPT ![i] = p2] /\ file' = file
    BY <1>2, <2>1, <2>3 DEF Store
  <2>6. Written(i, p2, file, ips, hosts)
    BY <1>2, <2>4 DEF Written, Shape
  <2>7. QED BY <2>4, <2>5, <2>6
<1>3. QED BY <1>1, <1>2

\* A step that replaces one pool.
LEMMA OnePool ==
    ASSUME Shape, NEW i \in DOMAIN pools, NEW np \in PoolRec, pools' = [pools EXCEPT ![i] = np]
    PROVE  /\ pools' \in Seq(PoolRec) /\ Len(pools') = Len(pools) /\ DOMAIN pools' = DOMAIN pools
           /\ pools'[i] = np /\ \A j \in DOMAIN pools \ {i} : pools'[j] = pools[j]
           /\ DOMAIN pools = 1..Len(pools) /\ Len(pools) \in Nat
BY DEF Shape

\* A step of a Lookup: it changes the directions of its pool and nothing else that is shared,
\* and leaves what it will find at its next step.
LookupStep(c, i, l, nq, np, nf, ips, hosts) ==
    /\ pc[c] # "idle" /\ i = q[c].pool
    /\ pools' = [pools EXCEPT ![i] = np] /\ file' = nf
    /\ pc' = [pc EXCEPT ![c] = l] /\ q' = [q EXCEPT ![c] = nq]
    /\ Race(Disturbed(c))
    /\ UNCHANGED <<persistent, cur, flush, reload>> /\ spoilt' \in SUBSET Nat
    /\ Written(i, np, nf, ips, hosts) /\ Pair(ips, hosts)
    /\ l \in {"idle"} \cup Mid /\ nq \in QueryRec
    /\ l # "idle" => nq.pool = i /\ nq.host \in Hosts
    /\ np.last = pools[i].last /\ First - 1 <= np.offset /\ np.offset <= np.last
    /\ pools[i].mux \in {c, Nobody} /\ np.mux = IF l \in Mid THEN c ELSE Nobody
    /\ ~persistent => Len(ips) <= Size /\ Len(hosts) <= Size
    /\ ~persistent /\ ~raced' => Between(l, ips, hosts, nq.host, nq.ip)
    /\ persistent /\ ~raced' => /\ Belong(ips, hosts, spoilt')
                               /\ FileBetween(l, ips, hosts, nq.host, nq.ip, spoilt')

\* Such a step keeps the invariant.
LEMMA LookupStepOK ==
    ASSUME IInv, NEW c \in Callers, NEW i, NEW l, NEW nq, NEW np, NEW nf, NEW ips, NEW hosts,
           LookupStep(c, i, l, nq, np, nf, ips, hosts)
    PROVE  IInv'
<1> USE DEF IInv
<1>1. i \in 1..cur /\ cur \in DOMAIN pools /\ DOMAIN pools = 1..Len(pools) /\ Len(pools) \in Nat
  BY DEF Places, LookupStep, Shape
<1>2. i \in DOMAIN pools /\ np \in PoolRec /\ nf \in FileRec /\ pools[i] \in PoolRec
  BY <1>1 DEF LookupStep, Written, Shape
<1>3. /\ pools' \in Seq(PoolRec) /\ Len(pools') = Len(pools) /\ DOMAIN pools' = DOMAIN pools
      /\ pools'[i] = np /\ \A j \in DOMAIN pools \ {i} : pools'[j] = pools[j]
  BY <1>2, OnePool DEF LookupStep
<1>4. /\ pc'[c] = l /\ q'[c] = nq /\ pc' \in [Callers -> {"idle", "lookup"} \cup Mid]
      /\ q' \in [Callers -> QueryRec]
      /\ \A d \in Callers \ {c} : pc'[d] = pc[d] /\ q'[d] = q[d]
  BY DEF LookupStep, Shape
<1>5. raced' = (raced \/ Disturbed(c)) /\ UNCHANGED <<persistent, cur, flush, reload>> /\ file' = nf
  BY DEF LookupStep, Race
<1>6. raced' \in BOOLEAN
  BY <1>5, Zenon DEF Shape
<1>7. Shape'
  BY <1>2, <1>3, <1>4, <1>5, <1>6 DEF Shape, LookupStep
<1>8. Places'
  BY <1>1, <1>3, <1>4, <1>5 DEF Places, LookupStep
<1>9. Offsets'
  <2>1. \A j \in DOMAIN pools :
          /\ First < pools'[j].last
          /\ First - 1 <= pools'[j].offset /\ pools'[j].offset <= pools'[j].last
    BY <1>2, <1>3 DEF Offsets, LookupStep
  <2>2. nf.offset = file.offset
    BY DEF LookupStep, Written
  <2>3. QED BY <1>3, <1>5, <2>1, <2>2 DEF Offsets
<1>10. ASSUME NEW d \in Callers \ {c}, pc[d] \in Mid PROVE q[d].pool # i
  BY <1>2, <1>10, FakeIPAssumption DEF Mutex, LookupStep
<1>11. Mutex'
  <2>1. SUFFICES ASSUME NEW d \in Callers, NEW j \in DOMAIN pools
                 PROVE  pools'[j].mux = d <=> pc'[d] \in Mid /\ q'[d].pool = j
    BY <1>3 DEF Mutex
  <2>2. CASE d = c
    <3>1. CASE j = i
      BY <1>3, <1>4, <2>2, <3>1, FakeIPAssumption DEF LookupStep, Mid
    <3>2. CASE j # i
      <4>1. pools[j].mux # c
        BY <3>2 DEF Mutex, LookupStep
      <4>2. l \in Mid => nq.pool = i
        BY DEF LookupStep, Mid
      <4>3. QED BY <1>3, <1>4, <2>2, <3>2, <4>1, <4>2
    <3>3. QED BY <3>1, <3>2
  <2>3. CASE d # c
    <3>1. CASE j = i
      BY <1>3, <1>4, <1>10, <2>3, <3>1, FakeIPAssumption DEF LookupStep
    <3>2. CASE j # i
      BY <1>3, <1>4, <2>3, <3>2 DEF Mutex
    <3>3. QED BY <3>1, <3>2
  <2>4. QED BY <2>2, <2>3
<1>12. Lists'
  <2>1. /\ Unique(np.cacheIP) /\ Len(np.cacheIP) <= Size
        /\ Unique(np.cacheHost) /\ Len(np.cacheHost) <= Size
    BY <1>2 DEF LookupStep, Written, Pair, Lists
  <2>2. Unique(nf.cacheIP) /\ Unique(nf.cacheHost)
    BY DEF LookupStep, Written, Pair, Lists
  <2>3. QED BY <1>3, <1>5, <2>1, <2>2 DEF Lists
<1>13. Memory'
  <2>1. SUFFICES ASSUME ~persistent, ~raced' PROVE Memory'
    BY <1>5 DEF Memory
  <2>2. ~raced /\ flush.at = "idle" /\ reload # "ip"
    BY <1>5, <2>1 DEF Disturbed
  <2>3. np.cacheIP = ips /\ np.cacheHost = hosts /\ Between(l, ips, hosts, nq.host, nq.ip)
    BY <2>1 DEF LookupStep, Written
  <2>4. ASSUME NEW j \in 1..cur, pools'[j].mux = Nobody PROVE Agree(j)'
    <3>1. CASE j = i
      <4>1. l # "putByHost"
        BY <1>3, <2>4, <3>1, FakeIPAssumption DEF LookupStep, Mid
      <4>2. Mirror(ips, hosts)
        BY <2>3, <4>1 DEF Between
      <4>3. QED BY <1>3, <2>3, <3>1, <4>2 DEF Agree
    <3>2. CASE j # i
      <4>1. pools'[j] = pools[j]
        BY <1>1, <1>3, <3>2
      <4>2. Agree(j)
        BY <2>1, <2>2, <2>4, <4>1 DEF Memory
      <4>3. QED BY <4>1, <4>2 DEF Agree
    <3>3. QED BY <3>1, <3>2
  <2>5. ASSUME NEW d \in Callers PROVE Holder(d)'
    <3>1. CASE d = c
      <4>1. l \in Mid => nq.pool = i
        BY DEF LookupStep, Mid
      <4>2. QED BY <1>3, <1>4, <2>3, <3>1, <4>1 DEF Holder
    <3>2. CASE d # c
      <4>1. SUFFICES ASSUME pc[d] \in Mid PROVE Holder(d)'
        BY <1>4, <3>2 DEF Holder
      <4>2. q[d].pool # i /\ q[d].pool \in DOMAIN pools
        BY <1>1, <1>10, <3>2, <4>1 DEF Places, Mid
      <4>3. Holder(d)
        BY <2>1, <2>2 DEF Memory
      <4>4. QED BY <1>3, <1>4, <3>2, <4>2, <4>3 DEF Holder
    <3>3. QED BY <3>1, <3>2
  <2>6. ASSUME reload \in {"host", "swap"} PROVE Agree(Len(pools))'
    <3>1. Len(pools) # i /\ Len(pools) \in DOMAIN pools
      BY <1>1, <2>6 DEF Places
    <3>2. Agree(Len(pools))
      BY <2>1, <2>2, <2>6 DEF Memory
    <3>3. pools'[Len(pools)] = pools[Len(pools)]
      BY <1>3, <3>1
    <3>4. QED BY <1>3, <3>2, <3>3 DEF Agree
  <2>7. QED BY <1>3, <1>5, <2>2, <2>4, <2>5, <2>6 DEF Memory, Agree
<1>14. OnFile'
  <2>1. SUFFICES ASSUME persistent, ~raced' PROVE OnFile'
    BY <1>5 DEF OnFile
  <2>2. \A d \in Callers \ {c} : pc[d] \in Mid => q[d].pool = i
    BY <1>5, <2>1 DEF Disturbed, LookupStep
  <2>3. \A d \in Callers : pc'[d] \in Mid => d = c
    BY <1>4, <1>10, <2>2
  <2>4. /\ nf.cacheIP = ips /\ nf.cacheHost = hosts
        /\ Belong(ips, hosts, spoilt') /\ FileBetween(l, ips, hosts, nq.host, nq.ip, spoilt')
    BY <2>1 DEF LookupStep, Written
  <2>5. \A d \in Callers : FileHolder(d)'
    BY <1>4, <1>5, <2>3, <2>4 DEF FileHolder
  <2>6. QED BY <1>5, <2>3, <2>4, <2>5 DEF OnFile
<1>15. QED BY <1>7, <1>8, <1>9, <1>11, <1>12, <1>13, <1>14

\* Where a Lookup stands.
LEMMA AtPool ==
    ASSUME IInv, NEW c \in Callers, pc[c] # "idle", NEW i, i = q[c].pool
    PROVE  /\ i \in 1..cur /\ i \in DOMAIN pools /\ pools[i] \in PoolRec /\ q[c] \in QueryRec
           /\ q[c].host \in Hosts /\ q[c].ip \in Nat
           /\ First < pools[i].last
           /\ First - 1 <= pools[i].offset /\ pools[i].offset <= pools[i].last
           /\ pc[c] \in Mid => pools[i].mux = c
           /\ Pair(CacheIP(i), CacheHost(i))
           /\ ~persistent => /\ CacheIP(i) = pools[i].cacheIP /\ Len(CacheIP(i)) <= Size
                             /\ CacheHost(i) = pools[i].cacheHost /\ Len(CacheHost(i)) <= Size
           /\ persistent => CacheIP(i) = file.cacheIP /\ CacheHost(i) = file.cacheHost
<1> USE DEF IInv
<1>1. i \in 1..cur /\ cur \in DOMAIN pools /\ DOMAIN pools = 1..Len(pools) /\ Len(pools) \in Nat
  BY DEF Places, Shape
<1>2. i \in DOMAIN pools /\ pools[i] \in PoolRec /\ q[c] \in QueryRec
  BY <1>1 DEF Shape
<1>3. q[c].host \in Hosts /\ q[c].ip \in Nat
  BY <1>2 DEF Places, QueryRec
<1>4. First < pools[i].last /\ First - 1 <= pools[i].offset /\ pools[i].offset <= pools[i].last
  BY <1>2 DEF Offsets
<1>5. pc[c] \in Mid => pools[i].mux = c
  BY <1>2 DEF Mutex
<1>6. QED BY <1>1, <1>2, <1>3, <1>4, <1>5, Current

\* Entries are pairs.
LEMMA EntryForm ==
    /\ \A e \in IPEntry : e = [key |-> e.key, val |-> e.val]
    /\ \A e \in HostEntry : e = [key |-> e.key, val |-> e.val]
BY DEF IPEntry, HostEntry

\* Lookup finds the host.
LEMMA LookupHitStep ==
    ASSUME IInv, NEW c \in Callers, LookupHit(c) PROVE IInv'
<1>1. PICK i : i = q[c].pool
  OBVIOUS
<1>2. PICK h : h = q[c].host
  OBVIOUS
<1>3. PICK ips : ips = CacheIP(i)
  OBVIOUS
<1>4. PICK hosts : hosts = CacheHost(i)
  OBVIOUS
<1>5. PICK ip : ip = Value(ips, h)
  OBVIOUS
<1>6. /\ pc[c] = "lookup" /\ pools[i].mux = Nobody /\ Exist(ips, h)
      /\ Store(i, pools[i], Touched(ips, h), Touched(hosts, ip))
      /\ pc' = [pc EXCEPT ![c] = "idle"] /\ q' = [q EXCEPT ![c] = NoQuery]
      /\ Race(Disturbed(c))
      /\ UNCHANGED <<persistent, cur, flush, reload, spoilt>>
  BY <1>1, <1>2, <1>3, <1>4, <1>5 DEF LookupHit
<1>7. /\ i \in 1..cur /\ i \in DOMAIN pools /\ pools[i] \in PoolRec /\ Pair(ips, hosts)
      /\ First - 1 <= pools[i].offset /\ pools[i].offset <= pools[i].last
      /\ ~persistent => /\ ips = pools[i].cacheIP /\ Len(ips) <= Size
                        /\ hosts = pools[i].cacheHost /\ Len(hosts) <= Size
      /\ persistent => ips = file.cacheIP /\ hosts = file.cacheHost
  BY <1>1, <1>3, <1>4, <1>6, AtPool
<1>8. PICK nips : nips = Touched(ips, h)
  OBVIOUS
<1>9. PICK nhosts : nhosts = Touched(hosts, ip)
  OBVIOUS
<1>10. nips \in Seq(IPEntry) /\ Unique(nips) /\ Len(nips) = Len(ips)
  BY <1>7, <1>8, EntryForm, TouchOK DEF Touched, Pair
<1>11. nhosts \in Seq(HostEntry) /\ Unique(nhosts) /\ Len(nhosts) = Len(hosts)
  BY <1>7, <1>9, EntryForm, TouchOK DEF Touched, Pair
<1>12. Pair(nips, nhosts)
  BY <1>10, <1>11 DEF Pair
<1>13. PICK np, nf : /\ Written(i, np, nf, nips, nhosts)
                     /\ np.mux = pools[i].mux /\ np.offset = pools[i].offset
                     /\ np.last = pools[i].last
                     /\ pools' = [pools EXCEPT ![i] = np] /\ file' = nf
  BY <1>6, <1>7, <1>8, <1>9, <1>12, StoreForm DEF IInv
<1>14. ASSUME ~persistent, ~raced' PROVE Mirror(nips, nhosts)
  <2>1. ~raced /\ flush.at = "idle"
    BY <1>6, <1>14 DEF Race, Disturbed
  <2>2. Mirror(ips, hosts)
    BY <1>6, <1>7, <1>14, <2>1 DEF IInv, Memory, Agree
  <2>3. Exist(hosts, ip) /\ Value(hosts, ip) = h
    BY <1>5, <1>6, <1>7, <2>2, SamePlace
  <2>4. Mirror(Touch(ips, h), Touch(hosts, ip))
    BY <1>7, <2>2, <2>3, MirrorTouch
  <2>5. QED BY <1>8, <1>9, <1>14, <2>4 DEF Touched
<1>15. ASSUME persistent, ~raced' PROVE Belong(nips, nhosts, spoilt)
  BY <1>6, <1>7, <1>8, <1>9, <1>15 DEF Race, IInv, OnFile, Touched
<1>16. NoQuery \in QueryRec
  BY DEF NoQuery, QueryRec
<1>17. "idle" \notin Mid /\ "idle" \notin {"putByIP", "putByHost"}
  BY DEF Mid
<1>18. spoilt \in SUBSET Nat
  BY DEF IInv, Shape
<1>19. LookupStep(c, i, "idle", NoQuery, np, nf, nips, nhosts)
  BY <1>1, <1>6, <1>7, <1>10, <1>11, <1>12, <1>13, <1>14, <1>15, <1>16, <1>17, <1>18
     DEF LookupStep, Between, FileBetween
<1>20. QED BY <1>19, LookupStepOK

\* Lookup does not find the host, and takes the mutex.
LEMMA LookupMissStep ==
    ASSUME IInv, NEW c \in Callers, LookupMiss(c) PROVE IInv'
<1>1. PICK i : i = q[c].pool
  OBVIOUS
<1>2. PICK ips : ips = CacheIP(i)
  OBVIOUS
<1>3. PICK hosts : hosts = CacheHost(i)
  OBVIOUS
<1>4. /\ pc[c] = "lookup" /\ pools[i].mux = Nobody /\ ~Exist(ips, q[c].host)
      /\ pools' = [pools EXCEPT ![i].mux = c] /\ pc' = [pc EXCEPT ![c] = "alloc"]
      /\ Race(Disturbed(c))
      /\ UNCHANGED <<persistent, file, cur, q, flush, reload, spoilt>>
  BY <1>1, <1>2 DEF LookupMiss
<1>5. /\ i \in 1..cur /\ i \in DOMAIN pools /\ pools[i] \in PoolRec /\ Pair(ips, hosts)
      /\ q[c] \in QueryRec /\ q[c].host \in Hosts
      /\ First - 1 <= pools[i].offset /\ pools[i].offset <= pools[i].last
      /\ ~persistent => /\ ips = pools[i].cacheIP /\ Len(ips) <= Size
                        /\ hosts = pools[i].cacheHost /\ Len(hosts) <= Size
      /\ persistent => ips = file.cacheIP /\ hosts = file.cacheHost
  BY <1>1, <1>2, <1>3, <1>4, AtPool
<1>6. PICK np : np = [pools[i] EXCEPT !.mux = c]
  OBVIOUS
<1>7. /\ np \in PoolRec /\ np.mux = c /\ np.offset = pools[i].offset /\ np.last = pools[i].last
      /\ np.cacheIP = pools[i].cacheIP /\ np.cacheHost = pools[i].cacheHost
  BY <1>5, <1>6 DEF PoolRec
<1>8. pools' = [pools EXCEPT ![i] = np] /\ q' = [q EXCEPT ![c] = q[c]]
  BY <1>4, <1>6 DEF IInv, Shape
<1>9. Written(i, np, file, ips, hosts)
  BY <1>5, <1>7 DEF Written, IInv, Shape
<1>10. ASSUME ~persistent, ~raced' PROVE Mirror(ips, hosts)
  <2>1. ~raced /\ flush.at = "idle"
    BY <1>4, <1>10 DEF Race, Disturbed
  <2>2. QED BY <1>4, <1>5, <1>10, <2>1 DEF IInv, Memory, Agree
<1>11. ASSUME persistent, ~raced' PROVE Belong(ips, hosts, spoilt)
  BY <1>4, <1>5, <1>11 DEF Race, IInv, OnFile
<1>12. "alloc" \in Mid
  BY DEF Mid
<1>13. spoilt \in SUBSET Nat
  BY DEF IInv, Shape
<1>14. LookupStep(c, i, "alloc", q[c], np, file, ips, hosts)
  BY <1>1, <1>4, <1>5, <1>7, <1>8, <1>9, <1>10, <1>11, <1>12, <1>13 DEF LookupStep, Between, FileBetween
<1>15. QED BY <1>14, LookupStepOK

\* The next address is of the range of the pool, which keeps its caches.
LEMMA AdvancedOK ==
    ASSUME NEW p \in PoolRec, First < p.last, First - 1 <= p.offset, p.offset <= p.last,
           NEW ip, ip = NextIP(p), NEW n, n = Advanced(p)
    PROVE  /\ ip \in Nat /\ First - 1 <= ip /\ ip <= p.last
           /\ n \in PoolRec /\ n.offset = ip /\ n.mux = p.mux /\ n.last = p.last
           /\ n.cacheIP = p.cacheIP /\ n.cacheHost = p.cacheHost
<1>1. p.offset \in Nat /\ p.last \in Nat /\ First \in Nat
  BY FakeIPAssumption DEF PoolRec
<1>2. ip \in Nat /\ First - 1 <= ip /\ ip <= p.last
  BY <1>1 DEF NextIP
<1>3. PICK wrap : wrap = (p.offset + 1 >= p.last)
  OBVIOUS
<1>4. PICK cycle : cycle = (p.cycle \/ wrap)
  OBVIOUS
<1>5. cycle \in BOOLEAN
  BY <1>3, <1>4, Zenon DEF PoolRec
<1>6. PICK p1 : p1 = [p EXCEPT !.offset = ip]
  OBVIOUS
<1>7. /\ p1 \in PoolRec /\ p1.offset = ip /\ p1.mux = p.mux /\ p1.last = p.last
      /\ p1.cacheIP = p.cacheIP /\ p1.cacheHost = p.cacheHost
  BY <1>2, <1>6 DEF PoolRec
<1>8. n = [p EXCEPT !.offset = ip, !.cycle = cycle]
  BY <1>3, <1>4, Zenon DEF Advanced
<1>9. n = [p1 EXCEPT !.cycle = cycle]
  BY <1>6, <1>8
<1>10. /\ n \in PoolRec /\ n.offset = ip /\ n.mux = p.mux /\ n.last = p.last
       /\ n.cacheIP = p.cacheIP /\ n.cacheHost = p.cacheHost
  BY <1>5, <1>7, <1>9 DEF PoolRec
<1>11. QED BY <1>2, <1>10

\* The next address is taken from whoever has it.
LEMMA AllocStep ==
    ASSUME IInv, NEW c \in Callers, Alloc(c) PROVE IInv'
<1>1. PICK i : i = q[c].pool
  OBVIOUS
<1>2. PICK ips : ips = CacheIP(i)
  OBVIOUS
<1>3. PICK hosts : hosts = CacheHost(i)
  OBVIOUS
<1>4. PICK ip : ip = NextIP(pools[i])
  OBVIOUS
<1>5. PICK p : p = Advanced(pools[i])
  OBVIOUS
<1>6. PICK cycle : cycle = p.cycle
  OBVIOUS
<1>7. PICK del : del = IF cycle \/ Exist(hosts, ip) THEN DelByIP(ips, hosts, ip) ELSE <<ips, hosts>>
  OBVIOUS
<1>8. /\ pc[c] = "alloc" /\ Store(i, p, del[1], del[2])
      /\ q' = [q EXCEPT ![c].ip = ip] /\ pc' = [pc EXCEPT ![c] = "putByIP"]
      /\ Race(Disturbed(c))
      /\ UNCHANGED <<persistent, cur, flush, reload, spoilt>>
  BY <1>1, <1>2, <1>3, <1>4, <1>5, <1>6, <1>7, Zenon DEF Alloc
<1>9. "alloc" \in Mid /\ "putByIP" \in Mid
  BY DEF Mid
<1>10. /\ i \in 1..cur /\ i \in DOMAIN pools /\ pools[i] \in PoolRec /\ Pair(ips, hosts)
       /\ q[c] \in QueryRec /\ q[c].host \in Hosts /\ pools[i].mux = c
       /\ First < pools[i].last
       /\ First - 1 <= pools[i].offset /\ pools[i].offset <= pools[i].last
       /\ ~persistent => /\ ips = pools[i].cacheIP /\ Len(ips) <= Size
                         /\ hosts = pools[i].cacheHost /\ Len(hosts) <= Size
       /\ persistent => ips = file.cacheIP /\ hosts = file.cacheHost
  BY <1>1, <1>2, <1>3, <1>8, <1>9, AtPool
<1>11. ip \in Nat /\ First - 1 <= ip /\ ip <= pools[i].last
  BY <1>4, <1>10, AdvancedOK
<1>12. /\ p \in PoolRec /\ p.offset = ip /\ p.mux = c /\ p.last = pools[i].last
       /\ p.cacheIP = pools[i].cacheIP /\ p.cacheHost = pools[i].cacheHost
  BY <1>4, <1>5, <1>10, AdvancedOK
<1>13. /\ Pair(del[1], del[2]) /\ Len(del[1]) <= Len(ips) /\ Len(del[2]) <= Len(hosts)
       /\ ~Exist(del[2], ip) /\ \A h : ~Exist(ips, h) => ~Exist(del[1], h)
  <2>1. CASE cycle \/ Exist(hosts, ip)
    <3>1. del = DelByIP(ips, hosts, ip)
      BY <1>7, <2>1
    <3>2. QED BY <1>10, <3>1, DelByIPPair
  <2>2. CASE ~(cycle \/ Exist(hosts, ip))
    <3>1. del[1] = ips /\ del[2] = hosts
      BY <1>7, <2>2
    <3>2. QED BY <1>10, <2>2, <3>1 DEF Pair
  <2>3. QED BY <2>1, <2>2
<1>14. PICK np, nf : /\ Written(i, np, nf, del[1], del[2])
                     /\ np.mux = p.mux /\ np.offset = p.offset /\ np.last = p.last
                     /\ pools' = [pools EXCEPT ![i] = np] /\ file' = nf
  BY <1>8, <1>10, <1>12, <1>13, StoreForm DEF IInv
<1>15. PICK nq : nq = [q[c] EXCEPT !.ip = ip]
  OBVIOUS
<1>16. nq \in QueryRec /\ nq.pool = i /\ nq.host = q[c].host /\ nq.ip = ip
  BY <1>1, <1>10, <1>11, <1>15 DEF QueryRec
<1>17. q' = [q EXCEPT ![c] = nq]
  BY <1>8, <1>15
<1>18. ASSUME ~persistent, ~raced' PROVE Between("putByIP", del[1], del[2], nq.host, nq.ip)
  <2>1. ~raced
    BY <1>8, <1>18 DEF Race
  <2>2. Between("alloc", ips, hosts, q[c].host, q[c].ip)
    BY <1>1, <1>8, <1>9, <1>10, <1>18, <2>1 DEF IInv, Memory, Holder
  <2>3. Mirror(ips, hosts) /\ ~Exist(ips, q[c].host)
    BY <1>9, <2>2 DEF Between
  <2>4. Mirror(del[1], del[2])
    <3>1. CASE cycle \/ Exist(hosts, ip)
      <4>1. del = DelByIP(ips, hosts, ip)
        BY <1>7, <3>1
      <4>2. QED BY <1>10, <2>3, <4>1, DelByIPMirror
    <3>2. CASE ~(cycle \/ Exist(hosts, ip))
      BY <1>7, <2>3, <3>2
    <3>3. QED BY <3>1, <3>2
  <2>5. QED BY <1>13, <1>16, <2>3, <2>4 DEF Between
<1>19. ASSUME persistent, ~raced'
       PROVE  Belong(del[1], del[2], spoilt) /\ FileBetween("putByIP", del[1], del[2], nq.host, nq.ip, spoilt)
  <2>1. ~raced
    BY <1>8, <1>19 DEF Race
  <2>2. Belong(ips, hosts, spoilt)
    BY <1>10, <1>19, <2>1 DEF IInv, OnFile
  <2>3. /\ Belong(del[1], del[2], spoilt)
        /\ ip \notin spoilt => \A j \in DOMAIN del[1] : del[1][j].val # ip
    <3>1. CASE cycle \/ Exist(hosts, ip)
      <4>1. del = DelByIP(ips, hosts, ip)
        BY <1>7, <3>1
      <4>2. QED BY <1>10, <2>2, <4>1, DelByIPBelong
    <3>2. CASE ~(cycle \/ Exist(hosts, ip))
      <4>1. del[1] = ips /\ del[2] = hosts
        BY <1>7, <3>2
      <4>2. QED BY <2>2, <3>2, <4>1 DEF Belong
    <3>3. QED BY <3>1, <3>2
  <2>4. QED BY <1>16, <2>3 DEF FileBetween
<1>20. Len(ips) \in Nat /\ Len(hosts) \in Nat /\ Len(del[1]) \in Nat /\ Len(del[2]) \in Nat /\ Size \in Nat
  BY <1>10, <1>13, FakeIPAssumption DEF Pair
<1>21. ~persistent => Len(del[1]) <= Size /\ Len(del[2]) <= Size
  BY <1>10, <1>13, <1>20
<1>22. spoilt \in SUBSET Nat
  BY DEF IInv, Shape
<1>23. LookupStep(c, i, "putByIP", nq, np, nf, del[1], del[2])
  BY <1>1, <1>8, <1>9, <1>10, <1>11, <1>12, <1>13, <1>14, <1>16, <1>17, <1>18, <1>19, <1>21,
     <1>22
     DEF LookupStep
<1>24. QED BY <1>23, LookupStepOK

\* The address is put in.
LEMMA PutByIPStep ==
    ASSUME IInv, NEW c \in Callers, PutByIP(c) PROVE IInv'
<1>1. PICK i : i = q[c].pool
  OBVIOUS
<1>2. PICK h : h = q[c].host
  OBVIOUS
<1>3. PICK ip : ip = q[c].ip
  OBVIOUS
<1>4. PICK ips : ips = CacheIP(i)
  OBVIOUS
<1>5. PICK hosts : hosts = CacheHost(i)
  OBVIOUS
<1>6. PICK nhosts : nhosts = Put(hosts, ip, h)
  OBVIOUS
<1>7. /\ pc[c] = "putByIP" /\ Store(i, pools[i], ips, nhosts)
      /\ pc' = [pc EXCEPT ![c] = "putByHost"]
      /\ Race(Disturbed(c))
      /\ UNCHANGED <<persistent, cur, q, flush, reload, spoilt>>
  BY <1>1, <1>2, <1>3, <1>4, <1>5, <1>6 DEF PutByIP
<1>8. "putByIP" \in Mid /\ "putByHost" \in Mid
  BY DEF Mid
<1>9. /\ i \in 1..cur /\ i \in DOMAIN pools /\ pools[i] \in PoolRec /\ Pair(ips, hosts)
      /\ q[c] \in QueryRec /\ h \in Hosts /\ ip \in Nat /\ pools[i].mux = c
      /\ First - 1 <= pools[i].offset /\ pools[i].offset <= pools[i].last
      /\ ~persistent => /\ ips = pools[i].cacheIP /\ Len(ips) <= Size
                        /\ hosts = pools[i].cacheHost /\ Len(hosts) <= Size
      /\ persistent => ips = file.cacheIP /\ hosts = file.cacheHost
  BY <1>1, <1>2, <1>3, <1>4, <1>5, <1>7, <1>8, AtPool
<1>10. [key |-> ip, val |-> h] \in HostEntry
  BY <1>9 DEF HostEntry
<1>11. /\ persistent => nhosts = Pushed(hosts, ip, h)
       /\ ~persistent => nhosts = Set(hosts, ip, h, Size)
  BY <1>6 DEF Put, Pushed
<1>12. nhosts \in Seq(HostEntry) /\ Unique(nhosts) /\ (~persistent => Len(nhosts) <= Size)
  <2>1. CASE persistent
    BY <1>9, <1>10, <1>11, <2>1, PushedOK DEF Pair
  <2>2. CASE ~persistent
    BY <1>9, <1>10, <1>11, <2>2, SetOK DEF Pair
  <2>3. QED BY <2>1, <2>2
<1>13. Pair(ips, nhosts)
  BY <1>9, <1>12 DEF Pair
<1>14. PICK np, nf : /\ Written(i, np, nf, ips, nhosts)
                     /\ np.mux = pools[i].mux /\ np.offset = pools[i].offset
                     /\ np.last = pools[i].last
                     /\ pools' = [pools EXCEPT ![i] = np] /\ file' = nf
  BY <1>7, <1>9, <1>13, StoreForm DEF IInv
<1>15. ASSUME ~persistent, ~raced' PROVE Between("putByHost", ips, nhosts, h, ip)
  <2>1. ~raced
    BY <1>7, <1>15 DEF Race
  <2>2. Between("putByIP", ips, hosts, h, ip)
    BY <1>1, <1>2, <1>3, <1>7, <1>8, <1>9, <1>15, <2>1 DEF IInv, Memory, Holder
  <2>3. Mirror(ips, hosts) /\ ~Exist(ips, h) /\ ~Exist(hosts, ip)
    BY <1>8, <2>2 DEF Between
  <2>4. Mirror(Set(ips, h, ip, Size), nhosts)
    BY <1>9, <1>11, <1>15, <2>3, MirrorPut
  <2>5. QED BY <2>3, <2>4 DEF Between
<1>16. ASSUME persistent, ~raced'
       PROVE  Belong(ips, nhosts, spoilt) /\ FileBetween("putByHost", ips, nhosts, h, ip, spoilt)
  <2>1. ~raced
    BY <1>7, <1>16 DEF Race
  <2>2. Belong(ips, hosts, spoilt)
    BY <1>9, <1>16, <2>1 DEF IInv, OnFile
  <2>3. ip \notin spoilt => \A j \in DOMAIN ips : ips[j].val # ip
    BY <1>3, <1>7, <1>8, <1>9, <1>16, <2>1 DEF IInv, OnFile, FileHolder, FileBetween
  <2>4. QED BY <1>9, <1>11, <1>16, <2>2, <2>3, BelongPutByIP DEF FileBetween
<1>17. q' = [q EXCEPT ![c] = q[c]]
  BY <1>7 DEF IInv, Shape
<1>18. spoilt \in SUBSET Nat
  BY DEF IInv, Shape
<1>19. LookupStep(c, i, "putByHost", q[c], np, nf, ips, nhosts)
  BY <1>1, <1>2, <1>3, <1>7, <1>8, <1>9, <1>12, <1>13, <1>14, <1>15, <1>16, <1>17, <1>18 DEF LookupStep
<1>20. QED BY <1>19, LookupStepOK

\* The host is put in, and the mutex released.
LEMMA PutByHostStep ==
    ASSUME IInv, NEW c \in Callers, PutByHost(c) PROVE IInv'
<1>1. PICK i : i = q[c].pool
  OBVIOUS
<1>2. PICK h : h = q[c].host
  OBVIOUS
<1>3. PICK ip : ip = q[c].ip
  OBVIOUS
<1>4. PICK ips : ips = CacheIP(i)
  OBVIOUS
<1>5. PICK hosts : hosts = CacheHost(i)
  OBVIOUS
<1>6. PICK nips : nips = Put(ips, h, ip)
  OBVIOUS
<1>7. PICK p : p = [pools[i] EXCEPT !.mux = Nobody]
  OBVIOUS
<1>8. /\ pc[c] = "putByHost" /\ Store(i, p, nips, hosts)
      /\ pc' = [pc EXCEPT ![c] = "idle"] /\ q' = [q EXCEPT ![c] = NoQuery]
      /\ Race(Disturbed(c))
      /\ UNCHANGED <<persistent, cur, flush, reload, spoilt>>
  BY <1>1, <1>2, <1>3, <1>4, <1>5, <1>6, <1>7 DEF PutByHost
<1>9. "putByHost" \in Mid /\ "idle" \notin Mid
  BY DEF Mid
<1>10. /\ i \in 1..cur /\ i \in DOMAIN pools /\ pools[i] \in PoolRec /\ Pair(ips, hosts)
       /\ h \in Hosts /\ ip \in Nat /\ pools[i].mux = c
       /\ First - 1 <= pools[i].offset /\ pools[i].offset <= pools[i].last
       /\ ~persistent => /\ ips = pools[i].cacheIP /\ Len(ips) <= Size
                         /\ hosts = pools[i].cacheHost /\ Len(hosts) <= Size
       /\ persistent => ips = file.cacheIP /\ hosts = file.cacheHost
  BY <1>1, <1>2, <1>3, <1>4, <1>5, <1>8, <1>9, AtPool
<1>11. /\ p \in PoolRec /\ p.mux = Nobody /\ p.offset = pools[i].offset /\ p.last = pools[i].last
       /\ p.cacheIP = pools[i].cacheIP /\ p.cacheHost = pools[i].cacheHost
  BY <1>7, <1>10 DEF PoolRec
<1>12. [key |-> h, val |-> ip] \in IPEntry
  BY <1>10 DEF IPEntry
<1>13. /\ persistent => nips = Pushed(ips, h, ip)
       /\ ~persistent => nips = Set(ips, h, ip, Size)
  BY <1>6 DEF Put, Pushed
<1>14. nips \in Seq(IPEntry) /\ Unique(nips) /\ (~persistent => Len(nips) <= Size)
  <2>1. CASE persistent
    BY <1>10, <1>12, <1>13, <2>1, PushedOK DEF Pair
  <2>2. CASE ~persistent
    BY <1>10, <1>12, <1>13, <2>2, SetOK DEF Pair
  <2>3. QED BY <2>1, <2>2
<1>15. Pair(nips, hosts)
  BY <1>10, <1>14 DEF Pair
<1>16. PICK np, nf : /\ Written(i, np, nf, nips, hosts)
                     /\ np.mux = p.mux /\ np.offset = p.offset /\ np.last = p.last
                     /\ pools' = [pools EXCEPT ![i] = np] /\ file' = nf
  BY <1>8, <1>10, <1>11, <1>15, StoreForm DEF IInv
<1>17. ASSUME ~persistent, ~raced' PROVE Mirror(nips, hosts)
  <2>1. ~raced
    BY <1>8, <1>17 DEF Race
  <2>2. Between("putByHost", ips, hosts, h, ip)
    BY <1>1, <1>2, <1>3, <1>8, <1>9, <1>10, <1>17, <2>1 DEF IInv, Memory, Holder
  <2>3. QED BY <1>13, <1>17, <2>2 DEF Between
<1>18. ASSUME persistent, ~raced' PROVE Belong(nips, hosts, spoilt)
  <2>1. ~raced
    BY <1>8, <1>18 DEF Race
  <2>2. Belong(ips, hosts, spoilt)
    BY <1>10, <1>18, <2>1 DEF IInv, OnFile
  <2>3. ip \notin spoilt => Exist(hosts, ip) /\ Value(hosts, ip) = h
    BY <1>2, <1>3, <1>8, <1>9, <1>10, <1>18, <2>1 DEF IInv, OnFile, FileHolder, FileBetween
  <2>4. QED BY <1>10, <1>13, <1>18, <2>2, <2>3, BelongPutByHost
<1>19. NoQuery \in QueryRec
  BY DEF NoQuery, QueryRec
<1>20. spoilt \in SUBSET Nat
  BY DEF IInv, Shape
<1>21. LookupStep(c, i, "idle", NoQuery, np, nf, nips, hosts)
  BY <1>1, <1>8, <1>9, <1>10, <1>11, <1>14, <1>15, <1>16, <1>17, <1>18, <1>19, <1>20
     DEF LookupStep, Between, FileBetween
<1>22. QED BY <1>21, LookupStepOK

\* A write to the cache file fails: the file is as before, and only the pool moves on.
LEMMA FailStep ==
    ASSUME IInv, NEW c \in Callers, pc[c] # "idle", NEW i, i = q[c].pool, NEW p \in PoolRec,
           persistent, Store(i, p, CacheIP(i), CacheHost(i)),
           p.cacheIP = pools[i].cacheIP, p.cacheHost = pools[i].cacheHost,
           p.last = pools[i].last, First - 1 <= p.offset, p.offset <= p.last,
           NEW l \in {"idle"} \cup Mid, NEW nq \in QueryRec,
           l # "idle" => nq.pool = i /\ nq.host \in Hosts,
           pools[i].mux = c, p.mux = IF l \in Mid THEN c ELSE Nobody,
           pc' = [pc EXCEPT ![c] = l], q' = [q EXCEPT ![c] = nq], Race(Disturbed(c)),
           spoilt \subseteq spoilt', spoilt' \subseteq Nat,
           l = "idle" \/ nq.ip \in spoilt',
           UNCHANGED <<persistent, cur, flush, reload>>
    PROVE  IInv'
<1>1. PICK ips : ips = CacheIP(i)
  OBVIOUS
<1>2. PICK hosts : hosts = CacheHost(i)
  OBVIOUS
<1>3. /\ i \in DOMAIN pools /\ pools[i] \in PoolRec /\ Pair(ips, hosts)
      /\ ips = file.cacheIP /\ hosts = file.cacheHost
  BY <1>1, <1>2, AtPool
<1>4. PICK np, nf : /\ Written(i, np, nf, ips, hosts)
                    /\ np.mux = p.mux /\ np.offset = p.offset /\ np.last = p.last
                    /\ pools' = [pools EXCEPT ![i] = np] /\ file' = nf
  BY <1>1, <1>2, <1>3, StoreForm DEF IInv
<1>5. ASSUME ~raced' PROVE Belong(ips, hosts, spoilt')
  <2>1. ~raced
    BY <1>5 DEF Race
  <2>2. Belong(ips, hosts, spoilt)
    BY <1>3, <2>1 DEF IInv, OnFile
  <2>3. QED BY <2>2 DEF Belong
<1>6. FileBetween(l, ips, hosts, nq.host, nq.ip, spoilt')
  BY DEF FileBetween
<1>7. LookupStep(c, i, l, nq, np, nf, ips, hosts)
  BY <1>3, <1>4, <1>5, <1>6 DEF LookupStep
<1>8. QED BY <1>7, LookupStepOK

\* The address could not be taken from its host.
LEMMA AllocFailsStep ==
    ASSUME IInv, NEW c \in Callers, AllocFails(c) PROVE IInv'
<1>1. PICK i : i = q[c].pool
  OBVIOUS
<1>2. PICK ip : ip = NextIP(pools[i])
  OBVIOUS
<1>3. PICK p : p = Advanced(pools[i])
  OBVIOUS
<1>4. /\ pc[c] = "alloc" /\ persistent /\ Store(i, p, CacheIP(i), CacheHost(i))
      /\ spoilt' = spoilt \cup {ip}
      /\ q' = [q EXCEPT ![c].ip = ip] /\ pc' = [pc EXCEPT ![c] = "putByIP"]
      /\ Race(Disturbed(c))
      /\ UNCHANGED <<persistent, cur, flush, reload>>
  BY <1>1, <1>2, <1>3 DEF AllocFails
<1>5. "alloc" \in Mid /\ "putByIP" \in Mid /\ "putByIP" # "idle"
  BY DEF Mid
<1>6. /\ pools[i] \in PoolRec /\ q[c] \in QueryRec /\ q[c].host \in Hosts /\ pools[i].mux = c
      /\ First < pools[i].last /\ First - 1 <= pools[i].offset /\ pools[i].offset <= pools[i].last
  BY <1>1, <1>4, <1>5, AtPool
<1>7. /\ ip \in Nat /\ First - 1 <= ip /\ ip <= pools[i].last
      /\ p \in PoolRec /\ p.offset = ip /\ p.mux = c /\ p.last = pools[i].last
      /\ p.cacheIP = pools[i].cacheIP /\ p.cacheHost = pools[i].cacheHost
  BY <1>2, <1>3, <1>6, AdvancedOK
<1>8. PICK nq : nq = [q[c] EXCEPT !.ip = ip]
  OBVIOUS
<1>9. nq \in QueryRec /\ nq.pool = i /\ nq.host \in Hosts /\ nq.ip = ip
  BY <1>1, <1>6, <1>7, <1>8 DEF QueryRec
<1>10. q' = [q EXCEPT ![c] = nq]
  BY <1>4, <1>8
<1>11. spoilt \subseteq spoilt' /\ spoilt' \subseteq Nat /\ ip \in spoilt'
  BY <1>4, <1>7 DEF IInv, Shape
<1>12. First - 1 <= p.offset /\ p.offset <= p.last /\ p.mux = IF "putByIP" \in Mid THEN c ELSE Nobody
  BY <1>5, <1>7
<1>13. /\ pc[c] # "idle" /\ persistent /\ Store(i, p, CacheIP(i), CacheHost(i))
       /\ pc' = [pc EXCEPT ![c] = "putByIP"] /\ q' = [q EXCEPT ![c] = nq] /\ Race(Disturbed(c))
       /\ UNCHANGED <<persistent, cur, flush, reload>>
  BY <1>4, <1>10
<1>14. p \in PoolRec /\ p.cacheIP = pools[i].cacheIP /\ p.cacheHost = pools[i].cacheHost
       /\ p.last = pools[i].last /\ pools[i].mux = c
  BY <1>6, <1>7
<1>15. "putByIP" \in {"idle"} \cup Mid /\ nq \in QueryRec /\ nq.pool = i /\ nq.host \in Hosts
       /\ nq.ip \in spoilt' /\ spoilt \subseteq spoilt' /\ spoilt' \subseteq Nat
  BY <1>5, <1>9, <1>11
<1>16. QED BY <1>1, <1>12, <1>13, <1>14, <1>15, FailStep

\* The address could not be put in.
LEMMA PutByIPFailsStep ==
    ASSUME IInv, NEW c \in Callers, PutByIPFails(c) PROVE IInv'
<1>1. PICK i : i = q[c].pool
  OBVIOUS
<1>2. /\ pc[c] = "putByIP" /\ persistent /\ Store(i, pools[i], CacheIP(i), CacheHost(i))
      /\ spoilt' = spoilt \cup {q[c].ip}
      /\ pc' = [pc EXCEPT ![c] = "putByHost"]
      /\ Race(Disturbed(c))
      /\ UNCHANGED <<persistent, cur, q, flush, reload>>
  BY <1>1 DEF PutByIPFails
<1>3. "putByIP" \in Mid /\ "putByHost" \in Mid /\ "putByHost" # "idle"
  BY DEF Mid
<1>4. /\ pools[i] \in PoolRec /\ q[c] \in QueryRec /\ q[c].host \in Hosts /\ pools[i].mux = c
      /\ q[c].ip \in Nat
      /\ First - 1 <= pools[i].offset /\ pools[i].offset <= pools[i].last
  BY <1>1, <1>2, <1>3, AtPool
<1>5. q' = [q EXCEPT ![c] = q[c]]
  BY <1>2 DEF IInv, Shape
<1>6. spoilt \subseteq spoilt' /\ spoilt' \subseteq Nat /\ q[c].ip \in spoilt'
  BY <1>2, <1>4 DEF IInv, Shape
<1>7. QED BY <1>1, <1>2, <1>3, <1>4, <1>5, <1>6, FailStep

\* The host could not be put in.
LEMMA PutByHostFailsStep ==
    ASSUME IInv, NEW c \in Callers, PutByHostFails(c) PROVE IInv'
<1>1. PICK i : i = q[c].pool
  OBVIOUS
<1>2. PICK p : p = [pools[i] EXCEPT !.mux = Nobody]
  OBVIOUS
<1>3. /\ pc[c] = "putByHost" /\ persistent /\ Store(i, p, CacheIP(i), CacheHost(i))
      /\ pc' = [pc EXCEPT ![c] = "idle"] /\ q' = [q EXCEPT ![c] = NoQuery]
      /\ Race(Disturbed(c))
      /\ UNCHANGED <<persistent, cur, flush, reload, spoilt>>
  BY <1>1, <1>2 DEF PutByHostFails
<1>4. "putByHost" \in Mid /\ "idle" \notin Mid
  BY DEF Mid
<1>5. /\ pools[i] \in PoolRec /\ pools[i].mux = c
      /\ First - 1 <= pools[i].offset /\ pools[i].offset <= pools[i].last
  BY <1>1, <1>3, <1>4, AtPool
<1>6. /\ p \in PoolRec /\ p.mux = Nobody /\ p.offset = pools[i].offset /\ p.last = pools[i].last
      /\ p.cacheIP = pools[i].cacheIP /\ p.cacheHost = pools[i].cacheHost
  BY <1>2, <1>5 DEF PoolRec
<1>7. NoQuery \in QueryRec
  BY DEF NoQuery, QueryRec
<1>8. spoilt \subseteq spoilt' /\ spoilt' \subseteq Nat
  BY <1>3 DEF IInv, Shape
<1>9. QED BY <1>1, <1>3, <1>4, <1>5, <1>6, <1>7, <1>8, FailStep

\* A query reaches the pool in use.
LEMMA QueryStep ==
    ASSUME IInv, NEW c \in Callers, NEW h \in Hosts, Query(c, h) PROVE IInv'
<1>1. PICK nq : nq = [pool |-> cur, host |-> h, ip |-> 0]
  OBVIOUS
<1>2. /\ pc[c] = "idle" /\ pc' = [pc EXCEPT ![c] = "lookup"] /\ q' = [q EXCEPT ![c] = nq]
      /\ UNCHANGED <<persistent, pools, file, cur, flush, reload, raced, spoilt>>
  BY <1>1 DEF Query
<1>3. cur \in 1..cur /\ cur \in Nat
  BY DEF IInv, Places, Shape
<1>4. nq \in QueryRec /\ nq.pool \in 1..cur /\ nq.host \in Hosts
  BY <1>1, <1>3 DEF QueryRec
<1>5. /\ pc'[c] = "lookup" /\ q'[c] = nq /\ pc' \in [Callers -> {"idle", "lookup"} \cup Mid]
      /\ q' \in [Callers -> QueryRec]
      /\ \A d \in Callers \ {c} : pc'[d] = pc[d] /\ q'[d] = q[d]
  BY <1>2, <1>4 DEF IInv, Shape
<1>6. "lookup" \notin Mid /\ "idle" \notin Mid
  BY DEF Mid
<1>7. \A d \in Callers : /\ pc'[d] \in Mid <=> pc[d] \in Mid
                         /\ pc[d] \in Mid => pc'[d] = pc[d] /\ q'[d] = q[d]
  BY <1>2, <1>5, <1>6
<1>8. Shape'
  BY <1>2, <1>5 DEF IInv, Shape
<1>9. Places'
  BY <1>2, <1>4, <1>5 DEF IInv, Places
<1>10. Offsets' /\ Lists'
  BY <1>2 DEF IInv, Offsets, Lists
<1>11. Mutex'
  BY <1>2, <1>7 DEF IInv, Mutex
<1>12. Busy' <=> Busy
  BY <1>7 DEF Busy
<1>13. Memory'
  <2>1. SUFFICES ASSUME ~persistent, ~raced PROVE Memory'
    BY <1>2 DEF Memory
  <2>2. \A d \in Callers : Holder(d)'
    BY <1>2, <1>7, <2>1 DEF IInv, Memory, Holder
  <2>3. QED BY <1>2, <1>12, <2>1, <2>2 DEF IInv, Memory, Agree
<1>14. OnFile'
  BY <1>2, <1>7 DEF IInv, OnFile, FileHolder
<1>15. QED BY <1>8, <1>9, <1>10, <1>11, <1>13, <1>14 DEF IInv

\* The tunnel asks for the host of an address.
LEMMA LookBackStep ==
    ASSUME IInv, NEW ip, LookBack(ip) PROVE IInv'
<1>1. PICK ips : ips = CacheIP(cur)
  OBVIOUS
<1>2. PICK hosts : hosts = CacheHost(cur)
  OBVIOUS
<1>3. PICK h : h = Value(hosts, ip)
  OBVIOUS
<1>4. /\ pools[cur].mux = Nobody /\ Exist(hosts, ip)
      /\ Store(cur, pools[cur], Touched(ips, h), Touched(hosts, ip))
      /\ raced' = (raced \/ (flush.at # "idle" \/ reload = "ip"))
      /\ UNCHANGED <<persistent, cur, pc, q, flush, reload, spoilt>>
  BY <1>1, <1>2, <1>3 DEF LookBack, Race
<1>5. cur \in DOMAIN pools /\ DOMAIN pools = 1..Len(pools) /\ Len(pools) \in Nat /\ pools[cur] \in PoolRec
  BY DEF IInv, Places, Shape
<1>6. /\ Pair(ips, hosts)
      /\ ~persistent => /\ ips = pools[cur].cacheIP /\ Len(ips) <= Size
                        /\ hosts = pools[cur].cacheHost /\ Len(hosts) <= Size
      /\ persistent => ips = file.cacheIP /\ hosts = file.cacheHost
  BY <1>1, <1>2, <1>5, Current DEF IInv
<1>7. PICK nips : nips = Touched(ips, h)
  OBVIOUS
<1>8. PICK nhosts : nhosts = Touched(hosts, ip)
  OBVIOUS
<1>9. nips \in Seq(IPEntry) /\ Unique(nips) /\ Len(nips) = Len(ips)
  BY <1>6, <1>7, EntryForm, TouchOK DEF Touched, Pair
<1>10. nhosts \in Seq(HostEntry) /\ Unique(nhosts) /\ Len(nhosts) = Len(hosts)
  BY <1>6, <1>8, EntryForm, TouchOK DEF Touched, Pair
<1>11. Pair(nips, nhosts)
  BY <1>9, <1>10 DEF Pair
<1>12. PICK np, nf : /\ Written(cur, np, nf, nips, nhosts)
                     /\ np.mux = pools[cur].mux /\ np.offset = pools[cur].offset
                     /\ np.last = pools[cur].last
                     /\ pools' = [pools EXCEPT ![cur] = np] /\ file' = nf
  BY <1>4, <1>5, <1>7, <1>8, <1>11, StoreForm DEF IInv
<1>13. np \in PoolRec /\ nf \in FileRec /\ nf.offset = file.offset
  BY <1>12 DEF Written
<1>14. /\ pools' \in Seq(PoolRec) /\ Len(pools') = Len(pools) /\ DOMAIN pools' = DOMAIN pools
       /\ pools'[cur] = np /\ \A j \in DOMAIN pools \ {cur} : pools'[j] = pools[j]
  BY <1>5, <1>12, <1>13, OnePool DEF IInv
<1>15. raced' \in BOOLEAN
  BY <1>4, Zenon DEF IInv, Shape
<1>16. Shape'
  BY <1>4, <1>12, <1>13, <1>14, <1>15 DEF IInv, Shape
<1>17. Places'
  BY <1>4, <1>14 DEF IInv, Places
<1>18. Offsets'
  BY <1>12, <1>13, <1>14 DEF IInv, Offsets
<1>19. Mutex'
  BY <1>4, <1>12, <1>14 DEF IInv, Mutex
<1>20. Lists'
  <2>1. /\ Unique(np.cacheIP) /\ Len(np.cacheIP) <= Size
        /\ Unique(np.cacheHost) /\ Len(np.cacheHost) <= Size
    BY <1>5, <1>6, <1>9, <1>10, <1>12 DEF Written, IInv, Lists
  <2>2. Unique(nf.cacheIP) /\ Unique(nf.cacheHost)
    BY <1>9, <1>10, <1>12 DEF Written, IInv, Lists
  <2>3. QED BY <1>12, <1>14, <2>1, <2>2 DEF IInv, Lists
<1>21. Memory'
  <2>1. SUFFICES ASSUME ~persistent, ~raced' PROVE Memory'
    BY <1>4 DEF Memory
  <2>2. ~raced /\ flush.at = "idle" /\ reload # "ip"
    BY <1>4, <2>1
  <2>3. np.cacheIP = nips /\ np.cacheHost = nhosts
    BY <1>12, <2>1 DEF Written
  <2>4. Mirror(ips, hosts)
    BY <1>4, <1>5, <1>6, <2>1, <2>2 DEF IInv, Memory, Agree
  <2>5. Mirror(nips, nhosts)
    BY <1>3, <1>4, <1>6, <1>7, <1>8, <2>1, <2>4, MirrorTouch DEF Touched
  <2>6. ASSUME NEW j \in 1..cur, pools'[j].mux = Nobody PROVE Agree(j)'
    <3>1. CASE j = cur
      BY <1>14, <2>3, <2>5, <3>1 DEF Agree
    <3>2. CASE j # cur
      <4>1. pools'[j] = pools[j]
        BY <1>5, <1>14, <3>2
      <4>2. Agree(j)
        BY <2>1, <2>2, <2>6, <4>1 DEF IInv, Memory
      <4>3. QED BY <4>1, <4>2 DEF Agree
    <3>3. QED BY <3>1, <3>2
  <2>7. ASSUME NEW d \in Callers PROVE Holder(d)'
    <3>1. SUFFICES ASSUME pc[d] \in Mid PROVE Holder(d)'
      BY <1>4 DEF Holder
    <3>2. q[d].pool \in DOMAIN pools /\ pools[q[d].pool].mux = d
      BY <1>5, <3>1 DEF IInv, Places, Mutex, Mid
    <3>3. q[d].pool # cur
      BY <1>4, <3>2, FakeIPAssumption
    <3>4. Holder(d)
      BY <2>1, <2>2 DEF IInv, Memory
    <3>5. QED BY <1>4, <1>14, <3>2, <3>3, <3>4 DEF Holder
  <2>8. ASSUME reload \in {"host", "swap"} PROVE Agree(Len(pools))'
    <3>1. Len(pools) # cur /\ Len(pools) \in DOMAIN pools
      BY <1>5, <2>8 DEF IInv, Places
    <3>2. Agree(Len(pools))
      BY <2>1, <2>2, <2>8 DEF IInv, Memory
    <3>3. QED BY <1>14, <3>1, <3>2 DEF Agree
  <2>9. QED BY <1>4, <1>14, <2>2, <2>6, <2>7, <2>8 DEF Memory, Agree
<1>22. OnFile'
  <2>1. SUFFICES ASSUME persistent, ~raced' PROVE OnFile'
    BY <1>4 DEF OnFile
  <2>2. nf.cacheIP = file.cacheIP /\ nf.cacheHost = file.cacheHost /\ ~raced
    BY <1>4, <1>6, <1>7, <1>8, <1>12, <2>1 DEF Written, Touched
  <2>3. QED BY <1>4, <1>12, <2>1, <2>2 DEF IInv, OnFile, FileHolder
<1>23. QED BY <1>16, <1>17, <1>18, <1>19, <1>20, <1>21, <1>22 DEF IInv

-----------------------------------------------------------------------------
(* Flush, reload and restart.                                               *)

\* The pools that there are.
LEMMA Pools ==
    ASSUME IInv
    PROVE  /\ DOMAIN pools = 1..Len(pools) /\ Len(pools) \in Nat /\ cur \in DOMAIN pools
           /\ \A i \in DOMAIN pools : pools[i] \in PoolRec
           /\ \A i \in 1..cur : i \in DOMAIN pools
           /\ reload # "idle" => Len(pools) = cur + 1 /\ Len(pools) \notin 1..cur
           /\ Len(pools) \in DOMAIN pools
           /\ \A c \in Callers : pc[c] \in Mid => q[c].pool \in 1..cur
           /\ file \in FileRec
<1>1. DOMAIN pools = 1..Len(pools) /\ Len(pools) \in Nat /\ cur \in DOMAIN pools
  BY DEF IInv, Shape, Places
<1>2. \A i \in DOMAIN pools : pools[i] \in PoolRec
  BY DEF IInv, Shape
<1>3. reload # "idle" => Len(pools) = cur + 1
  BY DEF IInv, Places
<1>4. \A c \in Callers : pc[c] \in Mid => q[c].pool \in 1..cur
  BY DEF IInv, Places, Mid
<1>5. file \in FileRec
  BY DEF IInv, Shape
<1>6. QED BY <1>1, <1>2, <1>3, <1>4, <1>5

\* Nobody holds a mutex when no Lookup is allocating.
LEMMA NotBusy ==
    ASSUME IInv, ~Busy
    PROVE  \A i \in DOMAIN pools : pools[i].mux = Nobody
<1>1. \A i \in DOMAIN pools : pools[i] \in PoolRec
  BY Pools
<1>2. \A i \in DOMAIN pools : \A c \in Callers : pools[i].mux # c
  BY DEF IInv, Mutex, Busy
<1>3. QED BY <1>1, <1>2 DEF PoolRec

\* The lists of an empty cache.
LEMMA Nothing ==
    /\ <<>> \in Seq(IPEntry) /\ <<>> \in Seq(HostEntry) /\ Unique(<<>>) /\ Len(<<>>) = 0
    /\ Mirror(<<>>, <<>>)
    /\ \A hosts, bad : Belong(<<>>, hosts, bad)
    /\ EmptyFile \in FileRec /\ EmptyFile.cacheIP = <<>> /\ EmptyFile.cacheHost = <<>>
    /\ EmptyFile.offset = NoOffset
<1>1. <<>> \in Seq(IPEntry) /\ <<>> \in Seq(HostEntry) /\ Unique(<<>>) /\ Len(<<>>) = 0
  BY DEF Unique
<1>2. Mirror(<<>>, <<>>) /\ \A hosts, bad : Belong(<<>>, hosts, bad)
  BY DEF Mirror, Belong
<1>3. EmptyFile.cacheIP = <<>> /\ EmptyFile.cacheHost = <<>> /\ EmptyFile.offset = NoOffset
  BY DEF EmptyFile
<1>4. FALSE \in BOOLEAN
  BY Zenon
<1>5. EmptyFile \in FileRec
  BY <1>1, <1>4 DEF EmptyFile, FileRec, NoOffset
<1>6. QED BY <1>1, <1>2, <1>3, <1>5

\* A step that changes, of one pool, the caches only, and neither the file nor any Lookup.
CacheStep(i, np) ==
    /\ ~persistent
    /\ pools' = [pools EXCEPT ![i] = np] /\ np \in PoolRec
    /\ np.mux = pools[i].mux /\ np.offset = pools[i].offset /\ np.last = pools[i].last
    /\ Unique(np.cacheIP) /\ Len(np.cacheIP) <= Size
    /\ Unique(np.cacheHost) /\ Len(np.cacheHost) <= Size
    /\ flush' \in [at : {"idle", "ip", "offset"}, pool : Nat]
    /\ flush'.at # "idle" => flush'.pool \in 1..cur
    /\ reload' \in {"idle", "host", "ip", "swap"} /\ (reload' = "idle" <=> reload = "idle")
    /\ raced' \in BOOLEAN
    /\ UNCHANGED <<persistent, file, cur, pc, q, spoilt>>

\* It keeps everything but what is said of the contents of the caches.
LEMMA CacheStepOK ==
    ASSUME IInv, NEW i \in DOMAIN pools, NEW np, CacheStep(i, np)
    PROVE  /\ Shape' /\ Places' /\ Offsets' /\ Mutex' /\ Lists' /\ OnFile'
           /\ Len(pools') = Len(pools) /\ DOMAIN pools' = DOMAIN pools
           /\ pools'[i] = np /\ \A j \in DOMAIN pools \ {i} : pools'[j] = pools[j]
           /\ \A j \in DOMAIN pools : pools'[j].mux = pools[j].mux
           /\ Busy' = Busy
<1>1. /\ pools' \in Seq(PoolRec) /\ Len(pools') = Len(pools) /\ DOMAIN pools' = DOMAIN pools
      /\ pools'[i] = np /\ \A j \in DOMAIN pools \ {i} : pools'[j] = pools[j]
  BY OnePool DEF CacheStep, IInv
<1>2. \A j \in DOMAIN pools : pools'[j].mux = pools[j].mux
  BY <1>1 DEF CacheStep
<1>3. Shape'
  BY <1>1 DEF CacheStep, IInv, Shape
<1>4. Places'
  BY <1>1 DEF CacheStep, IInv, Places
<1>5. Offsets'
  BY <1>1 DEF CacheStep, IInv, Offsets
<1>6. Mutex'
  BY <1>1, <1>2 DEF CacheStep, IInv, Mutex
<1>7. Lists'
  BY <1>1 DEF CacheStep, IInv, Lists
<1>8. OnFile'
  BY DEF CacheStep, OnFile
<1>9. Busy' = Busy
  BY DEF CacheStep, Busy
<1>10. QED BY <1>1, <1>2, <1>3, <1>4, <1>5, <1>6, <1>7, <1>8, <1>9

\* FlushFakeIP empties the file, or begins to empty the caches.
LEMMA FlushStep ==
    ASSUME IInv, Flush PROVE IInv'
<1>1. /\ flush.at = "idle" /\ raced' = (raced \/ (Busy \/ reload = "ip"))
      /\ UNCHANGED <<persistent, cur, pc, q, reload>>
  BY DEF Flush, Race
<1>2. raced' \in BOOLEAN
  BY <1>1, Zenon DEF IInv, Shape
<1>3. CASE persistent
  <2>1. file' = EmptyFile /\ flush' = [at |-> "offset", pool |-> cur] /\ spoilt' = {} /\ UNCHANGED pools
    BY <1>3 DEF Flush, FlushAt
  <2>2. cur \in 1..cur /\ cur \in Nat
    BY Pools
  <2>3. flush' \in [at : {"idle", "ip", "offset"}, pool : Nat] /\ flush'.at = "offset" /\ flush'.pool = cur
    BY <2>1, <2>2
  <2>4. Shape' /\ Places' /\ Offsets' /\ Mutex' /\ Lists'
    <3>1. Shape'
      BY <1>1, <1>2, <2>1, <2>3, Nothing DEF IInv, Shape
    <3>2. Places'
      BY <1>1, <2>1, <2>2, <2>3 DEF IInv, Places
    <3>3. Offsets' /\ Mutex' /\ Lists'
      BY <1>1, <2>1, Nothing DEF IInv, Offsets, Mutex, Lists
    <3>4. QED BY <3>1, <3>2, <3>3
  <2>5. Memory'
    BY <1>1, <1>3 DEF Memory
  <2>6. OnFile'
    <3>1. SUFFICES ASSUME ~raced' PROVE OnFile'
      BY DEF OnFile
    <3>2. \A c \in Callers : pc'[c] \notin Mid
      BY <1>1, <3>1 DEF Busy
    <3>3. Belong(file'.cacheIP, file'.cacheHost, spoilt')
      BY <2>1, Nothing
    <3>4. QED BY <3>2, <3>3 DEF OnFile, FileHolder
  <2>7. QED BY <2>4, <2>5, <2>6 DEF IInv
<1>4. CASE ~persistent
  <2>1. /\ pools' = [pools EXCEPT ![cur].cacheIP = <<>>] /\ flush' = [at |-> "ip", pool |-> cur]
        /\ UNCHANGED <<file, spoilt>>
    BY <1>4 DEF Flush, FlushAt
  <2>2. /\ cur \in 1..cur /\ cur \in Nat /\ cur \in DOMAIN pools /\ pools[cur] \in PoolRec
        /\ \A i \in 1..cur : i \in DOMAIN pools
        /\ reload # "idle" => Len(pools) # cur
        /\ Len(pools) \in DOMAIN pools
    BY Pools
  <2>3. flush' \in [at : {"idle", "ip", "offset"}, pool : Nat] /\ flush'.at = "ip" /\ flush'.pool = cur
    BY <2>1, <2>2
  <2>4. PICK np : np = [pools[cur] EXCEPT !.cacheIP = <<>>]
    OBVIOUS
  <2>5. /\ np \in PoolRec /\ np.cacheIP = <<>> /\ np.cacheHost = pools[cur].cacheHost
        /\ np.mux = pools[cur].mux /\ np.offset = pools[cur].offset /\ np.last = pools[cur].last
    BY <2>2, <2>4, Nothing DEF PoolRec
  <2>6. /\ Unique(np.cacheIP) /\ Len(np.cacheIP) <= Size
        /\ Unique(np.cacheHost) /\ Len(np.cacheHost) <= Size
    BY <2>2, <2>5, Nothing, FakeIPAssumption DEF IInv, Lists
  <2>7. reload \in {"idle", "host", "ip", "swap"}
    BY DEF IInv, Shape
  <2>8. pools' = [pools EXCEPT ![cur] = np]
    BY <2>1, <2>4
  <2>9. CacheStep(cur, np)
    BY <1>1, <1>2, <1>4, <2>1, <2>2, <2>3, <2>5, <2>6, <2>7, <2>8 DEF CacheStep
  <2>10. /\ Shape' /\ Places' /\ Offsets' /\ Mutex' /\ Lists' /\ OnFile'
         /\ Len(pools') = Len(pools) /\ Busy' = Busy
         /\ pools'[cur] = np /\ \A j \in DOMAIN pools \ {cur} : pools'[j] = pools[j]
    BY <2>2, <2>9, CacheStepOK
  <2>11. Memory'
    <3>1. SUFFICES ASSUME ~raced' PROVE Memory'
      BY DEF Memory
    <3>2. ~raced /\ ~Busy /\ reload # "ip"
      BY <1>1, <3>1
    <3>3. \A c \in Callers : Holder(c)'
      BY <2>10, <3>2 DEF Busy, Holder
    <3>4. ASSUME NEW j \in 1..cur, j # cur PROVE Agree(j)'
      <4>1. pools[j].mux = Nobody /\ pools'[j] = pools[j]
        BY <2>2, <2>10, <3>2, <3>4, NotBusy
      <4>2. Agree(j)
        BY <1>1, <1>4, <3>2, <4>1 DEF IInv, Memory
      <4>3. QED BY <4>1, <4>2 DEF Agree
    <3>5. ASSUME reload \in {"host", "swap"} PROVE Agree(Len(pools))'
      <4>1. pools'[Len(pools)] = pools[Len(pools)]
        BY <2>2, <2>10, <3>5
      <4>2. Agree(Len(pools))
        BY <1>4, <3>2, <3>5 DEF IInv, Memory
      <4>3. QED BY <2>10, <4>1, <4>2 DEF Agree
    <3>6. QED BY <1>1, <2>3, <2>5, <2>10, <3>2, <3>3, <3>4, <3>5 DEF Memory, Agree
  <2>12. QED BY <2>10, <2>11 DEF IInv
<1>5. QED BY <1>3, <1>4

\* The second cache is emptied.
LEMMA FlushHostsStep ==
    ASSUME IInv, FlushHosts PROVE IInv'
<1>1. PICK i : i = flush.pool
  OBVIOUS
<1>2. /\ flush.at = "ip" /\ pools' = [pools EXCEPT ![i].cacheHost = <<>>]
      /\ flush' = [at |-> "offset", pool |-> i] /\ raced' = (raced \/ (Busy \/ reload = "ip"))
      /\ UNCHANGED <<persistent, file, cur, pc, q, reload, spoilt>>
  BY <1>1 DEF FlushHosts, FlushAt, Race
<1>3. raced' \in BOOLEAN
  BY <1>2, Zenon DEF IInv, Shape
<1>4. i \in 1..cur /\ ~persistent /\ i \in Nat
  BY <1>1, <1>2, Pools DEF IInv, Places
<1>5. /\ i \in DOMAIN pools /\ pools[i] \in PoolRec
      /\ \A j \in 1..cur : j \in DOMAIN pools
      /\ reload # "idle" => Len(pools) # i
      /\ Len(pools) \in DOMAIN pools
  BY <1>4, Pools
<1>6. flush' \in [at : {"idle", "ip", "offset"}, pool : Nat] /\ flush'.at = "offset" /\ flush'.pool = i
  BY <1>2, <1>4
<1>7. PICK np : np = [pools[i] EXCEPT !.cacheHost = <<>>]
  OBVIOUS
<1>8. /\ np \in PoolRec /\ np.cacheHost = <<>> /\ np.cacheIP = pools[i].cacheIP
      /\ np.mux = pools[i].mux /\ np.offset = pools[i].offset /\ np.last = pools[i].last
  BY <1>5, <1>7, Nothing DEF PoolRec
<1>9. /\ Unique(np.cacheIP) /\ Len(np.cacheIP) <= Size
      /\ Unique(np.cacheHost) /\ Len(np.cacheHost) <= Size
  BY <1>5, <1>8, Nothing, FakeIPAssumption DEF IInv, Lists
<1>10. reload \in {"idle", "host", "ip", "swap"}
  BY DEF IInv, Shape
<1>11. pools' = [pools EXCEPT ![i] = np]
  BY <1>2, <1>7
<1>12. CacheStep(i, np)
  BY <1>2, <1>3, <1>4, <1>6, <1>8, <1>9, <1>10, <1>11 DEF CacheStep
<1>13. /\ Shape' /\ Places' /\ Offsets' /\ Mutex' /\ Lists' /\ OnFile'
       /\ Len(pools') = Len(pools) /\ Busy' = Busy
       /\ pools'[i] = np /\ \A j \in DOMAIN pools \ {i} : pools'[j] = pools[j]
  BY <1>5, <1>12, CacheStepOK
<1>14. Memory'
  <2>1. SUFFICES ASSUME ~raced' PROVE Memory'
    BY DEF Memory
  <2>2. ~raced /\ ~Busy /\ reload # "ip"
    BY <1>2, <2>1
  <2>3. \A c \in Callers : Holder(c)'
    BY <1>13, <2>2 DEF Busy, Holder
  <2>4. ASSUME NEW j \in 1..cur PROVE Agree(j)'
    <3>1. CASE j = i
      <4>1. pools[i].cacheIP = <<>>
        BY <1>1, <1>2, <1>4, <2>2 DEF IInv, Memory
      <4>2. QED BY <1>8, <1>13, <3>1, <4>1, Nothing DEF Agree
    <3>2. CASE j # i
      <4>1. pools[j].mux = Nobody /\ pools'[j] = pools[j]
        BY <1>5, <1>13, <2>2, <3>2, NotBusy
      <4>2. Agree(j)
        BY <1>1, <1>4, <2>2, <3>2, <4>1 DEF IInv, Memory
      <4>3. QED BY <4>1, <4>2 DEF Agree
    <3>3. QED BY <3>1, <3>2
  <2>5. ASSUME reload \in {"host", "swap"} PROVE Agree(Len(pools))'
    <3>1. pools'[Len(pools)] = pools[Len(pools)]
      BY <1>5, <1>13, <2>5
    <3>2. Agree(Len(pools))
      BY <1>4, <2>2, <2>5 DEF IInv, Memory
    <3>3. QED BY <1>13, <3>1, <3>2 DEF Agree
  <2>6. QED BY <1>2, <1>6, <1>13, <2>2, <2>3, <2>4, <2>5 DEF Memory, Agree
<1>15. QED BY <1>13, <1>14 DEF IInv

\* The offset is set back, or only the cycle.
LEMMA FlushOffsetStep ==
    ASSUME IInv, FlushOffset PROVE IInv'
<1>1. PICK i : i = flush.pool
  OBVIOUS
<1>2. /\ flush.at = "offset" /\ flush' = [at |-> "idle", pool |-> 0] /\ raced' = (raced \/ Busy)
      /\ \/ pools' = [pools EXCEPT ![i].cycle = FALSE, ![i].offset = First - 1]
         \/ pools' = [pools EXCEPT ![i].cycle = FALSE]
      /\ UNCHANGED <<persistent, file, cur, pc, q, reload, spoilt>>
  BY <1>1 DEF FlushOffset, FlushAt, Race
<1>3. raced' \in BOOLEAN
  BY <1>2, Zenon DEF IInv, Shape
<1>4. i \in 1..cur
  BY <1>1, <1>2 DEF IInv, Places
<1>5. i \in DOMAIN pools /\ pools[i] \in PoolRec /\ \A j \in 1..cur : j \in DOMAIN pools
  BY <1>4, Pools
<1>6. First - 1 \in Nat
  BY FakeIPAssumption
<1>7. FALSE \in BOOLEAN
  BY Zenon
<1>8. PICK p1 : p1 = [pools[i] EXCEPT !.cycle = FALSE]
  OBVIOUS
<1>9. /\ p1 \in PoolRec /\ p1.mux = pools[i].mux /\ p1.offset = pools[i].offset
      /\ p1.last = pools[i].last
      /\ p1.cacheIP = pools[i].cacheIP /\ p1.cacheHost = pools[i].cacheHost
  BY <1>5, <1>7, <1>8 DEF PoolRec
<1>10. PICK p2 : p2 = [p1 EXCEPT !.offset = First - 1]
  OBVIOUS
<1>11. /\ p2 \in PoolRec /\ p2.mux = pools[i].mux /\ p2.offset = First - 1
       /\ p2.last = pools[i].last
       /\ p2.cacheIP = pools[i].cacheIP /\ p2.cacheHost = pools[i].cacheHost
  BY <1>6, <1>9, <1>10 DEF PoolRec
<1>12. PICK np : np \in {p1, p2} /\ pools' = [pools EXCEPT ![i] = np]
  <2>1. CASE pools' = [pools EXCEPT ![i].cycle = FALSE]
    BY <1>8, <2>1
  <2>2. CASE pools' = [pools EXCEPT ![i].cycle = FALSE, ![i].offset = First - 1]
    <3>1. PICK m : m = [pools EXCEPT ![i].cycle = FALSE]
      OBVIOUS
    <3>2. m = [pools EXCEPT ![i] = p1]
      BY <1>8, <3>1
    <3>3. pools' = [m EXCEPT ![i].offset = First - 1]
      BY <2>2, <3>1
    <3>4. m[i] = p1
      BY <1>5, <3>2
    <3>5. pools' = [m EXCEPT ![i] = p2]
      BY <1>10, <3>3, <3>4
    <3>6. pools' = [pools EXCEPT ![i] = p2]
      BY <3>2, <3>5
    <3>7. QED BY <3>6
  <2>3. QED BY <1>2, <2>1, <2>2
<1>13. /\ pools' \in Seq(PoolRec) /\ Len(pools') = Len(pools) /\ DOMAIN pools' = DOMAIN pools
       /\ pools'[i] = np /\ \A j \in DOMAIN pools \ {i} : pools'[j] = pools[j]
  BY <1>5, <1>9, <1>11, <1>12, OnePool DEF IInv
<1>14. \A j \in DOMAIN pools : /\ pools'[j].mux = pools[j].mux /\ pools'[j].last = pools[j].last
                               /\ pools'[j].cacheIP = pools[j].cacheIP
                               /\ pools'[j].cacheHost = pools[j].cacheHost
  BY <1>9, <1>11, <1>12, <1>13
<1>15. flush' \in [at : {"idle", "ip", "offset"}, pool : Nat] /\ flush'.at = "idle"
  BY <1>2
<1>16. Shape'
  BY <1>2, <1>3, <1>13, <1>15 DEF IInv, Shape
<1>17. Places'
  BY <1>2, <1>13, <1>15 DEF IInv, Places
<1>18. Offsets'
  <2>1. First \in Nat /\ pools[i].last \in Nat
    BY <1>5, FakeIPAssumption DEF PoolRec
  <2>2. First < np.last /\ First - 1 <= np.offset /\ np.offset <= np.last
    BY <1>5, <1>9, <1>11, <1>12, <2>1 DEF IInv, Offsets
  <2>3. QED BY <1>2, <1>13, <2>2 DEF IInv, Offsets
<1>19. Mutex' /\ Lists'
  BY <1>2, <1>13, <1>14 DEF IInv, Mutex, Lists
<1>20. Busy' = Busy
  BY <1>2 DEF Busy
<1>21. Memory'
  <2>1. SUFFICES ASSUME ~persistent, ~raced' PROVE Memory'
    BY <1>2 DEF Memory
  <2>2. ~raced /\ ~Busy
    BY <1>2, <2>1
  <2>3. \A c \in Callers : Holder(c)'
    BY <1>20, <2>2 DEF Busy, Holder
  <2>4. \A j \in DOMAIN pools : Agree(j)' <=> Agree(j)
    BY <1>14 DEF Agree
  <2>5. \A j \in 1..cur : Agree(j)
    BY <1>2, <1>5, <2>1, <2>2, NotBusy DEF IInv, Memory
  <2>6. Len(pools) \in DOMAIN pools /\ cur \in DOMAIN pools
    BY Pools
  <2>7. QED BY <1>2, <1>5, <1>13, <1>14, <1>15, <2>1, <2>2, <2>3, <2>4, <2>5, <2>6
            DEF IInv, Memory, Agree
<1>22. OnFile'
  BY <1>2 DEF IInv, OnFile, FileHolder
<1>23. QED BY <1>16, <1>17, <1>18, <1>19, <1>21, <1>22 DEF IInv

\* A new pool is empty and has an offset of its range.
NewOK(p, last) ==
    /\ p \in PoolRec /\ p.last = last /\ p.mux = Nobody
    /\ p.cacheIP = <<>> /\ p.cacheHost = <<>>
    /\ First < p.last /\ First - 1 <= p.offset /\ p.offset <= p.last

\* New without a cache file.
LEMMA NewPoolOK ==
    ASSUME NEW last \in Lasts PROVE NewOK(NewPool(last), last)
<1>1. last \in Nat /\ First \in Nat /\ First < last /\ First - 1 \in Nat
  BY FakeIPAssumption
<1>2. FALSE \in BOOLEAN
  BY Zenon
<1>3. PICK p : p = NewPool(last)
  OBVIOUS
<1>4. /\ p.last = last /\ p.offset = First - 1 /\ p.mux = Nobody
      /\ p.cacheIP = <<>> /\ p.cacheHost = <<>>
  BY <1>3 DEF NewPool
<1>5. p \in PoolRec
  BY <1>1, <1>2, <1>3, Nothing DEF NewPool, PoolRec
<1>6. QED BY <1>1, <1>3, <1>4, <1>5 DEF NewOK

\* New with a cache file, and restoreState: the offset of the file is used if it is in the
\* range, and the file is kept or emptied, if it can be.
LEMMA RestoredOK ==
    ASSUME NEW last \in Lasts, NEW f \in FileRec, f.offset = NoOffset \/ First - 1 <= f.offset,
           NEW r \in Restored(last, f)
    PROVE  /\ NewOK(r[1], last) /\ r[2] \in {f, EmptyFile}
           /\ f.offset # NoOffset /\ f.offset <= last => r[2] = f
<1>1. last \in Nat /\ First \in Nat /\ First < last /\ f.offset \in Nat /\ f.cycle \in BOOLEAN
  BY FakeIPAssumption DEF FileRec
<1>2. PICK p : p = NewPool(last)
  OBVIOUS
<1>3. NewOK(p, last)
  BY <1>2, NewPoolOK
<1>4. PICK p3 : p3 = [p EXCEPT !.cycle = f.cycle]
  OBVIOUS
<1>5. NewOK(p3, last)
  BY <1>1, <1>3, <1>4 DEF NewOK, PoolRec
<1>6. CASE f.offset # NoOffset /\ f.offset <= last
  <2>1. PICK p1 : p1 = [p EXCEPT !.offset = f.offset]
    OBVIOUS
  <2>2. NewOK(p1, last)
    BY <1>1, <1>3, <1>6, <2>1 DEF NewOK, PoolRec
  <2>3. PICK p2 : p2 = [p1 EXCEPT !.cycle = f.cycle]
    OBVIOUS
  <2>4. NewOK(p2, last)
    BY <1>1, <2>2, <2>3 DEF NewOK, PoolRec
  <2>5. r = <<p2, f>>
    <3>1. p2 = [p EXCEPT !.offset = f.offset, !.cycle = f.cycle]
      BY <2>1, <2>3
    <3>2. r = <<[p EXCEPT !.offset = f.offset, !.cycle = f.cycle], f>>
      BY <1>1, <1>2, <1>6 DEF Restored
    <3>3. QED BY <3>1, <3>2
  <2>6. r[1] = p2 /\ r[2] = f
    BY <2>5
  <2>7. QED BY <1>6, <2>4, <2>6
<1>7. CASE f.offset # NoOffset /\ f.offset > last
  <2>1. ~(f.offset # NoOffset /\ f.offset <= last)
    BY <1>1, <1>7
  <2>2. r \in {<<p, EmptyFile>>, <<p3, f>>}
    BY <1>2, <1>7, <1>4, <2>1 DEF Restored
  <2>3. QED BY <1>3, <1>5, <2>1, <2>2
<1>8. CASE f.offset = NoOffset
  <2>1. r \in {<<p, EmptyFile>>, <<p3, f>>}
    <3>1. CASE Exist(f.cacheHost, First)
      BY <1>2, <1>8, <1>4, <3>1 DEF Restored
    <3>2. CASE ~Exist(f.cacheHost, First)
      BY <1>2, <1>8, <1>4, <3>2 DEF Restored
    <3>3. QED BY <3>1, <3>2
  <2>2. QED BY <1>3, <1>8, <1>5, <2>1
<1>9. QED BY <1>1, <1>6, <1>7, <1>8

\* A configuration is parsed, which makes its pool.
LEMMA ReloadStep ==
    ASSUME IInv, NEW last \in Lasts, Reload(last) PROVE IInv'
<1>1. PICK made \in Made(last, file) : pools' = Append(pools, made[1]) /\ file' = made[2]
  BY DEF Reload
<1>2. PICK p : p = made[1]
  OBVIOUS
<1>3. /\ reload = "idle" /\ pools' = Append(pools, p) /\ file' = made[2]
      /\ reload' = (IF persistent THEN "swap" ELSE "host")
      /\ raced' = (raced \/ (file' # file /\ Busy))
      /\ spoilt' \in {{}, spoilt} /\ (file' = file => spoilt' = spoilt)
      /\ UNCHANGED <<persistent, cur, pc, q, flush>>
  BY <1>1, <1>2 DEF Reload, Race, Heal
<1>4. raced' \in BOOLEAN
  BY <1>3, Zenon DEF IInv, Shape
<1>5. file \in FileRec /\ (file.offset = NoOffset \/ First - 1 <= file.offset)
  BY DEF IInv, Shape, Offsets
<1>6. NewOK(p, last) /\ file' \in {file, EmptyFile} /\ (~persistent => file' = file)
  <2>1. CASE persistent
    <3>1. made \in Restored(last, file)
      BY <1>1, <2>1 DEF Made
    <3>2. QED BY <1>2, <1>3, <1>5, <2>1, <3>1, RestoredOK
  <2>2. CASE ~persistent
    <3>1. p = NewPool(last) /\ file' = file
      BY <1>1, <1>2, <1>3, <2>2 DEF Made
    <3>2. QED BY <3>1, NewPoolOK
  <2>3. QED BY <2>1, <2>2
<1>7. /\ DOMAIN pools = 1..Len(pools) /\ Len(pools) \in Nat /\ cur \in DOMAIN pools
      /\ Len(pools) = cur /\ pools \in Seq(PoolRec)
  BY <1>3 DEF IInv, Places, Shape
<1>8. /\ pools' \in Seq(PoolRec) /\ Len(pools') = Len(pools) + 1 /\ DOMAIN pools' = 1..Len(pools) + 1
      /\ pools'[Len(pools) + 1] = p /\ \A j \in DOMAIN pools : pools'[j] = pools[j]
  <2>1. p \in PoolRec
    BY <1>6 DEF NewOK
  <2>2. QED BY <1>3, <1>7, <2>1
<1>9. \A j \in DOMAIN pools' : j \in DOMAIN pools \/ j = Len(pools) + 1
  BY <1>7, <1>8
<1>10. Shape'
  <2>1. file' \in FileRec /\ reload' \in {"idle", "host", "ip", "swap"}
    BY <1>3, <1>5, <1>6, Nothing
  <2>2. QED BY <1>3, <1>4, <1>8, <2>1 DEF IInv, Shape
<1>11. Places'
  <2>1. cur \in DOMAIN pools' /\ Len(pools') = cur + 1
    BY <1>7, <1>8
  <2>2. reload' # "idle" /\ (reload' \in {"host", "ip"} => ~persistent)
    BY <1>3
  <2>3. QED BY <1>3, <2>1, <2>2 DEF IInv, Places
<1>12. Offsets'
  <2>1. file'.offset = NoOffset \/ First - 1 <= file'.offset
    BY <1>5, <1>6, Nothing
  <2>2. \A j \in DOMAIN pools' : First < pools'[j].last /\ First - 1 <= pools'[j].offset
                                 /\ pools'[j].offset <= pools'[j].last
    BY <1>6, <1>8, <1>9 DEF IInv, Offsets, NewOK
  <2>3. QED BY <2>1, <2>2 DEF Offsets
<1>13. Mutex'
  <2>1. SUFFICES ASSUME NEW c \in Callers, NEW j \in DOMAIN pools'
                 PROVE  pools'[j].mux = c <=> pc[c] \in Mid /\ q[c].pool = j
    BY <1>3 DEF Mutex
  <2>2. CASE j \in DOMAIN pools
    BY <1>8, <2>2 DEF IInv, Mutex
  <2>3. CASE j = Len(pools) + 1
    <3>1. pools'[j].mux # c
      BY <1>6, <1>8, <2>3, FakeIPAssumption DEF NewOK
    <3>2. pc[c] \in Mid => q[c].pool \in DOMAIN pools
      BY Pools
    <3>3. QED BY <1>7, <2>3, <3>1, <3>2
  <2>4. QED BY <1>9, <2>2, <2>3
<1>14. Lists'
  <2>1. Unique(file'.cacheIP) /\ Unique(file'.cacheHost)
    BY <1>6, Nothing DEF IInv, Lists
  <2>2. \A j \in DOMAIN pools' : /\ Unique(pools'[j].cacheIP) /\ Len(pools'[j].cacheIP) <= Size
                                 /\ Unique(pools'[j].cacheHost) /\ Len(pools'[j].cacheHost) <= Size
    BY <1>6, <1>8, <1>9, Nothing, FakeIPAssumption DEF IInv, Lists, NewOK
  <2>3. QED BY <2>1, <2>2 DEF Lists
<1>15. Busy' = Busy
  BY <1>3 DEF Busy
<1>16. Memory'
  <2>1. SUFFICES ASSUME ~persistent, ~raced' PROVE Memory'
    BY <1>3 DEF Memory
  <2>2. ~raced
    BY <1>3, <2>1
  <2>3. \A j \in 1..cur : pools'[j] = pools[j]
    BY <1>7, <1>8
  <2>4. \A j \in 1..cur : Agree(j) => Agree(j)'
    BY <2>3 DEF Agree
  <2>5. \A c \in Callers : Holder(c)'
    <3>1. SUFFICES ASSUME NEW c \in Callers, pc[c] \in Mid PROVE Holder(c)'
      BY <1>3 DEF Holder
    <3>2. q[c].pool \in 1..cur
      BY <3>1, Pools
    <3>3. Holder(c)
      BY <2>1, <2>2 DEF IInv, Memory
    <3>4. QED BY <1>3, <2>3, <3>2, <3>3 DEF Holder
  <2>6. pools'[Len(pools')].cacheIP = <<>> /\ pools'[Len(pools')].cacheHost = <<>>
    BY <1>6, <1>8 DEF NewOK
  <2>7. Mirror(pools'[Len(pools')].cacheIP, pools'[Len(pools')].cacheHost)
    BY <2>6, Nothing
  <2>8. reload' = "host"
    BY <1>3, <2>1
  <2>9. flush.at = "ip" => flush.pool \in 1..cur
    BY DEF IInv, Places
  <2>10. QED BY <1>3, <1>15, <2>1, <2>2, <2>3, <2>4, <2>5, <2>7, <2>8, <2>9 DEF IInv, Memory, Agree
<1>17. OnFile'
  <2>1. SUFFICES ASSUME persistent, ~raced' PROVE OnFile'
    BY <1>3 DEF OnFile
  <2>2. CASE file' = file
    BY <1>3, <2>1, <2>2 DEF IInv, OnFile, FileHolder
  <2>3. CASE file' # file
    <3>1. \A c \in Callers : pc'[c] \notin Mid
      BY <1>3, <2>1, <2>3 DEF Busy
    <3>2. Belong(file'.cacheIP, file'.cacheHost, spoilt')
      BY <1>6, <2>3, Nothing
    <3>3. QED BY <3>1, <3>2 DEF OnFile, FileHolder
  <2>4. QED BY <2>2, <2>3
<1>18. QED BY <1>10, <1>11, <1>12, <1>13, <1>14, <1>16, <1>17 DEF IInv

\* The first cache is cloned.
LEMMA CloneHostsStep ==
    ASSUME IInv, CloneHosts PROVE IInv'
<1>1. PICK i : i = Len(pools)
  OBVIOUS
<1>2. PICK np : np = [pools[i] EXCEPT !.cacheIP = pools[cur].cacheIP]
  OBVIOUS
<1>3. /\ reload = "host" /\ pools' = [pools EXCEPT ![i] = np] /\ reload' = "ip"
      /\ raced' = (raced \/ (Busy \/ flush.at # "idle"))
      /\ UNCHANGED <<persistent, file, cur, pc, q, flush, spoilt>>
  BY <1>1, <1>2 DEF CloneHosts, CloneTo, Race
<1>4. raced' \in BOOLEAN
  BY <1>3, Zenon DEF IInv, Shape
<1>5. /\ i \in DOMAIN pools /\ i \notin 1..cur /\ cur \in DOMAIN pools /\ cur \in 1..cur
      /\ pools[i] \in PoolRec /\ pools[cur] \in PoolRec
      /\ \A j \in 1..cur : j \in DOMAIN pools
  BY <1>1, <1>3, Pools
<1>6. /\ np \in PoolRec /\ np.cacheIP = pools[cur].cacheIP /\ np.cacheHost = pools[i].cacheHost
      /\ np.mux = pools[i].mux /\ np.offset = pools[i].offset /\ np.last = pools[i].last
  BY <1>2, <1>5 DEF PoolRec
<1>7. /\ Unique(np.cacheIP) /\ Len(np.cacheIP) <= Size
      /\ Unique(np.cacheHost) /\ Len(np.cacheHost) <= Size
  BY <1>5, <1>6 DEF IInv, Lists
<1>8. /\ flush \in [at : {"idle", "ip", "offset"}, pool : Nat]
      /\ flush.at # "idle" => flush.pool \in 1..cur
      /\ ~persistent
  BY <1>3 DEF IInv, Shape, Places
<1>9. CacheStep(i, np)
  BY <1>3, <1>4, <1>6, <1>7, <1>8 DEF CacheStep
<1>10. /\ Shape' /\ Places' /\ Offsets' /\ Mutex' /\ Lists' /\ OnFile'
       /\ Len(pools') = Len(pools) /\ Busy' = Busy
       /\ pools'[i] = np /\ \A j \in DOMAIN pools \ {i} : pools'[j] = pools[j]
  BY <1>5, <1>9, CacheStepOK
<1>11. Memory'
  <2>1. SUFFICES ASSUME ~raced' PROVE Memory'
    BY DEF Memory
  <2>2. ~raced /\ ~Busy /\ flush.at = "idle"
    BY <1>3, <2>1
  <2>3. \A c \in Callers : Holder(c)'
    BY <1>10, <2>2 DEF Busy, Holder
  <2>4. ASSUME NEW j \in 1..cur PROVE Agree(j)'
    <3>1. pools[j].mux = Nobody /\ pools'[j] = pools[j]
      BY <1>5, <1>10, <2>2, NotBusy
    <3>2. Agree(j)
      BY <1>8, <2>2, <3>1 DEF IInv, Memory
    <3>3. QED BY <3>1, <3>2 DEF Agree
  <2>5. pools'[Len(pools')].cacheIP = pools'[cur].cacheIP
    BY <1>1, <1>5, <1>6, <1>10
  <2>6. QED BY <1>3, <1>10, <2>2, <2>3, <2>4, <2>5 DEF Memory
<1>12. QED BY <1>10, <1>11 DEF IInv

\* The second cache is cloned.
LEMMA CloneIPsStep ==
    ASSUME IInv, CloneIPs PROVE IInv'
<1>1. PICK i : i = Len(pools)
  OBVIOUS
<1>2. PICK np : np = [pools[i] EXCEPT !.cacheHost = pools[cur].cacheHost]
  OBVIOUS
<1>3. /\ reload = "ip" /\ pools' = [pools EXCEPT ![i] = np] /\ reload' = "swap"
      /\ raced' = (raced \/ (Busy \/ flush.at # "idle"))
      /\ UNCHANGED <<persistent, file, cur, pc, q, flush, spoilt>>
  BY <1>1, <1>2 DEF CloneIPs, CloneTo, Race
<1>4. raced' \in BOOLEAN
  BY <1>3, Zenon DEF IInv, Shape
<1>5. /\ i \in DOMAIN pools /\ i \notin 1..cur /\ cur \in DOMAIN pools /\ cur \in 1..cur
      /\ pools[i] \in PoolRec /\ pools[cur] \in PoolRec
      /\ \A j \in 1..cur : j \in DOMAIN pools
  BY <1>1, <1>3, Pools
<1>6. /\ np \in PoolRec /\ np.cacheIP = pools[i].cacheIP /\ np.cacheHost = pools[cur].cacheHost
      /\ np.mux = pools[i].mux /\ np.offset = pools[i].offset /\ np.last = pools[i].last
  BY <1>2, <1>5 DEF PoolRec
<1>7. /\ Unique(np.cacheIP) /\ Len(np.cacheIP) <= Size
      /\ Unique(np.cacheHost) /\ Len(np.cacheHost) <= Size
  BY <1>5, <1>6 DEF IInv, Lists
<1>8. /\ flush \in [at : {"idle", "ip", "offset"}, pool : Nat]
      /\ flush.at # "idle" => flush.pool \in 1..cur
      /\ ~persistent
  BY <1>3 DEF IInv, Shape, Places
<1>9. CacheStep(i, np)
  BY <1>3, <1>4, <1>6, <1>7, <1>8 DEF CacheStep
<1>10. /\ Shape' /\ Places' /\ Offsets' /\ Mutex' /\ Lists' /\ OnFile'
       /\ Len(pools') = Len(pools) /\ Busy' = Busy
       /\ pools'[i] = np /\ \A j \in DOMAIN pools \ {i} : pools'[j] = pools[j]
  BY <1>5, <1>9, CacheStepOK
<1>11. Memory'
  <2>1. SUFFICES ASSUME ~raced' PROVE Memory'
    BY DEF Memory
  <2>2. ~raced /\ ~Busy /\ flush.at = "idle"
    BY <1>3, <2>1
  <2>3. \A c \in Callers : Holder(c)'
    BY <1>10, <2>2 DEF Busy, Holder
  <2>4. ASSUME NEW j \in 1..cur PROVE Agree(j) /\ Agree(j)'
    <3>1. pools[j].mux = Nobody /\ pools'[j] = pools[j]
      BY <1>5, <1>10, <2>2, NotBusy
    <3>2. Agree(j)
      BY <1>8, <2>2, <3>1 DEF IInv, Memory
    <3>3. QED BY <3>1, <3>2 DEF Agree
  <2>5. Mirror(pools[cur].cacheIP, pools[cur].cacheHost)
    BY <1>5, <2>4 DEF Agree
  <2>6. pools[i].cacheIP = pools[cur].cacheIP
    BY <1>1, <1>3, <1>8, <2>2 DEF IInv, Memory
  <2>7. Mirror(pools'[Len(pools')].cacheIP, pools'[Len(pools')].cacheHost)
    BY <1>1, <1>6, <1>10, <2>5, <2>6
  <2>8. QED BY <1>3, <1>10, <2>2, <2>3, <2>4, <2>7 DEF Memory, Agree
<1>12. QED BY <1>10, <1>11 DEF IInv

\* The new pool takes over.
LEMMA SwapStep ==
    ASSUME IInv, Swap PROVE IInv'
<1>1. /\ reload = "swap" /\ cur' = Len(pools) /\ reload' = "idle"
      /\ UNCHANGED <<persistent, pools, file, pc, q, flush, raced, spoilt>>
  BY DEF Swap
<1>2. Len(pools) = cur + 1 /\ Len(pools) \in DOMAIN pools /\ cur \in Nat /\ DOMAIN pools = 1..Len(pools)
  BY <1>1, Pools
<1>3. \A j \in 1..cur' : j \in 1..cur \/ j = Len(pools)
  BY <1>1, <1>2
<1>4. \A j \in 1..cur : j \in 1..cur'
  BY <1>1, <1>2
<1>5. Shape'
  BY <1>1 DEF IInv, Shape
<1>6. Places'
  BY <1>1, <1>2, <1>4 DEF IInv, Places
<1>7. Offsets' /\ Mutex' /\ Lists' /\ OnFile'
  BY <1>1 DEF IInv, Offsets, Mutex, Lists, OnFile, FileHolder
<1>8. Busy' = Busy /\ (\A j : Agree(j)' <=> Agree(j)) /\ \A c \in Callers : Holder(c)' <=> Holder(c)
  BY <1>1 DEF Busy, Agree, Holder
<1>9. Memory'
  BY <1>1, <1>3, <1>8 DEF IInv, Memory
<1>10. QED BY <1>5, <1>6, <1>7, <1>9 DEF IInv

\* A process starts, with the file as the last one left it.
LEMMA StartStep ==
    ASSUME IInv, NEW f \in FileRec, f.offset = NoOffset \/ First - 1 <= f.offset,
           f.cacheIP = file.cacheIP, f.cacheHost = file.cacheHost,
           NEW last \in Lasts, Start(f, last)
    PROVE  IInv'
<1>1. PICK made \in Made(last, f) : pools' = <<made[1]>> /\ file' = made[2]
  BY DEF Start
<1>2. /\ pools' = <<made[1]>> /\ file' = made[2] /\ cur' = 1
      /\ pc' = [c \in Callers |-> "idle"] /\ q' = [c \in Callers |-> NoQuery]
      /\ flush' = [at |-> "idle", pool |-> 0] /\ reload' = "idle"
      /\ raced' = (raced /\ persistent) /\ persistent' = persistent
      /\ spoilt' = IF file' = EmptyFile /\ file # EmptyFile THEN {} ELSE spoilt
  BY <1>1 DEF Start, FlushAt, Heal
<1>3. raced' \in BOOLEAN
  BY <1>2, Zenon DEF IInv, Shape
<1>4. NewOK(made[1], last) /\ file' \in {f, EmptyFile}
  <2>1. CASE persistent
    BY <1>1, <2>1, RestoredOK DEF Made
  <2>2. CASE ~persistent
    BY <1>1, <2>2, NewPoolOK DEF Made
  <2>3. QED BY <2>1, <2>2
<1>5. PICK p \in PoolRec : p = made[1]
  BY <1>4 DEF NewOK
<1>6. pools' = <<p>> /\ pools' \in Seq(PoolRec) /\ Len(pools') = 1 /\ DOMAIN pools' = {1} /\ pools'[1] = p
  BY <1>2, <1>5
<1>7. NoQuery \in QueryRec /\ "idle" \notin Mid
  BY DEF NoQuery, QueryRec, Mid
<1>8. Shape'
  <2>1. file' \in FileRec
    BY <1>4, Nothing
  <2>2. pc' \in [Callers -> {"idle", "lookup"} \cup Mid] /\ q' \in [Callers -> QueryRec]
    BY <1>2, <1>7
  <2>3. flush' \in [at : {"idle", "ip", "offset"}, pool : Nat]
    BY <1>2
  <2>4. persistent' \in BOOLEAN
    BY <1>2 DEF IInv, Shape
  <2>5. spoilt' \in SUBSET Nat
    BY <1>2 DEF IInv, Shape
  <2>6. QED BY <1>2, <1>3, <1>6, <2>1, <2>2, <2>3, <2>4, <2>5 DEF Shape
<1>9. Places'
  BY <1>2, <1>6 DEF Places
<1>10. Offsets'
  <2>1. file'.offset = NoOffset \/ First - 1 <= file'.offset
    BY <1>4, Nothing
  <2>2. QED BY <1>4, <1>5, <1>6, <2>1 DEF Offsets, NewOK
<1>11. Mutex'
  BY <1>2, <1>4, <1>5, <1>6, <1>7, FakeIPAssumption DEF Mutex, NewOK
<1>12. p.cacheIP = <<>> /\ p.cacheHost = <<>>
  BY <1>4, <1>5 DEF NewOK
<1>13. Lists'
  <2>1. Unique(file'.cacheIP) /\ Unique(file'.cacheHost)
    BY <1>4, Nothing DEF IInv, Lists
  <2>2. QED BY <1>6, <1>12, <2>1, Nothing, FakeIPAssumption DEF Lists
<1>14. Memory'
  <2>1. Mirror(pools'[1].cacheIP, pools'[1].cacheHost)
    BY <1>6, <1>12, Nothing
  <2>2. \A c \in Callers : Holder(c)'
    BY <1>2, <1>7 DEF Holder
  <2>3. \A j \in 1..cur' : Agree(j)'
    BY <1>2, <2>1 DEF Agree
  <2>4. QED BY <1>2, <2>2, <2>3 DEF Memory
<1>15. OnFile'
  <2>1. SUFFICES ASSUME persistent, ~raced' PROVE OnFile'
    BY <1>2 DEF OnFile
  <2>2. ~raced
    BY <1>2, <2>1
  <2>3. Belong(file'.cacheIP, file'.cacheHost, spoilt')
    <3>1. CASE file' = EmptyFile
      BY <3>1, Nothing
    <3>2. CASE file' # EmptyFile
      BY <1>2, <1>4, <2>1, <2>2, <3>2 DEF IInv, OnFile
    <3>3. QED BY <3>1, <3>2
  <2>4. QED BY <1>2, <1>7, <2>3 DEF OnFile, FileHolder
<1>16. QED BY <1>8, <1>9, <1>10, <1>11, <1>13, <1>14, <1>15 DEF IInv

\* What a shutdown leaves in the file.
LEMMA StoredOK ==
    ASSUME IInv
    PROVE  /\ Stored \in FileRec /\ (Stored.offset = NoOffset \/ First - 1 <= Stored.offset)
           /\ Stored.cacheIP = file.cacheIP /\ Stored.cacheHost = file.cacheHost
           /\ persistent => Stored.offset = pools[cur].offset
<1>1. file \in FileRec /\ cur \in DOMAIN pools /\ pools[cur] \in PoolRec
  BY Pools
<1>2. CASE ~persistent
  BY <1>1, <1>2 DEF Stored, IInv, Offsets
<1>3. CASE persistent
  <2>1. PICK o \in Nat : o = pools[cur].offset
    BY <1>1 DEF PoolRec
  <2>2. PICK f1 : f1 = [file EXCEPT !.offset = o]
    OBVIOUS
  <2>3. f1 \in FileRec /\ f1.offset = o /\ f1.cacheIP = file.cacheIP /\ f1.cacheHost = file.cacheHost
        /\ f1.cycle = file.cycle
    BY <1>1, <2>1, <2>2 DEF FileRec
  <2>4. PICK cycle : cycle = (file.cycle \/ pools[cur].cycle)
    OBVIOUS
  <2>5. cycle \in BOOLEAN
    BY <1>1, <2>4, Zenon DEF FileRec, PoolRec
  <2>6. PICK f2 : f2 = [f1 EXCEPT !.cycle = cycle]
    OBVIOUS
  <2>7. f2 \in FileRec /\ f2.offset = o /\ f2.cacheIP = file.cacheIP /\ f2.cacheHost = file.cacheHost
    BY <2>3, <2>5, <2>6 DEF FileRec
  <2>8. Stored = f2
    <3>1. Stored = [file EXCEPT !.offset = pools[cur].offset,
                                !.cycle = (file.cycle \/ pools[cur].cycle)]
      BY <1>3 DEF Stored
    <3>2. Stored = [file EXCEPT !.offset = o, !.cycle = cycle]
      BY <2>1, <2>4, <3>1, Zenon
    <3>3. QED BY <2>2, <2>6, <3>2
  <2>9. First - 1 <= o
    BY <1>1, <2>1 DEF IInv, Offsets
  <2>10. QED BY <2>1, <2>7, <2>8, <2>9
<1>4. QED BY <1>2, <1>3

\* What a shutdown leaves in the file when one of its writes fails.
LEMMA PartlyStoredOK ==
    ASSUME IInv, NEW f \in PartlyStored
    PROVE  /\ f \in FileRec /\ (f.offset = NoOffset \/ First - 1 <= f.offset)
           /\ f.cacheIP = file.cacheIP /\ f.cacheHost = file.cacheHost
<1>1. /\ file \in FileRec /\ cur \in DOMAIN pools /\ pools[cur] \in PoolRec
      /\ (file.offset = NoOffset \/ First - 1 <= file.offset)
  BY Pools DEF IInv, Offsets
<1>2. CASE f = [file EXCEPT !.offset = pools[cur].offset]
  <2>1. pools[cur].offset \in Nat /\ First - 1 <= pools[cur].offset
    BY <1>1 DEF PoolRec, IInv, Offsets
  <2>2. QED BY <1>1, <1>2, <2>1 DEF FileRec
<1>3. CASE f = [file EXCEPT !.cycle = @ \/ pools[cur].cycle]
  <2>1. PICK cycle : cycle = (file.cycle \/ pools[cur].cycle)
    OBVIOUS
  <2>2. cycle \in BOOLEAN
    BY <1>1, <2>1, Zenon DEF FileRec, PoolRec
  <2>3. f = [file EXCEPT !.cycle = cycle]
    BY <1>3, <2>1, Zenon
  <2>4. QED BY <1>1, <2>2, <2>3 DEF FileRec
<1>4. QED BY <1>2, <1>3 DEF PartlyStored

\* IInv holds initially.
LEMMA InitIInv == ASSUME Init PROVE IInv
<1>1. PICK last \in Lasts : pools = <<NewPool(last)>>
  BY DEF Init
<1>2. PICK p \in PoolRec : p = NewPool(last) /\ NewOK(p, last)
  BY NewPoolOK DEF NewOK
<1>3. pools = <<p>> /\ pools \in Seq(PoolRec) /\ Len(pools) = 1 /\ DOMAIN pools = {1} /\ pools[1] = p
  BY <1>1, <1>2
<1>4. NoQuery \in QueryRec /\ "idle" \notin Mid
  BY DEF NoQuery, QueryRec, Mid
<1>5. raced \in BOOLEAN
  BY Zenon DEF Init
<1>6. p.cacheIP = <<>> /\ p.cacheHost = <<>>
  BY <1>2 DEF NewOK
<1>7. Shape
  BY <1>3, <1>4, <1>5, Nothing DEF Init, Shape
<1>8. Places
  BY <1>3 DEF Init, Places
<1>9. Offsets /\ Lists
  BY <1>2, <1>3, <1>6, Nothing, FakeIPAssumption DEF Init, Offsets, Lists, NewOK
<1>10. Mutex
  BY <1>2, <1>3, <1>4, FakeIPAssumption DEF Init, Mutex, NewOK
<1>11. Memory
  <2>1. Agree(1)
    BY <1>3, <1>6, Nothing DEF Agree
  <2>2. QED BY <1>4, <2>1 DEF Init, Memory, Holder
<1>12. OnFile
  BY <1>4, Nothing DEF Init, OnFile, FileHolder
<1>13. QED BY <1>7, <1>8, <1>9, <1>10, <1>11, <1>12 DEF IInv

\* Every step keeps IInv.
LEMMA NextIInv == ASSUME IInv, [Next]_vars PROVE IInv'
<1>1. ASSUME NEW c \in Callers, NEW h \in Hosts, Query(c, h) PROVE IInv'
  BY <1>1, QueryStep
<1>2. ASSUME NEW c \in Callers,
             LookupHit(c) \/ LookupMiss(c) \/ Alloc(c) \/ PutByIP(c) \/ PutByHost(c)
      PROVE  IInv'
  BY <1>2, LookupHitStep, LookupMissStep, AllocStep, PutByIPStep, PutByHostStep
<1>3. ASSUME NEW c \in Callers, AllocFails(c) \/ PutByIPFails(c) \/ PutByHostFails(c) PROVE IInv'
  BY <1>3, AllocFailsStep, PutByIPFailsStep, PutByHostFailsStep
<1>4. ASSUME NEW ip, LookBack(ip) PROVE IInv'
  BY <1>4, LookBackStep
<1>5. ASSUME Flush \/ FlushHosts \/ FlushOffset \/ CloneHosts \/ CloneIPs \/ Swap PROVE IInv'
  BY <1>5, FlushStep, FlushHostsStep, FlushOffsetStep, CloneHostsStep, CloneIPsStep, SwapStep
<1>6. ASSUME NEW l \in Lasts, Reload(l) PROVE IInv'
  BY <1>6, ReloadStep
<1>7. ASSUME NEW l \in Lasts, Shutdown(l) PROVE IInv'
  BY <1>7, StartStep, StoredOK DEF Shutdown
<1>8. ASSUME NEW l \in Lasts, ShutdownFails(l) PROVE IInv'
  <2>1. PICK f \in PartlyStored : Start(f, l)
    BY <1>8 DEF ShutdownFails
  <2>2. QED BY <2>1, PartlyStoredOK, StartStep
<1>9. ASSUME NEW l \in Lasts, Kill(l) PROVE IInv'
  <2>1. file \in FileRec /\ (file.offset = NoOffset \/ First - 1 <= file.offset)
    BY DEF IInv, Shape, Offsets
  <2>2. QED BY <1>9, <2>1, StartStep DEF Kill
<1>10. CASE UNCHANGED vars
  <2>1. UNCHANGED <<persistent, pools, file, cur, pc, q, flush, reload, raced, spoilt>>
    BY <1>10 DEF vars
  <2>2. Shape' /\ Places' /\ Offsets' /\ Mutex' /\ Lists'
    BY <2>1 DEF IInv, Shape, Places, Offsets, Mutex, Lists
  <2>3. Memory' /\ OnFile'
    BY <2>1 DEF IInv, Memory, OnFile, Holder, FileHolder, Agree, Busy
  <2>4. QED BY <2>2, <2>3 DEF IInv
<1>11. QED BY <1>1, <1>2, <1>3, <1>4, <1>5, <1>6, <1>7, <1>8, <1>9, <1>10 DEF Next

-----------------------------------------------------------------------------
(* The theorems.                                                            *)

\* The inductive invariant.
THEOREM Invariance == Spec => []IInv
<1>1. Init => IInv BY InitIInv
<1>2. IInv /\ [Next]_vars => IInv' BY NextIInv
<1>3. QED BY <1>1, <1>2, PTL DEF Spec

\* For any number of goroutines, hosts and addresses and any size of the caches: what Lookup
\* answers LookBack understands, through eviction, reuse of addresses, reloads and kills, and
\* a write to the cache file that fails spoils no address but its own (pool.go:43-108,
\* memory.go:15-53, cachefile/fakeip.go:39-109).
THEOREM AddressesCorrect == Spec => []AddressesBelong
<1>1. ASSUME IInv PROVE AddressesBelong
  <2>1. SUFFICES ASSUME ~raced, pools[cur].mux = Nobody
                 PROVE  Belong(CacheIP(cur), CacheHost(cur), spoilt)
    BY DEF AddressesBelong, Belong
  <2>2. cur \in DOMAIN pools /\ cur \in 1..cur
    BY <1>1, Pools
  <2>3. /\ Pair(CacheIP(cur), CacheHost(cur))
        /\ ~persistent => CacheIP(cur) = pools[cur].cacheIP /\ CacheHost(cur) = pools[cur].cacheHost
        /\ persistent => CacheIP(cur) = file.cacheIP /\ CacheHost(cur) = file.cacheHost
    BY <1>1, <2>2, Current DEF IInv
  <2>4. CASE persistent
    BY <1>1, <2>1, <2>3, <2>4 DEF IInv, OnFile
  <2>5. CASE ~persistent /\ flush.at = "ip" /\ flush.pool = cur
    <3>1. CacheIP(cur) = <<>>
      BY <1>1, <2>1, <2>3, <2>5 DEF IInv, Memory
    <3>2. QED BY <3>1, Nothing
  <2>6. CASE ~persistent /\ ~(flush.at = "ip" /\ flush.pool = cur)
    <3>1. Mirror(CacheIP(cur), CacheHost(cur))
      BY <1>1, <2>1, <2>2, <2>3, <2>6 DEF IInv, Memory, Agree
    <3>2. QED BY <2>3, <3>1, MirrorBelong
  <2>7. QED BY <2>4, <2>5, <2>6
<1>2. QED BY <1>1, Invariance, PTL

\* The two caches of a pool in memory hold the same pairs in the same order, within their size,
\* whatever the order of lookups, evictions and reuse (memory.go:15-53, lrucache.go:169-187).
THEOREM CachesCorrect == Spec => []CachesAgree
<1>1. ASSUME IInv PROVE CachesAgree
  <2>1. \A i \in DOMAIN pools : Len(pools[i].cacheIP) <= Size /\ Len(pools[i].cacheHost) <= Size
    BY <1>1 DEF IInv, Lists
  <2>2. ASSUME ~raced, ~persistent, ~Busy, flush.at = "idle"
        PROVE  CacheHost(cur) = [i \in DOMAIN CacheIP(cur) |->
                                   [key |-> CacheIP(cur)[i].val, val |-> CacheIP(cur)[i].key]]
    <3>1. cur \in DOMAIN pools /\ cur \in 1..cur
      BY <1>1, Pools
    <3>2. pools[cur].mux = Nobody
      BY <1>1, <2>2, <3>1, NotBusy
    <3>3. PICK ips : ips = CacheIP(cur)
      OBVIOUS
    <3>4. PICK hosts : hosts = CacheHost(cur)
      OBVIOUS
    <3>5. Pair(ips, hosts) /\ ips = pools[cur].cacheIP /\ hosts = pools[cur].cacheHost
      BY <1>1, <2>2, <3>1, <3>3, <3>4, Current DEF IInv
    <3>6. Mirror(ips, hosts)
      BY <1>1, <2>2, <3>1, <3>2, <3>5 DEF IInv, Memory, Agree
    <3>7. DOMAIN hosts = DOMAIN ips
      BY <3>5, <3>6, SamePlace
    <3>8. hosts \in Seq(HostEntry)
      BY <3>5 DEF Pair
    <3>9. ASSUME NEW i \in DOMAIN ips PROVE hosts[i] = [key |-> ips[i].val, val |-> ips[i].key]
      <4>1. hosts[i] \in HostEntry
        BY <3>7, <3>8, ElementOfSeq
      <4>2. hosts[i] = [key |-> hosts[i].key, val |-> hosts[i].val]
        BY <4>1, EntryForm
      <4>3. QED BY <3>6, <4>2 DEF Mirror
    <3>10. hosts = [i \in DOMAIN ips |-> [key |-> ips[i].val, val |-> ips[i].key]]
      <4>1. hosts = [i \in DOMAIN hosts |-> hosts[i]]
        BY <3>8
      <4>2. QED BY <3>7, <3>9, <4>1
    <3>11. QED BY <3>3, <3>4, <3>10
  <2>3. QED BY <2>1, <2>2 DEF CachesAgree
<1>2. QED BY <1>1, Invariance, PTL

\* After a shutdown and a start with the same range no host has lost its address: the offset
\* that StoreState writes is one that restoreState accepts (pool.go:119-145).
THEOREM ShutdownCorrect == Spec => ShutdownKeeps
<1>1. ASSUME IInv, NEW l \in Lasts, persistent, l = pools[cur].last, Shutdown(l)
      PROVE  file'.cacheIP = file.cacheIP
  <2>1. /\ Stored \in FileRec /\ (Stored.offset = NoOffset \/ First - 1 <= Stored.offset)
        /\ Stored.cacheIP = file.cacheIP /\ Stored.offset = pools[cur].offset
    BY <1>1, StoredOK
  <2>2. PICK made \in Restored(l, Stored) : file' = made[2]
    BY <1>1 DEF Shutdown, Start, Made
  <2>3. cur \in DOMAIN pools /\ pools[cur] \in PoolRec
    BY <1>1, Pools
  <2>4. First - 1 <= pools[cur].offset /\ pools[cur].offset <= l /\ pools[cur].offset \in Nat
    BY <1>1, <2>3 DEF IInv, Offsets, PoolRec
  <2>5. Stored.offset # NoOffset
    BY <2>1, <2>4, FakeIPAssumption DEF NoOffset
  <2>6. made[2] = Stored
    BY <1>1, <2>1, <2>4, <2>5, RestoredOK
  <2>7. QED BY <2>1, <2>2, <2>6
<1>2. ASSUME IInv, [Next]_vars
      PROVE  [\A l \in Lasts : persistent /\ l = pools[cur].last /\ Shutdown(l) =>
                 file'.cacheIP = file.cacheIP]_vars
  BY <1>1, <1>2
<1>3. QED BY <1>2, Invariance, PTL DEF Spec, ShutdownKeeps

=============================================================================
