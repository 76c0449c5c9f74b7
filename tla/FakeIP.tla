------------------------------- MODULE FakeIP -------------------------------
(***************************************************************************)
(* component/fakeip: the pool that answers DNS queries with addresses of   *)
(* its own and later tells the tunnel which host such an address stands    *)
(* for.  The two directions are kept in two caches in memory, or in one    *)
(* bucket of the cache file.                                               *)
(*                                                                         *)
(* Lookup and LookBack hold the mutex of their pool.  FlushFakeIP (REST),  *)
(* the cloning of the caches into the pool of a new configuration, and     *)
(* New, which may flush the cache file, do not; and during a reload two    *)
(* pools, each with its own mutex, may share the cache file.               *)
(*                                                                         *)
(* A write to the cache file may fail: the error is logged, and the caller *)
(* goes on as if nothing had happened.                                     *)
(*                                                                         *)
(* Addresses are numbers from First to last - 1.  Case folding of hosts is *)
(* left out, and so is a cache file that could not be opened at all.       *)
(***************************************************************************)
EXTENDS LruCache, FiniteSets

CONSTANTS
    Callers,    \* goroutines that answer DNS queries
    Hosts,
    NoHost,
    First,      \* the first address of a pool
    Lasts,      \* the last addresses that the configured ranges may have
    Size        \* Options.Size

Nobody == "nobody"

ASSUME FakeIPAssumption ==
    /\ Nobody \notin Callers
    /\ First \in Nat \ {0, 1} /\ Size \in Nat \ {0} /\ NoHost \notin Hosts
    /\ Lasts \subseteq Nat /\ \A l \in Lasts : First < l

VARIABLES
    persistent, \* Options.Persistence, the same in all configurations
    pools,      \* the pools made since the process started:
                \* [last, offset, cycle, mux, cacheIP, cacheHost]
    file,       \* the bucket of the cache file: [cacheIP, cacheHost, offset, cycle]
    cur,        \* the pool of the host mapper in use
    pc,         \* caller -> label
    q,          \* caller -> [pool, host, ip] of the Lookup in progress
    flush,      \* FlushFakeIP in progress: [at: "idle", "ip" or "offset", pool]
    reload,     \* reload in progress: "idle", "host", "ip" or "swap"
    raced,      \* history: a flush or a clone, or a Lookup of another pool on the same
                \* file, has overlapped a Lookup
    spoilt      \* history: addresses whose entry could not be deleted from the file, or
                \* not be written to it

vars == <<persistent, pools, file, cur, pc, q, flush, reload, raced, spoilt>>

NoQuery == [pool |-> 0, host |-> NoHost, ip |-> 0]
NoOffset == 0       \* the cache file has no offsetKey
EmptyFile == [cacheIP |-> <<>>, cacheHost |-> <<>>, offset |-> NoOffset, cycle |-> FALSE]

Addresses(last) == First..last - 1

-----------------------------------------------------------------------------
(* The store interface: memoryStore and cachefileStore.                     *)

\* host -> address and address -> host of pool i
CacheIP(i)   == IF persistent THEN file.cacheIP ELSE pools[i].cacheIP
CacheHost(i) == IF persistent THEN file.cacheHost ELSE pools[i].cacheHost

\* The cache file does not reorder and does not forget.
Touched(c, k) == IF persistent THEN c ELSE Touch(c, k)
Put(c, k, v)  == IF persistent THEN Append(Delete(c, k), [key |-> k, val |-> v])
                 ELSE Set(c, k, v, Size)

\* Pool i becomes p, and its two caches ips and hosts.
Store(i, p, ips, hosts) ==
    IF persistent
      THEN /\ file'  = [file EXCEPT !.cacheIP = ips, !.cacheHost = hosts]
           /\ pools' = [pools EXCEPT ![i] = p]
      ELSE /\ pools' = [pools EXCEPT ![i] = [p EXCEPT !.cacheIP = ips, !.cacheHost = hosts]]
           /\ UNCHANGED file

\* Mutant: the host keeps its address.
DelByIPOneWay(ips, hosts, ip) == <<ips, Delete(hosts, ip)>>

\* DelByIP: <<host -> address, address -> host>> without the address and its host
DelByIP(ips, hosts, ip) ==
    <<IF Exist(hosts, ip) THEN Delete(ips, Value(hosts, ip)) ELSE ips, Delete(hosts, ip)>>

-----------------------------------------------------------------------------
(* Lookup and LookBack.                                                     *)

Mid == {"alloc", "putByIP", "putByHost"}
Busy == \E c \in Callers : pc[c] \in Mid

\* Something that does not take the mutex is under way, or another pool's Lookup.
Disturbed(c) ==
    \/ flush.at # "idle" \/ reload = "ip"
    \/ persistent /\ \E d \in Callers \ {c} : pc[d] \in Mid /\ q[d].pool # q[c].pool

Race(b) == raced' = (raced \/ b)

\* A query reaches the DNS handler of the configuration in use.
Query(c, h) ==
    /\ pc[c] = "idle"
    /\ pc' = [pc EXCEPT ![c] = "lookup"]
    /\ q'  = [q EXCEPT ![c] = [pool |-> cur, host |-> h, ip |-> 0]]
    /\ UNCHANGED <<persistent, pools, file, cur, flush, reload, raced, spoilt>>

\* Mutant: only the direction that was asked for is refreshed.
LookupHitOneWay(c) ==
    LET i == q[c].pool
        h == q[c].host
    IN  /\ pc[c] = "lookup" /\ pools[i].mux = Nobody /\ Exist(CacheIP(i), h)
        /\ Store(i, pools[i], Touched(CacheIP(i), h), CacheHost(i))
        /\ pc' = [pc EXCEPT ![c] = "idle"]
        /\ q'  = [q EXCEPT ![c] = NoQuery]
        /\ Race(Disturbed(c))
        /\ UNCHANGED <<persistent, cur, flush, reload, spoilt>>

\* GetByHost finds the host, and refreshes both directions.
LookupHit(c) ==
    LET i == q[c].pool
        h == q[c].host
    IN  /\ pc[c] = "lookup" /\ pools[i].mux = Nobody /\ Exist(CacheIP(i), h)
        /\ Store(i, pools[i], Touched(CacheIP(i), h), Touched(CacheHost(i), Value(CacheIP(i), h)))
        /\ pc' = [pc EXCEPT ![c] = "idle"]
        /\ q'  = [q EXCEPT ![c] = NoQuery]
        /\ Race(Disturbed(c))
        /\ UNCHANGED <<persistent, cur, flush, reload, spoilt>>

LookupMiss(c) ==
    LET i == q[c].pool
    IN  /\ pc[c] = "lookup" /\ pools[i].mux = Nobody /\ ~Exist(CacheIP(i), q[c].host)
        /\ pools' = [pools EXCEPT ![i].mux = c]
        /\ pc' = [pc EXCEPT ![c] = "alloc"]
        /\ Race(Disturbed(c))
        /\ UNCHANGED <<persistent, file, cur, q, flush, reload, spoilt>>

NextIP(p) == IF p.offset + 1 >= p.last THEN First ELSE p.offset + 1

Advanced(p) == [p EXCEPT !.offset = NextIP(p), !.cycle = @ \/ p.offset + 1 >= p.last]

\* get: the next address, taken from whoever has it.
Alloc(c) ==
    LET i   == q[c].pool
        ip  == NextIP(pools[i])
        del == IF Advanced(pools[i]).cycle \/ Exist(CacheHost(i), ip)
               THEN DelByIP(CacheIP(i), CacheHost(i), ip)
               ELSE <<CacheIP(i), CacheHost(i)>>
    IN  /\ pc[c] = "alloc"
        /\ Store(i, Advanced(pools[i]), del[1], del[2])
        /\ q'  = [q EXCEPT ![c].ip = ip]
        /\ pc' = [pc EXCEPT ![c] = "putByIP"]
        /\ Race(Disturbed(c))
        /\ UNCHANGED <<persistent, cur, flush, reload, spoilt>>

\* The address could not be taken from the host that has it.
AllocFails(c) ==
    LET i  == q[c].pool
        ip == NextIP(pools[i])
    IN  /\ pc[c] = "alloc" /\ persistent /\ Exist(CacheHost(i), ip)
        /\ Store(i, Advanced(pools[i]), CacheIP(i), CacheHost(i))
        /\ spoilt' = spoilt \cup {ip}
        /\ q'  = [q EXCEPT ![c].ip = ip]
        /\ pc' = [pc EXCEPT ![c] = "putByIP"]
        /\ Race(Disturbed(c))
        /\ UNCHANGED <<persistent, cur, flush, reload>>

PutByIP(c) ==
    LET i == q[c].pool
    IN  /\ pc[c] = "putByIP"
        /\ Store(i, pools[i], CacheIP(i), Put(CacheHost(i), q[c].ip, q[c].host))
        /\ pc' = [pc EXCEPT ![c] = "putByHost"]
        /\ Race(Disturbed(c))
        /\ UNCHANGED <<persistent, cur, q, flush, reload, spoilt>>

PutByIPFails(c) ==
    LET i == q[c].pool
    IN  /\ pc[c] = "putByIP" /\ persistent
        /\ Store(i, pools[i], CacheIP(i), CacheHost(i))
        /\ spoilt' = spoilt \cup {q[c].ip}
        /\ pc' = [pc EXCEPT ![c] = "putByHost"]
        /\ Race(Disturbed(c))
        /\ UNCHANGED <<persistent, cur, q, flush, reload>>

PutByHost(c) ==
    LET i == q[c].pool
    IN  /\ pc[c] = "putByHost"
        /\ Store(i, [pools[i] EXCEPT !.mux = Nobody],
                 Put(CacheIP(i), q[c].host, q[c].ip), CacheHost(i))
        /\ pc' = [pc EXCEPT ![c] = "idle"]
        /\ q'  = [q EXCEPT ![c] = NoQuery]
        /\ Race(Disturbed(c))
        /\ UNCHANGED <<persistent, cur, flush, reload, spoilt>>

\* The caller has its answer; the next Lookup of the host takes another address.
PutByHostFails(c) ==
    LET i == q[c].pool
    IN  /\ pc[c] = "putByHost" /\ persistent
        /\ Store(i, [pools[i] EXCEPT !.mux = Nobody], CacheIP(i), CacheHost(i))
        /\ pc' = [pc EXCEPT ![c] = "idle"]
        /\ q'  = [q EXCEPT ![c] = NoQuery]
        /\ Race(Disturbed(c))
        /\ UNCHANGED <<persistent, cur, flush, reload, spoilt>>

\* The tunnel asks for the host of an address.
LookBack(ip) ==
    /\ pools[cur].mux = Nobody /\ Exist(CacheHost(cur), ip)
    /\ Store(cur, pools[cur], Touched(CacheIP(cur), Value(CacheHost(cur), ip)),
             Touched(CacheHost(cur), ip))
    /\ Race(flush.at # "idle" \/ reload = "ip")
    /\ UNCHANGED <<persistent, cur, pc, q, flush, reload, spoilt>>

-----------------------------------------------------------------------------
(* FlushFakeIP, without the mutex.  When the cache file cannot be emptied,   *)
(* the error is returned and nothing has changed: that is no step.          *)

FlushAt(at, pool) == flush' = [at |-> at, pool |-> pool]

Flush ==
    /\ flush.at = "idle"
    /\ IF persistent
         THEN /\ file' = EmptyFile /\ spoilt' = {}
              /\ FlushAt("offset", cur)
              /\ UNCHANGED pools
         ELSE /\ pools' = [pools EXCEPT ![cur].cacheIP = <<>>]
              /\ FlushAt("ip", cur)
              /\ UNCHANGED <<file, spoilt>>
    /\ Race(Busy \/ reload = "ip")
    /\ UNCHANGED <<persistent, cur, pc, q, reload>>

FlushHosts ==
    /\ flush.at = "ip"
    /\ pools' = [pools EXCEPT ![flush.pool].cacheHost = <<>>]
    /\ FlushAt("offset", flush.pool)
    /\ Race(Busy \/ reload = "ip")
    /\ UNCHANGED <<persistent, file, cur, pc, q, reload, spoilt>>

\* The write of the offset may be lost to a Lookup that is computing the next one.
FlushOffset ==
    LET i == flush.pool
    IN  /\ flush.at = "offset"
        /\ \/ pools' = [pools EXCEPT ![i].cycle = FALSE, ![i].offset = First - 1]
           \/ /\ \E c \in Callers : pc[c] = "alloc" /\ q[c].pool = i
              /\ pools' = [pools EXCEPT ![i].cycle = FALSE]
        /\ FlushAt("idle", 0)
        /\ Race(Busy)
        /\ UNCHANGED <<persistent, file, cur, pc, q, reload, spoilt>>

-----------------------------------------------------------------------------
(* New configurations and restarts.                                         *)

NewPool(last) ==
    [last |-> last, offset |-> First - 1, cycle |-> FALSE, mux |-> Nobody,
     cacheIP |-> <<>>, cacheHost |-> <<>>]

\* New and restoreState on the contents f of the cache file: the possible <<pool, file>>.
\* An offset of another range, or a file without one, is flushed; an error is ignored.
Restored(last, f) ==
    LET pool    == NewPool(last)
        flushed == {<<pool, EmptyFile>>, <<[pool EXCEPT !.cycle = f.cycle], f>>}
    IN  CASE f.offset # NoOffset /\ f.offset <= last ->
                {<<[pool EXCEPT !.offset = f.offset, !.cycle = f.cycle], f>>}
          [] f.offset # NoOffset /\ f.offset > last  -> flushed
          [] f.offset = NoOffset /\ Exist(f.cacheHost, First) -> flushed
          [] OTHER -> {<<[pool EXCEPT !.cycle = f.cycle], f>>}

Made(last, f) == IF persistent THEN Restored(last, f) ELSE {<<NewPool(last), f>>}

\* A file that has been emptied has nothing left that is wrong.
Heal == spoilt' = IF file' = EmptyFile /\ file # EmptyFile THEN {} ELSE spoilt

\* The configuration is parsed, which makes its pool.
Reload(last) ==
    /\ reload = "idle"
    /\ \E made \in Made(last, file) : pools' = Append(pools, made[1]) /\ file' = made[2]
    /\ reload' = IF persistent THEN "swap" ELSE "host"
    /\ Race(file' # file /\ Busy)
    /\ Heal
    /\ UNCHANGED <<persistent, cur, pc, q, flush>>

\* CloneFrom, one cache at a time.
CloneHosts ==
    /\ reload = "host"
    /\ pools' = [pools EXCEPT ![Len(pools)].cacheIP = CloneTo(pools[cur].cacheIP)]
    /\ reload' = "ip"
    /\ Race(Busy \/ flush.at # "idle")
    /\ UNCHANGED <<persistent, file, cur, pc, q, flush, spoilt>>

CloneIPs ==
    /\ reload = "ip"
    /\ pools' = [pools EXCEPT ![Len(pools)].cacheHost = CloneTo(pools[cur].cacheHost)]
    /\ reload' = "swap"
    /\ Race(Busy \/ flush.at # "idle")
    /\ UNCHANGED <<persistent, file, cur, pc, q, flush, spoilt>>

\* The new host mapper and DNS service take over.
Swap ==
    /\ reload = "swap"
    /\ cur' = Len(pools)
    /\ reload' = "idle"
    /\ UNCHANGED <<persistent, pools, file, pc, q, flush, raced, spoilt>>

\* Mutant: only the cycle is stored.
StoredCycle == IF persistent THEN [file EXCEPT !.cycle = @ \/ pools[cur].cycle] ELSE file

\* StoreState of the pool in use, on a cache file.
Stored == IF persistent
          THEN [file EXCEPT !.offset = pools[cur].offset, !.cycle = @ \/ pools[cur].cycle]
          ELSE file

\* One of the two writes of StoreState has failed; without both it is a Kill.
PartlyStored == {[file EXCEPT !.offset = pools[cur].offset],
                 [file EXCEPT !.cycle = @ \/ pools[cur].cycle]}

Start(f, last) ==
    /\ \E made \in Made(last, f) : pools' = <<made[1]>> /\ file' = made[2]
    /\ cur' = 1
    /\ pc' = [c \in Callers |-> "idle"]
    /\ q'  = [c \in Callers |-> NoQuery]
    /\ FlushAt("idle", 0) /\ reload' = "idle"
    /\ raced' = (raced /\ persistent)
    /\ Heal
    /\ UNCHANGED persistent

\* executor.Shutdown, and a later start.
Shutdown(last) == Start(Stored, last)

ShutdownFails(last) == persistent /\ \E f \in PartlyStored : Start(f, last)

\* A kill stores nothing.
Kill(last) == Start(file, last)

-----------------------------------------------------------------------------

Init ==
    /\ persistent \in BOOLEAN
    /\ file = EmptyFile
    /\ \E last \in Lasts : pools = <<NewPool(last)>>
    /\ cur = 1
    /\ pc = [c \in Callers |-> "idle"]
    /\ q  = [c \in Callers |-> NoQuery]
    /\ flush = [at |-> "idle", pool |-> 0] /\ reload = "idle"
    /\ raced = FALSE /\ spoilt = {}

Next ==
    \/ \E c \in Callers : \/ \E h \in Hosts : Query(c, h)
                          \/ LookupHit(c) \/ LookupMiss(c) \/ Alloc(c) \/ PutByIP(c) \/ PutByHost(c)
                          \/ AllocFails(c) \/ PutByIPFails(c) \/ PutByHostFails(c)
    \/ \E l \in Lasts : \E ip \in Addresses(l) : LookBack(ip)
    \/ Flush \/ FlushHosts \/ FlushOffset
    \/ \E l \in Lasts : Reload(l) \/ Shutdown(l) \/ ShutdownFails(l) \/ Kill(l)
    \/ CloneHosts \/ CloneIPs \/ Swap

Spec == Init /\ [][Next]_vars

-----------------------------------------------------------------------------
(* Properties.                                                              *)

\* What Lookup answers, LookBack understands: whenever a host has an address, the address
\* stands for that host, so no two hosts share one.  This holds through eviction from the two
\* caches, reuse of addresses, reloads, kills between the two writes of a Lookup, and writes
\* to the cache file that fail without the Lookup taking notice (cachefile/fakeip.go:50-52,
\* 81-83, 106-108): such a failure can spoil the one address it is about, which may then
\* stand for nobody or for another host, and no other one.  The exception is the overlap
\* that the mutex does not exclude: see raced.
AddressesBelong ==
    (~raced /\ pools[cur].mux = Nobody) =>
            \A i \in DOMAIN CacheIP(cur) :
                 LET e == CacheIP(cur)[i]
                 IN  e.val \notin spoilt =>
                        Exist(CacheHost(cur), e.val) /\ Value(CacheHost(cur), e.val) = e.key

\* The two caches of a pool in memory hold the same pairs in the same order, which is why
\* they evict the same pair, and stay within their size.
CachesAgree ==
    /\ \A i \in DOMAIN pools : Len(pools[i].cacheIP) <= Size /\ Len(pools[i].cacheHost) <= Size
    /\ (~raced /\ ~persistent /\ ~Busy /\ flush.at = "idle") =>
           CacheHost(cur) = [i \in DOMAIN CacheIP(cur) |->
                               [key |-> CacheIP(cur)[i].val, val |-> CacheIP(cur)[i].key]]

\* After a shutdown that could store its state, and a start with the same range, no host has
\* lost its address.
ShutdownKeeps ==
    [][\A l \in Lasts : persistent /\ l = pools[cur].last /\ Shutdown(l) =>
            file'.cacheIP = file.cacheIP]_vars
=============================================================================
