----------------------------- MODULE ProxyGroup -----------------------------
(***************************************************************************)
(* A proxy group (adapter/outboundgroup) over a provider (adapter/provider)*)
(* whose list of proxies is replaced while connections are being dialled,  *)
(* the health check of the provider, and the record of the tests that each *)
(* proxy keeps (adapter/adapter.go).                                       *)
(*                                                                         *)
(* A proxy is an object, a name with the version of the list that it was   *)
(* made for: an update makes new objects, which have not been tested.  One *)
(* provider, one test URL.  Times are left open: a ticker, the time that   *)
(* a singledo result lasts, and the window of the failure counter may end  *)
(* at any moment.                                                          *)
(*                                                                         *)
(* url-test and fallback groups choose without a lock: each step takes in  *)
(* one proxy of the list, and selected, fastNode and the records may have  *)
(* changed before the next one.  The other groups choose in one step: the  *)
(* round robin does so under its mutex, and what may change between the    *)
(* records that it and the consistent hash read is left out.               *)
(***************************************************************************)
EXTENDS Naturals, Sequences, FiniteSets, SequencesExt

CONSTANTS
    Callers,        \* goroutines that dial through the group or change its selection
    Names,
    NoName,         \* no selection; also the name of the empty fallback
    NoCaller,
    Kinds,          \* types of the group: "select", "fallback", "url-test", and the load balancers
                    \* "round-robin" and "consistent-hashing"
    Lists,          \* what the provider may contain after an update
    Delays,         \* measured delays
    MaxDelay,       \* 0xffff
    Tolerance,
    MaxFailedTimes,
    MaxVersion

ASSUME ProxyGroupAssumption ==
    /\ NoName \notin Names /\ NoCaller \notin Callers
    /\ MaxDelay \in Nat /\ Delays \subseteq 1..MaxDelay - 1 /\ Tolerance \in 0..MaxDelay
    /\ Kinds \subseteq {"select", "fallback", "url-test", "round-robin", "consistent-hashing"}
    /\ Lists \subseteq Seq(Names)
    /\ MaxFailedTimes \in Nat \ {0} /\ MaxVersion \in Nat

VARIABLES
    kind,
    provider,   \* baseProvider: [version, names]
    real,       \* name -> delay of the server, 0 when it does not answer
    health,     \* object -> last record for the test URL: a delay, 0 for a failure
    check,      \* HealthCheck.check: [on, todo]
    cache,      \* providerVersions and providerProxies: [version, list]
    selected,
    fastNode,   \* url-test: the node in use
    idx,        \* round-robin: where to go on
    single,     \* url-test: fastSingle: [call, result]
    failedTimes,
    testing,    \* failedTesting
    pc,         \* caller -> label
    loc,        \* caller -> [op, arg, version, list, node, fresh]
    fn,         \* caller -> what it has found so far as it goes through its list
    since       \* history: caller -> since it began to choose, the records that changed, and
                \* whether another choice has changed fastNode

vars == <<kind, provider, real, health, check, cache, selected, fastNode, idx, single,
          failedTimes, testing, pc, loc, fn, since>>

\* The delay of a proxy that has not been tested, or not with success.
Untested == MaxDelay

Objects == Names \X (0..MaxVersion)
EmptyFallback == <<NoName, 0>>
NoNode == [obj |-> EmptyFallback, sel |-> NoName, set |-> FALSE]

\* What fn of fastSingle.Do returns, with the selection that it went by.
Node(o, s) == [obj |-> o, sel |-> s, set |-> TRUE]

\* The locals of findAliveProxy and of fn in URLTest.fast: the place in the list, the selection
\* that was read, fast, minDelay, and whether fastNode was met.
Begin == [i |-> 1, sel |-> NoName, fast |-> EmptyFallback, min |-> 0, exist |-> FALSE]

Quiet == [changed |-> {}, raced |-> FALSE]

\* Where a caller is going through its list.
Choosing == {"find", "clear", "fixed", "walk", "keep", "return"}

Rest == [op |-> "none", arg |-> NoName, version |-> 0, list |-> <<>>, node |-> NoNode, fresh |-> FALSE]

-----------------------------------------------------------------------------
(* What is known of a proxy.                                                *)

\* AliveForTestUrl: a proxy that has not been tested counts as alive.
Alive(o) == o # EmptyFallback => health[o] # 0

\* LastDelayForTestUrl
LastDelay(o) == IF o = EmptyFallback \/ health[o] = 0 THEN MaxDelay ELSE health[o]

\* The server of a proxy can be reached; the empty fallback is the direct connection.
Answers(o) == IF o = EmptyFallback THEN TRUE ELSE real[o[1]] # 0

HasName(list, n) == \E i \in DOMAIN list : list[i][1] = n

-----------------------------------------------------------------------------
(* GetProxies.                                                              *)

\* The proxies of the provider.
Listed == [i \in DOMAIN provider.names |-> <<provider.names[i], provider.version>>]

\* The version is read before the mutex is taken.
ReadVersion(c) ==
    /\ pc[c] = "version"
    /\ loc' = [loc EXCEPT ![c].version = provider.version]
    /\ pc'  = [pc EXCEPT ![c] = "proxies"]
    /\ UNCHANGED <<kind, provider, real, health, check, cache, selected, fastNode, idx, single,
                   failedTimes, testing, fn, since>>

\* Mutant: an empty list is remembered by its version only.
GetProxiesMarksEmpty(c) ==
    LET hit  == cache.version = loc[c].version
        list == IF hit THEN cache.list ELSE IF Listed = <<>> THEN <<EmptyFallback>> ELSE Listed
    IN  /\ pc[c] = "proxies"
        /\ cache' = [version |-> loc[c].version, list |-> IF Listed = <<>> THEN cache.list ELSE list]
        /\ loc' = [loc EXCEPT ![c].list = list, ![c].version = 0]
        /\ pc'  = [pc EXCEPT ![c] = loc[c].op]
        /\ UNCHANGED <<kind, provider, real, health, check, selected, fastNode, idx, single,
                       failedTimes, testing, fn, since>>

\* The cached list if the version is that of the cache, else the list of the provider, which
\* is cached with the version read before unless it is empty.
GetProxies(c) ==
    LET hit  == cache.version = loc[c].version
        list == IF hit THEN cache.list ELSE IF Listed = <<>> THEN <<EmptyFallback>> ELSE Listed
    IN  /\ pc[c] = "proxies"
        /\ cache' = IF hit \/ Listed = <<>> THEN cache ELSE [version |-> loc[c].version, list |-> list]
        /\ loc' = [loc EXCEPT ![c].list = list, ![c].version = 0]
        /\ pc'  = [pc EXCEPT ![c] = loc[c].op]
        /\ UNCHANGED <<kind, provider, real, health, check, selected, fastNode, idx, single,
                       failedTimes, testing, fn, since>>

-----------------------------------------------------------------------------
(* The choice of a proxy from a list.                                       *)

\* The position of the first proxy of list that satisfies P, or 1.
First(list, P(_)) ==
    IF \E i \in DOMAIN list : P(list[i])
    THEN CHOOSE i \in DOMAIN list : P(list[i]) /\ \A j \in 1..i - 1 : ~P(list[j])
    ELSE 1

\* The position of the proxy with name n, or 1.
PositionOf(list, n) == First(list, LAMBDA o : o[1] = n)

SelectedProxy(list) == list[PositionOf(list, selected)]

\* strategyRoundRobin: <<proxy, idx>>
RoundRobin(list) ==
    LET n == Len(list)
        turn == [i \in 1..n |-> list[((idx + i - 1) % n) + 1]]
        i == First(turn, Alive)
    IN  IF \E j \in 1..n : Alive(turn[j]) THEN <<turn[i], (idx + i) % n>> ELSE <<list[1], (idx + n) % n>>

\* strategyConsistentHashing: the hash of a destination may meet any proxy; dead ones are passed
\* over, in the end by going through the list.
ConsistentHashing(list) ==
    LET alive == {o \in Range(list) : Alive(o)}
    IN  IF alive = {} THEN {list[1]} ELSE alive

-----------------------------------------------------------------------------
(* Dialling.                                                                *)

\* A new connection; fresh: no change of the selection is under way.
Dial(c) ==
    /\ pc[c] = "idle"
    /\ pc'  = [pc EXCEPT ![c] = IF kind = "url-test" THEN "do" ELSE "version"]
    /\ loc' = [loc EXCEPT ![c] = [Rest EXCEPT !.op = "choose",
                                              !.fresh = \A d \in Callers : pc[d] # "reset"]]
    /\ UNCHANGED <<kind, provider, real, health, check, cache, selected, fastNode, idx, single,
                   failedTimes, testing, fn, since>>

\* fastSingle.Do: a result that is not too old, a call that is under way, or a call of one's own.
Do(c) ==
    /\ pc[c] = "do"
    /\ \/ /\ single.result.set
          /\ loc' = [loc EXCEPT ![c].node = single.result]
          /\ pc'  = [pc EXCEPT ![c] = "chosen"]
          /\ UNCHANGED single
       \/ /\ ~single.result.set /\ single.call # NoCaller
          /\ IF pc[single.call] = "store"
               THEN /\ loc' = [loc EXCEPT ![c].node = loc[single.call].node]
                    /\ pc'  = [pc EXCEPT ![c] = "chosen"]
               ELSE /\ loc' = [loc EXCEPT ![c].arg = single.call]
                    /\ pc'  = [pc EXCEPT ![c] = "wait"]
          /\ UNCHANGED single
       \/ /\ ~single.result.set /\ single.call = NoCaller
          /\ single' = [single EXCEPT !.call = c]
          /\ pc' = [pc EXCEPT ![c] = "version"]
          /\ UNCHANGED loc
    /\ UNCHANGED <<kind, provider, real, health, check, cache, selected, fastNode, idx,
                   failedTimes, testing, fn, since>>

\* A proxy is found: a url-test group returns it from fn.
Found(c, o, sel) ==
    /\ loc' = [loc EXCEPT ![c].node = Node(o, sel), ![c].list = <<>>]
    /\ pc'  = [pc EXCEPT ![c] = IF kind = "url-test" THEN "done" ELSE "chosen"]

Over(c) == fn' = [fn EXCEPT ![c] = Begin] /\ since' = [since EXCEPT ![c] = Quiet]

\* Select, round robin and consistent hashing.
Choose(c) ==
    LET list == loc[c].list
        turn == RoundRobin(list)
    IN  /\ pc[c] = "choose"
        /\ \/ kind = "select" /\ Found(c, SelectedProxy(list), selected) /\ UNCHANGED idx
           \/ kind = "round-robin" /\ Found(c, turn[1], selected) /\ idx' = turn[2]
           \/ /\ kind = "consistent-hashing"
              /\ \E o \in ConsistentHashing(list) : Found(c, o, selected)
              /\ UNCHANGED idx
        /\ UNCHANGED <<kind, provider, real, health, check, cache, selected, fastNode, single,
                       failedTimes, testing, fn, since>>

\* The first step of the others; a url-test group looks for its selection if it has one.
ChooseBegin(c) ==
    /\ pc[c] = "choose" /\ kind \in {"fallback", "url-test"}
    /\ fn' = [fn EXCEPT ![c] = [Begin EXCEPT !.sel = IF kind = "url-test" THEN selected ELSE NoName]]
    /\ pc' = [pc EXCEPT ![c] = IF kind = "fallback" THEN "find"
                              ELSE IF selected = NoName THEN "walk" ELSE "fixed"]
    /\ UNCHANGED <<kind, provider, real, health, check, cache, selected, fastNode, idx, single,
                   failedTimes, testing, loc, since>>

\* The proxy that a caller looks at, and whether it is the last one of its list.
This(c) == loc[c].list[fn[c].i]
AtEnd(c) == fn[c].i = Len(loc[c].list)

\* findAliveProxy goes on to the next proxy; without one it is the first.
FindNext(c, sel) ==
    IF AtEnd(c)
    THEN Found(c, loc[c].list[1], sel) /\ Over(c)
    ELSE /\ fn' = [fn EXCEPT ![c].i = @ + 1, ![c].sel = sel]
         /\ pc' = [pc EXCEPT ![c] = "find"]
         /\ UNCHANGED <<loc, since>>

\* findAliveProxy, one proxy: the selected one, or without a selection any, if it is alive.
FindAliveProxy(c) ==
    LET o    == This(c)
        mine == selected \in {NoName, o[1]}
        sel  == IF selected = NoName THEN fn[c].sel ELSE selected
    IN  /\ pc[c] = "find"
        /\ \/ mine /\ Alive(o) /\ Found(c, o, sel) /\ Over(c)
           \/ selected = NoName /\ ~Alive(o) /\ FindNext(c, sel)
           \/ ~mine /\ FindNext(c, sel)
           \/ /\ selected = o[1] /\ ~Alive(o)
              /\ fn' = [fn EXCEPT ![c].sel = selected]
              /\ pc' = [pc EXCEPT ![c] = "clear"]
              /\ UNCHANGED <<loc, since>>
        /\ UNCHANGED <<kind, provider, real, health, check, cache, selected, fastNode, idx, single,
                       failedTimes, testing>>

\* It gives up a selection that is not alive, or the one made since it looked.
ClearSelected(c) ==
    /\ pc[c] = "clear"
    /\ selected' = NoName
    /\ FindNext(c, fn[c].sel)
    /\ UNCHANGED <<kind, provider, real, health, check, cache, fastNode, idx, single,
                   failedTimes, testing>>

\* The history when c makes o the node in use: other choices that are under way may use it.
Raced(c, o) == [d \in Callers |-> IF d # c /\ pc[d] \in Choosing /\ o # fastNode
                                  THEN [since[d] EXCEPT !.raced = TRUE] ELSE since[d]]

\* The selected proxy if it is alive: one proxy of the list.
Fixed(c) ==
    LET o == This(c)
    IN  /\ pc[c] = "fixed"
        /\ IF Alive(o) /\ o[1] = selected
             THEN /\ Found(c, o, selected)
                  /\ fastNode' = o
                  /\ fn' = [fn EXCEPT ![c] = Begin]
                  /\ since' = [Raced(c, o) EXCEPT ![c] = Quiet]
             ELSE /\ fn' = [fn EXCEPT ![c].i = IF AtEnd(c) THEN 1 ELSE @ + 1, ![c].sel = selected]
                  /\ pc' = [pc EXCEPT ![c] = IF AtEnd(c) THEN "walk" ELSE "fixed"]
                  /\ UNCHANGED <<loc, fastNode, since>>
        /\ UNCHANGED <<kind, provider, real, health, check, cache, selected, idx, single,
                       failedTimes, testing>>

\* The fastest proxy: the first one, or a later one that is alive and faster than all before it.
Walk(c) ==
    LET o      == This(c)
        f      == fn[c]
        faster == f.i = 1 \/ (Alive(o) /\ LastDelay(o) < f.min)
    IN  /\ pc[c] = "walk"
        /\ fn' = [fn EXCEPT ![c] =
                     [f EXCEPT !.i     = IF AtEnd(c) THEN 1 ELSE @ + 1,
                               !.exist = @ \/ (f.i > 1 /\ fastNode # EmptyFallback
                                                      /\ o[1] = fastNode[1]),
                               !.fast  = IF faster THEN o ELSE @,
                               !.min   = IF faster THEN LastDelay(o) ELSE @]]
        /\ pc' = [pc EXCEPT ![c] = IF AtEnd(c) THEN "keep" ELSE "walk"]
        /\ UNCHANGED <<kind, provider, real, health, check, cache, selected, fastNode, idx, single,
                       failedTimes, testing, loc, since>>

\* The delay up to which the node in use is kept: an uint16.
Limit(o) == (LastDelay(o) + Tolerance) % (MaxDelay + 1)

\* Mutant: the node in use is kept although it is no longer in the list.
KeepsFastAlways(c) ==
    /\ fastNode # EmptyFallback
    /\ Alive(fastNode) /\ LastDelay(fastNode) <= Limit(fn[c].fast)

\* The node in use is kept if its name is in the list, at another place than the first, and if
\* it is alive and not much slower than the fastest one.
KeepsFast(c) ==
    /\ fastNode # EmptyFallback /\ fn[c].exist
    /\ Alive(fastNode) /\ LastDelay(fastNode) <= Limit(fn[c].fast)

Keep(c) ==
    /\ pc[c] = "keep"
    /\ fastNode' = IF KeepsFast(c) THEN fastNode ELSE fn[c].fast
    /\ since' = Raced(c, fastNode')
    /\ pc' = [pc EXCEPT ![c] = "return"]
    /\ UNCHANGED <<kind, provider, real, health, check, cache, selected, idx, single,
                   failedTimes, testing, loc, fn>>

\* fn returns fastNode, whatever that is by now.
ReturnFast(c) ==
    /\ pc[c] = "return"
    /\ Found(c, fastNode, fn[c].sel)
    /\ Over(c)
    /\ UNCHANGED <<kind, provider, real, health, check, cache, selected, fastNode, idx, single,
                   failedTimes, testing>>

\* Mutant: those who wait are not released.
DoneSilent(c) ==
    /\ pc[c] = "done"
    /\ pc'  = [pc EXCEPT ![c] = "store"]
    /\ UNCHANGED <<kind, provider, real, health, check, cache, selected, fastNode, idx, single,
                   failedTimes, testing, loc, fn, since>>

\* fn has returned: those who wait for it go on.
Done(c) ==
    LET waits(d) == pc[d] = "wait" /\ loc[d].arg = c
    IN  /\ pc[c] = "done"
        /\ pc'  = [d \in Callers |-> IF d = c THEN "store" ELSE IF waits(d) THEN "chosen" ELSE pc[d]]
        /\ loc' = [d \in Callers |-> IF waits(d) THEN [loc[d] EXCEPT !.node = loc[c].node] ELSE loc[d]]
        /\ UNCHANGED <<kind, provider, real, health, check, cache, selected, fastNode, idx, single,
                       failedTimes, testing, fn, since>>

\* Mutant: the result is stored although there was a Reset.
StoreAlways(c) ==
    /\ pc[c] = "store"
    /\ single' = [call |-> NoCaller, result |-> loc[c].node]
    /\ pc' = [pc EXCEPT ![c] = "chosen"]
    /\ UNCHANGED <<kind, provider, real, health, check, cache, selected, fastNode, idx,
                   failedTimes, testing, loc, fn, since>>

\* The result is kept unless there was a Reset.
Store(c) ==
    /\ pc[c] = "store"
    /\ single' = IF single.call = c THEN [call |-> NoCaller, result |-> loc[c].node] ELSE single
    /\ pc' = [pc EXCEPT ![c] = "chosen"]
    /\ UNCHANGED <<kind, provider, real, health, check, cache, selected, fastNode, idx,
                   failedTimes, testing, loc, fn, since>>

\* The ten seconds that a result lasts are over.
Expire ==
    /\ single.result.set
    /\ single' = [single EXCEPT !.result = NoNode]
    /\ UNCHANGED <<kind, provider, real, health, check, cache, selected, fastNode, idx,
                   failedTimes, testing, pc, loc, fn, since>>

Reset == single' = [call |-> NoCaller, result |-> NoNode]

\* HealthCheck.check begins unless there are no proxies, a check is under way or, by the choice
\* that it leaves open, one has ended less than a second ago.
NewCheck == {c \in {[on |-> TRUE, todo |-> Range(Listed)]} : ~check.on /\ Listed # <<>>}

\* The check that a group starts when dialling has failed too often.
HealthCheck ==
    /\ IF kind = "url-test" THEN Reset ELSE UNCHANGED single
    /\ testing' = TRUE
    /\ check' \in {check} \cup {c \in NewCheck : ~testing}

\* onDialSuccess, which only connections with a handshake call.
OnDialSuccess ==
    /\ failedTimes' \in {failedTimes} \cup {n \in {0} : ~testing}
    /\ UNCHANGED <<single, testing, check>>

\* onDialFailed: a refused connection, the last of too many failures, or one more failure; the
\* window since the first one may be over.  While a check of the group is under way the counter
\* of the code goes on; that it is at least MaxFailedTimes is all that is kept of it.
OnDialFailed ==
    LET times == failedTimes + 1
    IN  \/ HealthCheck /\ UNCHANGED failedTimes
        \/ times > 1 /\ times >= MaxFailedTimes /\ HealthCheck /\ failedTimes' = MaxFailedTimes
        \/ /\ failedTimes' \in {n \in {0} : times > 1} \cup {n \in {times} : n < MaxFailedTimes \/ n = 1}
           /\ UNCHANGED <<single, testing, check>>

\* The group dials the proxy; a selector does not look at the outcome.
Dialled(c) ==
    LET o == loc[c].node.obj
    IN  /\ pc[c] = "chosen"
        /\ pc'  = [pc EXCEPT ![c] = "idle"]
        /\ loc' = [loc EXCEPT ![c] = Rest]
        /\ \/ kind = "select" /\ UNCHANGED <<single, testing, check, failedTimes>>
           \/ kind # "select" /\ ~Answers(o) /\ OnDialFailed
           \/ kind # "select" /\ Answers(o) /\ OnDialSuccess
        /\ UNCHANGED <<kind, provider, real, health, cache, selected, fastNode, idx, fn, since>>

-----------------------------------------------------------------------------
(* Set and ForceSet.                                                        *)

Set(c, n) ==
    /\ pc[c] = "idle" /\ kind \in {"select", "fallback", "url-test"}
    /\ pc'  = [pc EXCEPT ![c] = "version"]
    /\ loc' = [loc EXCEPT ![c] = [Rest EXCEPT !.op = "set", !.arg = n]]
    /\ UNCHANGED <<kind, provider, real, health, check, cache, selected, fastNode, idx, single,
                   failedTimes, testing, fn, since>>

\* The selection changes; calls that are under way need not go by it.
Select(c, n, next) ==
    /\ selected' = n
    /\ pc'  = [pc EXCEPT ![c] = IF kind = "url-test" THEN "reset" ELSE next]
    /\ loc' = [d \in Callers |-> [loc[d] EXCEPT !.fresh = FALSE]]

\* A fallback group tests a selected proxy that is not alive, after it is selected.
SetSelected(c) ==
    LET n == loc[c].arg
        o == loc[c].list[PositionOf(loc[c].list, n)]
    IN  /\ pc[c] = "set"
        /\ IF HasName(loc[c].list, n)
             THEN Select(c, n, IF kind = "fallback" /\ ~Alive(o) THEN "test" ELSE "returned")
             ELSE pc' = [pc EXCEPT ![c] = "returned"] /\ UNCHANGED <<selected, loc>>
        /\ UNCHANGED <<kind, provider, real, health, check, cache, fastNode, idx, single,
                       failedTimes, testing, fn, since>>

\* A test of proxy o is recorded.
Record(o) ==
    /\ health' = [health EXCEPT ![o] = real[o[1]]]
    /\ since' = [d \in Callers |-> IF pc[d] \in Choosing /\ health[o] # real[o[1]]
                                  THEN [since[d] EXCEPT !.changed = @ \cup {o}] ELSE since[d]]

SetTest(c) ==
    LET o == loc[c].list[PositionOf(loc[c].list, loc[c].arg)]
    IN  /\ pc[c] = "test"
        /\ Record(o)
        /\ pc' = [pc EXCEPT ![c] = "returned"]
        /\ UNCHANGED <<kind, provider, real, check, cache, selected, fastNode, idx, single,
                       failedTimes, testing, loc, fn>>

\* ForceSet(""), by a delay test of the REST interface.
Unfix(c) ==
    /\ pc[c] = "idle" /\ kind \in {"fallback", "url-test"}
    /\ Select(c, NoName, "idle")
    /\ UNCHANGED <<kind, provider, real, health, check, cache, fastNode, idx, single,
                   failedTimes, testing, fn, since>>

SetReset(c) ==
    /\ pc[c] = "reset"
    /\ Reset
    /\ pc'  = [pc EXCEPT ![c] = "idle"]
    /\ loc' = [loc EXCEPT ![c] = Rest]
    /\ UNCHANGED <<kind, provider, real, health, check, cache, selected, fastNode, idx,
                   failedTimes, testing, fn, since>>

SetReturn(c) ==
    /\ pc[c] = "returned"
    /\ pc'  = [pc EXCEPT ![c] = "idle"]
    /\ loc' = [loc EXCEPT ![c] = Rest]
    /\ UNCHANGED <<kind, provider, real, health, check, cache, selected, fastNode, idx, single,
                   failedTimes, testing, fn, since>>

-----------------------------------------------------------------------------
(* Health checks and updates of the provider.                               *)

\* By the ticker, or because the proxies were replaced.
CheckBegin ==
    /\ check' \in NewCheck
    /\ UNCHANGED <<kind, provider, real, health, cache, selected, fastNode, idx, single,
                   failedTimes, testing, pc, loc, fn, since>>

\* Mutant: only a successful test is recorded.
URLTestSuccess(o) ==
    /\ o \in check.todo
    /\ IF real[o[1]] # 0 THEN Record(o) ELSE UNCHANGED <<health, since>>
    /\ check' = [check EXCEPT !.todo = @ \ {o}]
    /\ UNCHANGED <<kind, provider, real, cache, selected, fastNode, idx, single,
                   failedTimes, testing, pc, loc, fn>>

\* One test of the check, and its record.
URLTest(o) ==
    /\ o \in check.todo
    /\ Record(o)
    /\ check' = [check EXCEPT !.todo = @ \ {o}]
    /\ UNCHANGED <<kind, provider, real, cache, selected, fastNode, idx, single,
                   failedTimes, testing, pc, loc, fn>>

CheckEnd ==
    /\ check.on /\ check.todo = {}
    /\ check' = [check EXCEPT !.on = FALSE]
    /\ UNCHANGED <<kind, provider, real, health, cache, selected, fastNode, idx, single,
                   failedTimes, testing, pc, loc, fn, since>>

GroupCheckEnd ==
    /\ testing /\ ~check.on
    /\ testing' = FALSE
    /\ failedTimes' = 0
    /\ IF kind = "url-test" THEN Reset ELSE UNCHANGED single
    /\ UNCHANGED <<kind, provider, real, health, check, cache, selected, fastNode, idx, pc, loc, fn, since>>

\* setProxies
SetProxies(l) ==
    /\ provider.version < MaxVersion
    /\ provider' = [version |-> provider.version + 1, names |-> l]
    /\ UNCHANGED <<kind, real, health, check, cache, selected, fastNode, idx, single,
                   failedTimes, testing, pc, loc, fn, since>>

\* A server comes or goes, or its delay changes.
World(n, d) ==
    /\ real[n] # d
    /\ real' = [real EXCEPT ![n] = d]
    /\ UNCHANGED <<kind, provider, health, check, cache, selected, fastNode, idx, single,
                   failedTimes, testing, pc, loc, fn, since>>

-----------------------------------------------------------------------------

\* selected may come from the cache file (patchSelectGroup).
Init ==
    /\ kind \in Kinds
    /\ \E l \in Lists \ {<<>>} : provider = [version |-> 0, names |-> l]
    /\ real \in [Names -> Delays \cup {0}]
    /\ health = [o \in Objects |-> Untested]
    /\ check = [on |-> FALSE, todo |-> {}]
    /\ cache = [version |-> MaxVersion + 1, list |-> <<>>]
    /\ selected \in {NoName} \cup Range(provider.names)
    /\ fastNode = EmptyFallback
    /\ idx = 0
    /\ single = [call |-> NoCaller, result |-> NoNode]
    /\ failedTimes = 0 /\ testing = FALSE
    /\ pc  = [c \in Callers |-> "idle"]
    /\ loc = [c \in Callers |-> Rest]
    /\ fn = [c \in Callers |-> Begin]
    /\ since = [c \in Callers |-> Quiet]

\* A call in progress goes on.
Continue(c) == \/ ReadVersion(c) \/ GetProxies(c) \/ Do(c) \/ Choose(c) \/ ChooseBegin(c)
               \/ FindAliveProxy(c) \/ ClearSelected(c)
               \/ Fixed(c) \/ Walk(c) \/ Keep(c) \/ ReturnFast(c)
               \/ Done(c) \/ Store(c) \/ Dialled(c) \/ SetSelected(c)
               \/ SetTest(c) \/ SetReset(c) \/ SetReturn(c)

Checks == CheckBegin \/ (\E o \in Objects : URLTest(o)) \/ CheckEnd

Calls == \E c \in Callers : Dial(c) \/ Unfix(c) \/ (\E n \in Names : Set(c, n)) \/ Continue(c)

Next == \/ Calls \/ Expire \/ Checks \/ GroupCheckEnd
        \/ \E l \in Lists : SetProxies(l)
        \/ \E n \in Names, d \in Delays \cup {0} : World(n, d)

Spec == Init /\ [][Next]_vars

\* Goroutines go on, tests end, the ticker of the health check goes on, and time passes.
Fairness == /\ \A c \in Callers : WF_vars(Continue(c))
            /\ WF_vars(Checks) /\ WF_vars(Expire) /\ WF_vars(GroupCheckEnd)

-----------------------------------------------------------------------------
(* Properties.                                                              *)

\* Where fn of fastSingle.Do has not returned.
InFn == {"version", "proxies", "choose", "fixed", "walk", "keep", "return", "done"}

\* Type invariant.
TypeOK ==
    /\ kind \in Kinds /\ selected \in Names \cup {NoName} /\ fastNode \in Objects \cup {EmptyFallback}
    /\ health \in [Objects -> Delays \cup {0, Untested}]
    /\ single.call # NoCaller => pc[single.call] \in InFn \cup {"store"}
    /\ \A c \in Callers : pc[c] = "wait" => pc[loc[c].arg] \in InFn
    /\ failedTimes \in 0..MaxFailedTimes

\* A cached list is only used for what it is: when the version of the cache is that of the
\* provider, the list is the one the provider has, although the version was read before the
\* mutex was taken and the list after.
CacheFresh == cache.version = provider.version => cache.list = Listed

\* A selection takes effect: a url-test group that is asked after Set or ForceSet has returned
\* goes by the new selection, although an older choice may be under way or remembered.
SetWins ==
    \A c \in Callers :
        kind = "url-test" /\ pc[c] = "chosen" /\ loc[c].fresh => loc[c].node.sel = selected

\* What a list offers: the proxies that passed their last test.
Passed(list) == {i \in DOMAIN list : Alive(list[i]) /\ LastDelay(list[i]) < MaxDelay}

\* A group that chooses by tests chooses a name of its list, and never a proxy that failed its
\* last test while another one in the list passed, although tests are recorded while it goes
\* through the list: whatever record did not change meanwhile is respected.  A url-test group
\* without a selection chooses one that is not slower than the fastest by more than the
\* tolerance, if no record changed.  The two exceptions are a fallback group that has or gives
\* up a selection, and the choice of a url-test group during which another one, after a Reset,
\* has changed the node in use, which both read and write without a lock (urltest.go:143-146).
ChoosesWell ==
    [][\A c \in Callers :
         LET o    == loc'[c].node
             list == loc[c].list
             h    == since[c]
         IN  /\ pc[c] \in Choosing \cup {"choose"} /\ pc'[c] \in {"done", "chosen"}
             /\ kind # "select" /\ (kind = "fallback" => o.sel = NoName) /\ ~h.raced
             => /\ HasName(list, o.obj[1])
                /\ (\E i \in Passed(list) : list[i] \notin h.changed) =>
                     Alive(o.obj) \/ o.obj \in h.changed
                /\ kind = "url-test" /\ ~HasName(list, o.sel) /\ h.changed = {} =>
                     \A i \in Passed(list) : LastDelay(o.obj) <= LastDelay(list[i]) + Tolerance]_vars

\* The connection that is about to be dialled goes to a server that answers, or none does.
DialsWork ==
    \A c \in Callers : pc[c] = "chosen" =>
        LET o == loc[c].node.obj
        IN  Answers(o) \/ \A i \in DOMAIN provider.names : real[provider.names[i]] = 0

\* Failures are found and avoided: when servers no longer come and go and the list is the one
\* the group began with, a group that chooses by tests ends up dialling servers that answer.
Recovers == [](provider.version = 0) /\ kind # "select" => <>[]DialsWork

\* A url-test group uses the node with the lowest delay by its tests (docs/config.yaml:1410), so
\* it ends up dialling servers that answer, also when the provider has been updated.
UsesTested == kind = "url-test" => <>[]DialsWork
=============================================================================
