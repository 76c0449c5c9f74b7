# Flowly for Android: TLA+ models of the application and of its proxy core

Flowly is a VPN/proxy client for Android, written in Kotlin, with a proxy core
(mihomo) in Go behind JNI. This directory holds TLA+ models of the parts of both in
which state is shared between coroutines, goroutines, threads, processes and files. On
the side of the application: how profiles are downloaded, edited, published and deleted,
how the two foreground services start, stop, fail and come back, and how the app keeps
its connection to them. On the side of the core: the concurrent map under its tables, the
fake-ip pool, the fetcher of providers, the choice of a proxy by a group, and the UDP
sessions of the tunnel. TLC checks the models on small instances; TLAPS proves their
safety properties for every size, except that the concurrent map implements an atomic one.

All source paths below are relative to the repository. `service/...` stands for
`service/src/main/java/com/github/kr328/clash/service/`, `app/...` for
`app/src/main/java/com/github/kr328/clash/`, `native/...` for
`core/src/main/golang/native/`, `clash/...` for `core/src/foss/golang/clash/`, the core.

## 1. Inventory

The application runs as two processes. The **main process** holds the activities, the
tile and the receivers; the **:background process** holds the services, the profile
manager, the database and the proxy core. They meet through a bound service
(`RemoteService`), a content provider (`StatusProvider`), broadcasts restricted to the
package, and files.

| Component | State | Operations | Meets | Hard behaviour | What makes it correct |
|---|---|---|---|---|---|
| Profile store and processor (`service/ProfileProcessor.kt`, `ProfileManager.kt`, `document/Picker.kt`, Room tables) | tables `imported` and `pending`; `imported/<uuid>`, `pending/<uuid>` and one shared `processing` directory; `profileLock`, `processLock`; the age key in the core | create, clone, patch, rename, commit (apply), update, delete, release, edit through the file picker | UI over the binder; the worker; the core (`FetchAndValid`) | two mutexes, one of them dropped for the download; four operations that take none; deletion of files before their replacement is copied; kills | what is published was accepted and is the profile's own; a late download does not undo a deletion or a change of the row; every call returns |
| VPN and proxy service (`service/TunService.kt`, `ClashService.kt`, `StatusProvider.kt`, `clash/ClashRuntime.kt`, `clash/module/*`) | service instances, runtime coroutine, module coroutines, `globalLock`, `serviceRunning`, `runningPid`, `currentProfile`, `service_running.lock`, `tun_active.lock` | onCreate, onStartCommand, onDestroy, onRevoke, the runtime's select loop, open/attach/close of the tun | broadcasts to the app; the system (start, kill, revoke) | main thread blocked in onDestroy; onRevoke on a binder thread; sticky restarts; files that outlive the process | the intent to be connected survives; the marker tells the truth; a stop ends the service; nothing of an old runtime hits a new one |
| App-side control (`app/remote/Service.kt`, `remote/Broadcasts.kt`, `remote/StatusClient.kt`, `util/Clash.kt`, `RestartReceiver.kt`, `MainActivity.kt`, `TileService.kt`) | `clashRunning`, the binding, the time of the last crash, a posted restart, `enableVpn` | start, stop, switch of the mode, bind/unbind, restart after a crash, a boot or an unlock | the services | broadcasts in flight; a status copied and then used; crash detection racing recovery | what the app shows follows the service |
| Configuration module (`service/clash/module/ConfigurationModule.kt`, `store/ServiceStore.kt`, `data/SelectionDao.kt`, `ClashManager.kt`) | active profile, loaded profile, selections, age key in the core | load, reload on PROFILE_CHANGED, patchSelector | profile store, core | reads the imported directory without `profileLock`; shares the age key with downloads | the core ends up with the active profile's current files |
| Update schedule (`service/ProfileReceiver.kt`, `ProfileWorker.kt`) | one alarm per profile, the worker's job list | schedule, scheduleNext, cancelNext, rescheduleAll, the drain loop | profile store, alarm manager | re-arming with a stale row; stopSelf racing a start | each automatic profile has an alarm, and no other has |
| Remote connection (`app/remote/Resource.kt`, `util/Remote.kt`, `service/RemoteService.kt`) | the current binder and its waiters | get, set, reset, the retry loops withClash/withProfile | both processes | a reset racing a reconnect; a call repeated after a crash | no waiter is forgotten; a reset drops only the binder it saw |
| Native bridge (`native/tun.go`, `native/config/*.go`, `cpp/main.c`) | the current tun, its semaphore, its callback object | startTun, stopTun, fetch, load | services, core | closing while callbacks run | no callback after release; one tun at a time |
| Other runtime modules (network, suspend, notifications, time zone, app list) | the network set, the suspend flag | forward system events | core | none that other parts depend on | - |
| Kernel manager (`app/kernel/KernelManager.kt`, `SettingsActivity.kt`, `core/bridge/Bridge.kt`) | one cached library per channel, the `active` marker, the recorded versions | install, switchToCached, clearCustom, migrateLegacyIfNeeded, loadNativeLibrary | every process at its start | a failed step of an installation; kills between file, marker and version | the marker and the version name the library that is loaded |
| Database and migrations (`service/data/Database.kt`, `data/migrations/*`) | the Room database | opening, the one-time import of the old database | profile store | - | - |
| Document provider (`service/FilesProvider.kt`, `document/Picker.kt`) | profile directories | the write path (part of the profile store), listing, opening, removal | profile store | files written through a descriptor during a commit or after it | as for the profile store |
| User interface, log capture | what is drawn; a ring of log lines | - | - | - | - |
| Concurrent map (`clash/common/xsync/map.go`) | tables of bucket chains, the table under construction, a word of sequence number and helpers | Load, Store, LoadOrStore, LoadAndDelete, Range, Size; grow and shrink | NAT table, connection table, health records | lookups without a lock; a resize that several goroutines share; retries | it behaves as an atomic map; calls return |
| Fake-ip pool (`clash/component/fakeip/*`, `common/lru`, `component/profile/cachefile/fakeip.go`) | two LRU caches or one bucket of the cache file; offset and cycle | Lookup, LookBack, flush, clone at a reload, store and restore of the offset | DNS handler, tunnel, REST, executor | two directions that must forget the same pairs; reuse of addresses; kills; writes whose failure is only logged; operations that do not take the mutex | an address stands for the host it was given to |
| Provider fetcher (`clash/component/resource/*`, `component/profile/cachefile/etag.go`) | hash, contents, file, ETag | Initial, Update, the pull loop, Close | providers, REST, executor | a download outside the mutex; an ETag stored before the document is accepted; a file written in place | contents, hash, file and ETag agree; the provider ends up with the server's document |
| Proxy groups and health check (`clash/adapter/outboundgroup/*`, `adapter/provider/*`, `adapter/adapter.go`, `common/singledo`) | the list of the provider and its version, the cached list, the selection, the node in use, test records, the counter of failures | dialling through a group, Set, ForceSet, health check, update of the list | tunnel, UI, REST, fetcher | version and list read at different moments; results shared for ten seconds; a choice that holds no lock; lists replaced under it | a selection takes effect; dead servers are avoided |
| UDP sessions (`clash/tunnel/tunnel.go`, `tunnel/connection.go`, `component/nat/table.go`) | queues, NAT table, per session a channel, a socket and two address maps | packet in, dial, forward, reply, timeout, close | listeners, groups, concurrent map | clean-up by key; a channel that is closed while it is filled; changing DNS answers | one session per source, packets in order, replies translated back |
| Rest of the core (transports, outbound protocols, listeners, rules, configuration parser, DNS clients, sniffers, TCP path) | - | - | - | see section 5 | - |


`PROJECT.json` lists the same components with their sources and, under `hazards`, every
place of this code that a test would hardly reach, with the property that watches it or
a note why there is none.

## 2. Modules

| Module | Models | Used by |
|---|---|---|
| `ProfileProcessor` | tables, directories, mutexes; `apply`, `update`, `delete`, `release` step by step | `ProfileManager` |
| `ProfileManager` | the rest of `ProfileManager.kt` (`create`, `clone`, `patch`, `rename`), the write path of `Picker`, kills; `Init`, `Next`, `Spec`, properties | `MCProfileManager`, `ProfileManager_proofs` |
| `MCProfileManager` | bound on the number of calls, symmetry | runs `profiles`, `profiles_live` |
| `ProfileManager_proofs` | inductive invariant and theorems | - |
| `ServiceLifecycle` | both services, runtimes and modules, StatusProvider, the app side, kills, reboots, revocations | `MCServiceLifecycle`, `ServiceLifecycle_proofs` |
| `MCServiceLifecycle` | bounds on the user's actions | runs `service`, `service_kill` |
| `ServiceLifecycle_proofs` | inductive invariant and theorems | - |
| `RemoteResource` | `Resource`, `withClash`/`withProfile`, the binding and its callbacks, kills | `MCRemoteResource`, `RemoteResource_proofs` |
| `MCRemoteResource` | bound on the openings of the app | run `remote` |
| `RemoteResource_proofs` | inductive invariant and theorems | - |
| `AtomicMap` | what a concurrent map promises (abstract specification) | `XsyncMap` |
| `XsyncMap` | `clash/common/xsync/map.go`, one step per atomic access; implements `AtomicMap` | `MCXsyncMap`, `XsyncMapInv` |
| `MCXsyncMap` | bound on the calls, two hash functions, a map about to grow or to shrink | runs `xmap`, `xmap_live` |
| `XsyncMapInv` | the inductive invariant of the map: control of a resize, entries, counters | `XsyncMap_proofs` |
| `XsyncMap_proofs` | the theorems about the map | - |
| `LruCache` | `clash/common/lru` as operators | `FakeIP` |
| `FakeIP` | pool, memory store and cache-file store, reload, shutdown, kill | `MCFakeIP`, `FakeIP_proofs` |
| `MCFakeIP` | bounds on reloads and failed writes, symmetry, a view without pools that are no longer used | run `fakeip` |
| `FakeIP_proofs` | lemmas about the LRU cache, inductive invariant and theorems | - |
| `Fetcher` | fetcher with an HTTP vehicle, its file, its ETag, its successor after a reload | `MCFetcher`, `Fetcher_proofs` |
| `MCFetcher` | bounds on changes of the server, failures and extra updates | run `fetcher` |
| `Fetcher_proofs` | inductive invariant and theorems | - |
| `ProxyGroup` | five types of group over one provider, singledo, health check | `MCProxyGroup`, `ProxyGroup_proofs` |
| `MCProxyGroup` | one goroutine that dials for ever, bound on everything else | runs `groups`, `url_test` |
| `ProxyGroup_proofs` | inductive invariant and theorems | - |
| `UDPSession` | queues, NAT table, sessions | `MCUDPSession`, `UDPSession_proofs` |
| `MCUDPSession` | one source, two fake addresses that share a server | run `udp` |
| `UDPSession_proofs` | inductive invariant and theorems | - |

### 2.1 ProfileProcessor and ProfileManager

A *call* (`Calls`) is a coroutine that executes one operation. `pc[c]` says how far it
is; `snap`, `row` and `seen` are its local variables (the snapshot taken under
`profileLock`, a row it has read, the version of the files it has begun to copy).
There is a label wherever another coroutine can get in between: at each suspending
call (mutexes, Room queries, the download) and before each separate file operation.
A labelled step does everything the code does between two such points.

* `processLock` is held for the whole of `apply` and `update`; `profileLock` is held for
  their beginning (snapshot, staging) and their end (comparison, publication), not for
  the download. `delete` and `release` take `profileLock` only. `create`, `clone`,
  `patch`, `rename` and the picker take neither.
* A copy of a directory is two steps, begin and end, with the target `Partial` in
  between. A copy that finds its source replaced meanwhile may fail or succeed.
* `FetchAndValid` (`native/config/fetch.go`) downloads when it is forced or when there is
  no configuration yet, and otherwise parses what was staged (`Fetched`): a file that was cut
  short may parse (`Cut`) or not. When it fails it may leave anything behind (`FetchError` leaves
  `Partial`). A failure of any step ends
  the call with the mutexes released, as `withLock` does.
* The picker (`PickCall` to `PickOpen`) reads the two tables, inserts the row (over one that was
  written since it looked), copies the files, reads both tables again and opens `config.yaml` in the
  directory that the rows then name, in a mode that may truncate it. The client writes through its
  descriptor whenever it likes and whatever it likes (`WriteFile`); `opened` holds the files that are
  open. A descriptor is never closed in the model, which allows more writes than clients make; it
  loses its file when the directory is deleted (`Detach`), and survives a kill of the service.
* `Kill` loses all calls, mutexes and the age key, and keeps tables and directories.

*Data.* A `source` stands for the URL together with the age key of a profile; the copy of the key
that the core keeps (`ageSecretKey`) is written and reset but read by no guard. A
directory stands for its `config.yaml`: `NoDir`, `Blank` (created by `create`, no configuration
yet), `Partial`, the source it came from, or `Cut`, a part of a file that the core accepts. The
sources and `Cut` are `Accepted`. The provider files beside it are a cache: `FetchAndValid` ignores a
provider that cannot be downloaded (`fetch.go:238`), and nothing is claimed of them. Names matter only for equality. `Pending` carries a
stamp (`createdAt`), the only column that makes two otherwise equal pending rows differ
for the comparison `snapshot == queryByUUID` of `apply`. The interval and the traffic
columns are left out: `apply` and `update` copy them and no guard of the model reads
them, except the field check, whose two failing conditions (blank name, blank source of
a Url profile, bad interval) are one: `FieldValid`.

*History variables.* `torn` holds the profiles whose publication was cut short by a kill
or an I/O error, and those whose imported file a client opened in place; `raced` the ones whose rows an operation without a lock wrote during a
publication, or whose publication was killed before it wrote its row; `deleted` the ones
whose deletion began while no operation without a lock was at work on them. They appear
in properties only, never in guards: they mark the cases in which the code makes no
promise, and TLC finds counterexamples to the properties without them.

### 2.2 ServiceLifecycle

| Model | Code |
|---|---|
| `svc[k]` | the instance of `TunService` / `ClashService`: `run`; `dup` when onCreate turned it away; `stop` after `stopSelf`; `join` inside onDestroy |
| `rt[k]` | the coroutine of `clashRuntime`: waiting for `globalLock`, initialising, `open` and `attached` for the two halves of `TunModule.open()`, the select loop, closing |
| `mods[k]` | the coroutines of the modules installed by the runtime, which start and end in their own time |
| `closeEvt[k]` | CloseModule has received ACTION_CLASH_REQUEST_STOP |
| `serviceRunning`, `runningPid`, `currentProfile` | the fields of `StatusProvider`, lost with the process |
| `lockFile`, `tunActive` | `service_running.lock` and `tun_active.lock` |
| `clashRunning`, `bound`, `disconnected`, `restartPosted`, `enableVpn` | the main process |
| `iface`, `revoking`, `granted`, `startReq`, `bus`, `alive` | the system: the interface, a revocation whose callback is on its way, the user's consent, starts and broadcasts in flight, the process |
| `stopping` | onRevoke has cleared the marker and is about to call `TunModule.requestStop` |
| `misled` | history: `tunActive` was set when there was no tunnel, or none that stays |

`MainThreadFree` expresses that onDestroy blocks the main thread of :background until
the coroutines of its service are gone, so that no other onCreate, onStartCommand or
onDestroy runs meanwhile; onRevoke runs on a binder thread and is not held up. It takes two
steps, the marker and `requestStop`, which closes whatever tunnel the core then serves: called
late, it stops the tunnel of a later instance. A start without the user's consent asks for it and
starts nothing, also when the user agrees (the callback of the launcher is empty,
`MainActivity.kt:47-49`); the user has to ask again.

*Taken from Android and marked external in the map:* a sticky service whose process is
killed is started again; a bound service's process is recreated; a broadcast reaches
the receivers that are registered when it is sent; the interface is gone before
`onRevoke` is called; the core closes the descriptor when it fails to take it over. A
failed `startTun` is visible to nobody because the JNI function drops its result
(`cpp/main.c:128`).

*Left out:* addresses, routes, the system proxy and the access list of the interface,
memory trimming, network events (they do not end the loop), the tile's own copy of
`clashRunning`, which follows the same rules, and the health check of `MainActivity`,
which changes only what is drawn.

### 2.3 RemoteResource

`value` and `pending` are the fields of `Resource`; its methods are synchronized, so each
is one step. A binder is a number, new with every `onServiceConnected`, because
`resetIfMatched` compares by identity and `unwrap` makes a new proxy. `callbacks` are the
calls of `onServiceConnected` and `onServiceDisconnected` that the main thread has not
run yet; the system drops them after `unbind`. A call goes through `get` (or waits),
`remote.clash()` (outside the try block, so that a dead binder ends the call with an
exception), the execution of its block and the arrival of the reply; if the process dies
at either of the last two, it resets its binder and starts over, which may execute the
block a second time.

The module has the binding in common with `ServiceLifecycle` (`bound`, `disconnected`
there) but looks at the other consumers of it; the restart that follows a crash is in
`ServiceLifecycle` only.

### 2.4 XsyncMap and AtomicMap

`AtomicMap` is what callers rely on: a call that writes takes effect once, at one moment
between its beginning and its end; a call that looks (`Load`, and `Range` for each key)
returns something that was there at some moment of the call. `XsyncMap` is the code: tables
are objects that are never reused, a chain of buckets is the sequence of its slots, and each
atomic load, store and compare-and-swap that another goroutine can tell apart is a step.
Taking a mutex is merged with the step after it and releasing one with the step before it.
The striped counter of a table is one number.

The refinement is `Linearizable == Abs!ASpec`, with `Abs == INSTANCE AtomicMap WITH ...`. The
contents of the map are read off the current table, which during a resize is the old one until
the new one is published; an entry counts from the store that completes it to the store that takes
its meta byte away. `seen`, a history variable, keeps
what each key was mapped to since a call began. `doCompute` is modelled as its callers use it;
Clear, DeleteMatching, RangeRelaxed, LoadAndStore, Compute and Stats are not called by the
program.

### 2.5 FakeIP and LruCache

`pools` are the pools of the configurations loaded since the process started, `cur` the one in
use, `file` the bucket of the cache file, which survives a kill. A Lookup is one step per store
operation: hit, or allocation (`Alloc` takes the next address from whoever has it), `PutByIP`,
`PutByHost`. `FlushFakeIP`, `CloneFrom` and `restoreState` do not take the mutex of the pool;
the history variable `raced` records that one of them overlapped a Lookup, and `AddressesBelong`
and `CachesAgree` are claimed up to that moment only (the run explores no further). Without this
exception TLC finds a Lookup between the two halves of a flush that leaves a host with an address
that stands for nobody.

Each write to the cache file may fail, which the code logs and ignores (`AllocFails`, `PutByIPFails`,
`PutByHostFails`; `cachefile/fakeip.go:50-52, 81-83, 106-108`); so may one of the two writes of a
shutdown (`ShutdownFails`) and the flush at a start. A failed `DelByIP` or `PutByIP` leaves one
address with two hosts or with the wrong one: the history variable `spoilt` records it, and
`AddressesBelong` says nothing of that address and everything of all others. A flush of the file
that fails changes nothing but may be tried again, so it is no step. `CloneTo` copies the list; in
the code the old and the new cache share their entries (`lrucache.go:200-203`), of which only a `Set`
of a key that is already there would write one; a Lookup sets a host that it did not find and an
address that it has just deleted.

### 2.6 Fetcher

`fetchers` are the fetchers of the configurations so far: an old one goes on until its finalizer
closes it, and writes the same file. Documents stand for their hashes. `call[i][p]` is the
`Initial`, the pull loop or the REST update in progress: request with the hash and the ETag it
was given, answer (which stores the ETag), comparison, parser, `safeWrite` in two steps with the
file `Torn` in between, hash and contents. A torn file, or the part of a file that a failed read
returned, since `Initial` drops that error (`fetcher.go:59-61`), may parse or not (`Parses`). The
ETag may fail to be stored (`ReceiveUntagged`). A kill loses fetchers and keeps file and ETag. When
timers fire is left open. Two fields of a call are history: `seen`, the document of the server at
its answer, and `overtaken`, that another call on the same fetcher installed a document after this
one had sent its request with an ETag. Without that exception `SuccessIsFresh` is false: the answer
"not modified" is then about the document that the fetcher had, not about the one it has.

### 2.7 ProxyGroup

A proxy is a pair of a name and the version of the list it was made for, because an update makes
new objects with new test records. `health[o]` is the last record of an object for the test URL,
`real[n]` the server behind a name. `cache` is `providerVersions` with `providerProxies`, `single`
is the `singledo` of url-test. A dial reads the version, takes the list under the mutex, chooses,
and meets the server. url-test and fallback choose without a lock: `fn[c]` are the local variables of
the loop, and each step takes in one proxy (`FindAliveProxy`, `Fixed`, `Walk`), so that records,
`selected` and `fastNode` may change in between. `ClearSelected` is a step of its own, because
`fallback.go:111-115` may erase a selection made since it looked. `Keep` compares and assigns
`fastNode`, and `ReturnFast` reads it again (`urltest.go:143-146`): after a Reset two calls may be
there at once and one may return the node of the other. `since[c]` is history: the records that have
changed since `c` began to choose, and whether another choice has changed `fastNode` meanwhile;
`ChoosesWell` excepts the latter, and TLC finds a violation without that exception. select,
round-robin and consistent-hashing choose in one step. `failedTimes` stops at
`MaxFailedTimes`, beyond which the code does not tell values apart. `OnDialFailed` keeps the window of the failure counter open: it may have
ended at any moment. One provider without filters and one test URL; delays are compared with the
width of `uint16`, `MaxDelay` standing for 0xffff.
Sticky sessions are left out: they try four times by the clock and then take the first proxy, dead or
not, so what holds of them holds with some probability only.

### 2.8 UDPSession

`queue` are the channels of the workers, `work` the packet a worker is handing over, `table` the
NAT table (atomic, which is what `xmap` shows of the map it is made of), `session` all sessions
ever made. A session has the goroutine that dials and then forwards (`run`), the socket (`pc`) and
the clean-up of `handleUDPToLocal` (`end`), one step each for cancel, dropAll, the close of the
socket and the deletion of the key. `AddMapping` fills the two address maps; a host may be
resolved to different addresses at different times (`Answers`).

## 3. Runs

Passing runs:

| Run | Instance | Shows |
|---|---|---|
| `profiles` | 2 concurrent calls, 4 in a behaviour, 1 profile, 2 names, 2 sources, 2 stamps, any writes of clients, any kills | `TypeOK`: types, and each mutex belongs to the call in its critical section; `ImportedFilesAccepted`: the configuration of an imported profile is one that the core accepted, except during a publication, after one was cut short, or when a client opened the imported file itself; `ImportedContentOwn`: its files come from its source; `DeletedStaysDeleted`: a download under way does not bring a deleted profile back; `CommitPublishesRow`: a commit drops only a row that it has published |
| `profiles_live` | 2 concurrent calls, 3 in a behaviour | `CallsReturn` |
| `service` | one start, one switch of the mode, no kills | `TypeOK`, with one runtime at a time past `globalLock`; `IntentSurvives`: the lock file exists while the VPN service runs (with kills: the theorem); `StopEnds`: a stop that was received ends the service |
| `service_kill` | two starts, one opening of the app, two kills or reboots (the second crash in a row makes the app unbind) | `MarkerHonest`: the marker of the VPN service is true unless it was wrong when set or onRevoke is about to clear it; `StopHitsOwnTunnel`: the `requestStop` with which an earlier instance ends never takes the interface from a running service; `AppLearnsOfStop`: an open app learns of the end of a service it stopped, also if the process dies first |
| `remote` | 2 calls, 2 kills, 2 openings | `TypeOK`; `NoLostWaiter`: no call waits beside a binder; `BinderKept`: a binding whose callbacks were delivered has its binder in `Resource`, also when a call resets an older one late; `CallsEnd`: while the app is bound every call ends |
| `xmap` | 2 goroutines, 3 calls, 2 keys, with and without collision, one slot to a bucket, one helper | `OnePlace`: every entry is in its bucket and no table holds a key twice; `HelpersCounted`: the helper count is that of the goroutines at work for this resize; `SizeExact`: counters differ from the contents only by additions still to come; `Linearizable`: the map implements `AtomicMap` |
| `xmap_live` | 2 goroutines, 2 calls | `CallsReturn` |
| `fakeip` | 2 goroutines, 3 hosts, ranges of 1 and 3 addresses, caches of 2, memory and cache file, a reload, flushes, kills, shutdowns, one spoilt address | `AddressesBelong`: a host that has an address is the one the address stands for, failed writes spoil only their own address; `CachesAgree`: the two caches hold the same pairs in the same order, at most two; `ShutdownKeeps`: a shutdown that could store its state and a start with the same range lose no address |
| `fetcher` | a fetcher and its successor, 2 good documents and a bad one, one change of the server, one failure or kill, one extra update | `TypeOK`; `ContentsAreHash`: what is in use is what the hash says; `FileParses`: no document that the parser rejects is in the file (which may be torn); `SuccessIsFresh`: an update without an error has left the document that the server had when it answered; `Converges`: the provider ends up with the document of the server |
| `groups` | 2 names, 5 types of group, one goroutine that dials for ever, two other events | `TypeOK`; `CacheFresh`: a cached list belongs to its version; `SetWins`: a dial after a selection goes by it; `ChoosesWell`: no proxy that failed its test is chosen over one that passed, whatever tests are recorded during the choice, and url-test stays within the tolerance; `Recovers`: with an unchanged list a group ends up dialling servers that answer |
| `udp` | 1 source, 3 packets, 2 addresses that share a server, queues and channels of 2 | `TypeOK`: types, and the stages of a session: a packet is in hand only while it is processed, and the key goes after the socket; `OneSession`: a session stays in the table until its socket is closed, and no clean-up removes its successor; `MappingAgrees`: a reply gets an address that the application sent to and that stands for that server; `AtMostOneLost`: a closed sender keeps at most one packet; `InOrder`; `Settles`: nothing waits for ever |

The run that finds a counterexample:

| Run | What the repository says | What happens |
|---|---|---|
| `url_test` | a url-test group uses the node with the lowest delay by its tests (`clash/docs/config.yaml:1410`) | `fast()` recognises `fastNode` by name. After an update of the provider it is an object that no check tests any more; its last delay stays as good as it was, and the group dials it for ever although its server is dead and the tests of the new list know better (`urltest.go:127,143`) |

### Disagreements between comments and code of the application

Four definitions state what a comment says and the code does not do. They are not part of a
run; TLC finds a counterexample to each when it is added to the configuration named here.

| Definition | Configuration | Comment | What happens |
|---|---|---|---|
| `RenameKeepsSource` | `MCProfileManager.cfg` | "Fast path: only update display name in DB" (`ProfileManager.kt:135`) | `rename` writes back all columns of a row it read before a commit and undoes the commit's change of the source |
| `RevokeStopsService` | `MCService.cfg` | after onRevoke "let the runtime stop cleanly" (`TunService.kt:152-154`) | nothing wakes the select loop; the service stays |
| `MarkerReflectsTunnel` | `MCServiceKill.cfg` | `tunActive` "must reflect the REAL tunnel state" (`StatusProvider.kt:92`) | it is set after a `startTun` that failed, or after an onRevoke that ran in between |
| `OneInstance` | `MCService.cfg` with `MaxStarts = 3` and `MaxOpens = 1` | "Robust duplicate-instance guard" (`TunService.kt:87`) | a service that was turned away clears `serviceRunning` in its onDestroy; the next start passes |

The user's stop is said to clear the lock file (`TunService.kt:107-108`, `MainActivity.kt:273-275`).
No stop path does: nothing in the models, as nothing in the code, deletes it but
`ClashService.onCreate`, and the next unlock connects again. This needs no run.

What the models show beside the comments, and no property excludes:

* A client of the picker that has a file of `pending/<uuid>` open during a commit writes to a file
  that the commit deletes (`ProfileProcessor.kt:83`): the comparison at line 54 is of rows.
  `PickInsert` replaces a row that was written since the picker looked (`Picker.kt:124-130`).
* `MarkerHonest` excepts the marker that was wrong when it was set (`TunService.kt:267`, onRevoke
  during `open`); that the marker is wrong then is what `MarkerReflectsTunnel` shows.
* A fallback group may erase a selection that was made while it looked for a proxy.
* A url-test group may return a node that failed, or one outside the tolerance, when two choices
  run at once after a Reset.

`IntentSurvives` is stated for the VPN service only. `ClashService.onCreate` deletes the lock
file right after it was created whenever it is the first service of its process
(`ClashService.kt:83-85`), so in proxy mode the app does not come back after a boot, although
the comment in `RestartReceiver.kt:12` does not tell the modes apart.

### Bounds

* `Calls` bounds the calls that overlap, `MaxCalls` those of a behaviour. Races in this
  code are between two calls (both mutexes are binary and every comparison is with one
  earlier read); a third and fourth call prepare the state they race in (create, commit)
  or observe it afterwards.
* `MaxStamp` bounds the edits that give a pending row a new `createdAt`. With two, an
  edit can follow the snapshot of a commit that is itself of an edited row.
* One profile with two sources: what profiles share is the processing directory and the age
  key, and two calls with different sources of one profile meet there as two profiles do. The
  theorems hold for any number of profiles, `LockInv` among their lemmas: the directory has one
  user at a time.
* `MaxBus` = 2 broadcasts in flight, a bound that is not in the code (`Broadcast.kt:9-14` only sends): starts and restarts that nobody
  answers could fill `bus` without end. `RECREATED` and `STARTED` are sent in one go, and a
  third only delays the sender, as a full queue of the main process would delay the view
  of the app. The theorems hold for every bound.
* `MaxKills`, `MaxStarts`, `MaxSwitches`, `MaxOpens`: a start, a change to the other mode
  and a kill are what it takes to have both services, a stale marker and a sticky
  restart; a second start asks again after the consent, or gives the instance that an earlier one
  could harm. Automatic starts (unlock, crash recovery, sticky) are not bounded. `service` has the
  switch and no kill, `service_kill` the kills and no switch; their safety properties are
  proved for every bound, so the runs are there for the liveness and for the mutants.
* `RemoteResource`: two kills and two openings give a third binder while calls still hold
  the first and the second, and the second crash in a row; of two calls one can hold an old
  binder while the other waits or is served.

* `XsyncMap`: one slot to a bucket and two keys make every second insertion append a bucket or
  grow the table; three calls are a resize by one goroutine, a writer that meets it and a call
  after or between. A stride and a helper limit of one leave each of two buckets to another
  goroutine.
* `FakeIP`: three hosts on one or three addresses with caches of two entries: eviction, reuse of
  an address that is still in use, and the end of the range all happen. One address is spoilt at a
  time, and none after a reload; on the cache file a second Lookup is let in only when there are two
  pools (`Alone`), because with one the mutex lets it do nothing.
  In memory, where two pools share only entries that neither writes, a Lookup that is late on the old pool excludes one on
  the new (`Apart`); with the cache file, which they share, both happen. A replaced pool that nobody
  works on is left out of the comparison of states (`VIEW Alive`): no step reads it. The theorems
  have neither bound.
* `Fetcher`: one change of the server, one failure or kill, one update besides the pull loop, which an old fetcher that is
  closed uses up too, in any order: an ETag of a document that was not taken over, and answers that overtake each other,
  need no more. `d1` and `d2` are interchangeable, so the first of them to appear is `d1`; without ETags only
  the start without a file is looked at.
* `ProxyGroup`: two events beside the dialling: a server dies and the list changes, a selection
  overlaps another dial, a server dies and comes back. The second proxy is the faster one, so that
  url-test prefers what fallback does not; the selection at the start is one that the group would
  not make itself. An update in run `groups` shortens the list (`Updates`), in `url_test` it repeats it.
* `UDPSession`: three packets are what it takes to fill a channel of two or to have two sessions
  overlap with a packet for each and one in between. Sources do not share anything but a worker.

The bounds on the user are in the MC modules, as guards around the actions; the
specifications have none.

### Fairness

* Profiles: strong fairness of `Step(c)`. A coroutine that can run does run, and
  `kotlinx.coroutines.sync.Mutex` queues its waiters in order, so a call that finds a
  mutex free again and again gets it. Nothing is assumed of new calls or of kills.
* Services: weak fairness of the runtime's and the modules' coroutines, of the delivery of
  broadcasts and of `onRevoke`; strong fairness of what the main thread of :background
  does, because its queue is first-in first-out but the thread is sometimes blocked, and
  of `Recreate`, which sends a broadcast. Nothing is assumed of the user, of revocations,
  kills, crash recovery, or of whether the profile loads.
* Remote calls: weak fairness of the system's connection, of the callbacks and of every
  step of a call; nothing is assumed of new calls, cancellations, visibility or kills.

* Concurrent map: weak fairness of every goroutine in a call. A spinning owner and a writer that
  retries are steps like others.
* Fetcher: weak fairness of what is in progress and of the pull loop of the configuration in use
  (`interval` > 0); failures are bounded, then servers answer.
* Groups: weak fairness of the goroutines, of the health check and of time (`Expire`). The checks of the
  ticker restore the records even if `failedTesting` or `failedTimes` swallow the check that the
  group would start itself, so `Recovers` does not watch those two. The check of
  a provider with an interval runs for ever; a lazy one does as long as connections are dialled,
  which they are.
* UDP: weak fairness of workers, of the goroutines of a session (dialling and resolving have
  timeouts) and of the read error of a closed socket. A session that nobody closes need not end.

Deadlock is checked for the concurrent map. Elsewhere it is not: with all calls done, or with the service stopped and the user
idle, the system may rest.

## 4. Proofs

TLAPS checks the theorems for every value of the constants.

**`ProfileManager_proofs`** (assumptions: the special values are distinct from each
other and from the model's data, `ConstantsAssumption` and `NoRowAssumption`; `MaxStamp`
is a natural number).

* `TypeCorrect`: `Spec => []TypeOK`.
* `ImportedFilesStayAccepted`: `Spec => []ImportedFilesAccepted`. The invariant is not
  inductive as it stands. `IInv` adds `LockInv` (a mutex belongs to the one call whose
  label is in its critical section, so that no second publication or deletion touches the
  files meanwhile), `Staged` (from the end of the download to the end of the copy the
  processing directory holds what the core accepted, which needs that nobody else holds
  `processLock`), `Published` (when a publication writes its row, its files are accepted),
  `Opened` (a client that has an imported file open, which is not deleted, has made its profile
  `torn`), `DeletedRow` (a deletion removes files only after the row) and `LocalTypes` (which table a
  call's local rows are from).
* `ImportedContentStaysOwn`, `DeletionIsFinal`, `CommitKeepsRows`: the invariants
  `ImportedContentOwn` and `DeletedStaysDeleted` and the action property `CommitPublishesRow`, from
  the same `IInv`. They need parts that follow a profile through a whole call. `StagedOwn`: what
  has been downloaded comes from the source in the snapshot of the call. `UpdateOwn` and
  `ApplyOwn`: after the comparison with the snapshot, the rows stay what they were compared with
  until the publication has written them, unless the profile is in `raced`. `Known` and `Cloning`:
  nobody but its creator works on a profile that has no row yet. `Gone` and `Remains`: a deletion
  under way has removed the imported row, no call is past the comparison that would bring it back,
  and what remains to be removed is what the label of the deletion says.

**`ServiceLifecycle_proofs`** (assumption: `BoundsAssumption`, room for two broadcasts).

* `ServiceTypeCorrect`, `IntentAlwaysSurvives`, `MarkerAlwaysHonest`: the three invariants of
  runs `service` and `service_kill`.
* `StopAlwaysHitsOwnTunnel`: `Spec => [][...]`, the action property `StopHitsOwnTunnel`, from the
  same invariant.
* `IInv` adds `Stages` (which states of service, runtime and modules go together: with no
  instance there is no coroutine, since onDestroy joins them, which is what protects a new
  tunnel from an old `requestStop`), `PidKnown` (an instance exists only in a process that
  has set `runningPid`, so that a start of the proxy service beside it leaves the lock file
  alone) and `MarkerFresh` (the marker is clear until `open` has come to its end).

**`RemoteResource_proofs`** (assumption: `MaxKillsAssumption`).

* `RemoteTypeCorrect`, `WaitersAreTold`, `BinderAlwaysKept`: the three invariants of run
  `remote`. `IInv` adds `Waiters` (the calls that wait are those in `pending`), `DeadReset` (a
  call resets only a binder whose process is dead), `ConnLive` (the binder of the binding
  is alive) and `LastCallback` (the last callback in the queue reports that binder, so the
  queue cannot run empty on an older report).

**`Fetcher_proofs`** (`FetcherAssumption`: the rejected documents are documents, `None` is neither
a document nor a goroutine, and there is room for one fetcher).

* `TypesCorrect`, `ContentsCorrect` (`ContentsAreHash`), `FileCorrect` (`FileParses`) and
  `SuccessCorrect` (the action property `SuccessIsFresh`). `CallOK` says of a call what buffer
  and hash have to do with each other where it stands: the hash of an answer is that of its buffer;
  from the parser to `onUpdate` the buffer is what the parser accepted, and the call holds
  the mutex, so that hash and contents change together; a request carries the ETag only of the
  document whose hash it carries; and a call that got "not modified" finds the fetcher with the hash
  it sent, or has been overtaken (`Keeps`).

**`UDPSession_proofs`** (`UDPAssumption`: a source belongs to one worker, channels have room for a
packet, `NoAddr` and `NoSession` are no address and no session).

* `TypesCorrect`, `OneSessionCorrect`,
  `MappingCorrect`, `LostCorrect`, `OrderCorrect`: the five safety properties of run `udp`. `TableOK`
  says that the table has exactly the sessions whose clean-up has not deleted their key, each under
  its source, so that no clean-up can hit a successor. `Inverse` relates the two translations.
  `LateOK` says that a worker that got past the check of `done` finds the emptied channel empty,
  which is why one packet at most stays behind. `OrderOK` orders the numbers of all packets of a
  source that are under way: written, held by a session, held by the worker, queued.

**`ProxyGroup_proofs`** (`ProxyGroupAssumption`: at most the five kinds of group, lists of names,
delays below the value that stands for 0xffff, `MaxFailedTimes` > 0, since `groupbase.go:97-98`
replaces 0 by 5).

* `TypesCorrect`, `CacheCorrect` (`CacheFresh`), `SelectionCorrect` (`SetWins`) and `ChoiceCorrect`
  (the action property `ChoosesWell`). `Versions`: no version that was read or cached is ahead of the
  provider, and a cached list whose version is the provider's is its list. For url-test, `Waits`,
  `Registered`, `Remembered` and `FreshOK` follow the result that `singledo` shares: while no change
  of the selection is between its assignment and the reset, the remembered result, and the result of
  the call under way, go by the selection in force. `ChoiceCorrect` has an
  invariant of its own on top, `Search`: of the part of the list that a caller has passed
  (`Met`), every proxy that passed its test and whose record has not changed since is known to be no
  faster than the one that it carries (`Walked`), so that what it assigns is alive and within the
  tolerance (`Live`, `Near`); for a fallback group without a selection, none of them is alive
  (`Finding`). The first index of a list with a property comes from a lemma on
  least elements.

**`FakeIP_proofs`** (`FakeIPAssumption`: caches have a size, every range has an address after its
first, which is what `New` requires (`pool.go:167`), the first address is neither 0 nor 1, so that
the offset before it is not the value for "no offset", and the special values are distinct).

* `AddressesCorrect` (`AddressesBelong`), `CachesCorrect` (`CachesAgree`), `ShutdownCorrect`
  (`ShutdownKeeps`), for any number of goroutines, hosts, addresses and reloads and any size of the
  caches. The cache is a list in order of use; the lemmas about it say what `Get`, `Set`, `Delete`
  and the eviction do to two lists that mirror each other. `IInv` adds that no list holds a key
  twice (`Lists`), that a mutex is held by the one Lookup that is allocating (`Mutex`), that offsets
  stay in the range (`Offsets`), and what the two directions have to do with each other between the
  two stores of a Lookup, the halves of a flush and of a clone (`Memory`): before the last store of
  a Lookup they mirror each other as soon as the host is put in, evictions included. In the cache
  file (`OnFile`) only one direction is kept, because a kill between the two stores leaves an
  address that stands for a host that does not have it; that is enough for `AddressesBelong`,
  and a failed write changes it for the one address in `spoilt` (`Belong`).

**`XsyncMap_proofs`** (`XsyncAssumption`: sizes are positive, the meta byte of a hash is not 0,
`Absent` is neither a key nor a value and `Nobody` is no goroutine). Three layers, each of which
uses the ones before it; all hold for any number of goroutines, keys, buckets, resizes and for any
hash function.

* `HelpersAlwaysCounted`: `Spec => []HelpersCounted`. The owner of a resize publishes the new table
  when the count is zero. `ControlInv` adds that a resize has one owner and the sequence number is
  odd meanwhile (`OwnerInv`), that the number only grows (`SeqInv`), and that nobody joins before
  the owner has offered its table (`OfferInv`).
* `OnePlaceAlways`: `Spec => []OnePlace`. The property is far from inductive: a writer may hold the
  lock of a bucket in a table that is being moved, and goroutines fill the new table without its
  locks. `PlaceInv` adds
  - `TablesOK` and `CallsOK`: every table has `MinLen * 2^i` buckets, and what a call has read of
    the tables is one of them;
  - `StageInv`: an owner that has not published works on the two newest tables, one twice as long
    as the other (`BuildOK`); what a helper has read of them is current as long as the sequence
    number is (`HelpsOK`); and when the owner finds nothing more to claim nobody does, and when it
    publishes the last bucket has been moved (`DoneOK`, which needs `HelpersCounted`);
  - `ClaimsOK`: the ranges that goroutines have claimed from `resizeIdx` are disjoint. Buckets of
    both tables that have the same remainder modulo the shorter length form a class; a claim is a
    set of classes, so two goroutines never write to the same destination;
  - `LocksOK` and `WritersOK`: who holds the lock of a bucket; whoever has passed
    `newerTableExists` under it works on the current table, on a bucket that has not been moved, and
    what it found in the chain is still there. This is the argument for looking at the table
    after taking the lock;
  - `ChainsOK`: every key of a chain belongs there and is there once, and meta byte and entry of a
    slot agree except between the two stores of a writer that holds the lock;
  - `CopiesOK`: the new table holds exactly the entries of the buckets that have been moved, and the
    copies of a goroutine that is moving one hold what must be stored.

  What `transferBucketUnsafe` does to a chain is proved as an invariant of the walk along the source
  chain (`Transferred` is a recursive function of its length; the induction over it looks at the
  least prefix that the invariant would not hold of).
* `SizeExactAlways`: `Spec => []SizeExact`. `SizeInv` says it of the keys that a table holds; by
  `PlaceInv` they are in bijection with its entries. A writer's store adds or removes one key of the
  table it works on and its `addSize` follows, on that table, whichever is the current one
  then; a bucket that is moved adds as many keys as it has entries, since none of them is in the new
  table (`CopiesOK`), and is counted in the same step.

*Only model-checked:* all liveness properties (`CallsReturn` of the profiles and of the map,
`StopEnds`, `CallsEnd`, `AppLearnsOfStop`, `Converges`, `Recovers`, `Settles`; fairness is out of
the prover's reach), and one safety property: `Linearizable`, the refinement of `AtomicMap`. The
invariants above are what it needs of the writers; what is missing is an invariant of the
lookups, which read a chain without its lock (a key that is in the map from the beginning of a call
to its end is found, and what is found was there).

## 5. What is not modelled, and the plan

Proof: `Linearizable` of the concurrent map. Every step maps to a step of `AtomicMap` or to a
stutter. A write takes effect with one store (`WritersOK` and `ChainsOK` give its effect), the
publication of a new table changes no contents (`CopiesOK` and `DoneOK`); a lookup needs an
invariant of the part of the chain that it has passed.

Modules, in this order:

1. `ConfigurationModule`: the choice of the active profile (`ProfileProcessor.active`,
   `delete` of the active profile), reloads, the age key shared with downloads, the
   persisted selections. Property: after the last change the core has the active
   profile's current files or the service has stopped with a reason.
2. `ProfileSchedule`: `ProfileReceiver` and `ProfileWorker`. An alarm re-armed from a
   stale row (`ProfileWorker.kt:92`), `stopSelf` racing a start (line 45), a failure that is not
   re-armed (line 94).
3. `NativeTun`: `rTunLock` and the semaphore of `native/tun.go`: no callback uses the callback
   object after its release (line 52); at most one tun.
4. `KernelManager`: installation and choice of a kernel, with failures and kills.
5. The DNS resolver of the core (single flight, cached and stale answers), load balancing with
   sticky sessions, the file vehicle of a fetcher.

Not planned. The user interface draws state and passes requests on (its requests are inputs of the
models, in any order); notifications, time zone and app list forward events. Of the core, which is
by far the larger part of the repository, most lines are codecs and transports of some thirty
protocols, congestion control taken over from other projects, listeners, parsers of the
configuration and of rules, and glue: they turn bytes, texts and records into others, keep no state
that goroutines share beyond one connection, and are the matter of tests with real peers. The models
cover about 2,500 lines of the core, the ones with shared state and a protocol among goroutines;
modelling a large share of all its lines would mean transliterating codecs.
