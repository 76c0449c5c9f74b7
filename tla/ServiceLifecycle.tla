-------------------------- MODULE ServiceLifecycle --------------------------
(***************************************************************************)
(* The two foreground services of the :background process, TunService (the *)
(* VPN) and ClashService (plain proxy), the status they publish through    *)
(* StatusProvider, and the main process that starts, stops and restarts    *)
(* them.                                                                   *)
(*                                                                         *)
(* Several threads meet here: the main thread of :background (onCreate,    *)
(* onStartCommand, onDestroy), the binder thread that runs onRevoke, the   *)
(* runtime coroutine of each service with the coroutines of its modules,   *)
(* and the main process, which sees the services only through broadcasts,  *)
(* StatusProvider and two marker files.  The system may kill :background   *)
(* or reboot at any point; the files survive.                              *)
(*                                                                         *)
(* What a configuration contains, notifications and the traffic itself are *)
(* left out; loading a configuration succeeds or fails.                    *)
(***************************************************************************)
EXTENDS Naturals, Sequences

CONSTANTS
    MaxBus,     \* bound on broadcasts that wait for the main process
    MaxKills    \* bound on kills and reboots

ASSUME BoundsAssumption == MaxBus \in Nat \ {0, 1} /\ MaxKills \in Nat

Kinds == {"tun", "clash"}

VARIABLES
    \* memory of the :background process
    alive,            \* the process exists
    svc,              \* kind -> the service instance (see SvcStates)
    rt,               \* kind -> its runtime coroutine (see RtStates)
    mods,             \* kind -> the coroutines of its modules
    closeEvt,         \* kind -> CloseModule has received a stop request
    serviceRunning,   \* StatusProvider.serviceRunning
    runningPid,       \* StatusProvider.runningPid has been set
    currentProfile,   \* StatusProvider.currentProfile has been set
    \* the system
    startReq,         \* kind -> a start of the service is on its way
    iface,            \* the VPN interface is up
    revoking,         \* the call of onRevoke is on its way
    stopping,         \* onRevoke has cleared the marker; requestStop is next
    granted,          \* the user's consent to the VPN is valid
    bus,              \* broadcasts on their way to the main process
    kills,            \* kills and reboots so far
    \* files
    lockFile,         \* service_running.lock: StatusProvider.shouldStartClashOnBoot
    tunActive,        \* tun_active.lock: StatusProvider.tunActive
    enableVpn,        \* UiStore.enableVpn: which service a start asks for
    \* memory of the main process
    clashRunning,     \* Broadcasts.clashRunning
    bound,            \* remote/Service is bound: the app is visible
    disconnected,     \* onServiceDisconnected is on its way
    restartPosted,    \* the delayed restart of remote/Service is posted
    \* history
    misled            \* tunActive was set although there was no tunnel, or none that stays

bgVars   == <<svc, rt, mods, closeEvt, serviceRunning, runningPid, currentProfile>>
sysVars  == <<iface, revoking, stopping, granted>>
fileVars == <<lockFile, tunActive>>
uiVars   == <<enableVpn, clashRunning, bound, disconnected, restartPosted>>
vars     == <<alive, startReq, bus, kills, bgVars, sysVars, fileVars, uiVars, misled>>

\* "run": created, its runtime launched.  "dup": turned away by the guard of
\* onCreate.  "stop": stopSelf was called.  "join": in onDestroy, which blocks the
\* main thread until the coroutines are gone.
SvcStates == {"none", "run", "dup", "stop", "join"}

\* "wait" for globalLock, "init"; in TunService "open" (the interface exists) and
\* "attached" (the core has been handed the interface); the "loop" that waits for
\* events; "closing": stopSelf was called, globalLock is still held.
RtStates == {"off", "wait", "init", "open", "attached", "loop", "closing"}

ModStates == {"none", "on", "ending"}

\* The core serves the VPN interface.
TunnelUp == iface /\ rt["tun"] \in {"attached", "loop"}

-----------------------------------------------------------------------------
(* Broadcasts, and the creation of the process by the system.               *)

\* sendBroadcast.  The code does not wait: MaxBus bounds the model, in which starts and
\* restarts that nobody answers could send without end.
Send(ms) == Len(bus) + Len(ms) <= MaxBus /\ bus' = bus \o ms

\* MainApplication.onCreate of a new :background process announces it.
Recreated == IF alive THEN <<>> ELSE <<"RECREATED">>

\* Broadcasts.broadcastReceiver.
ReceiveBroadcast ==
    /\ bus # <<>>
    /\ clashRunning' = (Head(bus) = "STARTED")
    /\ bus' = Tail(bus)
    /\ UNCHANGED <<alive, startReq, kills, bgVars, sysVars, fileVars, enableVpn, bound,
                   disconnected, restartPosted, misled>>

\* A binding with BIND_AUTO_CREATE brings the process back.
Recreate ==
    /\ bound /\ ~alive
    /\ alive' = TRUE
    /\ Send(Recreated)
    /\ UNCHANGED <<startReq, kills, bgVars, sysVars, fileVars, uiVars, misled>>

-----------------------------------------------------------------------------
(* The main process.                                                        *)

\* startClashService: the service of the chosen mode; without the user's consent
\* VpnService.prepare returns a request and nothing is started.
ChosenService == IF enableVpn THEN "tun" ELSE "clash"

StartClashService ==
    startReq' = [startReq EXCEPT ![ChosenService] = @ \/ ~enableVpn \/ granted]

\* The user asks for a connection while the app shows "stopped".  Without consent
\* the dialog appears instead, and nothing is started when the user agrees: the
\* callback of the launcher is empty, the user has to ask again.
UserStart ==
    /\ ~clashRunning
    /\ StartClashService
    /\ granted' \in {granted, granted \/ enableVpn}
    /\ UNCHANGED <<alive, bus, kills, bgVars, iface, revoking, stopping, fileVars, uiVars, misled>>

\* stopClashService: the broadcast reaches the receivers that are registered when it
\* is sent.  A service whose CloseModule has not started does not get it.
UserStop ==
    /\ clashRunning
    /\ closeEvt' = [k \in Kinds |-> closeEvt[k] \/ mods[k] = "on"]
    /\ UNCHANGED <<alive, startReq, bus, kills, svc, rt, mods, serviceRunning, runningPid,
                   currentProfile, sysVars, fileVars, uiVars, misled>>

\* The switch is disabled while the app shows "running".
SetEnableVpn ==
    /\ ~clashRunning
    /\ enableVpn' = ~enableVpn
    /\ UNCHANGED <<alive, startReq, bus, kills, bgVars, sysVars, fileVars, clashRunning,
                   bound, disconnected, restartPosted, misled>>

\* RestartReceiver: boot, update of the app, unlock.
RestartReceive ==
    /\ lockFile
    /\ StartClashService
    /\ UNCHANGED <<alive, bus, kills, bgVars, sysVars, fileVars, uiVars, misled>>

\* Remote.launch: bind, and Broadcasts.register, which asks StatusProvider (and
\* creates its process, if need be).
BecomeVisible ==
    /\ ~bound
    /\ bound' = TRUE
    /\ alive' = TRUE
    /\ Send(Recreated)
    /\ clashRunning' = (serviceRunning /\ currentProfile)
    /\ UNCHANGED <<startReq, kills, bgVars, sysVars, fileVars, enableVpn, disconnected,
                   restartPosted, misled>>

\* unbind.  Broadcasts.unregister does nothing: "registered" is never set.
BecomeInvisible ==
    /\ bound
    /\ bound' = FALSE
    /\ disconnected' = FALSE
    /\ UNCHANGED <<alive, startReq, bus, kills, bgVars, sysVars, fileVars, enableVpn,
                   clashRunning, restartPosted, misled>>

\* remote/Service.onServiceDisconnected; frequent: the second time in ten seconds, so
\* never for the first kill.
OnServiceDisconnected(frequent) ==
    /\ disconnected
    /\ frequent => kills > 1
    /\ disconnected' = FALSE
    /\ bound' = ~frequent
    /\ restartPosted' = (restartPosted \/ (~frequent /\ lockFile))
    /\ UNCHANGED <<alive, startReq, bus, kills, bgVars, sysVars, fileVars, enableVpn,
                   clashRunning, misled>>

\* Two seconds later; the start may be refused to an app in the background.
DelayedRestart ==
    /\ restartPosted
    /\ restartPosted' = FALSE
    /\ StartClashService \/ UNCHANGED startReq
    /\ UNCHANGED <<alive, bus, kills, bgVars, sysVars, fileVars, enableVpn, clashRunning,
                   bound, disconnected, misled>>

-----------------------------------------------------------------------------
(* The main thread of :background.                                          *)

MainThreadFree == \A k \in Kinds : svc[k] # "join"

\* A start for an instance that runs: onStartCommand alone.
OnStartCommand(k) ==
    /\ startReq[k] /\ svc[k] = "run" /\ MainThreadFree
    /\ startReq' = [startReq EXCEPT ![k] = FALSE]
    /\ Send(<<"STARTED">>)
    /\ UNCHANGED <<alive, kills, bgVars, sysVars, fileVars, uiVars, misled>>

\* The guard of onCreate.  The recorded process is this one, so isProcessActive
\* holds once runningPid is set.
Duplicate == serviceRunning /\ runningPid

\* StatusProvider.serviceRunning = true, with its setter, and runtime.launch.
LaunchRuntime(k) ==
    /\ svc' = [svc EXCEPT ![k] = "run"]
    /\ rt' = [rt EXCEPT ![k] = "wait"]
    /\ serviceRunning' = TRUE
    /\ runningPid' = TRUE

TurnAway(k) ==
    /\ svc' = [svc EXCEPT ![k] = "dup"]
    /\ UNCHANGED <<rt, serviceRunning, runningPid>>

\* A start without an instance: onCreate and onStartCommand, in one go.
CreateFor(k) ==
    /\ startReq[k] /\ svc[k] = "none" /\ MainThreadFree
    /\ startReq' = [startReq EXCEPT ![k] = FALSE]
    /\ alive' = TRUE
    /\ Send(Recreated \o <<"STARTED">>)
    /\ UNCHANGED <<kills, mods, closeEvt, currentProfile, sysVars, uiVars>>

\* Mutant: a marker left behind by a killed process stays.
TunOnCreateKeepsMarker ==
    /\ CreateFor("tun")
    /\ IF Duplicate
         THEN TurnAway("tun") /\ UNCHANGED <<fileVars, misled>>
         ELSE /\ LaunchRuntime("tun")
              /\ lockFile' = TRUE
              /\ misled' = FALSE
              /\ UNCHANGED tunActive

TunOnCreate ==
    /\ CreateFor("tun")
    /\ IF Duplicate
         THEN TurnAway("tun") /\ UNCHANGED <<fileVars, misled>>
         ELSE /\ LaunchRuntime("tun")
              /\ lockFile' = TRUE
              /\ tunActive' = FALSE
              /\ misled' = FALSE

\* Mutant: every start of the proxy service clears the lock file.
ClashOnCreateClears ==
    /\ CreateFor("clash")
    /\ IF Duplicate
         THEN TurnAway("clash") /\ UNCHANGED lockFile
         ELSE LaunchRuntime("clash") /\ lockFile' = FALSE
    /\ UNCHANGED <<tunActive, misled>>

\* The setter of serviceRunning creates the lock file; the first service of a
\* process (isNewInstance) deletes it again.
ClashOnCreate ==
    /\ CreateFor("clash")
    /\ IF Duplicate
         THEN TurnAway("clash") /\ UNCHANGED lockFile
         ELSE LaunchRuntime("clash") /\ lockFile' = runningPid
    /\ UNCHANGED <<tunActive, misled>>

\* Mutant: the app is not told that the service stopped.
OnDestroyBeginSilent(k) ==
    /\ svc[k] \in {"stop", "dup"} /\ MainThreadFree
    /\ svc' = [svc EXCEPT ![k] = "join"]
    /\ serviceRunning' = FALSE
    /\ IF k = "tun" THEN tunActive' = FALSE /\ iface' = FALSE
                    ELSE UNCHANGED <<tunActive, iface>>
    /\ UNCHANGED <<alive, bus, startReq, kills, rt, mods, closeEvt, runningPid,
                   currentProfile, revoking, stopping, granted, lockFile, uiVars, misled>>

\* onDestroy: the status, the STOPPED broadcast (and TunModule.requestStop), then
\* cancelAndJoinBlocking.
OnDestroyBegin(k) ==
    /\ svc[k] \in {"stop", "dup"} /\ MainThreadFree
    /\ svc' = [svc EXCEPT ![k] = "join"]
    /\ serviceRunning' = FALSE
    /\ Send(<<"STOPPED">>)
    /\ IF k = "tun" THEN tunActive' = FALSE /\ iface' = FALSE
                    ELSE UNCHANGED <<tunActive, iface>>
    /\ UNCHANGED <<alive, startReq, kills, rt, mods, closeEvt, runningPid,
                   currentProfile, revoking, stopping, granted, lockFile, uiVars, misled>>

\* Mutant: onDestroy cancels the coroutines but does not wait for them.
OnDestroyEndNoJoin(k) ==
    /\ svc[k] = "join" /\ rt[k] = "off"
    /\ svc' = [svc EXCEPT ![k] = "none"]
    /\ closeEvt' = [closeEvt EXCEPT ![k] = FALSE]
    /\ UNCHANGED <<alive, startReq, bus, kills, rt, mods, serviceRunning, runningPid,
                   currentProfile, sysVars, fileVars, uiVars, misled>>

OnDestroyEnd(k) ==
    /\ svc[k] = "join" /\ rt[k] = "off" /\ mods[k] = "none"
    /\ svc' = [svc EXCEPT ![k] = "none"]
    /\ closeEvt' = [closeEvt EXCEPT ![k] = FALSE]
    /\ UNCHANGED <<alive, startReq, bus, kills, rt, mods, serviceRunning, runningPid,
                   currentProfile, sysVars, fileVars, uiVars, misled>>

-----------------------------------------------------------------------------
(* The runtime coroutine of a service, and its modules.                     *)

RuntimeGoto(k, l) ==
    /\ rt' = [rt EXCEPT ![k] = l]
    /\ UNCHANGED <<alive, startReq, bus, kills, closeEvt, serviceRunning, runningPid,
                   currentProfile, revoking, stopping, granted, uiVars>>

\* Mutant: the runtime does not wait for globalLock.
RuntimeInitUnlocked(k) ==
    /\ rt[k] = "wait"
    /\ RuntimeGoto(k, "init")
    /\ UNCHANGED <<svc, mods, iface, fileVars, misled>>

\* globalLock.withLock.
RuntimeInit(k) ==
    /\ rt[k] = "wait"
    /\ \A j \in Kinds : rt[j] \in {"off", "wait"}
    /\ RuntimeGoto(k, "init")
    /\ UNCHANGED <<svc, mods, iface, fileVars, misled>>

\* install launches the modules; they start when the dispatcher gets to them.
ModulesStart(k) ==
    /\ rt[k] \in {"init", "open", "attached", "loop"} /\ mods[k] = "none"
    /\ mods' = [mods EXCEPT ![k] = "on"]
    /\ UNCHANGED <<alive, startReq, bus, kills, svc, rt, closeEvt, serviceRunning,
                   runningPid, currentProfile, sysVars, fileVars, uiVars, misled>>

\* ConfigurationModule has loaded the active profile.
ProfileLoaded(k) ==
    /\ mods[k] = "on" /\ ~currentProfile
    /\ currentProfile' = TRUE
    /\ UNCHANGED <<alive, startReq, bus, kills, svc, rt, mods, closeEvt, serviceRunning,
                   runningPid, sysVars, fileVars, uiVars, misled>>

\* Mutant: the runtime ends without stopSelf.
QuitSilently(k) ==
    /\ RuntimeGoto(k, "closing")
    /\ mods' = [mods EXCEPT ![k] = IF @ = "on" THEN "ending" ELSE @]
    /\ UNCHANGED <<svc, iface, fileVars, misled>>

\* The finally block of the runtime, and cancel(): the modules begin to end.
Quit(k) ==
    /\ RuntimeGoto(k, "closing")
    /\ svc' = [svc EXCEPT ![k] = "stop"]
    /\ mods' = [mods EXCEPT ![k] = IF @ = "on" THEN "ending" ELSE @]
    /\ UNCHANGED <<iface, fileVars, misled>>

\* open: establish.  It returns null without consent, and may throw.
Establish ==
    /\ rt["tun"] = "init"
    /\ \/ /\ granted
          /\ RuntimeGoto("tun", "open")
          /\ iface' = TRUE
          /\ UNCHANGED <<svc, mods, fileVars, misled>>
       \/ Quit("tun")

\* attach: the JNI function drops the result of startTun, so a failure, in which
\* the core closes the interface, goes unnoticed.
Attach ==
    /\ rt["tun"] = "open"
    /\ RuntimeGoto("tun", "attached")
    /\ iface' \in {iface, FALSE}
    /\ UNCHANGED <<svc, mods, fileVars, misled>>

MarkActive ==
    /\ rt["tun"] = "attached"
    /\ RuntimeGoto("tun", "loop")
    /\ tunActive' = TRUE
    /\ misled' = (~iface /\ ~revoking /\ ~stopping)
    /\ UNCHANGED <<svc, mods, iface, lockFile>>

\* ClashService opens nothing.
EnterLoop ==
    /\ rt["clash"] = "init"
    /\ RuntimeGoto("clash", "loop")
    /\ UNCHANGED <<svc, mods, iface, fileVars, misled>>

\* close.onEvent
Close(k) == rt[k] = "loop" /\ closeEvt[k] /\ Quit(k)

\* config.onEvent: the profile could not be loaded.
LoadException(k) == rt[k] = "loop" /\ mods[k] = "on" /\ Quit(k)

\* Clash.reset; globalLock is released, even if modules have not ended yet.
RuntimeEnd(k) ==
    /\ rt[k] = "closing"
    /\ RuntimeGoto(k, "off")
    /\ UNCHANGED <<svc, mods, iface, fileVars, misled>>

\* Module.execute ends: receivers are unregistered; TunModule calls requestStop.
ModulesEnd(k) ==
    /\ mods[k] = "ending"
    /\ mods' = [mods EXCEPT ![k] = "none"]
    /\ iface' = (iface /\ k # "tun")
    /\ UNCHANGED <<alive, startReq, bus, kills, svc, rt, closeEvt, serviceRunning,
                   runningPid, currentProfile, revoking, stopping, granted, fileVars, uiVars, misled>>

-----------------------------------------------------------------------------
(* The system takes the VPN away; then it calls onRevoke.                   *)

Revoke ==
    /\ iface
    /\ iface' = FALSE
    /\ granted' = FALSE
    /\ revoking' = TRUE
    /\ UNCHANGED <<alive, startReq, bus, kills, bgVars, stopping, fileVars, uiVars, misled>>

\* onRevoke runs on a binder thread.  It first clears the marker.
OnRevoke ==
    /\ revoking /\ ~stopping
    /\ revoking' = FALSE
    /\ stopping' = TRUE
    /\ tunActive' = FALSE
    /\ UNCHANGED <<alive, startReq, bus, kills, bgVars, iface, granted, lockFile, uiVars,
                   misled>>

\* Then TunModule.requestStop closes the tunnel that the core serves, whichever
\* instance opened it; an interface that was not handed over yet stays.
OnRevokeStop ==
    /\ stopping
    /\ stopping' = FALSE
    /\ iface' = (iface /\ rt["tun"] = "open")
    /\ misled' = (misled \/ tunActive)
    /\ UNCHANGED <<alive, startReq, bus, kills, bgVars, revoking, granted, fileVars, uiVars>>

-----------------------------------------------------------------------------
(* Kill of :background, reboot.                                             *)

LoseProcess ==
    /\ kills < MaxKills
    /\ kills' = kills + 1
    /\ alive' = FALSE
    /\ svc' = [k \in Kinds |-> "none"]
    /\ rt' = [k \in Kinds |-> "off"]
    /\ mods' = [k \in Kinds |-> "none"]
    /\ closeEvt' = [k \in Kinds |-> FALSE]
    /\ serviceRunning' = FALSE
    /\ runningPid' = FALSE
    /\ currentProfile' = FALSE
    /\ iface' = FALSE
    /\ revoking' = FALSE /\ stopping' = FALSE
    /\ UNCHANGED <<granted, fileVars, enableVpn, misled>>

\* onStartCommand returned START_STICKY: a service that did not stop is restarted.
Kill ==
    /\ alive
    /\ LoseProcess
    /\ startReq' = [k \in Kinds |-> startReq[k] \/ svc[k] = "run"]
    /\ disconnected' = bound
    /\ UNCHANGED <<bus, clashRunning, bound, restartPosted>>

Reboot ==
    /\ LoseProcess
    /\ startReq' = [k \in Kinds |-> FALSE]
    /\ bus' = <<>>
    /\ clashRunning' = FALSE
    /\ bound' = FALSE
    /\ disconnected' = FALSE
    /\ restartPosted' = FALSE

-----------------------------------------------------------------------------
\* A fresh boot after a proper stop or before the first start.
Init ==
    /\ alive = FALSE
    /\ svc = [k \in Kinds |-> "none"]
    /\ rt = [k \in Kinds |-> "off"]
    /\ mods = [k \in Kinds |-> "none"]
    /\ closeEvt = [k \in Kinds |-> FALSE]
    /\ serviceRunning = FALSE /\ runningPid = FALSE /\ currentProfile = FALSE
    /\ startReq = [k \in Kinds |-> FALSE]
    /\ iface = FALSE /\ revoking = FALSE /\ stopping = FALSE
    /\ granted \in BOOLEAN
    /\ bus = <<>>
    /\ kills = 0
    /\ lockFile = FALSE /\ tunActive = FALSE
    /\ enableVpn \in BOOLEAN
    /\ clashRunning = FALSE /\ bound = FALSE
    /\ disconnected = FALSE /\ restartPosted = FALSE
    /\ misled = FALSE

User == UserStart \/ UserStop \/ SetEnableVpn \/ BecomeVisible \/ BecomeInvisible

MainProcess ==
    \/ ReceiveBroadcast \/ RestartReceive \/ DelayedRestart
    \/ \E frequent \in BOOLEAN : OnServiceDisconnected(frequent)

ServiceStep(k) ==
    \/ OnStartCommand(k) \/ OnDestroyBegin(k) \/ OnDestroyEnd(k)
    \/ RuntimeInit(k) \/ ModulesStart(k) \/ Close(k) \/ RuntimeEnd(k) \/ ModulesEnd(k)

TunStep == Establish \/ Attach \/ MarkActive

System == Recreate \/ Revoke \/ OnRevoke \/ OnRevokeStop \/ Kill \/ Reboot

Next ==
    \/ User \/ MainProcess \/ System
    \/ TunOnCreate \/ ClashOnCreate \/ TunStep \/ EnterLoop
    \/ \E k \in Kinds : ServiceStep(k) \/ ProfileLoaded(k) \/ LoadException(k)

Spec == Init /\ [][Next]_vars

\* Coroutines that can run do run, the main threads work off their queues, and the
\* system delivers broadcasts and callbacks and honours BIND_AUTO_CREATE.  Nothing
\* is assumed of the user, of revocations and kills, or of the profile.  A step that
\* sends a broadcast or needs the main thread is only sometimes enabled; the queues
\* are first-in first-out, so it gets its turn.
Fairness ==
    /\ WF_vars(ReceiveBroadcast)
    /\ WF_vars(OnRevoke) /\ WF_vars(OnRevokeStop)
    /\ SF_vars(Recreate)
    /\ SF_vars(TunOnCreate) /\ SF_vars(ClashOnCreate)
    /\ WF_vars(TunStep) /\ WF_vars(EnterLoop)
    /\ \A k \in Kinds :
        /\ WF_vars(RuntimeInit(k) \/ RuntimeEnd(k))
        /\ WF_vars(ModulesStart(k) \/ ModulesEnd(k))
        /\ WF_vars(Close(k))
        /\ SF_vars(OnDestroyBegin(k)) /\ WF_vars(OnDestroyEnd(k))

FairSpec == Spec /\ Fairness

-----------------------------------------------------------------------------
StateTypes ==
    /\ svc \in [Kinds -> SvcStates]
    /\ rt \in [Kinds -> RtStates]
    /\ mods \in [Kinds -> ModStates]
    /\ closeEvt \in [Kinds -> BOOLEAN]
    /\ startReq \in [Kinds -> BOOLEAN]
    /\ bus \in Seq({"RECREATED", "STARTED", "STOPPED"}) /\ Len(bus) <= MaxBus
    /\ kills \in 0..MaxKills

FlagTypes ==
    /\ alive \in BOOLEAN /\ serviceRunning \in BOOLEAN /\ runningPid \in BOOLEAN
    /\ currentProfile \in BOOLEAN /\ iface \in BOOLEAN /\ revoking \in BOOLEAN /\ stopping \in BOOLEAN
    /\ granted \in BOOLEAN /\ lockFile \in BOOLEAN /\ tunActive \in BOOLEAN
    /\ enableVpn \in BOOLEAN /\ clashRunning \in BOOLEAN /\ bound \in BOOLEAN
    /\ disconnected \in BOOLEAN /\ restartPosted \in BOOLEAN /\ misled \in BOOLEAN

\* Labels of a runtime that has not taken globalLock, or has released it.
Unlocked == {"off", "wait"}

\* Every variable holds a value of its kind, and at most one of the two runtimes is
\* past globalLock, so that only one configures the core, although both services may
\* have been let in (ClashRuntime.kt:25).
TypeOK ==
    /\ StateTypes /\ FlagTypes
    /\ \A j, k \in Kinds : j # k => rt[j] \in Unlocked \/ rt[k] \in Unlocked

\* While the VPN service runs, its lock file exists, whatever happened before: the
\* wish to be connected survives kills, sticky restarts and starts of the proxy
\* service (TunService.kt:103-108, ClashService.kt:83).
IntentSurvives == svc["tun"] = "run" => lockFile

\* While the VPN service runs, the marker file tells of a tunnel only if there is
\* one, or onRevoke is about to clear it or at work, or it was wrong from the start
\* because the tunnel failed, or was revoked, while it was being opened
\* (TunService.kt:110-112, 156-157, 267).
MarkerHonest ==
    svc["tun"] = "run" /\ tunActive => TunnelUp \/ revoking \/ stopping \/ misled

\* A service that runs loses its interface only to the system, to onRevoke, or to a
\* failure of the core to take it over: the requestStop with which an earlier instance
\* ends, in onDestroy or when its TunModule is cancelled, perhaps after globalLock is
\* free, does not hit it (TunService.kt:127, TunModule.kt:42, ClashRuntime.kt:25-57).  An
\* onRevoke has no such protection: called late, it stops the tunnel of a later instance.
StopHitsOwnTunnel ==
    [][svc["tun"] = "run" /\ svc'["tun"] = "run" /\ iface /\ ~iface'
         => revoking' \/ stopping \/ rt["tun"] = "open"]_vars

\* A stop request that a service has received ends the service, unless the process
\* is killed first: the runtime calls stopSelf on every path (TunService.kt:75-79)
\* and the join in onDestroy terminates.
StopEnds == \A k \in Kinds : closeEvt[k] ~> svc[k] = "none"

\* While the app is open, it learns that a service it stopped is gone, also when
\* the process dies before it can say so: its successor announces itself
\* (TunService.kt:132, MainApplication.kt:40, Broadcasts.kt:36).
AppLearnsOfStop ==
    bound /\ (\E k \in Kinds : closeEvt[k]) ~> ~clashRunning \/ ~bound

-----------------------------------------------------------------------------
(* What comments in the code say, and the code does not do.                 *)

\* After onRevoke the runtime stops and the app learns of it (TunService.kt:152-154).
RevokeStopsService == revoking ~> svc["tun"] # "run"

\* tunActive "must reflect the REAL tunnel state" (StatusProvider.kt:92), even if the
\* moments between a revocation and the end of onRevoke are let pass.
MarkerReflectsTunnel ==
    svc["tun"] = "run" /\ tunActive => TunnelUp \/ revoking \/ stopping

\* The "robust duplicate-instance guard" (TunService.kt:87, ClashService.kt:73): at
\* most one service has been let in.
OneInstance == ~ \A k \in Kinds : svc[k] = "run"

=============================================================================
