----------------------- MODULE ServiceLifecycle_proofs -----------------------
(***************************************************************************)
(* Proofs about the services, for every bound on broadcasts and kills: type *)
(* correctness, the lock file and the marker file of the VPN service, and   *)
(* that an earlier instance does not stop its tunnel.  The inductive        *)
(* invariant IInv relates the service instance to its runtime and its       *)
(* modules (Stages), records that any instance has set runningPid           *)
(* (PidKnown), and that the marker is off until the tunnel has been opened  *)
(* (MarkerFresh).                                                           *)
(***************************************************************************)
EXTENDS ServiceLifecycle, TLAPS

Messages == {"RECREATED", "STARTED", "STOPPED"}

\* What a new process announces is a sequence of broadcasts.
LEMMA RecreatedType == Recreated \in Seq(Messages)
<1>1. CASE alive BY <1>1 DEF Recreated
<1>2. CASE ~alive BY <1>2 DEF Recreated, Messages
<1>3. QED BY <1>1, <1>2

\* Sending keeps the queue of broadcasts a queue within its bound.
LEMMA SendTypes ==
    ASSUME StateTypes, NEW ms \in Seq(Messages),
           Send(ms) \/ Send(ms \o <<"STARTED">>)
    PROVE  bus' \in Seq(Messages) /\ Len(bus') <= MaxBus
<1>1. CASE Send(ms)
  BY <1>1 DEF Send, StateTypes, Messages
<1>2. CASE Send(ms \o <<"STARTED">>)
  <2>1. ms \o <<"STARTED">> \in Seq(Messages)
    BY DEF Messages
  <2>2. QED BY <1>2, <2>1 DEF Send, StateTypes, Messages
<1>3. QED BY <1>1, <1>2

-----------------------------------------------------------------------------
\* Every step keeps the flags Boolean.
LEMMA FlagTypesStep == ASSUME FlagTypes, Next PROVE FlagTypes'
<1> USE DEF bgVars, sysVars, fileVars, uiVars, FlagTypes
<1>1. CASE ReceiveBroadcast
  BY <1>1 DEF ReceiveBroadcast
<1>2. CASE Recreate
  BY <1>2 DEF Recreate, Send, Recreated
<1>3. CASE UserStart
  BY <1>3 DEF UserStart, StartClashService, ChosenService
<1>4. CASE UserStop
  BY <1>4 DEF UserStop
<1>5. CASE SetEnableVpn
  BY <1>5 DEF SetEnableVpn
<1>6. CASE RestartReceive
  BY <1>6 DEF RestartReceive, StartClashService, ChosenService
<1>7. CASE BecomeVisible
  BY <1>7 DEF BecomeVisible, Send, Recreated
<1>8. CASE BecomeInvisible
  <2>1. bound' \in BOOLEAN /\ disconnected' \in BOOLEAN
    BY <1>8, Zenon DEF BecomeInvisible
  <2>2. UNCHANGED <<alive, serviceRunning, runningPid, currentProfile, iface, revoking,
                    stopping, granted, lockFile, tunActive, enableVpn, clashRunning,
                    restartPosted, misled>>
    BY <1>8 DEF BecomeInvisible
  <2>3. QED BY <2>1, <2>2
<1>9. ASSUME NEW f \in BOOLEAN, OnServiceDisconnected(f) PROVE FlagTypes'
  <2>1. bound' \in BOOLEAN /\ disconnected' \in BOOLEAN /\ restartPosted' \in BOOLEAN
    BY <1>9, Zenon DEF OnServiceDisconnected
  <2>2. UNCHANGED <<alive, serviceRunning, runningPid, currentProfile, iface, revoking,
                    stopping, granted, lockFile, tunActive, enableVpn, clashRunning, misled>>
    BY <1>9 DEF OnServiceDisconnected
  <2>3. QED BY <2>1, <2>2
<1>10. CASE DelayedRestart
  <2>1. restartPosted' \in BOOLEAN
    BY <1>10, Zenon DEF DelayedRestart, StartClashService, ChosenService
  <2>2. UNCHANGED <<alive, serviceRunning, runningPid, currentProfile, iface, revoking,
                    stopping, granted, lockFile, tunActive, enableVpn, clashRunning, bound,
                    disconnected, misled>>
    BY <1>10 DEF DelayedRestart, StartClashService, ChosenService
  <2>3. QED BY <2>1, <2>2
<1>11. ASSUME NEW k \in Kinds, OnStartCommand(k) PROVE FlagTypes'
  BY <1>11 DEF OnStartCommand, Send
<1>12. CASE TunOnCreate
  <2>1. UNCHANGED <<currentProfile, iface, revoking, stopping, granted, enableVpn, clashRunning, bound,
                    disconnected, restartPosted>>
    BY <1>12 DEF TunOnCreate, CreateFor
  <2>2. alive' \in BOOLEAN
    BY <1>12, Zenon DEF TunOnCreate, CreateFor
  <2>3. CASE Duplicate
    <3>1. UNCHANGED <<serviceRunning, runningPid, lockFile, tunActive, misled>>
      BY <1>12, <2>3 DEF TunOnCreate, TurnAway
    <3>2. QED BY <2>1, <2>2, <3>1
  <2>4. CASE ~Duplicate
    <3>1. serviceRunning' \in BOOLEAN /\ runningPid' \in BOOLEAN
      BY <1>12, <2>4, Zenon DEF TunOnCreate, LaunchRuntime
    <3>2. lockFile' \in BOOLEAN /\ tunActive' \in BOOLEAN /\ misled' \in BOOLEAN
      BY <1>12, <2>4, Zenon DEF TunOnCreate
    <3>3. QED BY <2>1, <2>2, <3>1, <3>2
  <2>5. QED BY <2>3, <2>4
<1>13. CASE ClashOnCreate
  <2>1. UNCHANGED <<currentProfile, iface, revoking, stopping, granted, enableVpn, clashRunning, bound,
                    disconnected, restartPosted, tunActive, misled>>
    BY <1>13 DEF ClashOnCreate, CreateFor
  <2>2. alive' \in BOOLEAN
    BY <1>13, Zenon DEF ClashOnCreate, CreateFor
  <2>3. CASE Duplicate
    <3>1. UNCHANGED <<serviceRunning, runningPid, lockFile>>
      BY <1>13, <2>3 DEF ClashOnCreate, TurnAway
    <3>2. QED BY <2>1, <2>2, <3>1
  <2>4. CASE ~Duplicate
    <3>1. serviceRunning' \in BOOLEAN /\ runningPid' \in BOOLEAN
      BY <1>13, <2>4, Zenon DEF ClashOnCreate, LaunchRuntime
    <3>2. lockFile' \in BOOLEAN
      BY <1>13, <2>4, Zenon DEF ClashOnCreate
    <3>3. QED BY <2>1, <2>2, <3>1, <3>2
  <2>5. QED BY <2>3, <2>4
<1>14. ASSUME NEW k \in Kinds, OnDestroyBegin(k) PROVE FlagTypes'
  <2>1. UNCHANGED <<alive, runningPid, currentProfile, revoking, stopping, granted, lockFile, enableVpn,
                    clashRunning, bound, disconnected, restartPosted, misled>>
    BY <1>14 DEF OnDestroyBegin
  <2>2. serviceRunning' \in BOOLEAN
    BY <1>14, Zenon DEF OnDestroyBegin
  <2>3. tunActive' \in BOOLEAN /\ iface' \in BOOLEAN
    <3>1. CASE k = "tun"
      BY <1>14, <3>1, Zenon DEF OnDestroyBegin
    <3>2. CASE k # "tun"
      BY <1>14, <3>2 DEF OnDestroyBegin
    <3>3. QED BY <3>1, <3>2
  <2>4. QED BY <2>1, <2>2, <2>3
<1>15. ASSUME NEW k \in Kinds, OnDestroyEnd(k) PROVE FlagTypes'
  BY <1>15 DEF OnDestroyEnd
<1>16. ASSUME NEW k \in Kinds, RuntimeInit(k) PROVE FlagTypes'
  BY <1>16 DEF RuntimeInit, RuntimeGoto
<1>17. ASSUME NEW k \in Kinds, ModulesStart(k) PROVE FlagTypes'
  BY <1>17 DEF ModulesStart
<1>18. ASSUME NEW k \in Kinds, ProfileLoaded(k) PROVE FlagTypes'
  BY <1>18 DEF ProfileLoaded
<1>19. CASE Establish
  <2>1. UNCHANGED <<alive, serviceRunning, runningPid, currentProfile, revoking, stopping, granted,
                    lockFile, tunActive, enableVpn, clashRunning, bound, disconnected,
                    restartPosted, misled>>
    BY <1>19 DEF Establish, RuntimeGoto, Quit
  <2>2. iface' \in BOOLEAN
    BY <1>19, Zenon DEF Establish, Quit
  <2>3. QED BY <2>1, <2>2
<1>20. CASE Attach
  <2>1. iface' \in BOOLEAN
    BY <1>20, Zenon DEF Attach, RuntimeGoto
  <2>2. UNCHANGED <<alive, serviceRunning, runningPid, currentProfile, revoking,
                    stopping, granted, lockFile, tunActive, enableVpn, clashRunning, bound,
                    disconnected, restartPosted, misled>>
    BY <1>20 DEF Attach, RuntimeGoto
  <2>3. QED BY <2>1, <2>2
<1>21. CASE MarkActive
  BY <1>21 DEF MarkActive, RuntimeGoto
<1>22. CASE EnterLoop
  BY <1>22 DEF EnterLoop, RuntimeGoto
<1>23. ASSUME NEW k \in Kinds, Close(k) PROVE FlagTypes'
  BY <1>23 DEF Close, Quit, RuntimeGoto
<1>24. ASSUME NEW k \in Kinds, LoadException(k) PROVE FlagTypes'
  BY <1>24 DEF LoadException, Quit, RuntimeGoto
<1>25. ASSUME NEW k \in Kinds, RuntimeEnd(k) PROVE FlagTypes'
  BY <1>25 DEF RuntimeEnd, RuntimeGoto
<1>26. ASSUME NEW k \in Kinds, ModulesEnd(k) PROVE FlagTypes'
  BY <1>26 DEF ModulesEnd
<1>27. CASE Revoke
  <2>1. iface' \in BOOLEAN /\ granted' \in BOOLEAN /\ revoking' \in BOOLEAN
    BY <1>27, Zenon DEF Revoke
  <2>2. UNCHANGED <<alive, serviceRunning, runningPid, currentProfile, stopping, lockFile,
                    tunActive, enableVpn, clashRunning, bound, disconnected,
                    restartPosted, misled>>
    BY <1>27 DEF Revoke
  <2>3. QED BY <2>1, <2>2
<1>28. CASE OnRevoke
  <2>1. revoking' \in BOOLEAN /\ stopping' \in BOOLEAN /\ tunActive' \in BOOLEAN
    BY <1>28, Zenon DEF OnRevoke
  <2>2. UNCHANGED <<alive, serviceRunning, runningPid, currentProfile, iface, granted,
                    lockFile, enableVpn, clashRunning, bound, disconnected,
                    restartPosted, misled>>
    BY <1>28 DEF OnRevoke
  <2>3. QED BY <2>1, <2>2
<1>29. CASE Kill
  BY <1>29 DEF Kill, LoseProcess
<1>30. CASE Reboot
  BY <1>30 DEF Reboot, LoseProcess
<1>31. CASE OnRevokeStop
  <2>1. stopping' \in BOOLEAN /\ iface' \in BOOLEAN /\ misled' \in BOOLEAN
    BY <1>31, Zenon DEF OnRevokeStop
  <2>2. UNCHANGED <<alive, serviceRunning, runningPid, currentProfile, revoking, granted,
                    lockFile, tunActive, enableVpn, clashRunning, bound, disconnected,
                    restartPosted>>
    BY <1>31 DEF OnRevokeStop
  <2>3. QED BY <2>1, <2>2
<1>32. QED
  BY <1>1, <1>2, <1>3, <1>4, <1>5, <1>6, <1>7, <1>8, <1>9, <1>10, <1>11, <1>12, <1>13,
     <1>14, <1>15, <1>16, <1>17, <1>18, <1>19, <1>20, <1>21, <1>22, <1>23, <1>24, <1>25,
     <1>26, <1>27, <1>28, <1>29, <1>30, <1>31
  DEF Next, User, MainProcess, System, TunStep, ServiceStep

\* Every step preserves the types of the other variables.
LEMMA StateTypesStep == ASSUME StateTypes, FlagTypes, Next PROVE StateTypes'
<1> USE BoundsAssumption DEF bgVars, sysVars, fileVars, uiVars
<1> USE DEF StateTypes, FlagTypes, Kinds, SvcStates, RtStates, ModStates
<1>1. CASE ReceiveBroadcast
  BY <1>1 DEF ReceiveBroadcast
<1>2. CASE Recreate
  <2>1. bus' \in Seq(Messages) /\ Len(bus') <= MaxBus
    BY <1>2, RecreatedType, SendTypes DEF Recreate
  <2>2. UNCHANGED <<svc, rt, mods, closeEvt, startReq, kills>>
    BY <1>2 DEF Recreate
  <2>3. QED BY <2>1, <2>2 DEF Messages
<1>3. CASE UserStart
  BY <1>3 DEF UserStart, StartClashService, ChosenService
<1>4. CASE UserStop
  BY <1>4 DEF UserStop
<1>5. CASE SetEnableVpn
  BY <1>5 DEF SetEnableVpn
<1>6. CASE RestartReceive
  BY <1>6 DEF RestartReceive, StartClashService, ChosenService
<1>7. CASE BecomeVisible
  <2>1. bus' \in Seq(Messages) /\ Len(bus') <= MaxBus
    BY <1>7, RecreatedType, SendTypes DEF BecomeVisible
  <2>2. UNCHANGED <<svc, rt, mods, closeEvt, startReq, kills>>
    BY <1>7 DEF BecomeVisible
  <2>3. QED BY <2>1, <2>2 DEF Messages
<1>8. CASE BecomeInvisible
  BY <1>8 DEF BecomeInvisible
<1>9. ASSUME NEW f \in BOOLEAN, OnServiceDisconnected(f) PROVE StateTypes'
  BY <1>9 DEF OnServiceDisconnected
<1>10. CASE DelayedRestart
  <2>1. startReq' \in [Kinds -> BOOLEAN]
    BY <1>10 DEF DelayedRestart, StartClashService
  <2>2. UNCHANGED <<svc, rt, mods, closeEvt, bus, kills>>
    BY <1>10 DEF DelayedRestart
  <2>3. QED BY <2>1, <2>2
<1>11. ASSUME NEW k \in Kinds, OnStartCommand(k) PROVE StateTypes'
  BY <1>11 DEF OnStartCommand, Send
<1>12. CASE TunOnCreate
  <2>1. Recreated \in Seq(Messages)
    BY RecreatedType
  <2>2. bus' \in Seq(Messages) /\ Len(bus') <= MaxBus
    BY <1>12, <2>1, SendTypes DEF TunOnCreate, CreateFor, Messages
  <2>3. /\ startReq' \in [Kinds -> BOOLEAN]
        /\ UNCHANGED <<kills, mods, closeEvt>>
    BY <1>12 DEF TunOnCreate, CreateFor
  <2>4. svc' \in [Kinds -> SvcStates] /\ rt' \in [Kinds -> RtStates]
    BY <1>12 DEF TunOnCreate, LaunchRuntime, TurnAway
  <2>5. QED BY <2>2, <2>3, <2>4 DEF Messages
<1>13. CASE ClashOnCreate
  <2>1. Recreated \in Seq(Messages)
    BY RecreatedType
  <2>2. bus' \in Seq(Messages) /\ Len(bus') <= MaxBus
    BY <1>13, <2>1, SendTypes DEF ClashOnCreate, CreateFor, Messages
  <2>3. /\ startReq' \in [Kinds -> BOOLEAN]
        /\ UNCHANGED <<kills, mods, closeEvt>>
    BY <1>13 DEF ClashOnCreate, CreateFor
  <2>4. svc' \in [Kinds -> SvcStates] /\ rt' \in [Kinds -> RtStates]
    BY <1>13 DEF ClashOnCreate, LaunchRuntime, TurnAway
  <2>5. QED BY <2>2, <2>3, <2>4 DEF Messages
<1>14. ASSUME NEW k \in Kinds, OnDestroyBegin(k) PROVE StateTypes'
  BY <1>14 DEF OnDestroyBegin, Send
<1>15. ASSUME NEW k \in Kinds, OnDestroyEnd(k) PROVE StateTypes'
  BY <1>15 DEF OnDestroyEnd
<1>16. ASSUME NEW k \in Kinds, RuntimeInit(k) PROVE StateTypes'
  BY <1>16 DEF RuntimeInit, RuntimeGoto
<1>17. ASSUME NEW k \in Kinds, ModulesStart(k) PROVE StateTypes'
  BY <1>17 DEF ModulesStart
<1>18. ASSUME NEW k \in Kinds, ProfileLoaded(k) PROVE StateTypes'
  BY <1>18 DEF ProfileLoaded
<1>19. CASE Establish
  BY <1>19 DEF Establish, RuntimeGoto, Quit
<1>20. CASE Attach
  BY <1>20 DEF Attach, RuntimeGoto
<1>21. CASE MarkActive
  BY <1>21 DEF MarkActive, RuntimeGoto
<1>22. CASE EnterLoop
  BY <1>22 DEF EnterLoop, RuntimeGoto
<1>23. ASSUME NEW k \in Kinds, Close(k) PROVE StateTypes'
  BY <1>23 DEF Close, Quit, RuntimeGoto
<1>24. ASSUME NEW k \in Kinds, LoadException(k) PROVE StateTypes'
  BY <1>24 DEF LoadException, Quit, RuntimeGoto
<1>25. ASSUME NEW k \in Kinds, RuntimeEnd(k) PROVE StateTypes'
  BY <1>25 DEF RuntimeEnd, RuntimeGoto
<1>26. ASSUME NEW k \in Kinds, ModulesEnd(k) PROVE StateTypes'
  BY <1>26 DEF ModulesEnd
<1>27. CASE Revoke
  BY <1>27 DEF Revoke
<1>28. CASE OnRevoke
  BY <1>28 DEF OnRevoke
<1>29. CASE Kill
  BY <1>29 DEF Kill, LoseProcess
<1>30. CASE Reboot
  BY <1>30 DEF Reboot, LoseProcess
<1>31. CASE OnRevokeStop
  BY <1>31 DEF OnRevokeStop
<1>32. QED
  BY <1>1, <1>2, <1>3, <1>4, <1>5, <1>6, <1>7, <1>8, <1>9, <1>10, <1>11, <1>12, <1>13,
     <1>14, <1>15, <1>16, <1>17, <1>18, <1>19, <1>20, <1>21, <1>22, <1>23, <1>24, <1>25,
     <1>26, <1>27, <1>28, <1>29, <1>30, <1>31
  DEF Next, User, MainProcess, System, TunStep, ServiceStep

-----------------------------------------------------------------------------
\* A service runs as long as its runtime has not reached the finally block, and its
\* instance is gone only after its modules are.
Stages ==
    \A k \in Kinds :
        /\ svc[k] = "run" => rt[k] \notin {"off", "closing"} /\ mods[k] # "ending"
        /\ svc[k] # "run" => rt[k] \in {"off", "closing"} /\ mods[k] # "on"
        /\ svc[k] \in {"none", "dup"} => rt[k] = "off" /\ mods[k] = "none"

\* An instance exists only in a process that has recorded its pid.
PidKnown == \A k \in Kinds : svc[k] # "none" => runningPid

\* The marker is off until open() has come to its end.
MarkerFresh == svc["tun"] = "run" /\ rt["tun"] # "loop" => ~tunActive

\* At most one runtime is past globalLock.
GlobalLock == \A j, k \in Kinds : j # k => rt[j] \in Unlocked \/ rt[k] \in Unlocked

IInv == TypeOK /\ Stages /\ PidKnown /\ IntentSurvives /\ MarkerFresh /\ MarkerHonest

\* Every step keeps the service, its runtime and its modules in stage.
LEMMA StagesStep == ASSUME StateTypes, Stages, Next PROVE Stages'
<1> USE DEF bgVars, StateTypes, Stages, Kinds, SvcStates, RtStates, ModStates
<1>1. CASE User
  BY <1>1 DEF User, UserStart, UserStop, SetEnableVpn, BecomeVisible, BecomeInvisible
<1>2. CASE MainProcess
  BY <1>2 DEF MainProcess, ReceiveBroadcast, RestartReceive, DelayedRestart,
       OnServiceDisconnected
<1>3. CASE Recreate
  BY <1>3 DEF Recreate, Send, Recreated
<1>4. ASSUME NEW k \in Kinds, OnStartCommand(k) PROVE Stages'
  BY <1>4 DEF OnStartCommand, Send
<1>5. CASE TunOnCreate
  BY <1>5 DEF TunOnCreate, CreateFor, LaunchRuntime, TurnAway, Send, Recreated, Duplicate
<1>6. CASE ClashOnCreate
  BY <1>6 DEF ClashOnCreate, CreateFor, LaunchRuntime, TurnAway, Send, Recreated, Duplicate
<1>7. ASSUME NEW k \in Kinds, OnDestroyBegin(k) PROVE Stages'
  BY <1>7 DEF OnDestroyBegin, Send
<1>8. ASSUME NEW k \in Kinds, OnDestroyEnd(k) PROVE Stages'
  BY <1>8 DEF OnDestroyEnd
<1>9. ASSUME NEW k \in Kinds, RuntimeInit(k) PROVE Stages'
  BY <1>9 DEF RuntimeInit, RuntimeGoto
<1>10. ASSUME NEW k \in Kinds, ModulesStart(k) PROVE Stages'
  BY <1>10 DEF ModulesStart
<1>11. ASSUME NEW k \in Kinds, ProfileLoaded(k) PROVE Stages'
  BY <1>11 DEF ProfileLoaded
<1>12. CASE Establish
  BY <1>12 DEF Establish, RuntimeGoto, Quit
<1>13. CASE Attach
  BY <1>13 DEF Attach, RuntimeGoto
<1>14. CASE MarkActive
  BY <1>14 DEF MarkActive, RuntimeGoto
<1>15. CASE EnterLoop
  BY <1>15 DEF EnterLoop, RuntimeGoto
<1>16. ASSUME NEW k \in Kinds, Close(k) PROVE Stages'
  BY <1>16 DEF Close, Quit, RuntimeGoto
<1>17. ASSUME NEW k \in Kinds, LoadException(k) PROVE Stages'
  BY <1>17 DEF LoadException, Quit, RuntimeGoto
<1>18. ASSUME NEW k \in Kinds, RuntimeEnd(k) PROVE Stages'
  BY <1>18 DEF RuntimeEnd, RuntimeGoto
<1>19. ASSUME NEW k \in Kinds, ModulesEnd(k) PROVE Stages'
  BY <1>19 DEF ModulesEnd
<1>20. CASE Revoke
  BY <1>20 DEF Revoke
<1>21. CASE OnRevoke
  BY <1>21 DEF OnRevoke
<1>22. CASE Kill
  BY <1>22 DEF Kill, LoseProcess
<1>23. CASE Reboot
  BY <1>23 DEF Reboot, LoseProcess
<1>24. CASE OnRevokeStop
  BY <1>24 DEF OnRevokeStop
<1>25. QED
  BY <1>1, <1>2, <1>3, <1>4, <1>5, <1>6, <1>7, <1>8, <1>9, <1>10, <1>11, <1>12, <1>13,
     <1>14, <1>15, <1>16, <1>17, <1>18, <1>19, <1>20, <1>21, <1>22, <1>23, <1>24
  DEF Next, System, TunStep, ServiceStep

\* Every step lets at most one runtime past globalLock.
LEMMA GlobalLockStep == ASSUME StateTypes, Stages, GlobalLock, Next PROVE GlobalLock'
<1> USE DEF bgVars, StateTypes, Stages, GlobalLock, Unlocked, Kinds,
            RtStates
<1>1. CASE User
  BY <1>1 DEF User, UserStart, UserStop, SetEnableVpn, BecomeVisible, BecomeInvisible
<1>2. CASE MainProcess
  BY <1>2 DEF MainProcess, ReceiveBroadcast, RestartReceive, DelayedRestart,
       OnServiceDisconnected
<1>3. CASE Recreate
  BY <1>3 DEF Recreate, Send, Recreated
<1>4. ASSUME NEW k \in Kinds, OnStartCommand(k) PROVE GlobalLock'
  BY <1>4 DEF OnStartCommand, Send
<1>5. CASE TunOnCreate
  BY <1>5 DEF TunOnCreate, CreateFor, LaunchRuntime, TurnAway, Send, Recreated, Duplicate
<1>6. CASE ClashOnCreate
  BY <1>6 DEF ClashOnCreate, CreateFor, LaunchRuntime, TurnAway, Send, Recreated, Duplicate
<1>7. ASSUME NEW k \in Kinds, OnDestroyBegin(k) PROVE GlobalLock'
  BY <1>7 DEF OnDestroyBegin, Send
<1>8. ASSUME NEW k \in Kinds, OnDestroyEnd(k) PROVE GlobalLock'
  BY <1>8 DEF OnDestroyEnd
<1>9. ASSUME NEW k \in Kinds, RuntimeInit(k) PROVE GlobalLock'
  BY <1>9 DEF RuntimeInit, RuntimeGoto
<1>10. ASSUME NEW k \in Kinds, ModulesStart(k) PROVE GlobalLock'
  BY <1>10 DEF ModulesStart
<1>11. ASSUME NEW k \in Kinds, ProfileLoaded(k) PROVE GlobalLock'
  BY <1>11 DEF ProfileLoaded
<1>12. CASE Establish
  BY <1>12 DEF Establish, RuntimeGoto, Quit
<1>13. CASE Attach
  BY <1>13 DEF Attach, RuntimeGoto
<1>14. CASE MarkActive
  BY <1>14 DEF MarkActive, RuntimeGoto
<1>15. CASE EnterLoop
  BY <1>15 DEF EnterLoop, RuntimeGoto
<1>16. ASSUME NEW k \in Kinds, Close(k) PROVE GlobalLock'
  BY <1>16 DEF Close, Quit, RuntimeGoto
<1>17. ASSUME NEW k \in Kinds, LoadException(k) PROVE GlobalLock'
  BY <1>17 DEF LoadException, Quit, RuntimeGoto
<1>18. ASSUME NEW k \in Kinds, RuntimeEnd(k) PROVE GlobalLock'
  BY <1>18 DEF RuntimeEnd, RuntimeGoto
<1>19. ASSUME NEW k \in Kinds, ModulesEnd(k) PROVE GlobalLock'
  BY <1>19 DEF ModulesEnd
<1>20. CASE Revoke
  BY <1>20 DEF Revoke
<1>21. CASE OnRevoke
  BY <1>21 DEF OnRevoke
<1>22. CASE Kill
  BY <1>22 DEF Kill, LoseProcess
<1>23. CASE Reboot
  BY <1>23 DEF Reboot, LoseProcess
<1>24. CASE OnRevokeStop
  BY <1>24 DEF OnRevokeStop
<1>25. QED
  BY <1>1, <1>2, <1>3, <1>4, <1>5, <1>6, <1>7, <1>8, <1>9, <1>10, <1>11, <1>12, <1>13,
     <1>14, <1>15, <1>16, <1>17, <1>18, <1>19, <1>20, <1>21, <1>22, <1>23, <1>24
  DEF Next, System, TunStep, ServiceStep

\* Every step keeps the pid recorded while there is an instance.
LEMMA PidKnownStep == ASSUME StateTypes, Stages, PidKnown, Next PROVE PidKnown'
<1> USE DEF bgVars, StateTypes, Stages, PidKnown, Kinds
<1>1. CASE User
  BY <1>1 DEF User, UserStart, UserStop, SetEnableVpn, BecomeVisible, BecomeInvisible
<1>2. CASE MainProcess
  BY <1>2 DEF MainProcess, ReceiveBroadcast, RestartReceive, DelayedRestart,
       OnServiceDisconnected
<1>3. CASE Recreate
  BY <1>3 DEF Recreate, Send, Recreated
<1>4. ASSUME NEW k \in Kinds, OnStartCommand(k) PROVE PidKnown'
  BY <1>4 DEF OnStartCommand, Send
<1>5. CASE TunOnCreate
  BY <1>5 DEF TunOnCreate, CreateFor, LaunchRuntime, TurnAway, Send, Recreated, Duplicate
<1>6. CASE ClashOnCreate
  BY <1>6 DEF ClashOnCreate, CreateFor, LaunchRuntime, TurnAway, Send, Recreated, Duplicate
<1>7. ASSUME NEW k \in Kinds, OnDestroyBegin(k) PROVE PidKnown'
  BY <1>7 DEF OnDestroyBegin, Send
<1>8. ASSUME NEW k \in Kinds, OnDestroyEnd(k) PROVE PidKnown'
  BY <1>8 DEF OnDestroyEnd
<1>9. ASSUME NEW k \in Kinds, RuntimeInit(k) PROVE PidKnown'
  BY <1>9 DEF RuntimeInit, RuntimeGoto
<1>10. ASSUME NEW k \in Kinds, ModulesStart(k) PROVE PidKnown'
  BY <1>10 DEF ModulesStart
<1>11. ASSUME NEW k \in Kinds, ProfileLoaded(k) PROVE PidKnown'
  BY <1>11 DEF ProfileLoaded
<1>12. CASE Establish
  BY <1>12 DEF Establish, RuntimeGoto, Quit
<1>13. CASE Attach
  BY <1>13 DEF Attach, RuntimeGoto
<1>14. CASE MarkActive
  BY <1>14 DEF MarkActive, RuntimeGoto
<1>15. CASE EnterLoop
  BY <1>15 DEF EnterLoop, RuntimeGoto
<1>16. ASSUME NEW k \in Kinds, Close(k) PROVE PidKnown'
  BY <1>16 DEF Close, Quit, RuntimeGoto
<1>17. ASSUME NEW k \in Kinds, LoadException(k) PROVE PidKnown'
  BY <1>17 DEF LoadException, Quit, RuntimeGoto
<1>18. ASSUME NEW k \in Kinds, RuntimeEnd(k) PROVE PidKnown'
  BY <1>18 DEF RuntimeEnd, RuntimeGoto
<1>19. ASSUME NEW k \in Kinds, ModulesEnd(k) PROVE PidKnown'
  BY <1>19 DEF ModulesEnd
<1>20. CASE Revoke
  BY <1>20 DEF Revoke
<1>21. CASE OnRevoke
  BY <1>21 DEF OnRevoke
<1>22. CASE Kill
  BY <1>22 DEF Kill, LoseProcess
<1>23. CASE Reboot
  BY <1>23 DEF Reboot, LoseProcess
<1>24. CASE OnRevokeStop
  BY <1>24 DEF OnRevokeStop
<1>25. QED
  BY <1>1, <1>2, <1>3, <1>4, <1>5, <1>6, <1>7, <1>8, <1>9, <1>10, <1>11, <1>12, <1>13,
     <1>14, <1>15, <1>16, <1>17, <1>18, <1>19, <1>20, <1>21, <1>22, <1>23, <1>24
  DEF Next, System, TunStep, ServiceStep

\* Every step keeps the lock file while the VPN service runs.
LEMMA IntentStep ==
    ASSUME StateTypes, Stages, PidKnown, IntentSurvives, Next PROVE IntentSurvives'
<1> USE DEF bgVars, fileVars, StateTypes, Stages, PidKnown, IntentSurvives, Kinds
<1>1. CASE User
  BY <1>1 DEF User, UserStart, UserStop, SetEnableVpn, BecomeVisible, BecomeInvisible
<1>2. CASE MainProcess
  BY <1>2 DEF MainProcess, ReceiveBroadcast, RestartReceive, DelayedRestart,
       OnServiceDisconnected
<1>3. CASE Recreate
  BY <1>3 DEF Recreate, Send, Recreated
<1>4. ASSUME NEW k \in Kinds, OnStartCommand(k) PROVE IntentSurvives'
  BY <1>4 DEF OnStartCommand, Send
<1>5. CASE TunOnCreate
  BY <1>5 DEF TunOnCreate, CreateFor, LaunchRuntime, TurnAway, Send, Recreated, Duplicate
<1>6. CASE ClashOnCreate
  BY <1>6 DEF ClashOnCreate, CreateFor, LaunchRuntime, TurnAway, Send, Recreated, Duplicate
<1>7. ASSUME NEW k \in Kinds, OnDestroyBegin(k) PROVE IntentSurvives'
  BY <1>7 DEF OnDestroyBegin, Send
<1>8. ASSUME NEW k \in Kinds, OnDestroyEnd(k) PROVE IntentSurvives'
  BY <1>8 DEF OnDestroyEnd
<1>9. ASSUME NEW k \in Kinds, RuntimeInit(k) PROVE IntentSurvives'
  BY <1>9 DEF RuntimeInit, RuntimeGoto
<1>10. ASSUME NEW k \in Kinds, ModulesStart(k) PROVE IntentSurvives'
  BY <1>10 DEF ModulesStart
<1>11. ASSUME NEW k \in Kinds, ProfileLoaded(k) PROVE IntentSurvives'
  BY <1>11 DEF ProfileLoaded
<1>12. CASE Establish
  BY <1>12 DEF Establish, RuntimeGoto, Quit
<1>13. CASE Attach
  BY <1>13 DEF Attach, RuntimeGoto
<1>14. CASE MarkActive
  BY <1>14 DEF MarkActive, RuntimeGoto
<1>15. CASE EnterLoop
  BY <1>15 DEF EnterLoop, RuntimeGoto
<1>16. ASSUME NEW k \in Kinds, Close(k) PROVE IntentSurvives'
  BY <1>16 DEF Close, Quit, RuntimeGoto
<1>17. ASSUME NEW k \in Kinds, LoadException(k) PROVE IntentSurvives'
  BY <1>17 DEF LoadException, Quit, RuntimeGoto
<1>18. ASSUME NEW k \in Kinds, RuntimeEnd(k) PROVE IntentSurvives'
  BY <1>18 DEF RuntimeEnd, RuntimeGoto
<1>19. ASSUME NEW k \in Kinds, ModulesEnd(k) PROVE IntentSurvives'
  BY <1>19 DEF ModulesEnd
<1>20. CASE Revoke
  BY <1>20 DEF Revoke
<1>21. CASE OnRevoke
  BY <1>21 DEF OnRevoke
<1>22. CASE Kill
  BY <1>22 DEF Kill, LoseProcess
<1>23. CASE Reboot
  BY <1>23 DEF Reboot, LoseProcess
<1>24. CASE OnRevokeStop
  BY <1>24 DEF OnRevokeStop
<1>25. QED
  BY <1>1, <1>2, <1>3, <1>4, <1>5, <1>6, <1>7, <1>8, <1>9, <1>10, <1>11, <1>12, <1>13,
     <1>14, <1>15, <1>16, <1>17, <1>18, <1>19, <1>20, <1>21, <1>22, <1>23, <1>24
  DEF Next, System, TunStep, ServiceStep

\* Every step keeps the marker off until the tunnel has been opened.
LEMMA MarkerFreshStep ==
    ASSUME StateTypes, Stages, MarkerFresh, Next PROVE MarkerFresh'
<1> USE DEF bgVars, fileVars, StateTypes, Stages, MarkerFresh, Kinds, RtStates, SvcStates
<1>1. CASE User
  BY <1>1 DEF User, UserStart, UserStop, SetEnableVpn, BecomeVisible, BecomeInvisible
<1>2. CASE MainProcess
  BY <1>2 DEF MainProcess, ReceiveBroadcast, RestartReceive, DelayedRestart,
       OnServiceDisconnected
<1>3. CASE Recreate
  BY <1>3 DEF Recreate, Send, Recreated
<1>4. ASSUME NEW k \in Kinds, OnStartCommand(k) PROVE MarkerFresh'
  BY <1>4 DEF OnStartCommand, Send
<1>5. CASE TunOnCreate
  BY <1>5 DEF TunOnCreate, CreateFor, LaunchRuntime, TurnAway, Send, Recreated, Duplicate
<1>6. CASE ClashOnCreate
  BY <1>6 DEF ClashOnCreate, CreateFor, LaunchRuntime, TurnAway, Send, Recreated, Duplicate
<1>7. ASSUME NEW k \in Kinds, OnDestroyBegin(k) PROVE MarkerFresh'
  BY <1>7 DEF OnDestroyBegin, Send
<1>8. ASSUME NEW k \in Kinds, OnDestroyEnd(k) PROVE MarkerFresh'
  BY <1>8 DEF OnDestroyEnd
<1>9. ASSUME NEW k \in Kinds, RuntimeInit(k) PROVE MarkerFresh'
  BY <1>9 DEF RuntimeInit, RuntimeGoto
<1>10. ASSUME NEW k \in Kinds, ModulesStart(k) PROVE MarkerFresh'
  BY <1>10 DEF ModulesStart
<1>11. ASSUME NEW k \in Kinds, ProfileLoaded(k) PROVE MarkerFresh'
  BY <1>11 DEF ProfileLoaded
<1>12. CASE Establish
  BY <1>12 DEF Establish, RuntimeGoto, Quit
<1>13. CASE Attach
  BY <1>13 DEF Attach, RuntimeGoto
<1>14. CASE MarkActive
  BY <1>14 DEF MarkActive, RuntimeGoto
<1>15. CASE EnterLoop
  BY <1>15 DEF EnterLoop, RuntimeGoto
<1>16. ASSUME NEW k \in Kinds, Close(k) PROVE MarkerFresh'
  BY <1>16 DEF Close, Quit, RuntimeGoto
<1>17. ASSUME NEW k \in Kinds, LoadException(k) PROVE MarkerFresh'
  BY <1>17 DEF LoadException, Quit, RuntimeGoto
<1>18. ASSUME NEW k \in Kinds, RuntimeEnd(k) PROVE MarkerFresh'
  BY <1>18 DEF RuntimeEnd, RuntimeGoto
<1>19. ASSUME NEW k \in Kinds, ModulesEnd(k) PROVE MarkerFresh'
  BY <1>19 DEF ModulesEnd
<1>20. CASE Revoke
  BY <1>20 DEF Revoke
<1>21. CASE OnRevoke
  BY <1>21 DEF OnRevoke
<1>22. CASE Kill
  BY <1>22 DEF Kill, LoseProcess
<1>23. CASE Reboot
  BY <1>23 DEF Reboot, LoseProcess
<1>24. CASE OnRevokeStop
  BY <1>24 DEF OnRevokeStop
<1>25. QED
  BY <1>1, <1>2, <1>3, <1>4, <1>5, <1>6, <1>7, <1>8, <1>9, <1>10, <1>11, <1>12, <1>13,
     <1>14, <1>15, <1>16, <1>17, <1>18, <1>19, <1>20, <1>21, <1>22, <1>23, <1>24
  DEF Next, System, TunStep, ServiceStep

\* Every step keeps the marker honest.
LEMMA MarkerHonestStep ==
    ASSUME StateTypes, Stages, MarkerFresh, MarkerHonest, Next PROVE MarkerHonest'
<1> USE DEF bgVars, sysVars, fileVars, StateTypes, Stages, MarkerFresh, MarkerHonest,
            TunnelUp, Kinds, RtStates, SvcStates
<1>1. CASE User
  BY <1>1 DEF User, UserStart, UserStop, SetEnableVpn, BecomeVisible, BecomeInvisible
<1>2. CASE MainProcess
  BY <1>2 DEF MainProcess, ReceiveBroadcast, RestartReceive, DelayedRestart,
       OnServiceDisconnected
<1>3. CASE Recreate
  BY <1>3 DEF Recreate, Send, Recreated
<1>4. ASSUME NEW k \in Kinds, OnStartCommand(k) PROVE MarkerHonest'
  BY <1>4 DEF OnStartCommand, Send
<1>5. CASE TunOnCreate
  BY <1>5 DEF TunOnCreate, CreateFor, LaunchRuntime, TurnAway, Send, Recreated, Duplicate
<1>6. CASE ClashOnCreate
  BY <1>6 DEF ClashOnCreate, CreateFor, LaunchRuntime, TurnAway, Send, Recreated, Duplicate
<1>7. ASSUME NEW k \in Kinds, OnDestroyBegin(k) PROVE MarkerHonest'
  BY <1>7 DEF OnDestroyBegin, Send
<1>8. ASSUME NEW k \in Kinds, OnDestroyEnd(k) PROVE MarkerHonest'
  BY <1>8 DEF OnDestroyEnd
<1>9. ASSUME NEW k \in Kinds, RuntimeInit(k) PROVE MarkerHonest'
  BY <1>9 DEF RuntimeInit, RuntimeGoto
<1>10. ASSUME NEW k \in Kinds, ModulesStart(k) PROVE MarkerHonest'
  BY <1>10 DEF ModulesStart
<1>11. ASSUME NEW k \in Kinds, ProfileLoaded(k) PROVE MarkerHonest'
  BY <1>11 DEF ProfileLoaded
<1>12. CASE Establish
  BY <1>12 DEF Establish, RuntimeGoto, Quit
<1>13. CASE Attach
  BY <1>13 DEF Attach, RuntimeGoto
<1>14. CASE MarkActive
  BY <1>14 DEF MarkActive, RuntimeGoto
<1>15. CASE EnterLoop
  BY <1>15 DEF EnterLoop, RuntimeGoto
<1>16. ASSUME NEW k \in Kinds, Close(k) PROVE MarkerHonest'
  BY <1>16 DEF Close, Quit, RuntimeGoto
<1>17. ASSUME NEW k \in Kinds, LoadException(k) PROVE MarkerHonest'
  BY <1>17 DEF LoadException, Quit, RuntimeGoto
<1>18. ASSUME NEW k \in Kinds, RuntimeEnd(k) PROVE MarkerHonest'
  BY <1>18 DEF RuntimeEnd, RuntimeGoto
<1>19. ASSUME NEW k \in Kinds, ModulesEnd(k) PROVE MarkerHonest'
  BY <1>19 DEF ModulesEnd
<1>20. CASE Revoke
  BY <1>20 DEF Revoke
<1>21. CASE OnRevoke
  BY <1>21 DEF OnRevoke
<1>22. CASE Kill
  BY <1>22 DEF Kill, LoseProcess
<1>23. CASE Reboot
  BY <1>23 DEF Reboot, LoseProcess
<1>24. CASE OnRevokeStop
  BY <1>24 DEF OnRevokeStop
<1>25. QED
  BY <1>1, <1>2, <1>3, <1>4, <1>5, <1>6, <1>7, <1>8, <1>9, <1>10, <1>11, <1>12, <1>13,
     <1>14, <1>15, <1>16, <1>17, <1>18, <1>19, <1>20, <1>21, <1>22, <1>23, <1>24
  DEF Next, System, TunStep, ServiceStep

\* The action that StopHitsOwnTunnel allows.
StopAllowed ==
    svc["tun"] = "run" /\ svc'["tun"] = "run" /\ iface /\ ~iface'
        => revoking' \/ stopping \/ rt["tun"] = "open"

\* Every step that takes the interface from a running service is allowed to.
LEMMA StopAllowedStep == ASSUME StateTypes, Stages, Next PROVE StopAllowed
<1> USE DEF bgVars, sysVars, StateTypes, Stages, StopAllowed, Kinds, SvcStates
<1>1. CASE User
  BY <1>1 DEF User, UserStart, UserStop, SetEnableVpn, BecomeVisible, BecomeInvisible
<1>2. CASE MainProcess
  BY <1>2 DEF MainProcess, ReceiveBroadcast, RestartReceive, DelayedRestart,
       OnServiceDisconnected
<1>3. CASE Recreate
  BY <1>3 DEF Recreate, Send, Recreated
<1>4. ASSUME NEW k \in Kinds, OnStartCommand(k) PROVE StopAllowed
  BY <1>4 DEF OnStartCommand, Send
<1>5. CASE TunOnCreate
  BY <1>5 DEF TunOnCreate, CreateFor, LaunchRuntime, TurnAway, Send, Recreated, Duplicate
<1>6. CASE ClashOnCreate
  BY <1>6 DEF ClashOnCreate, CreateFor, LaunchRuntime, TurnAway, Send, Recreated, Duplicate
<1>7. ASSUME NEW k \in Kinds, OnDestroyBegin(k) PROVE StopAllowed
  BY <1>7 DEF OnDestroyBegin, Send
<1>8. ASSUME NEW k \in Kinds, OnDestroyEnd(k) PROVE StopAllowed
  BY <1>8 DEF OnDestroyEnd
<1>9. ASSUME NEW k \in Kinds, RuntimeInit(k) PROVE StopAllowed
  BY <1>9 DEF RuntimeInit, RuntimeGoto
<1>10. ASSUME NEW k \in Kinds, ModulesStart(k) PROVE StopAllowed
  BY <1>10 DEF ModulesStart
<1>11. ASSUME NEW k \in Kinds, ProfileLoaded(k) PROVE StopAllowed
  BY <1>11 DEF ProfileLoaded
<1>12. CASE Establish
  BY <1>12 DEF Establish, RuntimeGoto, Quit
<1>13. CASE Attach
  BY <1>13 DEF Attach, RuntimeGoto
<1>14. CASE MarkActive
  BY <1>14 DEF MarkActive, RuntimeGoto
<1>15. CASE EnterLoop
  BY <1>15 DEF EnterLoop, RuntimeGoto
<1>16. ASSUME NEW k \in Kinds, Close(k) PROVE StopAllowed
  BY <1>16 DEF Close, Quit, RuntimeGoto
<1>17. ASSUME NEW k \in Kinds, LoadException(k) PROVE StopAllowed
  BY <1>17 DEF LoadException, Quit, RuntimeGoto
<1>18. ASSUME NEW k \in Kinds, RuntimeEnd(k) PROVE StopAllowed
  BY <1>18 DEF RuntimeEnd, RuntimeGoto
<1>19. ASSUME NEW k \in Kinds, ModulesEnd(k) PROVE StopAllowed
  BY <1>19 DEF ModulesEnd
<1>20. CASE Revoke
  BY <1>20 DEF Revoke
<1>21. CASE OnRevoke
  BY <1>21 DEF OnRevoke
<1>22. CASE Kill
  BY <1>22 DEF Kill, LoseProcess
<1>23. CASE Reboot
  BY <1>23 DEF Reboot, LoseProcess
<1>24. CASE OnRevokeStop
  BY <1>24 DEF OnRevokeStop
<1>25. QED
  BY <1>1, <1>2, <1>3, <1>4, <1>5, <1>6, <1>7, <1>8, <1>9, <1>10, <1>11, <1>12, <1>13,
     <1>14, <1>15, <1>16, <1>17, <1>18, <1>19, <1>20, <1>21, <1>22, <1>23, <1>24
  DEF Next, System, TunStep, ServiceStep

-----------------------------------------------------------------------------
\* The invariant holds initially.
LEMMA InitIInv == Init => IInv
<1> SUFFICES ASSUME Init PROVE IInv
  OBVIOUS
<1>1. StateTypes
  BY BoundsAssumption DEF Init, StateTypes, Kinds, SvcStates, RtStates, ModStates
<1>2. FlagTypes
  BY Zenon DEF Init, FlagTypes
<1>3. Stages /\ PidKnown /\ IntentSurvives /\ MarkerFresh /\ MarkerHonest
  BY DEF Init, Stages, PidKnown, IntentSurvives, MarkerFresh, MarkerHonest, Kinds
<1>4. GlobalLock
  BY DEF Init, GlobalLock, Unlocked, Kinds
<1>5. QED BY <1>1, <1>2, <1>3, <1>4 DEF IInv, TypeOK, GlobalLock

\* Stuttering preserves the invariant.
LEMMA StutterIInv == ASSUME IInv, UNCHANGED vars PROVE IInv'
<1> USE DEF vars, bgVars, sysVars, fileVars, uiVars
<1>1. StateTypes'
  BY DEF IInv, TypeOK, StateTypes
<1>2. FlagTypes'
  BY DEF IInv, TypeOK, FlagTypes
<1>3. Stages' /\ PidKnown' /\ IntentSurvives'
  BY DEF IInv, Stages, PidKnown, IntentSurvives
<1>4. MarkerFresh' /\ MarkerHonest'
  BY DEF IInv, MarkerFresh, MarkerHonest, TunnelUp
<1>5. GlobalLock'
  BY DEF IInv, TypeOK, GlobalLock, Unlocked
<1>6. QED BY <1>1, <1>2, <1>3, <1>4, <1>5 DEF IInv, TypeOK, GlobalLock

\* IInv is an invariant.
LEMMA Invariant == Spec => []IInv
<1>1. IInv /\ [Next]_vars => IInv'
  <2> SUFFICES ASSUME IInv, [Next]_vars PROVE IInv'
    OBVIOUS
  <2>1. CASE Next
    BY <2>1, FlagTypesStep, StateTypesStep, StagesStep, GlobalLockStep, PidKnownStep,
       IntentStep, MarkerFreshStep, MarkerHonestStep
    DEF IInv, TypeOK, GlobalLock
  <2>2. CASE UNCHANGED vars
    BY <2>2, StutterIInv
  <2>3. QED BY <2>1, <2>2
<1>2. QED BY InitIInv, <1>1, PTL DEF Spec

\* Every variable of the services, of the files and of the main process has its type, and
\* at most one runtime is past globalLock (ClashRuntime.kt:25).
THEOREM ServiceTypeCorrect == Spec => []TypeOK
<1>1. IInv => TypeOK
  BY DEF IInv
<1>2. QED BY Invariant, <1>1, PTL

\* The lock file that stands for the user's wish to be connected exists whenever the
\* VPN service runs, across kills, restarts and starts of the proxy service
\* (TunService.kt:103-108, ClashService.kt:83).
THEOREM IntentAlwaysSurvives == Spec => []IntentSurvives
<1>1. IInv => IntentSurvives
  BY DEF IInv
<1>2. QED BY Invariant, <1>1, PTL

\* The marker file of a running VPN service tells of a tunnel only if there is one,
\* with the exceptions that MarkerHonest names (TunService.kt:110-112, 156-157, 267).
THEOREM MarkerAlwaysHonest == Spec => []MarkerHonest
<1>1. IInv => MarkerHonest
  BY DEF IInv
<1>2. QED BY Invariant, <1>1, PTL

\* A running service loses its interface only to the system, to onRevoke or to a
\* failed attach: an earlier instance that ends does not take it (TunService.kt:127-134,
\* TunModule.kt:42, ClashRuntime.kt:25-57).
THEOREM StopAlwaysHitsOwnTunnel == Spec => StopHitsOwnTunnel
<1>1. IInv /\ [Next]_vars => [StopAllowed]_vars
  BY StopAllowedStep DEF IInv, TypeOK
<1>2. QED
  BY Invariant, <1>1, PTL DEF Spec, StopHitsOwnTunnel, StopAllowed

=============================================================================
