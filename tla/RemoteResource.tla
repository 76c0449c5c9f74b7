--------------------------- MODULE RemoteResource ---------------------------
(***************************************************************************)
(* How the main process reaches the :background process: the binding of    *)
(* remote/Service, the holder of its binder (Resource), and the retry      *)
(* loops withClash and withProfile.                                        *)
(*                                                                         *)
(* The callbacks of the binding run on the main thread; the calls are      *)
(* coroutines on other threads and may hold a binder long after the        *)
(* binding has moved on to another one.  Each method of Resource is        *)
(* synchronized, hence one step.                                           *)
(*                                                                         *)
(* A binder is a number, new for every onServiceConnected (unwrap makes a  *)
(* new proxy, and resetIfMatched compares by identity).  What a call asks  *)
(* for is left out; that it was executed is not.                           *)
(***************************************************************************)
EXTENDS Naturals, Sequences, FiniteSets

CONSTANTS
    Calls,      \* coroutines in withClash or withProfile
    MaxKills    \* bound on kills of the :background process

ASSUME MaxKillsAssumption == MaxKills \in Nat

Null == 0

VARIABLES
    \* the system
    visible,    \* an activity is visible
    bound,      \* the binding exists
    conn,       \* the binder that the system last reported for it, or Null
    callbacks,  \* callbacks on their way: a binder for onServiceConnected, Null for
                \* onServiceDisconnected
    issued,     \* binders so far
    live,       \* binders whose process is alive
    kills,
    \* memory of the main process
    crashed,    \* Service.connection.lastCrashed has been set
    value,      \* Resource.value
    pending,    \* Resource.pending: the calls that wait
    pc,         \* call -> label
    mine        \* call -> local "remote"

sysVars == <<visible, bound, conn, callbacks, issued, live, kills>>
vars    == <<sysVars, crashed, value, pending, pc, mine>>

Labels == {"idle", "get", "wait", "resolve", "call", "reply", "reset"}

-----------------------------------------------------------------------------
(* Resource.                                                                *)

\* Mutant: calls that wait are not told.
SetAndForget(v) == value' = v /\ UNCHANGED <<pending, pc, mine>>

SetAndNotify(v) ==
    /\ value' = v
    /\ IF v = Null
         THEN UNCHANGED <<pending, pc, mine>>
         ELSE /\ pending' = {}
              /\ pc'   = [c \in Calls |-> IF c \in pending THEN "resolve" ELSE pc[c]]
              /\ mine' = [c \in Calls |-> IF c \in pending THEN v ELSE mine[c]]

\* Mutant: the binder is dropped even if it is not the one that failed.
ResetAlways(v) == value' = Null

ResetIfMatched(v) == value' = IF value = v THEN Null ELSE value

-----------------------------------------------------------------------------
(* The binding.                                                             *)

\* Remote.launch: the app becomes visible.  bindService may fail.
Bind ==
    /\ ~visible
    /\ visible' = TRUE
    /\ bound' \in BOOLEAN
    /\ UNCHANGED <<conn, callbacks, issued, live, kills, crashed, value, pending, pc, mine>>

\* After unbind the system drops callbacks that it has not delivered.
Unbound == bound' = FALSE /\ conn' = Null /\ callbacks' = <<>>

Unbind ==
    /\ visible
    /\ visible' = FALSE
    /\ Unbound
    /\ SetAndNotify(Null)
    /\ UNCHANGED <<issued, live, kills, crashed>>

\* BIND_AUTO_CREATE: the system creates the process, if need be, and reports it.
Connect ==
    /\ bound /\ conn = Null
    /\ issued' = issued + 1
    /\ conn' = issued'
    /\ live' = live \cup {issued'}
    /\ callbacks' = Append(callbacks, issued')
    /\ UNCHANGED <<visible, bound, kills, crashed, value, pending, pc, mine>>

Kill ==
    /\ live # {} /\ kills < MaxKills
    /\ kills' = kills + 1
    /\ live' = {}
    /\ conn' = Null
    /\ callbacks' = IF conn = Null THEN callbacks ELSE Append(callbacks, Null)
    /\ UNCHANGED <<visible, bound, issued, crashed, value, pending, pc, mine>>

OnServiceConnected ==
    /\ callbacks # <<>> /\ Head(callbacks) # Null
    /\ callbacks' = Tail(callbacks)
    /\ SetAndNotify(Head(callbacks))
    /\ UNCHANGED <<visible, bound, conn, issued, live, kills, crashed>>

\* frequent: the second time in ten seconds.  The app then unbinds and shows that it
\* has crashed.  (Otherwise it may restart the service, see ServiceLifecycle.)
OnServiceDisconnected(frequent) ==
    /\ callbacks # <<>> /\ Head(callbacks) = Null
    /\ frequent => crashed
    /\ crashed' = TRUE
    /\ SetAndNotify(Null)
    /\ IF frequent THEN Unbound
                   ELSE callbacks' = Tail(callbacks) /\ UNCHANGED <<bound, conn>>
    /\ UNCHANGED <<visible, issued, live, kills>>

-----------------------------------------------------------------------------
(* A call: withClash, withProfile.                                          *)

Goto(c, l) == pc' = [pc EXCEPT ![c] = l] /\ UNCHANGED <<sysVars, crashed>>

Begin(c) ==
    /\ pc[c] = "idle"
    /\ Goto(c, "get")
    /\ UNCHANGED <<value, pending, mine>>

\* Mutant: the binder is used whether or not there is one.
GetUnchecked(c) ==
    /\ pc[c] = "get"
    /\ Goto(c, "resolve")
    /\ mine' = [mine EXCEPT ![c] = value]
    /\ UNCHANGED <<value, pending>>

Get(c) ==
    /\ pc[c] = "get"
    /\ IF value = Null
         THEN Goto(c, "wait") /\ pending' = pending \cup {c} /\ UNCHANGED mine
         ELSE Goto(c, "resolve") /\ mine' = [mine EXCEPT ![c] = value] /\ UNCHANGED pending
    /\ UNCHANGED value

\* The caller's scope is cancelled while it waits.
Cancel(c) ==
    /\ pc[c] = "wait"
    /\ Goto(c, "idle")
    /\ pending' = pending \ {c}
    /\ UNCHANGED <<value, mine>>

\* remote.clash() or remote.profile(), outside the try block: the DeadObjectException
\* of a dead binder leaves the loop.
Resolve(c) ==
    /\ pc[c] = "resolve"
    /\ Goto(c, IF mine[c] \in live THEN "call" ELSE "idle")
    /\ UNCHANGED <<value, pending, mine>>

\* client.block(): it is executed, or its process is dead.
Execute(c) ==
    /\ pc[c] = "call"
    /\ Goto(c, IF mine[c] \in live THEN "reply" ELSE "reset")
    /\ UNCHANGED <<value, pending, mine>>

\* The result arrives, or the process died after the execution.
Reply(c) ==
    /\ pc[c] = "reply"
    /\ Goto(c, IF mine[c] \in live THEN "idle" ELSE "reset")
    /\ UNCHANGED <<value, pending, mine>>

Reset(c) ==
    /\ pc[c] = "reset"
    /\ ResetIfMatched(mine[c])
    /\ Goto(c, "get")
    /\ UNCHANGED <<pending, mine>>

-----------------------------------------------------------------------------
Init ==
    /\ visible = FALSE /\ bound = FALSE /\ conn = Null /\ callbacks = <<>>
    /\ issued = 0 /\ live = {} /\ kills = 0
    /\ crashed = FALSE /\ value = Null /\ pending = {}
    /\ pc = [c \in Calls |-> "idle"]
    /\ mine = [c \in Calls |-> Null]

Callback == OnServiceConnected \/ \E f \in BOOLEAN : OnServiceDisconnected(f)

Step(c) == Get(c) \/ Resolve(c) \/ Execute(c) \/ Reply(c) \/ Reset(c)

Rest == Connect \/ Kill \/ Callback \/ \E c \in Calls : Begin(c) \/ Cancel(c) \/ Step(c)

Next == Bind \/ Unbind \/ Rest

Spec == Init /\ [][Next]_vars

\* The system honours BIND_AUTO_CREATE, the main thread works off its queue, and a
\* coroutine that can run does run.
Fairness == WF_vars(Connect) /\ WF_vars(Callback) /\ \A c \in Calls : WF_vars(Step(c))

-----------------------------------------------------------------------------
\* Every variable holds a value of its kind; where a call uses its binder, it has one.
TypeOK ==
    /\ visible \in BOOLEAN /\ bound \in BOOLEAN /\ crashed \in BOOLEAN
    /\ issued \in Nat /\ kills \in 0..MaxKills
    /\ conn \in 0..issued /\ value \in 0..issued
    /\ callbacks \in Seq(0..issued)
    /\ live \subseteq 1..issued
    /\ pending \subseteq Calls
    /\ pc \in [Calls -> Labels]
    /\ mine \in [Calls -> 0..issued]
    /\ \A c \in Calls : pc[c] \in {"resolve", "call", "reply", "reset"} => mine[c] # Null

\* No call waits while there is a binder: whoever registers does so before the
\* binder is set and is then told of it, or finds it (Resource.kt:40-61).
NoLostWaiter == (\E c \in Calls : pc[c] = "wait") => value = Null

\* When the binding is up and its callbacks have been delivered, Resource has its
\* binder: a call that failed with an older binder does not take the new one away
\* from all others, for whom nobody would set it again (Resource.kt:64-68).
BinderKept == conn # Null /\ callbacks = <<>> => value = conn

\* While the app is bound every call ends, with a result, an exception or by
\* cancellation, in spite of kills in the middle of it (Remote.kt:16-27).
CallsEnd == \A c \in Calls : pc[c] # "idle" ~> pc[c] = "idle" \/ ~bound

=============================================================================
