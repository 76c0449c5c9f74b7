------------------------ MODULE RemoteResource_proofs ------------------------
(***************************************************************************)
(* Proofs about RemoteResource, for any number of calls and kills.         *)
(*                                                                         *)
(* BinderKept is not inductive.  A call that is about to reset its binder  *)
(* must hold a dead one (DeadReset), while the binder of the binding is    *)
(* alive (ConnLive); and the last callback on its way must be the one that *)
(* reports this binder (LastCallback), so that the queue cannot run empty  *)
(* on anything else.                                                       *)
(***************************************************************************)
EXTENDS RemoteResource, SequenceTheorems, TLAPS

\* The calls that wait are the ones in Resource.pending.
Waiters == \A c \in Calls : pc[c] = "wait" <=> c \in pending

\* A call resets a binder only after the process behind it has died.
DeadReset == \A c \in Calls : pc[c] = "reset" => mine[c] \notin live

\* The binder of the binding is alive.
ConnLive == conn # Null => conn \in live

\* The last callback on its way tells of the binder of the binding.
LastCallback == conn # Null /\ callbacks # <<>> => callbacks[Len(callbacks)] = conn

IInv == TypeOK /\ Waiters /\ NoLostWaiter /\ DeadReset /\ ConnLive /\ LastCallback /\ BinderKept

\* What a call does, except the steps that touch Resource.
Private(c) == Begin(c) \/ Resolve(c) \/ Execute(c) \/ Reply(c)

\* Every step keeps the types.
LEMMA TypeStep == ASSUME TypeOK, Waiters, Next PROVE TypeOK'
<1> USE DEF TypeOK, Labels, Null, sysVars
<1>1. CASE Bind
  BY <1>1 DEF Bind
<1>2. CASE Unbind
  <2>1. visible' \in BOOLEAN /\ bound' \in BOOLEAN
    BY <1>2, Zenon DEF Unbind, Unbound
  <2>2. callbacks' \in Seq(0..issued')
    BY <1>2, EmptySeq DEF Unbind, Unbound
  <2>3. conn' = 0 /\ value' = 0 /\ UNCHANGED <<issued, kills, crashed, live, pending, pc, mine>>
    BY <1>2 DEF Unbind, Unbound, SetAndNotify
  <2>4. QED BY <2>1, <2>2, <2>3
<1>3. CASE Connect
  <2>1. issued' \in Nat /\ 0..issued \subseteq 0..issued' /\ 1..issued \subseteq 1..issued'
    BY <1>3 DEF Connect
  <2>2. callbacks' \in Seq(0..issued')
    <3>1. callbacks \in Seq(0..issued')
      BY <2>1, SeqMonotonic
    <3>2. issued' \in 0..issued'
      BY <2>1
    <3>3. QED BY <1>3, <3>1, <3>2, AppendProperties DEF Connect
  <2>3. QED BY <1>3, <2>1, <2>2 DEF Connect
<1>4. CASE Kill
  <2>1. kills' \in 0..MaxKills
    BY <1>4, MaxKillsAssumption DEF Kill
  <2>2. callbacks' \in Seq(0..issued)
    <3>1. 0 \in 0..issued
      OBVIOUS
    <3>2. QED BY <1>4, <3>1, AppendProperties DEF Kill
  <2>3. QED BY <1>4, <2>1, <2>2 DEF Kill
<1>5. CASE OnServiceConnected
  <2>1. Head(callbacks) \in 0..issued /\ Tail(callbacks) \in Seq(0..issued)
    BY <1>5 DEF OnServiceConnected
  <2>2. QED BY <1>5, <2>1 DEF OnServiceConnected, SetAndNotify
<1>6. ASSUME NEW f \in BOOLEAN, OnServiceDisconnected(f) PROVE TypeOK'
  <2>1. Tail(callbacks) \in Seq(0..issued)
    BY <1>6 DEF OnServiceDisconnected
  <2>2. bound' \in BOOLEAN /\ crashed' \in BOOLEAN
    <3>1. CASE f
      BY <1>6, <3>1, Zenon DEF OnServiceDisconnected, Unbound
    <3>2. CASE ~f
      BY <1>6, <3>2, Zenon DEF OnServiceDisconnected
    <3>3. QED BY <3>1, <3>2
  <2>3. conn' \in 0..issued /\ callbacks' \in Seq(0..issued)
    <3>1. CASE f
      BY <1>6, <3>1, EmptySeq DEF OnServiceDisconnected, Unbound
    <3>2. CASE ~f
      BY <1>6, <3>2, <2>1 DEF OnServiceDisconnected
    <3>3. QED BY <3>1, <3>2
  <2>4. value' = 0 /\ UNCHANGED <<visible, issued, kills, live, pending, pc, mine>>
    BY <1>6 DEF OnServiceDisconnected, SetAndNotify
  <2>5. QED BY <2>2, <2>3, <2>4
<1>7. ASSUME NEW c \in Calls, Private(c) PROVE TypeOK'
  BY <1>7 DEF Private, Begin, Resolve, Execute, Reply, Goto
<1>8. ASSUME NEW c \in Calls, Get(c) PROVE TypeOK'
  BY <1>8 DEF Get, Goto
<1>9. ASSUME NEW c \in Calls, Cancel(c) PROVE TypeOK'
  BY <1>9 DEF Cancel, Goto
<1>10. ASSUME NEW c \in Calls, Reset(c) PROVE TypeOK'
  BY <1>10 DEF Reset, ResetIfMatched, Goto
<1>11. QED
  BY <1>1, <1>2, <1>3, <1>4, <1>5, <1>6, <1>7, <1>8, <1>9, <1>10
  DEF Next, Rest, Callback, Step, Private

\* Every step keeps Resource.pending and the calls that wait together, and no step
\* leaves a call waiting beside a binder.
LEMMA WaitersStep ==
    ASSUME TypeOK, Waiters, NoLostWaiter, Next PROVE Waiters' /\ NoLostWaiter'
<1> USE DEF Waiters, NoLostWaiter, Null, sysVars
<1>1. CASE Bind \/ Connect \/ Kill
  BY <1>1 DEF Bind, Connect, Kill
<1>2. CASE Unbind
  BY <1>2 DEF Unbind, SetAndNotify
<1>3. CASE OnServiceConnected
  <2>1. pending' = {} /\ \A c \in Calls : pc'[c] = IF c \in pending THEN "resolve" ELSE pc[c]
    BY <1>3 DEF OnServiceConnected, SetAndNotify, TypeOK
  <2>2. QED BY <2>1
<1>4. ASSUME NEW f \in BOOLEAN, OnServiceDisconnected(f) PROVE Waiters' /\ NoLostWaiter'
  BY <1>4 DEF OnServiceDisconnected, SetAndNotify
<1>5. ASSUME NEW c \in Calls, Private(c) PROVE Waiters' /\ NoLostWaiter'
  BY <1>5 DEF Private, Begin, Resolve, Execute, Reply, Goto, TypeOK
<1>6. ASSUME NEW c \in Calls, Get(c) PROVE Waiters' /\ NoLostWaiter'
  BY <1>6 DEF Get, Goto, TypeOK
<1>7. ASSUME NEW c \in Calls, Cancel(c) PROVE Waiters' /\ NoLostWaiter'
  BY <1>7 DEF Cancel, Goto, TypeOK
<1>8. ASSUME NEW c \in Calls, Reset(c) PROVE Waiters' /\ NoLostWaiter'
  BY <1>8 DEF Reset, ResetIfMatched, Goto, TypeOK
<1>9. QED
  BY <1>1, <1>2, <1>3, <1>4, <1>5, <1>6, <1>7, <1>8
  DEF Next, Rest, Callback, Step, Private

\* A call that is about to reset a binder holds a dead one: a new binder is never one
\* that a call has.
LEMMA DeadResetStep == ASSUME TypeOK, DeadReset, Next PROVE DeadReset'
<1> USE DEF DeadReset, Null, sysVars
<1>1. CASE Bind
  BY <1>1 DEF Bind
<1>2. CASE Unbind
  BY <1>2 DEF Unbind, SetAndNotify
<1>3. CASE Connect
  <2>1. \A c \in Calls : mine[c] \in 0..issued
    BY DEF TypeOK
  <2>2. issued + 1 \notin 0..issued
    BY DEF TypeOK
  <2>3. QED BY <1>3, <2>1, <2>2 DEF Connect
<1>4. CASE Kill
  BY <1>4 DEF Kill
<1>5. CASE OnServiceConnected
  BY <1>5 DEF OnServiceConnected, SetAndNotify, TypeOK
<1>6. ASSUME NEW f \in BOOLEAN, OnServiceDisconnected(f) PROVE DeadReset'
  BY <1>6 DEF OnServiceDisconnected, SetAndNotify
<1>7. ASSUME NEW c \in Calls, Private(c) PROVE DeadReset'
  BY <1>7 DEF Private, Begin, Resolve, Execute, Reply, Goto, TypeOK
<1>8. ASSUME NEW c \in Calls, Get(c) \/ Cancel(c) \/ Reset(c) PROVE DeadReset'
  BY <1>8 DEF Get, Cancel, Reset, ResetIfMatched, Goto, TypeOK
<1>9. QED
  BY <1>1, <1>2, <1>3, <1>4, <1>5, <1>6, <1>7, <1>8
  DEF Next, Rest, Callback, Step, Private

\* The binder of the binding stays alive, announced by the last callback, and in
\* Resource once the callbacks have been delivered.
LEMMA BindingStep ==
    ASSUME TypeOK, DeadReset, ConnLive, LastCallback, BinderKept, Next
    PROVE  ConnLive' /\ LastCallback' /\ BinderKept'
<1> USE DEF ConnLive, LastCallback, BinderKept, Null, sysVars
<1>0. callbacks \in Seq(0..issued) /\ Len(callbacks) \in Nat
  BY DEF TypeOK
<1>1. CASE Bind
  BY <1>1 DEF Bind
<1>2. CASE Unbind
  BY <1>2 DEF Unbind, Unbound
<1>3. CASE Connect
  <2>1. callbacks' # <<>> /\ callbacks'[Len(callbacks')] = issued'
    BY <1>0, <1>3 DEF Connect, TypeOK
  <2>2. QED BY <1>3, <2>1 DEF Connect
<1>4. CASE Kill
  BY <1>4 DEF Kill
<1>5. ASSUME callbacks # <<>>, conn # Null
      PROVE  /\ Tail(callbacks) = <<>> => Head(callbacks) = conn
             /\ Tail(callbacks) # <<>> => Tail(callbacks)[Len(Tail(callbacks))] = conn
  <2>1. Len(callbacks) >= 1 /\ callbacks[Len(callbacks)] = conn
    BY <1>0, <1>5
  <2>2. /\ Tail(callbacks) \in Seq(0..issued)
        /\ Len(Tail(callbacks)) = Len(callbacks) - 1
        /\ \A i \in 1..Len(Tail(callbacks)) : Tail(callbacks)[i] = callbacks[i + 1]
    BY <1>0, <1>5, HeadTailProperties
  <2>3. CASE Len(callbacks) = 1
    <3>1. Tail(callbacks) = <<>>
      <4>1. Len(Tail(callbacks)) = 0
        BY <2>2, <2>3
      <4>2. Tail(callbacks) # <<>> => Len(Tail(callbacks)) \in Nat \ {0}
        BY <2>2, EmptySeq
      <4>3. QED BY <4>1, <4>2
    <3>2. Head(callbacks) = callbacks[1]
      BY <1>0, <2>1
    <3>3. QED BY <2>1, <2>3, <3>1, <3>2
  <2>4. CASE Len(callbacks) > 1
    <3> DEFINE m == Len(callbacks)
               n == Len(Tail(callbacks))
    <3>1. m \in Nat /\ m > 1 /\ n = m - 1
      BY <1>0, <2>2, <2>4
    <3>2. n \in 1..n /\ n # 0 /\ n + 1 = m
      <4> HIDE DEF m, n
      <4> QED BY <3>1
    <3>3. Tail(callbacks)[n] = callbacks[m]
      BY <2>2, <3>2
    <3>4. Tail(callbacks) # <<>>
      <4>1. Len(<<>>) = 0
        BY EmptySeq
      <4>2. QED BY <3>2, <4>1
    <3>5. QED BY <2>1, <3>3, <3>4
  <2>5. QED BY <1>0, <2>1, <2>3, <2>4
<1>6. CASE OnServiceConnected
  BY <1>5, <1>6 DEF OnServiceConnected, SetAndNotify
<1>7. ASSUME NEW f \in BOOLEAN, OnServiceDisconnected(f)
      PROVE  ConnLive' /\ LastCallback' /\ BinderKept'
  BY <1>5, <1>7 DEF OnServiceDisconnected, SetAndNotify, Unbound
<1>8. ASSUME NEW c \in Calls, Private(c) \/ Get(c) \/ Cancel(c)
      PROVE  ConnLive' /\ LastCallback' /\ BinderKept'
  BY <1>8 DEF Private, Begin, Resolve, Execute, Reply, Get, Cancel, Goto
<1>9. ASSUME NEW c \in Calls, Reset(c) PROVE ConnLive' /\ LastCallback' /\ BinderKept'
  <2>1. mine[c] \notin live
    BY <1>9 DEF Reset, DeadReset
  <2>2. QED BY <1>9, <2>1 DEF Reset, ResetIfMatched, Goto
<1>10. QED
  BY <1>1, <1>2, <1>3, <1>4, <1>6, <1>7, <1>8, <1>9
  DEF Next, Rest, Callback, Step, Private

\* IInv is an invariant.
LEMMA Invariant == Spec => []IInv
<1>1. Init => IInv
  <2> SUFFICES ASSUME Init PROVE IInv
    OBVIOUS
  <2>1. TypeOK
    <3>1. visible \in BOOLEAN /\ bound \in BOOLEAN /\ crashed \in BOOLEAN
      BY Zenon DEF Init
    <3>2. callbacks \in Seq(0..issued)
      BY EmptySeq DEF Init
    <3>3. QED BY <3>1, <3>2, MaxKillsAssumption DEF Init, TypeOK, Labels, Null
  <2>2. QED
    BY <2>1 DEF Init, IInv, Waiters, NoLostWaiter, DeadReset, ConnLive, LastCallback,
       BinderKept
<1>2. IInv /\ [Next]_vars => IInv'
  <2> SUFFICES ASSUME IInv, [Next]_vars PROVE IInv'
    OBVIOUS
  <2>1. CASE Next
    BY <2>1, TypeStep, WaitersStep, DeadResetStep, BindingStep DEF IInv
  <2>2. CASE UNCHANGED vars
    <3>1. TypeOK'
      BY <2>2 DEF IInv, vars, sysVars, TypeOK
    <3>2. QED
      BY <2>2, <3>1 DEF IInv, vars, sysVars, Waiters, NoLostWaiter, DeadReset, ConnLive,
         LastCallback, BinderKept
  <2>3. QED BY <2>1, <2>2
<1>3. QED BY <1>1, <1>2, PTL DEF Spec

\* Every variable has its type, and a call that uses a binder has one.
THEOREM RemoteTypeCorrect == Spec => []TypeOK
<1>1. IInv => TypeOK
  BY DEF IInv
<1>2. QED BY Invariant, <1>1, PTL

\* No call waits in Resource while there is a binder (Resource.kt:40-61).
THEOREM WaitersAreTold == Spec => []NoLostWaiter
<1>1. IInv => NoLostWaiter
  BY DEF IInv
<1>2. QED BY Invariant, <1>1, PTL

\* A binding whose callbacks have been delivered has its binder in Resource, whatever
\* calls with older binders do (Resource.kt:64-68).
THEOREM BinderAlwaysKept == Spec => []BinderKept
<1>1. IInv => BinderKept
  BY DEF IInv
<1>2. QED BY Invariant, <1>1, PTL

=============================================================================
