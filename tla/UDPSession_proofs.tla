-------------------------- MODULE UDPSession_proofs --------------------------
(***************************************************************************)
(* Proofs about the UDP sessions, for any sources, workers, addresses and  *)
(* capacities: type correctness and the stages of a session, one session   *)
(* per source, the two translations of addresses agree, at most one packet *)
(* stays behind in a closed sender, and packets of a source are written in *)
(* the order of their arrival.                                             *)
(*                                                                         *)
(* The inductive invariant has a part about each session alone (RecordOK), *)
(* about the NAT table and the sessions (TableOK), about what the workers  *)
(* are doing (WorkOK, QueueOK), about packets put while a sender is closed *)
(* (LateOK), and about the numbers of the packets that are under way       *)
(* (OrderOK).                                                              *)
(***************************************************************************)
EXTENDS UDPSession, TLAPS

Packet == [n : 1..MaxPackets, key : Keys, origin : Origins]

WorkRec == [at : {"idle", "send", "put"}, packet : Packet \cup {NoPacket},
            session : Nat \cup {NoSession}]

SessionRec ==
    [key : Keys, origin : Origins, done : BOOLEAN, ch : Seq(Packet),
     run : {"dial", "process", "packet", "stop"}, packet : Packet \cup {NoPacket},
     pc : {"none", "open", "closed"},
     end : {"no", "cancel", "drop", "close", "delete", "ended"},
     originToTarget : [Origins -> Targets \cup {NoAddr}],
     targetToOrigin : [Targets -> Origins \cup {NoAddr}]]

\* The sender is closed and its channel has been emptied.
Emptied == {"close", "delete", "ended"}

Shape ==
    /\ arrived \in 0..MaxPackets
    /\ queue \in [Workers -> Seq(Packet)]
    /\ work \in [Workers -> WorkRec]
    /\ session \in Seq(SessionRec)
    /\ table \in [Keys -> Sessions \cup {NoSession}]
    /\ last \in [Keys -> 0..MaxPackets]

\* The translations of a session are inverse where they are defined, and whatever packets go
\* to has an origin.
Inverse(r) ==
    \A t \in Targets :
        (\E o \in Origins : r.originToTarget[o] = t) \/ r.targetToOrigin[t] # NoAddr =>
            r.targetToOrigin[t] \in Origins /\ r.originToTarget[r.targetToOrigin[t]] = t

\* The numbers of the packets that a session still holds.
Held(r) == {r.ch[i].n : i \in DOMAIN r.ch} \cup (IF r.run = "packet" THEN {r.packet.n} ELSE {})

\* The stages of a session: it dials before it has a socket and before anything ends it; once
\* its entry may be deleted its socket is not open; and it writes what it holds in order.
Stages(r) ==
    /\ r.run = "packet" <=> r.packet # NoPacket
    /\ r.run = "dial" => r.pc = "none" /\ r.end = "no"
    /\ r.run = "dial" => \A o \in Origins : r.originToTarget[o] = NoAddr
    /\ r.end \notin {"no", "cancel"} => r.done = TRUE
    /\ r.end \in {"delete", "ended"} => r.pc # "open"

Channel(r) ==
    /\ Len(r.ch) <= SenderCapacity
    /\ r.end \in Emptied => Len(r.ch) <= 1
    /\ \A i, j \in DOMAIN r.ch : i < j => r.ch[i].n < r.ch[j].n
    /\ r.run = "packet" /\ r.end # "ended" => \A i \in DOMAIN r.ch : r.packet.n < r.ch[i].n

RecordOK == \A s \in Sessions : Inverse(session[s]) /\ Stages(session[s]) /\ Channel(session[s])

\* The table has exactly the sessions that have not ended, each under its own source.
TableOK ==
    /\ \A s \in Sessions : session[s].end # "ended" => table[session[s].key] = s
    /\ \A k \in Keys : table[k] # NoSession => session[table[k]].key = k /\ session[table[k]].end # "ended"

\* A worker handles the packets of its own sources, for sessions of their sources.
WorkOK ==
    \A w \in Workers : work[w].at # "idle" =>
        /\ work[w].packet \in Packet /\ work[w].session \in Sessions
        /\ session[work[w].session].key = work[w].packet.key
        /\ WorkerOf[work[w].packet.key] = w
        /\ \A i \in DOMAIN queue[w] : work[w].packet.n < queue[w][i].n
        /\ work[w].packet.n <= arrived

QueueOK ==
    \A w \in Workers :
        /\ Len(queue[w]) <= QueueCapacity
        /\ \A i \in DOMAIN queue[w] : WorkerOf[queue[w][i].key] = w /\ queue[w][i].n <= arrived
        /\ \A i, j \in DOMAIN queue[w] : i < j => queue[w][i].n < queue[w][j].n

\* A packet that a worker is about to put is the first one since the sender was emptied.
LateOK ==
    \A w \in Workers :
        work[w].at = "put" /\ session[work[w].session].end \in Emptied => session[work[w].session].ch = <<>>

\* Packet number n of source k comes after all that was written and all that a session that
\* has not ended may still write.
Follows(k, n) ==
    /\ last[k] < n
    /\ \A s \in Sessions :
         session[s].key = k /\ session[s].end # "ended" => \A m \in Held(session[s]) : m < n

OrderOK ==
    /\ \A s \in Sessions : session[s].end # "ended" => \A m \in Held(session[s]) : last[session[s].key] < m
    /\ \A w \in Workers : \A i \in DOMAIN queue[w] : Follows(queue[w][i].key, queue[w][i].n)
    /\ \A w \in Workers : work[w].at # "idle" => Follows(work[w].packet.key, work[w].packet.n)
    /\ \A k \in Keys : last[k] <= arrived
    /\ \A s \in Sessions : \A m \in Held(session[s]) : m <= arrived

IInv == Shape /\ RecordOK /\ TableOK /\ WorkOK /\ QueueOK /\ LateOK /\ OrderOK

-----------------------------------------------------------------------------
\* Every address that an origin may be resolved to is a target, and no address is NoAddr.
LEMMA Addresses ==
    /\ \A o \in Origins : Answers[o] \subseteq Targets
    /\ NoAddr \notin Targets /\ NoAddr \notin Origins
BY UDPAssumption DEF Targets

\* What is known of one session.
LEMMA Facts ==
    ASSUME IInv, NEW s \in Sessions
    PROVE  /\ session[s] \in SessionRec /\ s \in 1..Len(session)
           /\ Inverse(session[s]) /\ Stages(session[s]) /\ Channel(session[s])
BY DEF IInv, Shape, RecordOK, Sessions

\* The sessions after one of them has changed.
LEMMA ReplaceOne ==
    ASSUME session \in Seq(SessionRec), NEW s \in Sessions, NEW r \in SessionRec,
           session' = [session EXCEPT ![s] = r]
    PROVE  /\ session' \in Seq(SessionRec) /\ Sessions' = Sessions
           /\ \A x \in Sessions : session'[x] = IF x = s THEN r ELSE session[x]
BY DEF Sessions

\* A step that changes one session, and neither queues nor workers, leaves all sessions in order
\* and the workers too when it leaves its own in order.
LEMMA SessionStatic ==
    ASSUME IInv, NEW s \in Sessions, NEW r \in SessionRec,
           session' = [session EXCEPT ![s] = r], UNCHANGED <<arrived, queue, work>>,
           r.key = session[s].key, Inverse(r), Stages(r), Channel(r),
           r.end \in Emptied /\ r.ch # <<>> => session[s].end \in Emptied /\ session[s].ch # <<>>
    PROVE  /\ session' \in Seq(SessionRec) /\ Sessions' = Sessions
           /\ \A x \in Sessions : session'[x] = IF x = s THEN r ELSE session[x]
           /\ RecordOK' /\ WorkOK' /\ QueueOK' /\ LateOK'
<1>1. session' \in Seq(SessionRec) /\ Sessions' = Sessions
  BY ReplaceOne DEF IInv, Shape
<1>2. \A x \in Sessions : session'[x] = IF x = s THEN r ELSE session[x]
  BY ReplaceOne DEF IInv, Shape
<1>3. RecordOK'
  <2>1. ASSUME NEW x \in Sessions
        PROVE  Inverse(session'[x]) /\ Stages(session'[x]) /\ Channel(session'[x])
    BY <1>2 DEF IInv, RecordOK
  <2>2. QED BY <1>1, <2>1 DEF RecordOK
<1>4. WorkOK'
  BY <1>1, <1>2 DEF IInv, WorkOK
<1>5. QueueOK'
  BY DEF IInv, QueueOK
<1>6. LateOK'
  <2>1. ASSUME NEW w \in Workers, work[w].at = "put", session'[work[w].session].end \in Emptied
        PROVE  session'[work[w].session].ch = <<>>
    <3>1. work[w].session \in Sessions
      BY <2>1 DEF IInv, WorkOK
    <3>2. QED BY <1>2, <2>1, <3>1 DEF IInv, LateOK
  <2>2. QED BY <2>1 DEF LateOK
<1>7. QED BY <1>1, <1>2, <1>3, <1>4, <1>5, <1>6

\* A session that holds no more than before, and has not come back to life, keeps the order.
LEMMA SessionOrder ==
    ASSUME IInv, NEW s \in Sessions, NEW r, Sessions' = Sessions,
           \A x \in Sessions : session'[x] = IF x = s THEN r ELSE session[x],
           UNCHANGED <<arrived, queue, work, last>>, r.key = session[s].key,
           r.end # "ended" => session[s].end # "ended",
           Held(r) \subseteq Held(session[s])
    PROVE  OrderOK'
<1>1. ASSUME NEW x \in Sessions
      PROVE  /\ session'[x].key = session[x].key
             /\ session'[x].end # "ended" => session[x].end # "ended"
             /\ Held(session'[x]) \subseteq Held(session[x])
  OBVIOUS
<1>2. ASSUME NEW k, NEW n, Follows(k, n) PROVE Follows(k, n)'
  BY <1>1, <1>2 DEF Follows
<1>3. \A x \in Sessions' : session'[x].end # "ended" => \A m \in Held(session'[x]) : last'[session'[x].key] < m
  BY <1>1 DEF IInv, OrderOK
<1>4. \A x \in Sessions' : \A m \in Held(session'[x]) : m <= arrived'
  BY <1>1 DEF IInv, OrderOK
<1>5. \A w \in Workers : \A i \in DOMAIN queue'[w] : Follows(queue[w][i].key, queue[w][i].n)'
  BY <1>2 DEF IInv, OrderOK
<1>6. \A w \in Workers : work'[w].at # "idle" => Follows(work[w].packet.key, work[w].packet.n)'
  BY <1>2 DEF IInv, OrderOK
<1>7. \A k \in Keys : last'[k] <= arrived'
  BY DEF IInv, OrderOK
<1>8. QED BY <1>3, <1>4, <1>5, <1>6, <1>7 DEF OrderOK

\* The step of a session that changes nothing else.
LEMMA SessionStep ==
    ASSUME IInv, NEW s \in Sessions, NEW r \in SessionRec,
           session' = [session EXCEPT ![s] = r], UNCHANGED <<arrived, queue, work, table, last>>,
           r.key = session[s].key, Inverse(r), Stages(r), Channel(r),
           r.end = "ended" <=> session[s].end = "ended",
           r.end \in Emptied /\ r.ch # <<>> => session[s].end \in Emptied /\ session[s].ch # <<>>,
           Held(r) \subseteq Held(session[s])
    PROVE  IInv'
<1>1. /\ session' \in Seq(SessionRec) /\ Sessions' = Sessions
      /\ \A x \in Sessions : session'[x] = IF x = s THEN r ELSE session[x]
      /\ RecordOK' /\ WorkOK' /\ QueueOK' /\ LateOK'
  BY SessionStatic
<1>2. OrderOK'
  BY <1>1, SessionOrder
<1>3. TableOK'
  <2>1. ASSUME NEW x \in Sessions
        PROVE  session'[x].key = session[x].key /\ (session'[x].end = "ended" <=> session[x].end = "ended")
    BY <1>1
  <2>2. \A k \in Keys : table[k] # NoSession => table[k] \in Sessions
    BY DEF IInv, Shape
  <2>3. QED BY <1>1, <2>1, <2>2 DEF IInv, TableOK
<1>4. Shape'
  BY <1>1 DEF IInv, Shape
<1>5. QED BY <1>1, <1>2, <1>3, <1>4 DEF IInv

-----------------------------------------------------------------------------
(* The goroutine of the session.                                            *)

\* AddMapping keeps the translations inverse, provided that the origin has no other target yet.
LEMMA MappingOK ==
    ASSUME NEW r \in SessionRec, Inverse(r), NEW o \in Origins, NEW t \in Targets \cup {NoAddr},
           r.originToTarget[o] \in {NoAddr, t}
    PROVE  LET m == AddMapping(r, o, t)
           IN  /\ m \in SessionRec /\ Inverse(m)
               /\ m.key = r.key /\ m.ch = r.ch /\ m.run = r.run /\ m.packet = r.packet
               /\ m.pc = r.pc /\ m.end = r.end /\ m.done = r.done
<1> DEFINE m == AddMapping(r, o, t)
           to == [r.originToTarget EXCEPT ![o] = IF @ = NoAddr THEN t ELSE @]
           from == IF t = NoAddr \/ r.targetToOrigin[t] # NoAddr
                   THEN r.targetToOrigin ELSE [r.targetToOrigin EXCEPT ![t] = o]
<1>1. /\ r.originToTarget \in [Origins -> Targets \cup {NoAddr}]
      /\ r.targetToOrigin \in [Targets -> Origins \cup {NoAddr}]
  BY DEF SessionRec
<1>2. m = [r EXCEPT !.originToTarget = to, !.targetToOrigin = from]
  BY DEF AddMapping, SessionRec
<1>3. to \in [Origins -> Targets \cup {NoAddr}]
  BY <1>1
<1>4. from \in [Targets -> Origins \cup {NoAddr}]
  BY <1>1
<1>5. Inverse(m)
  <2>1. m.originToTarget = to /\ m.targetToOrigin = from
    <3> HIDE DEF m, to, from
    <3>1. QED BY <1>2 DEF SessionRec
  <2>2. CASE t = NoAddr
    <3>1. to = r.originToTarget /\ from = r.targetToOrigin
      BY <1>1, <2>2
    <3> HIDE DEF m, to, from
    <3>2. QED BY <2>1, <3>1 DEF Inverse
  <2>3. CASE t # NoAddr /\ r.originToTarget[o] = t
    <3>1. r.targetToOrigin[t] # NoAddr
      BY <2>3, Addresses DEF Inverse
    <3>2. to = r.originToTarget /\ from = r.targetToOrigin
      BY <1>1, <2>3, <3>1
    <3> HIDE DEF m, to, from
    <3>3. QED BY <2>1, <3>2 DEF Inverse
  <2>4. CASE t # NoAddr /\ r.originToTarget[o] = NoAddr
    <3>1. t \in Targets
      BY <2>4
    <3>2. to[o] = t /\ \A a \in Origins \ {o} : to[a] = r.originToTarget[a]
      BY <1>1, <2>4
    <3>3. CASE r.targetToOrigin[t] # NoAddr
      <4>1. from = r.targetToOrigin
        BY <3>3
      <4>2. r.targetToOrigin[t] \in Origins \ {o} /\ r.originToTarget[r.targetToOrigin[t]] = t
        BY <2>4, <3>1, <3>3 DEF Inverse
      <4>3. ASSUME NEW x \in Targets,
                   (\E a \in Origins : to[a] = x) \/ from[x] # NoAddr
            PROVE  from[x] \in Origins /\ to[from[x]] = x
        <5>1. CASE x = t
          <6> HIDE DEF m, to, from
          <6>1. QED BY <3>2, <4>1, <4>2, <5>1
        <5>2. CASE x # t
          <6> HIDE DEF m, to, from
          <6>1. (\E a \in Origins : r.originToTarget[a] = x) \/ r.targetToOrigin[x] # NoAddr
            BY <3>2, <4>1, <4>3, <5>2
          <6>2. r.targetToOrigin[x] \in Origins /\ r.originToTarget[r.targetToOrigin[x]] = x
            BY <6>1 DEF Inverse
          <6>3. r.targetToOrigin[x] # o
            BY <2>4, <6>2, Addresses
          <6>4. QED BY <3>2, <4>1, <6>2, <6>3
        <5>3. QED BY <5>1, <5>2
      <4> HIDE DEF m, to, from
      <4>4. QED BY <2>1, <4>3 DEF Inverse
    <3>4. CASE r.targetToOrigin[t] = NoAddr
      <4>1. from[t] = o /\ \A x \in Targets \ {t} : from[x] = r.targetToOrigin[x]
        BY <1>1, <2>4, <3>1, <3>4
      <4>2. ASSUME NEW x \in Targets,
                   (\E a \in Origins : to[a] = x) \/ from[x] # NoAddr
            PROVE  from[x] \in Origins /\ to[from[x]] = x
        <5> HIDE DEF m, to, from
        <5>1. CASE x = t
          BY <3>2, <4>1, <5>1
        <5>2. CASE x # t
          <6>1. (\E a \in Origins : r.originToTarget[a] = x) \/ r.targetToOrigin[x] # NoAddr
            BY <3>2, <4>1, <4>2, <5>2
          <6>2. r.targetToOrigin[x] \in Origins /\ r.originToTarget[r.targetToOrigin[x]] = x
            BY <6>1 DEF Inverse
          <6>3. r.targetToOrigin[x] # o
            BY <2>4, <6>2, Addresses
          <6>4. QED BY <3>2, <4>1, <5>2, <6>2, <6>3
        <5>3. QED BY <5>1, <5>2
      <4> HIDE DEF m, to, from
      <4>3. QED BY <2>1, <4>2 DEF Inverse
    <3>5. QED BY <3>3, <3>4
  <2>5. QED BY <2>2, <2>3, <2>4
<1> HIDE DEF m, to, from
<1>6. /\ m \in SessionRec
      /\ m.key = r.key /\ m.ch = r.ch /\ m.run = r.run /\ m.packet = r.packet
      /\ m.pc = r.pc /\ m.end = r.end /\ m.done = r.done
  BY <1>2, <1>3, <1>4 DEF SessionRec
<1>7. QED BY <1>5, <1>6 DEF m

\* dial succeeds.
LEMMA DialSuccessStep ==
    ASSUME IInv, NEW s \in Sessions, DialSuccess(s) PROVE IInv'
<1> DEFINE c == session[s]
<1>1. PICK t \in Answers[c.origin] \cup {NoAddr} :
         session' = [session EXCEPT ![s] = [AddMapping(@, c.origin, t) EXCEPT !.run = "process", !.pc = "open"]]
  BY DEF DialSuccess
<1> DEFINE m == AddMapping(c, c.origin, t)
           r == [m EXCEPT !.run = "process", !.pc = "open"]
<1>2. c \in SessionRec /\ Inverse(c) /\ Stages(c) /\ Channel(c) /\ c.run = "dial" /\ c.origin \in Origins
  BY Facts DEF DialSuccess, SessionRec
<1>3. c.originToTarget[c.origin] = NoAddr /\ t \in Targets \cup {NoAddr}
  BY <1>2, Addresses DEF Stages
<1>4. /\ m \in SessionRec /\ Inverse(m)
      /\ m.key = c.key /\ m.ch = c.ch /\ m.run = c.run /\ m.packet = c.packet
      /\ m.pc = c.pc /\ m.end = c.end /\ m.done = c.done
  BY <1>2, <1>3, MappingOK
<1>5. session' = [session EXCEPT ![s] = r] /\ UNCHANGED <<arrived, queue, work, table, last>>
  BY <1>1 DEF DialSuccess
<1> HIDE DEF m
<1>6. /\ r \in SessionRec
      /\ r.key = m.key /\ r.ch = m.ch /\ r.run = "process" /\ r.packet = m.packet /\ r.pc = "open"
      /\ r.end = m.end /\ r.done = m.done
      /\ r.originToTarget = m.originToTarget /\ r.targetToOrigin = m.targetToOrigin
  BY <1>4 DEF SessionRec
<1> HIDE DEF r, c
<1>7. Inverse(r) /\ Stages(r) /\ Channel(r)
  BY <1>2, <1>4, <1>6 DEF Inverse, Stages, Channel, Emptied
<1>8. Held(r) \subseteq Held(c)
  BY <1>4, <1>6 DEF Held
<1>9. QED BY <1>4, <1>5, <1>6, <1>7, <1>8, SessionStep DEF c

\* dial fails.
LEMMA DialFailStep ==
    ASSUME IInv, NEW s \in Sessions, DialFail(s) PROVE IInv'
<1> DEFINE c == session[s]
           r == [c EXCEPT !.run = "stop", !.end = "cancel"]
<1>1. c \in SessionRec /\ Inverse(c) /\ Stages(c) /\ Channel(c) /\ c.run = "dial"
  BY Facts DEF DialFail
<1>2. session' = [session EXCEPT ![s] = r] /\ UNCHANGED <<arrived, queue, work, table, last>>
  BY DEF DialFail
<1>3. /\ r \in SessionRec
      /\ r.key = c.key /\ r.ch = c.ch /\ r.run = "stop" /\ r.packet = c.packet /\ r.pc = c.pc
      /\ r.end = "cancel" /\ r.done = c.done
      /\ r.originToTarget = c.originToTarget /\ r.targetToOrigin = c.targetToOrigin
  BY <1>1 DEF SessionRec
<1> HIDE DEF r, c
<1>4. Inverse(r) /\ Stages(r) /\ Channel(r)
  BY <1>1, <1>3 DEF Inverse, Stages, Channel, Emptied
<1>5. Held(r) \subseteq Held(c)
  BY <1>3 DEF Held
<1>6. c.end # "ended"
  BY <1>1 DEF Stages
<1>7. QED BY <1>2, <1>3, <1>4, <1>5, <1>6, SessionStep DEF c, Emptied

\* Process takes the next packet.
LEMMA TakeStep ==
    ASSUME IInv, NEW s \in Sessions, Take(s) PROVE IInv'
<1> DEFINE c == session[s]
           r == [c EXCEPT !.run = "packet", !.packet = Head(c.ch), !.ch = Tail(c.ch)]
<1>1. /\ c \in SessionRec /\ Inverse(c) /\ Stages(c) /\ Channel(c)
      /\ c.run = "process" /\ c.ch # <<>>
  BY Facts DEF Take
<1>2. session' = [session EXCEPT ![s] = r] /\ UNCHANGED <<arrived, queue, work, table, last>>
  BY DEF Take
<1>3. c.ch \in Seq(Packet)
  BY <1>1 DEF SessionRec
<1>4. /\ Head(c.ch) \in Packet /\ Head(c.ch) = c.ch[1] /\ 1 \in DOMAIN c.ch
      /\ Tail(c.ch) \in Seq(Packet) /\ Len(Tail(c.ch)) = Len(c.ch) - 1 /\ Len(c.ch) \in Nat
      /\ \A i \in DOMAIN Tail(c.ch) : i + 1 \in DOMAIN c.ch /\ Tail(c.ch)[i] = c.ch[i + 1]
  BY <1>1, <1>3
<1>5. /\ r \in SessionRec
      /\ r.key = c.key /\ r.ch = Tail(c.ch) /\ r.run = "packet" /\ r.packet = Head(c.ch)
      /\ r.pc = c.pc /\ r.end = c.end /\ r.done = c.done
      /\ r.originToTarget = c.originToTarget /\ r.targetToOrigin = c.targetToOrigin
  BY <1>1, <1>4 DEF SessionRec
<1> HIDE DEF r, c
<1>6. Inverse(r)
  BY <1>1, <1>5 DEF Inverse
<1>7. Stages(r)
  <2>1. Head(c.ch) # NoPacket
    BY <1>4 DEF Packet, NoPacket
  <2>2. QED BY <1>1, <1>5, <2>1 DEF Stages
<1>8. Channel(r)
  <2>1. DOMAIN Tail(c.ch) = 1..Len(Tail(c.ch)) /\ DOMAIN c.ch = 1..Len(c.ch)
    BY <1>3, <1>4
  <2>2. SenderCapacity \in Nat
    BY UDPAssumption
  <2>3. ASSUME NEW i \in DOMAIN Tail(c.ch), NEW j \in DOMAIN Tail(c.ch), i < j
        PROVE  Tail(c.ch)[i].n < Tail(c.ch)[j].n
    <3>1. i + 1 \in DOMAIN c.ch /\ j + 1 \in DOMAIN c.ch /\ i + 1 < j + 1
      BY <1>4, <2>1, <2>3
    <3>2. c.ch[i + 1].n < c.ch[j + 1].n
      BY <1>1, <3>1 DEF Channel
    <3>3. QED BY <1>4, <3>2
  <2>4. ASSUME NEW i \in DOMAIN Tail(c.ch) PROVE Head(c.ch).n < Tail(c.ch)[i].n
    <3>1. i + 1 \in DOMAIN c.ch /\ 1 < i + 1
      BY <1>4, <2>1
    <3>2. c.ch[1].n < c.ch[i + 1].n
      BY <1>1, <1>4, <3>1 DEF Channel
    <3>3. QED BY <1>4, <3>2
  <2>5. QED BY <1>1, <1>4, <1>5, <2>2, <2>3, <2>4 DEF Channel
<1>9. Held(r) \subseteq Held(c)
  BY <1>1, <1>4, <1>5 DEF Held
<1>10. QED BY <1>1, <1>2, <1>4, <1>5, <1>6, <1>7, <1>8, <1>9, SessionStep DEF c

\* Process ends because the sender is closed.
LEMMA ProcessEndStep ==
    ASSUME IInv, NEW s \in Sessions, ProcessEnd(s) PROVE IInv'
<1> DEFINE c == session[s]
           r == [c EXCEPT !.run = "stop"]
<1>1. c \in SessionRec /\ Inverse(c) /\ Stages(c) /\ Channel(c) /\ c.run = "process"
  BY Facts DEF ProcessEnd
<1>2. session' = [session EXCEPT ![s] = r] /\ UNCHANGED <<arrived, queue, work, table, last>>
  BY DEF ProcessEnd
<1>3. /\ r \in SessionRec
      /\ r.key = c.key /\ r.ch = c.ch /\ r.run = "stop" /\ r.packet = c.packet /\ r.pc = c.pc
      /\ r.end = c.end /\ r.done = c.done
      /\ r.originToTarget = c.originToTarget /\ r.targetToOrigin = c.targetToOrigin
  BY <1>1 DEF SessionRec
<1> HIDE DEF r, c
<1>4. Inverse(r) /\ Stages(r) /\ Channel(r)
  BY <1>1, <1>3 DEF Inverse, Stages, Channel
<1>5. Held(r) \subseteq Held(c)
  BY <1>3 DEF Held
<1>6. QED BY <1>2, <1>3, <1>4, <1>5, SessionStep DEF c

\* The packet that a session is about to write.
LEMMA PacketHeld ==
    ASSUME IInv, NEW s \in Sessions, session[s].run = "packet"
    PROVE  session[s].packet \in Packet /\ session[s].packet.n \in Held(session[s])
BY Facts DEF Stages, SessionRec, Held

\* What a session holds are numbers.
LEMMA HeldNat ==
    ASSUME IInv PROVE \A s \in Sessions : \A m \in Held(session[s]) : m \in Nat
<1>1. ASSUME NEW s \in Sessions, NEW i \in DOMAIN session[s].ch PROVE session[s].ch[i].n \in Nat
  <2>1. session[s].ch[i] \in Packet
    BY Facts DEF SessionRec
  <2>2. QED BY <2>1 DEF Packet
<1>2. ASSUME NEW s \in Sessions, session[s].run = "packet" PROVE session[s].packet.n \in Nat
  BY <1>2, PacketHeld DEF Packet
<1>3. QED BY <1>1, <1>2 DEF Held

\* A session that has not ended is the only one of its source.
LEMMA OnlyOne ==
    ASSUME IInv, NEW s \in Sessions, NEW x \in Sessions, session[s].key = session[x].key,
           session[s].end # "ended", session[x].end # "ended"
    PROVE  s = x
BY DEF IInv, TableOK

\* A write of a packet moves the last number of its source to a packet that precedes everything
\* else that is under way.
LEMMA WrittenOrder ==
    ASSUME IInv, NEW s \in Sessions, NEW r, Sessions' = Sessions,
           \A x \in Sessions : session'[x] = IF x = s THEN r ELSE session[x],
           UNCHANGED <<arrived, queue, work>>, r.key = session[s].key,
           session[s].run = "packet", session[s].pc = "open",
           r.ch = session[s].ch, r.run = "process",
           last' = [last EXCEPT ![session[s].key] = session[s].packet.n]
    PROVE  OrderOK'
<1> DEFINE k == session[s].key
           n == session[s].packet.n
<1>1. /\ session[s] \in SessionRec /\ session[s].end # "ended" /\ k \in Keys
      /\ session[s].ch \in Seq(Packet) /\ last \in [Keys -> 0..MaxPackets]
  BY Facts DEF Stages, SessionRec, IInv, Shape
<1>2. session[s].packet \in Packet /\ n \in Held(session[s]) /\ n \in Nat
  BY PacketHeld DEF Packet
<1>3. last'[k] = n /\ \A x \in Keys \ {k} : last'[x] = last[x]
  BY <1>1
<1>4. Held(r) \subseteq Held(session[s]) /\ \A m \in Held(r) : n < m
  BY <1>1, Facts DEF Held, Channel
<1>5. ASSUME NEW x \in Sessions
      PROVE  /\ session'[x].key = session[x].key
             /\ x # s => session'[x].end = session[x].end
             /\ Held(session'[x]) \subseteq Held(session[x])
  BY <1>4
<1> HIDE DEF k, n
<1>6. ASSUME NEW a \in Keys, NEW b, Follows(a, b) PROVE Follows(a, b)'
  <2>1. last'[a] < b
    BY <1>1, <1>2, <1>3, <1>6 DEF Follows, k
  <2>2. ASSUME NEW x \in Sessions, session'[x].key = a, session'[x].end # "ended",
               NEW m \in Held(session'[x])
        PROVE  m < b
    <3>1. session[x].key = a /\ session[x].end # "ended" /\ m \in Held(session[x])
      BY <1>1, <1>5, <2>2
    <3>2. QED BY <1>6, <3>1 DEF Follows
  <2>3. QED BY <2>1, <2>2 DEF Follows
<1>7. ASSUME NEW x \in Sessions, session'[x].end # "ended", NEW m \in Held(session'[x])
      PROVE  last'[session'[x].key] < m
  <2>1. CASE x = s
    BY <1>3, <1>4, <2>1 DEF k
  <2>2. CASE x # s
    <3>1. session[x].end # "ended" /\ session'[x] = session[x]
      BY <1>7, <2>2
    <3>2. session[x].key \in Keys /\ session[x].key # k
      BY <1>1, <2>2, <3>1, OnlyOne, Facts DEF SessionRec, k
    <3>3. QED BY <1>3, <1>7, <3>1, <3>2 DEF IInv, OrderOK
  <2>3. QED BY <2>1, <2>2
<1>8. ASSUME NEW x \in Sessions, NEW m \in Held(session'[x]) PROVE m <= arrived'
  BY <1>5, <1>8 DEF IInv, OrderOK
<1>9. \A w \in Workers : \A i \in DOMAIN queue'[w] : Follows(queue[w][i].key, queue[w][i].n)'
  <2>1. ASSUME NEW w \in Workers, NEW i \in DOMAIN queue[w]
        PROVE  queue[w][i].key \in Keys /\ Follows(queue[w][i].key, queue[w][i].n)
    <3>1. queue[w][i] \in Packet
      BY DEF IInv, Shape
    <3>2. QED BY <3>1 DEF IInv, OrderOK, Packet
  <2>2. QED BY <1>6, <2>1
<1>10. \A w \in Workers : work'[w].at # "idle" => Follows(work[w].packet.key, work[w].packet.n)'
  <2>1. ASSUME NEW w \in Workers, work[w].at # "idle"
        PROVE  work[w].packet.key \in Keys /\ Follows(work[w].packet.key, work[w].packet.n)
    BY <2>1 DEF IInv, OrderOK, WorkOK, Packet
  <2>2. QED BY <1>6, <2>1
<1>11. \A x \in Keys : last'[x] <= arrived'
  BY <1>2, <1>3 DEF IInv, OrderOK
<1>12. QED BY <1>7, <1>8, <1>9, <1>10, <1>11 DEF OrderOK

\* processPacket forwards a packet.
LEMMA ForwardStep ==
    ASSUME IInv, NEW s \in Sessions, Forward(s) PROVE IInv'
<1> DEFINE c == session[s]
           o == c.packet.origin
<1>1. PICK t \in (IF c.originToTarget[o] # NoAddr THEN {c.originToTarget[o]} ELSE Answers[o]) :
         session' = [session EXCEPT ![s] = [AddMapping(@, o, t) EXCEPT !.run = "process", !.packet = NoPacket]]
  BY DEF Forward
<1> DEFINE m == AddMapping(c, o, t)
           r == [m EXCEPT !.run = "process", !.packet = NoPacket]
<1>2. c \in SessionRec /\ Inverse(c) /\ Stages(c) /\ Channel(c) /\ c.run = "packet" /\ o \in Origins
  BY Facts, PacketHeld DEF Forward, Packet
<1>3. c.originToTarget[o] \in {NoAddr, t} /\ t \in Targets \cup {NoAddr}
  BY <1>2, Addresses DEF SessionRec
<1>4. /\ m \in SessionRec /\ Inverse(m)
      /\ m.key = c.key /\ m.ch = c.ch /\ m.run = c.run /\ m.packet = c.packet
      /\ m.pc = c.pc /\ m.end = c.end /\ m.done = c.done
  BY <1>2, <1>3, MappingOK
<1>5. session' = [session EXCEPT ![s] = r] /\ UNCHANGED <<arrived, queue, work, table>>
  BY <1>1 DEF Forward
<1> HIDE DEF m
<1>6. /\ r \in SessionRec
      /\ r.key = m.key /\ r.ch = m.ch /\ r.run = "process" /\ r.packet = NoPacket /\ r.pc = m.pc
      /\ r.end = m.end /\ r.done = m.done
      /\ r.originToTarget = m.originToTarget /\ r.targetToOrigin = m.targetToOrigin
  BY <1>4 DEF SessionRec
<1>7. last' = IF c.pc = "open" THEN [last EXCEPT ![c.key] = c.packet.n] ELSE last
  BY DEF Forward, Written
<1> HIDE DEF r, c, o
<1>8. Inverse(r) /\ Stages(r) /\ Channel(r)
  BY <1>2, <1>4, <1>6 DEF Inverse, Stages, Channel, Emptied
<1>9. Held(r) \subseteq Held(c)
  BY <1>2, <1>4, <1>6 DEF Held
<1>10. CASE c.pc # "open"
  BY <1>4, <1>5, <1>6, <1>7, <1>8, <1>9, <1>10, SessionStep DEF c
<1>11. CASE c.pc = "open"
  <2>1. /\ session' \in Seq(SessionRec) /\ Sessions' = Sessions
        /\ \A x \in Sessions : session'[x] = IF x = s THEN r ELSE session[x]
        /\ RecordOK' /\ WorkOK' /\ QueueOK' /\ LateOK'
    BY <1>4, <1>5, <1>6, <1>8, SessionStatic DEF c
  <2>2. last' = [last EXCEPT ![c.key] = c.packet.n]
    BY <1>7, <1>11
  <2>3. OrderOK'
    BY <1>2, <1>4, <1>5, <1>6, <1>11, <2>1, <2>2, WrittenOrder DEF c
  <2>4. TableOK'
    <3>1. ASSUME NEW x \in Sessions
          PROVE  session'[x].key = session[x].key /\ (session'[x].end = "ended" <=> session[x].end = "ended")
      BY <1>4, <1>6, <2>1 DEF c
    <3>2. \A k \in Keys : table[k] # NoSession => table[k] \in Sessions
      BY DEF IInv, Shape
    <3>3. QED BY <1>5, <2>1, <3>1, <3>2 DEF IInv, TableOK
  <2>5. Shape'
    <3>1. c.packet.n \in 0..MaxPackets /\ c.key \in Keys
      BY <1>2, PacketHeld DEF c, Packet, SessionRec
    <3>2. last' \in [Keys -> 0..MaxPackets]
      BY <2>2, <3>1 DEF IInv, Shape
    <3>3. QED BY <1>5, <2>1, <3>2 DEF IInv, Shape
  <2>6. QED BY <2>1, <2>3, <2>4, <2>5 DEF IInv
<1>12. QED BY <1>10, <1>11

\* processPacket drops a packet.
LEMMA ForwardFailStep ==
    ASSUME IInv, NEW s \in Sessions, ForwardFail(s) PROVE IInv'
<1> DEFINE c == session[s]
           r == [c EXCEPT !.run = "process", !.packet = NoPacket]
<1>1. c \in SessionRec /\ Inverse(c) /\ Stages(c) /\ Channel(c) /\ c.run = "packet"
  BY Facts DEF ForwardFail
<1>2. session' = [session EXCEPT ![s] = r] /\ UNCHANGED <<arrived, queue, work, table, last>>
  BY DEF ForwardFail
<1>3. /\ r \in SessionRec
      /\ r.key = c.key /\ r.ch = c.ch /\ r.run = "process" /\ r.packet = NoPacket
      /\ r.pc = c.pc /\ r.end = c.end /\ r.done = c.done
      /\ r.originToTarget = c.originToTarget /\ r.targetToOrigin = c.targetToOrigin
  BY <1>1 DEF SessionRec
<1> HIDE DEF r, c
<1>4. Inverse(r) /\ Stages(r) /\ Channel(r)
  BY <1>1, <1>3, UDPAssumption DEF Inverse, Stages, Channel, Emptied
<1>5. Held(r) \subseteq Held(c)
  BY <1>1, <1>3 DEF Held
<1>6. QED BY <1>1, <1>2, <1>3, <1>4, <1>5, SessionStep DEF c, Emptied

-----------------------------------------------------------------------------
(* The end of a session.                                                    *)

\* The connection is closed through the tracker.
LEMMA CloseConnectionStep ==
    ASSUME IInv, NEW s \in Sessions, CloseConnection(s) PROVE IInv'
<1> DEFINE c == session[s]
           r == [c EXCEPT !.pc = "closed"]
<1>1. c \in SessionRec /\ Inverse(c) /\ Stages(c) /\ Channel(c) /\ c.pc = "open"
  BY Facts DEF CloseConnection
<1>2. session' = [session EXCEPT ![s] = r] /\ UNCHANGED <<arrived, queue, work, table, last>>
  BY DEF CloseConnection
<1>3. /\ r \in SessionRec
      /\ r.key = c.key /\ r.ch = c.ch /\ r.run = c.run /\ r.packet = c.packet
      /\ r.pc = "closed" /\ r.end = c.end /\ r.done = c.done
      /\ r.originToTarget = c.originToTarget /\ r.targetToOrigin = c.targetToOrigin
  BY <1>1 DEF SessionRec
<1> HIDE DEF r, c
<1>4. Inverse(r) /\ Stages(r) /\ Channel(r)
  BY <1>1, <1>3, UDPAssumption DEF Inverse, Stages, Channel, Emptied
<1>5. Held(r) \subseteq Held(c)
  BY <1>1, <1>3 DEF Held
<1>6. QED BY <1>1, <1>2, <1>3, <1>4, <1>5, SessionStep DEF c, Emptied

\* handleUDPToLocal ends.
LEMMA ReadErrorStep ==
    ASSUME IInv, NEW s \in Sessions, ReadError(s) PROVE IInv'
<1> DEFINE c == session[s]
           r == [c EXCEPT !.end = "cancel"]
<1>1. c \in SessionRec /\ Inverse(c) /\ Stages(c) /\ Channel(c) /\ c.pc # "none" /\ c.end = "no"
  BY Facts DEF ReadError
<1>2. session' = [session EXCEPT ![s] = r] /\ UNCHANGED <<arrived, queue, work, table, last>>
  BY DEF ReadError
<1>3. /\ r \in SessionRec
      /\ r.key = c.key /\ r.ch = c.ch /\ r.run = c.run /\ r.packet = c.packet
      /\ r.pc = c.pc /\ r.end = "cancel" /\ r.done = c.done
      /\ r.originToTarget = c.originToTarget /\ r.targetToOrigin = c.targetToOrigin
  BY <1>1 DEF SessionRec
<1> HIDE DEF r, c
<1>4. Inverse(r) /\ Stages(r) /\ Channel(r)
  BY <1>1, <1>3, UDPAssumption DEF Inverse, Stages, Channel, Emptied
<1>5. Held(r) \subseteq Held(c)
  BY <1>1, <1>3 DEF Held
<1>6. QED BY <1>1, <1>2, <1>3, <1>4, <1>5, SessionStep DEF c, Emptied

\* The sender is closed.
LEMMA CancelStep ==
    ASSUME IInv, NEW s \in Sessions, Cancel(s) PROVE IInv'
<1> DEFINE c == session[s]
           r == [c EXCEPT !.done = TRUE, !.end = "drop"]
<1>1. c \in SessionRec /\ Inverse(c) /\ Stages(c) /\ Channel(c) /\ c.end = "cancel"
  BY Facts DEF Cancel
<1>2. session' = [session EXCEPT ![s] = r] /\ UNCHANGED <<arrived, queue, work, table, last>>
  BY DEF Cancel
<1>3. /\ r \in SessionRec
      /\ r.key = c.key /\ r.ch = c.ch /\ r.run = c.run /\ r.packet = c.packet
      /\ r.pc = c.pc /\ r.end = "drop" /\ r.done = TRUE
      /\ r.originToTarget = c.originToTarget /\ r.targetToOrigin = c.targetToOrigin
  BY <1>1 DEF SessionRec
<1> HIDE DEF r, c
<1>4. Inverse(r) /\ Stages(r) /\ Channel(r)
  BY <1>1, <1>3, UDPAssumption DEF Inverse, Stages, Channel, Emptied
<1>5. Held(r) \subseteq Held(c)
  BY <1>1, <1>3 DEF Held
<1>6. QED BY <1>1, <1>2, <1>3, <1>4, <1>5, SessionStep DEF c, Emptied

\* The socket is closed.
LEMMA ClosePcStep ==
    ASSUME IInv, NEW s \in Sessions, ClosePc(s) PROVE IInv'
<1> DEFINE c == session[s]
           r == [c EXCEPT !.pc = "closed", !.end = "delete"]
<1>1. c \in SessionRec /\ Inverse(c) /\ Stages(c) /\ Channel(c) /\ c.end = "close"
  BY Facts DEF ClosePc
<1>2. session' = [session EXCEPT ![s] = r] /\ UNCHANGED <<arrived, queue, work, table, last>>
  BY DEF ClosePc
<1>3. /\ r \in SessionRec
      /\ r.key = c.key /\ r.ch = c.ch /\ r.run = c.run /\ r.packet = c.packet
      /\ r.pc = "closed" /\ r.end = "delete" /\ r.done = c.done
      /\ r.originToTarget = c.originToTarget /\ r.targetToOrigin = c.targetToOrigin
  BY <1>1 DEF SessionRec
<1> HIDE DEF r, c
<1>4. Inverse(r) /\ Stages(r) /\ Channel(r)
  BY <1>1, <1>3, UDPAssumption DEF Inverse, Stages, Channel, Emptied
<1>5. Held(r) \subseteq Held(c)
  BY <1>1, <1>3 DEF Held
<1>6. QED BY <1>1, <1>2, <1>3, <1>4, <1>5, SessionStep DEF c, Emptied

\* dropAll empties the channel.
LEMMA DropAllStep ==
    ASSUME IInv, NEW s \in Sessions, DropAll(s) PROVE IInv'
<1> DEFINE c == session[s]
           e == IF c.pc = "none" THEN "delete" ELSE "close"
           r == [c EXCEPT !.ch = <<>>, !.end = e]
<1>1. c \in SessionRec /\ Inverse(c) /\ Stages(c) /\ Channel(c) /\ c.end = "drop"
  BY Facts DEF DropAll
<1>2. session' = [session EXCEPT ![s] = r] /\ UNCHANGED <<arrived, queue, work, table, last>>
  BY DEF DropAll
<1>3. e \in {"delete", "close"} /\ (e = "delete" => c.pc = "none")
  OBVIOUS
<1> HIDE DEF e
<1>4. /\ r \in SessionRec
      /\ r.key = c.key /\ r.ch = <<>> /\ r.run = c.run /\ r.packet = c.packet
      /\ r.pc = c.pc /\ r.end = e /\ r.done = c.done
      /\ r.originToTarget = c.originToTarget /\ r.targetToOrigin = c.targetToOrigin
  <2>1. <<>> \in Seq(Packet)
    OBVIOUS
  <2>2. r \in SessionRec
    BY <1>1, <1>3, <2>1 DEF SessionRec
  <2>3. QED BY <1>1, <2>2 DEF SessionRec
<1> HIDE DEF r, c
<1>5. Inverse(r) /\ Stages(r)
  BY <1>1, <1>3, <1>4 DEF Inverse, Stages
<1>6. Channel(r)
  BY <1>4, UDPAssumption DEF Channel
<1>7. Held(r) \subseteq Held(c)
  BY <1>4 DEF Held
<1>8. QED BY <1>1, <1>2, <1>3, <1>4, <1>5, <1>6, <1>7, SessionStep DEF c

\* The entry of the source is deleted, which is still that of this session.
LEMMA DeleteStep ==
    ASSUME IInv, NEW s \in Sessions, Delete(s) PROVE IInv'
<1> DEFINE c == session[s]
           r == [c EXCEPT !.end = "ended"]
<1>1. c \in SessionRec /\ Inverse(c) /\ Stages(c) /\ Channel(c) /\ c.end = "delete" /\ c.key \in Keys
  BY Facts DEF Delete, SessionRec
<1>2. /\ session' = [session EXCEPT ![s] = r] /\ UNCHANGED <<arrived, queue, work, last>>
      /\ table' = [table EXCEPT ![c.key] = NoSession]
  BY DEF Delete
<1>3. /\ r \in SessionRec
      /\ r.key = c.key /\ r.ch = c.ch /\ r.run = c.run /\ r.packet = c.packet
      /\ r.pc = c.pc /\ r.end = "ended" /\ r.done = c.done
      /\ r.originToTarget = c.originToTarget /\ r.targetToOrigin = c.targetToOrigin
  BY <1>1 DEF SessionRec
<1> HIDE DEF r, c
<1>4. Inverse(r) /\ Stages(r) /\ Channel(r)
  BY <1>1, <1>3 DEF Inverse, Stages, Channel, Emptied
<1>5. Held(r) \subseteq Held(c)
  BY <1>3 DEF Held
<1>6. /\ session' \in Seq(SessionRec) /\ Sessions' = Sessions
      /\ \A x \in Sessions : session'[x] = IF x = s THEN r ELSE session[x]
      /\ RecordOK' /\ WorkOK' /\ QueueOK' /\ LateOK'
  BY <1>1, <1>2, <1>3, <1>4, SessionStatic DEF c, Emptied
<1>7. OrderOK'
  BY <1>1, <1>2, <1>3, <1>5, <1>6, SessionOrder DEF c
<1>8. table \in [Keys -> Sessions \cup {NoSession}] /\ table[c.key] = s
  BY <1>1 DEF IInv, Shape, TableOK, c
<1>9. TableOK'
  <2>1. ASSUME NEW x \in Sessions, session'[x].end # "ended" PROVE table'[session'[x].key] = x
    <3>1. x # s /\ session'[x] = session[x]
      BY <1>3, <1>6, <2>1
    <3>2. session[x].key # c.key /\ table[session[x].key] = x
      BY <1>1, <2>1, <3>1, OnlyOne DEF c, IInv, TableOK
    <3>3. QED BY <1>2, <1>8, <3>1, <3>2, Facts DEF SessionRec
  <2>2. ASSUME NEW k \in Keys, table'[k] # NoSession
        PROVE  session'[table'[k]].key = k /\ session'[table'[k]].end # "ended"
    <3>1. k # c.key /\ table'[k] = table[k] /\ table[k] \in Sessions
      BY <1>1, <1>2, <1>8, <2>2
    <3>2. session[table[k]].key = k /\ session[table[k]].end # "ended"
      BY <2>2, <3>1 DEF IInv, TableOK
    <3>3. table[k] # s
      BY <3>1, <3>2 DEF c
    <3>4. QED BY <1>6, <3>1, <3>2, <3>3
  <2>3. QED BY <1>6, <2>1, <2>2 DEF TableOK
<1>10. Shape'
  BY <1>1, <1>2, <1>6, <1>8 DEF IInv, Shape
<1>11. QED BY <1>6, <1>7, <1>9, <1>10 DEF IInv

-----------------------------------------------------------------------------
(* From the listener to the sender.                                         *)

\* Follows speaks of the sessions and of what was written only.
LEMMA FollowsFrame ==
    ASSUME UNCHANGED <<session, last>>, NEW k, NEW n, Follows(k, n) PROVE Follows(k, n)'
BY DEF Follows, Sessions

\* A packet arrives: its number is larger than that of any packet under way.
LEMMA HandleUDPPacketStep ==
    ASSUME IInv, NEW k \in Keys, NEW o \in Origins, HandleUDPPacket(k, o) PROVE IInv'
<1> DEFINE w == WorkerOf[k]
           p == [n |-> arrived + 1, key |-> k, origin |-> o]
<1>1. /\ arrived \in Nat /\ MaxPackets \in Nat /\ arrived < MaxPackets /\ arrived' = arrived + 1
      /\ UNCHANGED <<work, table, session, last>> /\ Sessions' = Sessions /\ arrived' \in 0..MaxPackets
      /\ arrived <= arrived'
  BY UDPAssumption DEF HandleUDPPacket, IInv, Shape, Sessions
<1>2. w \in Workers /\ queue \in [Workers -> Seq(Packet)] /\ queue[w] \in Seq(Packet)
  BY UDPAssumption DEF IInv, Shape
<1>3. p \in Packet /\ p.n = arrived + 1 /\ p.key = k
  BY <1>1 DEF Packet
<1>4. \A s \in Sessions : session[s] \in SessionRec
  BY Facts
<1>5. RecordOK' /\ TableOK' /\ LateOK'
  BY <1>1 DEF IInv, RecordOK, TableOK, LateOK
<1>6. /\ \A s \in Sessions : session[s].end # "ended" => \A m \in Held(session[s]) : last[session[s].key] < m
      /\ \A x \in Workers : work[x].at # "idle" => Follows(work[x].packet.key, work[x].packet.n)'
      /\ \A x \in Keys : last[x] <= arrived'
      /\ \A s \in Sessions : \A m \in Held(session[s]) : m <= arrived'
  <2>1. \A s \in Sessions : \A m \in Held(session[s]) : m \in Nat
    BY HeldNat
  <2>2. last \in [Keys -> 0..MaxPackets]
    BY DEF IInv, Shape
  <2>3. \A s \in Sessions : \A m \in Held(session[s]) : m <= arrived'
    BY <1>1, <2>1 DEF IInv, OrderOK
  <2>4. \A x \in Keys : last[x] <= arrived'
    BY <1>1, <2>2 DEF IInv, OrderOK
  <2>5. \A s \in Sessions : session[s].end # "ended" => \A m \in Held(session[s]) : last[session[s].key] < m
    BY DEF IInv, OrderOK
  <2>6. \A x \in Workers : work[x].at # "idle" => Follows(work[x].packet.key, work[x].packet.n)'
    BY <1>1, FollowsFrame DEF IInv, OrderOK
  <2>7. QED BY <2>3, <2>4, <2>5, <2>6
<1>7. CASE Len(queue[w]) >= QueueCapacity
  <2>1. UNCHANGED queue
    BY <1>2, <1>7, UDPAssumption DEF HandleUDPPacket
  <2>2. Shape'
    BY <1>1, <2>1 DEF IInv, Shape
  <2>3. ASSUME NEW x \in Workers, NEW i \in DOMAIN queue[x]
        PROVE  queue[x][i] \in Packet /\ queue[x][i].n \in Nat
    <3>1. queue[x][i] \in Packet
      BY <1>2
    <3>2. QED BY <3>1 DEF Packet
  <2>4. QueueOK'
    BY <1>1, <2>1, <2>3 DEF IInv, QueueOK
  <2>5. WorkOK'
    BY <1>1, <2>1 DEF IInv, WorkOK, Packet
  <2>6. \A x \in Workers : \A i \in DOMAIN queue'[x] : Follows(queue[x][i].key, queue[x][i].n)'
    BY <1>1, <2>1, FollowsFrame DEF IInv, OrderOK
  <2>7. OrderOK'
    BY <1>1, <1>6, <2>1, <2>6 DEF OrderOK
  <2>8. QED BY <1>5, <2>2, <2>4, <2>5, <2>7 DEF IInv
<1>8. CASE Len(queue[w]) < QueueCapacity
  <2>1. queue' = [queue EXCEPT ![w] = Append(queue[w], p)]
    BY <1>8 DEF HandleUDPPacket
  <2> HIDE DEF p, w
  <2>2. /\ Append(queue[w], p) \in Seq(Packet) /\ Len(Append(queue[w], p)) = Len(queue[w]) + 1
        /\ \A i \in 1..Len(queue[w]) : Append(queue[w], p)[i] = queue[w][i]
        /\ Append(queue[w], p)[Len(queue[w]) + 1] = p /\ Len(queue[w]) \in Nat
    BY <1>2, <1>3
  <2>3. /\ queue' \in [Workers -> Seq(Packet)]
        /\ \A x \in Workers \ {w} : queue'[x] = queue[x]
        /\ queue'[w] = Append(queue[w], p)
    BY <1>2, <2>1, <2>2
  <2>4. Shape'
    BY <1>1, <2>3 DEF IInv, Shape
  <2>5. ASSUME NEW x \in Workers, NEW i \in DOMAIN queue'[x]
        PROVE  \/ i \in DOMAIN queue[x] /\ queue'[x][i] = queue[x][i]
               \/ x = w /\ i = Len(queue[w]) + 1 /\ queue'[x][i] = p
    <3>1. CASE x # w
      BY <2>3, <3>1
    <3>2. CASE x = w
      BY <1>2, <2>2, <2>3, <3>2
    <3>3. QED BY <3>1, <3>2
  <2>6. ASSUME NEW x \in Workers, NEW i \in DOMAIN queue[x]
        PROVE  /\ queue[x][i] \in Packet /\ queue[x][i].n \in Nat /\ queue[x][i].n <= arrived
               /\ i \in 1..Len(queue[x]) /\ WorkerOf[queue[x][i].key] = x
    <3>1. queue[x][i] \in Packet /\ i \in 1..Len(queue[x])
      BY <1>2
    <3>2. QED BY <3>1 DEF Packet, IInv, QueueOK
  <2>7. QueueOK'
    <3>1. ASSUME NEW x \in Workers PROVE Len(queue'[x]) <= QueueCapacity
      BY <1>8, <2>2, <2>3, UDPAssumption DEF IInv, QueueOK
    <3>2. ASSUME NEW x \in Workers, NEW i \in DOMAIN queue'[x]
          PROVE  WorkerOf[queue'[x][i].key] = x /\ queue'[x][i].n <= arrived'
      BY <1>1, <1>3, <2>5, <2>6 DEF w
    <3>3. ASSUME NEW x \in Workers, NEW i \in DOMAIN queue'[x], NEW j \in DOMAIN queue'[x], i < j
          PROVE  queue'[x][i].n < queue'[x][j].n
      <4>1. CASE j \in DOMAIN queue[x] /\ queue'[x][j] = queue[x][j]
        <5>1. i \in DOMAIN queue[x] /\ queue'[x][i] = queue[x][i]
          BY <2>2, <2>5, <2>6, <3>3, <4>1
        <5>2. QED BY <3>3, <4>1, <5>1 DEF IInv, QueueOK
      <4>2. CASE x = w /\ j = Len(queue[w]) + 1 /\ queue'[x][j] = p
        <5>1. i \in DOMAIN queue[x] /\ queue'[x][i] = queue[x][i]
          BY <2>2, <2>5, <3>3, <4>2
        <5>2. QED BY <1>1, <1>3, <2>6, <4>2, <5>1
      <4>3. QED BY <2>5, <4>1, <4>2
    <3>4. QED BY <3>1, <3>2, <3>3 DEF QueueOK
  <2>8. WorkOK'
    <3>1. ASSUME NEW x \in Workers, work[x].at # "idle", NEW i \in DOMAIN queue'[x]
          PROVE  work[x].packet.n < queue'[x][i].n
      <4>1. work[x].packet.n \in Nat /\ work[x].packet.n <= arrived
        BY <3>1 DEF IInv, WorkOK, Packet
      <4>2. QED BY <1>1, <1>3, <2>5, <3>1, <4>1 DEF IInv, WorkOK
    <3>2. ASSUME NEW x \in Workers, work[x].at # "idle" PROVE work[x].packet.n <= arrived'
      BY <1>1, <3>2 DEF IInv, WorkOK, Packet
    <3>3. QED BY <1>1, <3>1, <3>2 DEF IInv, WorkOK
  <2>9. OrderOK'
    <3>1. \A x \in Sessions : \A m \in Held(session[x]) : m \in Nat /\ m <= arrived
      BY HeldNat DEF IInv, OrderOK
    <3>2. last[k] \in Nat /\ last[k] <= arrived
      BY DEF IInv, OrderOK, Shape
    <3>3. ASSUME NEW x \in Workers, NEW i \in DOMAIN queue'[x]
          PROVE  Follows(queue'[x][i].key, queue'[x][i].n)
      <4>1. CASE i \in DOMAIN queue[x] /\ queue'[x][i] = queue[x][i]
        BY <4>1 DEF IInv, OrderOK
      <4>2. CASE queue'[x][i] = p
        <5>1. Follows(k, arrived + 1)
          BY <1>1, <3>1, <3>2 DEF Follows
        <5>2. QED BY <1>3, <4>2, <5>1
      <4>3. QED BY <2>5, <4>1, <4>2
    <3>4. \A x \in Workers : \A i \in DOMAIN queue'[x] : Follows(queue[x][i].key, queue[x][i].n)'
      BY <1>1, <3>3 DEF Follows
    <3>5. QED BY <1>1, <1>6, <3>4 DEF OrderOK
  <2>10. QED BY <1>5, <2>4, <2>7, <2>8, <2>9 DEF IInv
<1>9. QED BY <1>2, <1>7, <1>8, UDPAssumption

\* A worker takes a packet from its queue: what stays are packets that were there, behind it.
LEMMA QueueTail ==
    ASSUME IInv, NEW w \in Workers, queue[w] # <<>>, UNCHANGED arrived,
           queue' = [queue EXCEPT ![w] = Tail(@)]
    PROVE  /\ Head(queue[w]) \in Packet /\ 1 \in DOMAIN queue[w] /\ Head(queue[w]) = queue[w][1]
           /\ queue' \in [Workers -> Seq(Packet)] /\ QueueOK'
           /\ \A x \in Workers : \A i \in DOMAIN queue'[x] :
                /\ \E j \in DOMAIN queue[x] : queue'[x][i] = queue[x][j]
                /\ x = w => Head(queue[w]).n < queue'[x][i].n
<1> DEFINE q == queue[w]
<1>1. queue \in [Workers -> Seq(Packet)] /\ q \in Seq(Packet)
  BY DEF IInv, Shape
<1>2. /\ Head(q) \in Packet /\ Head(q) = q[1] /\ 1 \in DOMAIN q /\ DOMAIN q = 1..Len(q)
      /\ Tail(q) \in Seq(Packet) /\ Len(Tail(q)) = Len(q) - 1 /\ Len(q) \in Nat
      /\ DOMAIN Tail(q) = 1..Len(Tail(q))
      /\ \A i \in DOMAIN Tail(q) : i + 1 \in DOMAIN q /\ Tail(q)[i] = q[i + 1]
  BY <1>1
<1>3. /\ queue' \in [Workers -> Seq(Packet)] /\ queue'[w] = Tail(q)
      /\ \A x \in Workers \ {w} : queue'[x] = queue[x]
  BY <1>1, <1>2
<1> HIDE DEF q
<1>4. ASSUME NEW i \in DOMAIN q, NEW j \in DOMAIN q, i < j PROVE q[i].n < q[j].n
  BY <1>4 DEF IInv, QueueOK, q
<1>5. ASSUME NEW i \in DOMAIN Tail(q), NEW j \in DOMAIN Tail(q), i < j
      PROVE  Tail(q)[i].n < Tail(q)[j].n
  <2>1. i + 1 \in DOMAIN q /\ j + 1 \in DOMAIN q /\ i + 1 < j + 1
    BY <1>2, <1>5
  <2>2. QED BY <1>2, <1>4, <2>1
<1>6. ASSUME NEW i \in DOMAIN Tail(q) PROVE Head(q).n < Tail(q)[i].n
  <2>1. i + 1 \in DOMAIN q /\ 1 < i + 1
    BY <1>2
  <2>2. QED BY <1>2, <1>4, <2>1
<1>7. ASSUME NEW x \in Workers, NEW i \in DOMAIN queue'[x]
      PROVE  /\ \E j \in DOMAIN queue[x] : queue'[x][i] = queue[x][j]
             /\ x = w => Head(queue[w]).n < queue'[x][i].n
  <2>1. CASE x = w
    BY <1>2, <1>3, <1>6, <2>1 DEF q
  <2>2. CASE x # w
    BY <1>3, <2>2
  <2>3. QED BY <2>1, <2>2
<1>8. QueueOK'
  <2>1. ASSUME NEW x \in Workers PROVE Len(queue'[x]) <= QueueCapacity
    BY <1>2, <1>3, UDPAssumption DEF IInv, QueueOK, q
  <2>2. ASSUME NEW x \in Workers, NEW i \in DOMAIN queue'[x]
        PROVE  WorkerOf[queue'[x][i].key] = x /\ queue'[x][i].n <= arrived'
    BY <1>7 DEF IInv, QueueOK
  <2>3. ASSUME NEW x \in Workers, NEW i \in DOMAIN queue'[x], NEW j \in DOMAIN queue'[x], i < j
        PROVE  queue'[x][i].n < queue'[x][j].n
    <3>1. CASE x = w
      BY <1>3, <1>5, <2>3, <3>1
    <3>2. CASE x # w
      BY <1>3, <2>3, <3>2 DEF IInv, QueueOK
    <3>3. QED BY <3>1, <3>2
  <2>4. QED BY <2>1, <2>2, <2>3 DEF QueueOK
<1>9. QED BY <1>2, <1>3, <1>7, <1>8 DEF q

\* The packets that stay in the queues keep their place in the order.
LEMMA QueueOrder ==
    ASSUME IInv,
           \A x \in Workers : \A i \in DOMAIN queue'[x] :
               \E j \in DOMAIN queue[x] : queue'[x][i] = queue[x][j],
           \A k, n : Follows(k, n) => Follows(k, n)'
    PROVE  \A x \in Workers : \A i \in DOMAIN queue'[x] : Follows(queue[x][i].key, queue[x][i].n)'
<1>1. ASSUME NEW x \in Workers, NEW i \in DOMAIN queue'[x]
      PROVE  Follows(queue'[x][i].key, queue'[x][i].n)
  BY DEF IInv, OrderOK
<1>2. \A k, n : (/\ last[k] < n
                 /\ \A s \in Sessions : session[s].key = k /\ session[s].end # "ended"
                       => \A m \in Held(session[s]) : m < n)
              => (/\ last'[k] < n
                  /\ \A s \in Sessions' : session'[s].key = k /\ session'[s].end # "ended"
                       => \A m \in Held(session'[s]) : m < n)
  BY DEF Follows
<1>3. QED BY <1>1, <1>2 DEF Follows

\* handleUDPConn drops a packet.
LEMMA HandleDropStep ==
    ASSUME IInv, NEW w \in Workers, HandleDrop(w) PROVE IInv'
<1>1. /\ queue[w] # <<>> /\ queue' = [queue EXCEPT ![w] = Tail(@)]
      /\ UNCHANGED <<arrived, work, table, session, last>> /\ Sessions' = Sessions
      /\ work[w].at = "idle"
  BY DEF HandleDrop, Sessions
<1>2. /\ queue' \in [Workers -> Seq(Packet)] /\ QueueOK'
      /\ \A x \in Workers : \A i \in DOMAIN queue'[x] :
           \E j \in DOMAIN queue[x] : queue'[x][i] = queue[x][j]
  BY <1>1, QueueTail
<1>3. Shape' /\ RecordOK' /\ TableOK' /\ LateOK'
  BY <1>1, <1>2 DEF IInv, Shape, RecordOK, TableOK, LateOK
<1>4. WorkOK'
  BY <1>1, <1>2 DEF IInv, WorkOK
<1>5. \A k, n : Follows(k, n) => Follows(k, n)'
  BY <1>1, FollowsFrame
<1>6. \A x \in Workers : \A i \in DOMAIN queue'[x] : Follows(queue[x][i].key, queue[x][i].n)'
  BY <1>2, <1>5, QueueOrder
<1>7. \A x \in Workers : work'[x].at # "idle" => Follows(work[x].packet.key, work[x].packet.n)'
  BY <1>1, <1>5 DEF IInv, OrderOK
<1>8. OrderOK'
  BY <1>1, <1>6, <1>7 DEF IInv, OrderOK
<1>9. QED BY <1>2, <1>3, <1>4, <1>8 DEF IInv

\* A new session is in order and holds nothing.
LEMMA NewSessionOK ==
    ASSUME NEW k \in Keys, NEW o \in Origins
    PROVE  LET r == NewSession(k, o)
           IN  /\ r \in SessionRec /\ Inverse(r) /\ Stages(r) /\ Channel(r) /\ Held(r) = {}
               /\ r.key = k /\ r.end = "no"
<1> DEFINE r == NewSession(k, o)
<1>1. /\ r.key = k /\ r.end = "no" /\ r.ch = <<>> /\ r.run = "dial" /\ r.packet = NoPacket
      /\ r.pc = "none" /\ r.originToTarget = [a \in Origins |-> NoAddr]
      /\ r.targetToOrigin = [t \in Targets |-> NoAddr]
  BY DEF NewSession
<1>2. r \in SessionRec
  <2>1. <<>> \in Seq(Packet)
    OBVIOUS
  <2>2. QED BY <2>1 DEF NewSession, SessionRec
<1> HIDE DEF r
<1>3. Inverse(r)
  <2>1. ASSUME NEW t \in Targets PROVE r.targetToOrigin[t] = NoAddr
    BY <1>1
  <2>2. ASSUME NEW a \in Origins PROVE r.originToTarget[a] = NoAddr
    BY <1>1
  <2>3. QED BY <2>1, <2>2, Addresses DEF Inverse
<1>4. Stages(r)
  BY <1>1 DEF Stages
<1>5. Channel(r)
  BY <1>1, UDPAssumption DEF Channel
<1>6. Held(r) = {}
  BY <1>1 DEF Held
<1>7. QED BY <1>1, <1>2, <1>3, <1>4, <1>5, <1>6 DEF r

\* A worker takes a packet for a session, which may be new.
LEMMA HandleFor ==
    ASSUME IInv, NEW w \in Workers, NEW s \in Sessions',
           work[w].at = "idle", queue[w] # <<>>, queue' = [queue EXCEPT ![w] = Tail(@)],
           work' = [work EXCEPT ![w] = [at |-> "send", packet |-> Head(queue[w]), session |-> s]],
           UNCHANGED <<arrived, last>>, session'[s].key = Head(queue[w]).key,
           Sessions \subseteq Sessions', \A x \in Sessions : session'[x] = session[x],
           \A x \in Sessions' \ Sessions : Held(session'[x]) = {}
    PROVE  QueueOK' /\ WorkOK' /\ LateOK' /\ OrderOK'
<1> DEFINE p == Head(queue[w])
           v == [at |-> "send", packet |-> p, session |-> s]
<1>1. /\ p \in Packet /\ 1 \in DOMAIN queue[w] /\ p = queue[w][1]
      /\ queue' \in [Workers -> Seq(Packet)] /\ QueueOK'
      /\ \A x \in Workers : \A i \in DOMAIN queue'[x] :
           /\ \E j \in DOMAIN queue[x] : queue'[x][i] = queue[x][j]
           /\ x = w => p.n < queue'[x][i].n
  BY QueueTail
<1>2. work' = [work EXCEPT ![w] = v] /\ work \in [Workers -> WorkRec]
  BY DEF IInv, Shape
<1>3. v.at = "send" /\ v.packet = p /\ v.session = s
  OBVIOUS
<1>4. Follows(p.key, p.n) /\ WorkerOf[p.key] = w /\ p.n <= arrived
  BY <1>1 DEF IInv, OrderOK, QueueOK
<1> HIDE DEF v, p
<1>5. work'[w] = v /\ \A x \in Workers \ {w} : work'[x] = work[x]
  BY <1>2
<1>6. WorkOK'
  <2>1. ASSUME NEW x \in Workers, work'[x].at # "idle"
        PROVE  /\ work'[x].packet \in Packet /\ work'[x].session \in Sessions'
               /\ session'[work'[x].session].key = work'[x].packet.key
               /\ WorkerOf[work'[x].packet.key] = x
               /\ \A i \in DOMAIN queue'[x] : work'[x].packet.n < queue'[x][i].n
               /\ work'[x].packet.n <= arrived'
    <3>1. CASE x = w
      BY <1>1, <1>3, <1>4, <1>5, <3>1 DEF p
    <3>2. CASE x # w
      <4>1. work'[x] = work[x] /\ work[x].session \in Sessions
        BY <1>5, <2>1, <3>2 DEF IInv, WorkOK
      <4>2. /\ work[x].packet \in Packet /\ WorkerOf[work[x].packet.key] = x
            /\ session[work[x].session].key = work[x].packet.key /\ work[x].packet.n <= arrived
            /\ \A j \in DOMAIN queue[x] : work[x].packet.n < queue[x][j].n
        BY <2>1, <4>1 DEF IInv, WorkOK
      <4>3. \A i \in DOMAIN queue'[x] : work[x].packet.n < queue'[x][i].n
        BY <1>1, <4>2
      <4>4. QED BY <4>1, <4>2, <4>3
    <3>3. QED BY <3>1, <3>2
  <2>2. QED BY <2>1 DEF WorkOK
<1>7. LateOK'
  <2>1. ASSUME NEW x \in Workers, work'[x].at = "put", session'[work'[x].session].end \in Emptied
        PROVE  session'[work'[x].session].ch = <<>>
    <3>1. x # w /\ work'[x] = work[x]
      BY <1>3, <1>5, <2>1
    <3>2. work[x].session \in Sessions
      BY <2>1, <3>1 DEF IInv, WorkOK
    <3>3. QED BY <2>1, <3>1, <3>2 DEF IInv, LateOK
  <2>2. QED BY <2>1 DEF LateOK
<1>8. \A k, n : Follows(k, n) => Follows(k, n)'
  <2>1. ASSUME NEW k, NEW n, Follows(k, n) PROVE Follows(k, n)'
    <3>1. ASSUME NEW x \in Sessions', session'[x].key = k, session'[x].end # "ended",
                 NEW m \in Held(session'[x])
          PROVE  m < n
      <4>1. x \in Sessions /\ session'[x] = session[x]
        BY <3>1
      <4>2. QED BY <2>1, <3>1, <4>1 DEF Follows
    <3>2. QED BY <2>1, <3>1 DEF Follows
  <2>2. QED BY <2>1
<1>9. OrderOK'
  <2>1. ASSUME NEW x \in Sessions', NEW m \in Held(session'[x])
        PROVE  m <= arrived' /\ (session'[x].end # "ended" => last'[session'[x].key] < m)
    <3>1. x \in Sessions /\ session'[x] = session[x]
      BY <2>1
    <3>2. QED BY <2>1, <3>1 DEF IInv, OrderOK
  <2>2. \A x \in Workers : \A i \in DOMAIN queue'[x] : Follows(queue[x][i].key, queue[x][i].n)'
    BY <1>1, <1>8, QueueOrder
  <2>3. \A x \in Workers : work'[x].at # "idle" => Follows(work[x].packet.key, work[x].packet.n)'
    <3>1. ASSUME NEW x \in Workers, work'[x].at # "idle"
          PROVE  Follows(work'[x].packet.key, work'[x].packet.n)
      <4>1. CASE x = w
        BY <1>3, <1>4, <1>5, <4>1
      <4>2. CASE x # w
        BY <1>5, <3>1, <4>2 DEF IInv, OrderOK
      <4>3. QED BY <4>1, <4>2
    <3>2. \A k, n : (/\ last[k] < n
                     /\ \A y \in Sessions : session[y].key = k /\ session[y].end # "ended"
                           => \A m \in Held(session[y]) : m < n)
                  => (/\ last'[k] < n
                      /\ \A y \in Sessions' : session'[y].key = k /\ session'[y].end # "ended"
                           => \A m \in Held(session'[y]) : m < n)
      BY <1>8 DEF Follows
    <3>3. QED BY <3>1, <3>2 DEF Follows
  <2>4. \A k \in Keys : last'[k] <= arrived'
    BY DEF IInv, OrderOK
  <2>5. QED BY <2>1, <2>2, <2>3, <2>4 DEF OrderOK
<1>10. QED BY <1>1, <1>6, <1>7, <1>9

\* handleUDPConn finds the session of the source or makes one.
LEMMA HandleUDPConnStep ==
    ASSUME IInv, NEW w \in Workers, HandleUDPConn(w) PROVE IInv'
<1> DEFINE p == Head(queue[w])
<1>1. /\ work[w].at = "idle" /\ queue[w] # <<>> /\ queue' = [queue EXCEPT ![w] = Tail(@)]
      /\ UNCHANGED <<arrived, last>>
  BY DEF HandleUDPConn
<1>2. p \in Packet /\ p.key \in Keys /\ p.origin \in Origins /\ queue' \in [Workers -> Seq(Packet)]
  BY <1>1, QueueTail DEF Packet
<1>3. /\ session \in Seq(SessionRec) /\ work \in [Workers -> WorkRec] /\ Len(session) \in Nat
      /\ table \in [Keys -> Sessions \cup {NoSession}] /\ Sessions = 1..Len(session)
  BY DEF IInv, Shape, Sessions
<1>4. ASSUME NEW x \in Nat PROVE [at |-> "send", packet |-> p, session |-> x] \in WorkRec
  BY <1>2 DEF WorkRec
<1>5. CASE table[p.key] # NoSession
  <2> DEFINE s == table[p.key]
  <2>1. s \in Sessions /\ session[s].key = p.key
    BY <1>2, <1>3, <1>5 DEF IInv, TableOK
  <2>2. /\ UNCHANGED session /\ Sessions' = Sessions
        /\ table' = [table EXCEPT ![p.key] = s]
        /\ work' = [work EXCEPT ![w] = [at |-> "send", packet |-> p, session |-> s]]
    BY <1>5 DEF HandleUDPConn, Sessions
  <2>3. table' = table
    BY <1>2, <1>3, <2>2
  <2>4. QueueOK' /\ WorkOK' /\ LateOK' /\ OrderOK'
    BY <1>1, <2>1, <2>2, HandleFor
  <2>5. RecordOK' /\ TableOK'
    BY <2>2, <2>3 DEF IInv, RecordOK, TableOK
  <2>6. work' \in [Workers -> WorkRec]
    BY <1>3, <1>4, <2>1, <2>2
  <2>7. Shape'
    BY <1>1, <1>2, <2>2, <2>3, <2>6 DEF IInv, Shape
  <2>8. QED BY <2>4, <2>5, <2>7 DEF IInv
<1>6. CASE table[p.key] = NoSession
  <2> DEFINE s == Len(session) + 1
             r == NewSession(p.key, p.origin)
  <2>1. /\ session' = Append(session, r)
        /\ table' = [table EXCEPT ![p.key] = s]
        /\ work' = [work EXCEPT ![w] = [at |-> "send", packet |-> p, session |-> s]]
    BY <1>6 DEF HandleUDPConn
  <2>2. /\ r \in SessionRec /\ Inverse(r) /\ Stages(r) /\ Channel(r) /\ Held(r) = {}
        /\ r.key = p.key /\ r.end = "no"
    BY <1>2, NewSessionOK
  <2> HIDE DEF r, p
  <2>3. /\ session' \in Seq(SessionRec) /\ Sessions' = Sessions \cup {s} /\ s \notin Sessions
        /\ \A x \in Sessions : session'[x] = session[x]
        /\ session'[s] = r
    BY <1>3, <2>1, <2>2 DEF Sessions
  <2>4. QueueOK' /\ WorkOK' /\ LateOK' /\ OrderOK'
    BY <1>1, <2>1, <2>2, <2>3, HandleFor DEF p
  <2>5. RecordOK'
    <3>1. ASSUME NEW x \in Sessions' PROVE Inverse(session'[x]) /\ Stages(session'[x]) /\ Channel(session'[x])
      BY <2>2, <2>3 DEF IInv, RecordOK
    <3>2. QED BY <3>1 DEF RecordOK
  <2>6. TableOK'
    <3>1. ASSUME NEW x \in Sessions', session'[x].end # "ended" PROVE table'[session'[x].key] = x
      <4>1. CASE x = s
        BY <1>2, <1>3, <2>1, <2>2, <2>3, <4>1
      <4>2. CASE x # s
        <5>1. x \in Sessions /\ session'[x] = session[x] /\ x \in Nat
          BY <1>3, <2>3, <4>2
        <5>2. table[session[x].key] = x /\ session[x].key \in Keys
          BY <3>1, <5>1, Facts DEF IInv, TableOK, SessionRec
        <5>3. session[x].key # p.key
          BY <1>6, <5>1, <5>2, UDPAssumption DEF p
        <5>4. QED BY <1>3, <2>1, <5>1, <5>2, <5>3
      <4>3. QED BY <4>1, <4>2
    <3>2. ASSUME NEW k \in Keys, table'[k] # NoSession
          PROVE  session'[table'[k]].key = k /\ session'[table'[k]].end # "ended"
      <4>1. CASE k = p.key
        BY <1>2, <1>3, <2>1, <2>2, <2>3, <4>1
      <4>2. CASE k # p.key
        <5>1. table'[k] = table[k] /\ table[k] \in Sessions
          BY <1>3, <2>1, <3>2, <4>2
        <5>2. QED BY <2>3, <3>2, <5>1 DEF IInv, TableOK
      <4>3. QED BY <4>1, <4>2
    <3>3. QED BY <3>1, <3>2 DEF TableOK
  <2>7. work' \in [Workers -> WorkRec]
    BY <1>3, <1>4, <2>1
  <2>8. table' \in [Keys -> Sessions' \cup {NoSession}]
    BY <1>2, <1>3, <2>1, <2>3
  <2>9. Shape'
    BY <1>1, <1>2, <2>3, <2>7, <2>8 DEF IInv, Shape
  <2>10. QED BY <2>4, <2>5, <2>6, <2>9 DEF IInv
<1>7. QED BY <1>5, <1>6

\* Workers that rest, or do what they did, and the sessions as they were.
LEMMA WorkStep ==
    ASSUME IInv, NEW w \in Workers, NEW v \in WorkRec, work[w].at # "idle",
           work' = [work EXCEPT ![w] = v], UNCHANGED <<arrived, queue, table, session, last>>,
           v.at = "idle" \/ (v.packet = work[w].packet /\ v.session = work[w].session),
           v.at = "put" => session[work[w].session].end \notin Emptied
    PROVE  IInv'
<1>1. /\ work \in [Workers -> WorkRec] /\ work' \in [Workers -> WorkRec] /\ Sessions' = Sessions
      /\ work'[w] = v /\ \A x \in Workers \ {w} : work'[x] = work[x]
  BY DEF IInv, Shape, Sessions
<1>2. ASSUME NEW x \in Workers, work'[x].at # "idle"
      PROVE  work[x].at # "idle" /\ work'[x].packet = work[x].packet /\ work'[x].session = work[x].session
  BY <1>1, <1>2
<1>3. Shape' /\ RecordOK' /\ TableOK' /\ QueueOK'
  BY <1>1 DEF IInv, Shape, RecordOK, TableOK, QueueOK
<1>4. WorkOK'
  BY <1>1, <1>2 DEF IInv, WorkOK
<1>5. LateOK'
  <2>1. ASSUME NEW x \in Workers, work'[x].at = "put", session'[work'[x].session].end \in Emptied
        PROVE  session'[work'[x].session].ch = <<>>
    <3>1. CASE x = w
      BY <1>1, <2>1, <3>1
    <3>2. CASE x # w
      BY <1>1, <2>1, <3>2 DEF IInv, LateOK
    <3>3. QED BY <3>1, <3>2
  <2>2. QED BY <2>1 DEF LateOK
<1>6. OrderOK'
  <2>1. \A x \in Workers : work'[x].at # "idle" => Follows(work'[x].packet.key, work'[x].packet.n)
    BY <1>2 DEF IInv, OrderOK
  <2>2. \A x \in Workers : work'[x].at # "idle" => Follows(work[x].packet.key, work[x].packet.n)'
    BY <1>1, <2>1 DEF Follows
  <2>3. \A x \in Workers : \A i \in DOMAIN queue'[x] : Follows(queue[x][i].key, queue[x][i].n)'
    BY FollowsFrame DEF IInv, OrderOK
  <2>4. QED BY <1>1, <2>2, <2>3 DEF IInv, OrderOK
<1>7. QED BY <1>3, <1>4, <1>5, <1>6 DEF IInv

\* The first select of Send.
LEMMA SendStep ==
    ASSUME IInv, NEW w \in Workers, Send(w) PROVE IInv'
<1>1. /\ work[w] \in WorkRec /\ work[w].at = "send" /\ work[w].session \in Sessions
      /\ UNCHANGED <<arrived, queue, table, session, last>>
  BY DEF Send, IInv, Shape, WorkOK
<1> DEFINE d == session[work[w].session]
<1>2. d \in SessionRec /\ Stages(d)
  BY <1>1, Facts
<1>3. CASE d.done = TRUE
  <2>1. work' = [work EXCEPT ![w] = Resting]
    BY <1>3 DEF Send
  <2>2. Resting \in WorkRec /\ Resting.at = "idle"
    BY DEF Resting, WorkRec
  <2>3. QED BY <1>1, <2>1, <2>2, WorkStep
<1>4. CASE d.done = FALSE
  <2> DEFINE v == [work[w] EXCEPT !.at = "put"]
  <2>1. work' = [work EXCEPT ![w] = v]
    BY <1>4 DEF Send
  <2>2. v \in WorkRec /\ v.at = "put" /\ v.packet = work[w].packet /\ v.session = work[w].session
    BY <1>1 DEF WorkRec
  <2>3. d.end \notin Emptied
    BY <1>2, <1>4 DEF Stages, Emptied
  <2> HIDE DEF v
  <2>4. QED BY <1>1, <2>1, <2>2, <2>3, WorkStep
<1>5. QED
  <2>1. d.done \in BOOLEAN
    BY <1>2 DEF SessionRec
  <2>2. QED BY <1>3, <1>4, <2>1

\* What Append does, by index.
LEMMA AppendFacts ==
    ASSUME NEW S, NEW q \in Seq(S), NEW e \in S
    PROVE  /\ Append(q, e) \in Seq(S) /\ Len(Append(q, e)) = Len(q) + 1
           /\ Len(q) \in Nat /\ DOMAIN q = 1..Len(q)
           /\ DOMAIN Append(q, e) = 1..(Len(q) + 1)
           /\ \A i \in 1..Len(q) : Append(q, e)[i] = q[i]
           /\ Append(q, e)[Len(q) + 1] = e
OBVIOUS

\* The second select of Send puts the packet into the channel.
LEMMA PutIn ==
    ASSUME IInv, NEW w \in Workers, work[w].at = "put",
           Len(session[work[w].session].ch) # SenderCapacity,
           session' = [session EXCEPT ![work[w].session].ch = Append(@, work[w].packet)],
           work' = [work EXCEPT ![w] = Resting], UNCHANGED <<arrived, queue, table, last>>
    PROVE  IInv'
<1> DEFINE s == work[w].session
           c == session[s]
           p == work[w].packet
           r == [c EXCEPT !.ch = Append(c.ch, p)]
<1>1. /\ s \in Sessions /\ p \in Packet /\ c.key = p.key /\ WorkerOf[p.key] = w
      /\ p.n <= arrived /\ \A i \in DOMAIN queue[w] : p.n < queue[w][i].n
      /\ Follows(p.key, p.n) /\ (c.end \in Emptied => c.ch = <<>>)
  BY DEF IInv, WorkOK, OrderOK, LateOK
<1>2. c \in SessionRec /\ Inverse(c) /\ Stages(c) /\ Channel(c)
  BY <1>1, Facts
<1>3. session' = [session EXCEPT ![s] = r]
  OBVIOUS
<1>4. c.ch \in Seq(Packet) /\ c.end \in {"no", "cancel", "drop", "close", "delete", "ended"}
  BY <1>2 DEF SessionRec
<1>5. /\ Append(c.ch, p) \in Seq(Packet) /\ Len(Append(c.ch, p)) = Len(c.ch) + 1
      /\ Len(c.ch) \in Nat /\ DOMAIN c.ch = 1..Len(c.ch)
      /\ DOMAIN Append(c.ch, p) = 1..(Len(c.ch) + 1)
      /\ \A i \in 1..Len(c.ch) : Append(c.ch, p)[i] = c.ch[i]
      /\ Append(c.ch, p)[Len(c.ch) + 1] = p
  <2> HIDE DEF c, p
  <2>1. QED BY <1>1, <1>4, AppendFacts
<1>6. /\ r \in SessionRec
      /\ r.key = c.key /\ r.ch = Append(c.ch, p) /\ r.run = c.run /\ r.packet = c.packet
      /\ r.pc = c.pc /\ r.end = c.end /\ r.done = c.done
      /\ r.originToTarget = c.originToTarget /\ r.targetToOrigin = c.targetToOrigin
  BY <1>2, <1>5 DEF SessionRec
<1>7. Sessions = 1..Len(session) /\ session \in Seq(SessionRec) /\ work \in [Workers -> WorkRec]
  BY DEF IInv, Shape, Sessions
<1>8. Len(c.ch) # SenderCapacity
  OBVIOUS
<1> HIDE DEF r
<1>9. /\ session' \in Seq(SessionRec) /\ Sessions' = Sessions
      /\ \A x \in Sessions : session'[x] = IF x = s THEN r ELSE session[x]
  <2> HIDE DEF s, c, p
  <2>1. s \in Sessions /\ r \in SessionRec
    BY <1>1, <1>6
  <2>2. QED BY <1>3, <1>7, <2>1, ReplaceOne
<1>10. /\ Resting \in WorkRec /\ Resting.at = "idle"
       /\ work'[w] = Resting /\ \A x \in Workers \ {w} : work'[x] = work[x]
       /\ work' \in [Workers -> WorkRec]
  BY <1>7 DEF Resting, WorkRec
<1>11. ASSUME NEW x \in Workers, work'[x].at # "idle"
       PROVE  /\ x # w /\ work'[x] = work[x] /\ work[x].at # "idle" /\ work[x].session \in Sessions
              /\ work[x].session # s /\ work[x].packet.key # p.key /\ work[x].packet \in Packet
  <2>1. x # w /\ work'[x] = work[x] /\ work[x].at # "idle"
    BY <1>10, <1>11
  <2>2. /\ work[x].session \in Sessions /\ WorkerOf[work[x].packet.key] = x /\ work[x].packet \in Packet
        /\ session[work[x].session].key = work[x].packet.key
    BY <2>1 DEF IInv, WorkOK
  <2>3. QED BY <1>1, <2>1, <2>2
<1> HIDE DEF s, c, p
<1>12. Inverse(r) /\ Stages(r)
  BY <1>2, <1>6 DEF Inverse, Stages
<1>13. ASSUME c.end # "ended", NEW m \in Held(c) PROVE m < p.n
  BY <1>1, <1>13 DEF Follows, c
<1>14. ASSUME c.end # "ended", NEW i \in 1..Len(c.ch) PROVE c.ch[i].n < p.n
  <2>1. c.ch[i].n \in Held(c)
    BY <1>5 DEF Held
  <2>2. QED BY <1>13, <1>14, <2>1
<1>15. Channel(r)
  <2>1. Len(Append(c.ch, p)) <= SenderCapacity
    BY <1>2, <1>5, <1>8, UDPAssumption DEF Channel
  <2>2. c.end \in Emptied => Len(Append(c.ch, p)) <= 1
    BY <1>1, <1>5
  <2>3. ASSUME NEW i \in DOMAIN Append(c.ch, p), NEW j \in DOMAIN Append(c.ch, p), i < j
        PROVE  Append(c.ch, p)[i].n < Append(c.ch, p)[j].n
    <3>1. i \in 1..Len(c.ch) /\ i \in DOMAIN c.ch /\ Append(c.ch, p)[i] = c.ch[i]
      BY <1>5, <2>3
    <3>2. c.end # "ended"
      BY <1>1, <1>5, <3>1 DEF Emptied
    <3>3. CASE j = Len(c.ch) + 1
      BY <1>5, <1>14, <3>1, <3>2, <3>3
    <3>4. CASE j \in 1..Len(c.ch)
      <4>1. j \in DOMAIN c.ch /\ Append(c.ch, p)[j] = c.ch[j]
        BY <1>5, <3>4
      <4>2. c.ch[i].n < c.ch[j].n
        BY <1>2, <2>3, <3>1, <4>1 DEF Channel
      <4>3. QED BY <3>1, <4>1, <4>2
    <3>5. QED BY <1>5, <3>3, <3>4
  <2>4. ASSUME c.run = "packet", c.end # "ended", NEW i \in DOMAIN Append(c.ch, p)
        PROVE  c.packet.n < Append(c.ch, p)[i].n
    <3>1. CASE i = Len(c.ch) + 1
      <4>1. c.packet.n \in Held(c)
        BY <2>4 DEF Held
      <4>2. QED BY <1>5, <1>13, <2>4, <3>1, <4>1
    <3>2. CASE i \in 1..Len(c.ch)
      BY <1>2, <1>5, <2>4, <3>2 DEF Channel
    <3>3. QED BY <1>5, <3>1, <3>2
  <2>5. QED BY <1>6, <2>1, <2>2, <2>3, <2>4 DEF Channel
<1>16. RecordOK'
  <2>1. ASSUME NEW x \in Sessions
        PROVE  Inverse(session'[x]) /\ Stages(session'[x]) /\ Channel(session'[x])
    BY <1>9, <1>12, <1>15 DEF IInv, RecordOK
  <2>2. QED BY <1>9, <2>1 DEF RecordOK
<1>17. ASSUME NEW x \in Sessions
       PROVE  session'[x].key = session[x].key /\ session'[x].end = session[x].end
  BY <1>6, <1>9 DEF c
<1>18. TableOK'
  <2>1. \A k \in Keys : table[k] # NoSession => table[k] \in Sessions
    BY DEF IInv, Shape
  <2>2. QED BY <1>9, <1>17, <2>1 DEF IInv, TableOK
<1>19. WorkOK'
  BY <1>9, <1>11, <1>17 DEF IInv, WorkOK
<1>20. QueueOK'
  BY DEF IInv, QueueOK
<1>21. LateOK'
  <2>1. ASSUME NEW x \in Workers, work'[x].at = "put", session'[work'[x].session].end \in Emptied
        PROVE  session'[work'[x].session].ch = <<>>
    <3>1. work'[x] = work[x] /\ session'[work[x].session] = session[work[x].session]
      BY <1>9, <1>11, <2>1
    <3>2. QED BY <2>1, <3>1 DEF IInv, LateOK
  <2>2. QED BY <2>1 DEF LateOK
<1>22. Held(r) \subseteq Held(c) \cup {p.n}
  BY <1>5, <1>6 DEF Held
<1>23. ASSUME NEW k, NEW n, Follows(k, n), k = p.key => p.n < n PROVE Follows(k, n)'
  <2>1. ASSUME NEW x \in Sessions, session'[x].key = k, session'[x].end # "ended",
               NEW m \in Held(session'[x])
        PROVE  m < n
    <3>1. session[x].key = k /\ session[x].end # "ended"
      BY <1>17, <2>1
    <3>2. CASE x # s
      BY <1>9, <1>23, <2>1, <3>1, <3>2 DEF Follows
    <3>3. CASE x = s
      <4>1. m \in Held(c) \cup {p.n} /\ k = p.key
        BY <1>1, <1>9, <1>22, <2>1, <3>1, <3>3 DEF c
      <4>2. QED BY <1>23, <3>1, <3>3, <4>1 DEF Follows, c
    <3>4. QED BY <3>2, <3>3
  <2>2. QED BY <1>9, <1>23, <2>1 DEF Follows
<1>24. OrderOK'
  <2>1. ASSUME NEW x \in Sessions, NEW m \in Held(session'[x])
        PROVE  m <= arrived' /\ (session'[x].end # "ended" => last'[session'[x].key] < m)
    <3>1. CASE x # s
      BY <1>9, <2>1, <3>1 DEF IInv, OrderOK
    <3>2. CASE x = s
      <4>1. m \in Held(c) \cup {p.n} /\ session'[x].key = p.key /\ session'[x].end = c.end
        BY <1>1, <1>6, <1>9, <1>22, <2>1, <3>2
      <4>2. CASE m = p.n
        BY <1>1, <4>1, <4>2 DEF Follows
      <4>3. CASE m \in Held(c)
        BY <1>1, <4>1, <4>3 DEF IInv, OrderOK, c
      <4>4. QED BY <4>1, <4>2, <4>3
    <3>3. QED BY <3>1, <3>2
  <2>2. \A x \in Workers : \A i \in DOMAIN queue'[x] : Follows(queue[x][i].key, queue[x][i].n)'
    <3>1. ASSUME NEW x \in Workers, NEW i \in DOMAIN queue[x]
          PROVE  /\ Follows(queue[x][i].key, queue[x][i].n)
                 /\ queue[x][i].key = p.key => p.n < queue[x][i].n
      <4>1. WorkerOf[queue[x][i].key] = x /\ Follows(queue[x][i].key, queue[x][i].n)
        BY DEF IInv, QueueOK, OrderOK
      <4>2. QED BY <1>1, <4>1
    <3>2. QED BY <1>23, <3>1
  <2>3. \A x \in Workers : work'[x].at # "idle" => Follows(work[x].packet.key, work[x].packet.n)'
    <3>1. ASSUME NEW x \in Workers, work'[x].at # "idle"
          PROVE  /\ Follows(work'[x].packet.key, work'[x].packet.n)
                 /\ work'[x].packet.key # p.key
      BY <1>11, <3>1 DEF IInv, OrderOK
    <3>2. \A k, n : (k # p.key /\ last[k] < n
                     /\ \A y \in Sessions : session[y].key = k /\ session[y].end # "ended"
                           => \A m \in Held(session[y]) : m < n)
                  => (/\ last'[k] < n
                      /\ \A y \in Sessions' : session'[y].key = k /\ session'[y].end # "ended"
                           => \A m \in Held(session'[y]) : m < n)
      BY <1>23 DEF Follows
    <3>3. QED BY <3>1, <3>2 DEF Follows
  <2>4. \A k \in Keys : last'[k] <= arrived'
    BY DEF IInv, OrderOK
  <2>5. QED BY <1>9, <2>1, <2>2, <2>3, <2>4 DEF OrderOK
<1>25. Shape'
  BY <1>9, <1>10 DEF IInv, Shape
<1>26. QED BY <1>16, <1>18, <1>19, <1>20, <1>21, <1>24, <1>25 DEF IInv

\* A packet goes into the channel, or is dropped when the channel is full.
LEMMA PutStep ==
    ASSUME IInv, NEW w \in Workers, Put(w) PROVE IInv'
<1>1. /\ work[w].at = "put" /\ work' = [work EXCEPT ![w] = Resting]
      /\ UNCHANGED <<arrived, queue, table, last>>
  BY DEF Put
<1>2. CASE /\ Len(session[work[w].session].ch) # SenderCapacity
           /\ session' = [session EXCEPT ![work[w].session].ch = Append(@, work[w].packet)]
  BY <1>1, <1>2, PutIn
<1>3. CASE UNCHANGED session
  <2>1. Resting \in WorkRec /\ Resting.at = "idle"
    BY DEF Resting, WorkRec
  <2>2. QED BY <1>1, <1>3, <2>1, WorkStep
<1>4. QED BY <1>2, <1>3 DEF Put

-----------------------------------------------------------------------------
(* The theorems.                                                            *)

\* IInv holds initially.
LEMMA InitIInv == Init => IInv
<1> SUFFICES ASSUME Init PROVE IInv
  OBVIOUS
<1>1. /\ arrived = 0 /\ Sessions = {} /\ session = <<>> /\ MaxPackets \in Nat
      /\ \A w \in Workers : queue[w] = <<>> /\ work[w] = Resting
      /\ \A k \in Keys : table[k] = NoSession /\ last[k] = 0
  BY UDPAssumption DEF Init, Sessions
<1>2. Shape
  <2>1. Resting \in WorkRec /\ <<>> \in Seq(Packet) /\ <<>> \in Seq(SessionRec)
    BY DEF Resting, WorkRec
  <2>2. QED BY <1>1, <2>1 DEF Init, Shape
<1>3. RecordOK /\ TableOK
  BY <1>1 DEF RecordOK, TableOK
<1>4. WorkOK /\ LateOK
  BY <1>1 DEF WorkOK, LateOK, Resting
<1>5. QueueOK
  BY <1>1, UDPAssumption DEF QueueOK
<1>6. OrderOK
  BY <1>1 DEF OrderOK, Resting
<1>7. QED BY <1>2, <1>3, <1>4, <1>5, <1>6 DEF IInv

\* Every step keeps IInv.
LEMMA NextIInv == IInv /\ [Next]_vars => IInv'
<1> SUFFICES ASSUME IInv, [Next]_vars PROVE IInv'
  OBVIOUS
<1>1. ASSUME NEW w \in Workers, Worker(w) PROVE IInv'
  BY <1>1, HandleDropStep, HandleUDPConnStep, SendStep, PutStep DEF Worker
<1>2. ASSUME NEW s \in Sessions, Process(s) PROVE IInv'
  BY <1>2, DialSuccessStep, DialFailStep, TakeStep, ProcessEndStep, ForwardStep,
     ForwardFailStep DEF Process
<1>3. ASSUME NEW s \in Sessions, Finish(s) PROVE IInv'
  BY <1>3, CancelStep, DropAllStep, ClosePcStep, DeleteStep DEF Finish
<1>4. CASE UNCHANGED vars
  <2>1. UNCHANGED <<arrived, queue, work, table, session, last>> /\ Sessions' = Sessions
    BY <1>4 DEF vars, Sessions
  <2>2. Shape' /\ RecordOK' /\ TableOK' /\ WorkOK' /\ QueueOK' /\ LateOK'
    BY <2>1 DEF IInv, Shape, RecordOK, TableOK, WorkOK, QueueOK, LateOK
  <2>3. OrderOK'
    BY <2>1 DEF IInv, OrderOK, Follows
  <2>4. QED BY <2>2, <2>3 DEF IInv
<1>5. QED
  BY <1>1, <1>2, <1>3, <1>4, HandleUDPPacketStep, CloseConnectionStep, ReadErrorStep DEF Next

\* The inductive invariant: sessions, workers and the table are in order whatever the order of
\* packets, dialling, timeouts and closing.
THEOREM Invariance == Spec => []IInv
<1>1. QED BY InitIInv, NextIInv, PTL DEF Spec

\* Type correctness: a packet is in hand only while it is processed, and a session is cleaned up
\* in order, whenever the dial fails, the host is not resolved or the connection is closed.
THEOREM TypesCorrect == Spec => []TypeOK
<1>1. IInv => TypeOK
  <2> SUFFICES ASSUME IInv PROVE TypeOK
    OBVIOUS
  <2>1. ASSUME NEW s \in Sessions
        PROVE  /\ session[s].run \in {"dial", "process", "packet", "stop"}
               /\ session[s].run = "packet" <=> session[s].packet # NoPacket
               /\ session[s].end \in {"no", "cancel", "drop", "close", "delete", "ended"}
               /\ session[s].end \notin {"no", "cancel"} => session[s].done
               /\ session[s].end \in {"delete", "ended"} => session[s].pc # "open"
    BY Facts DEF SessionRec, Stages
  <2>2. QED BY <2>1 DEF IInv, Shape, TypeOK
<1>2. QED BY <1>1, Invariance, PTL

\* natTable.Delete deletes by key: it never removes the entry of another session, and a source
\* never has two sessions.
THEOREM OneSessionCorrect == Spec => []OneSession
<1>1. IInv => OneSession
  BY DEF IInv, TableOK, OneSession
<1>2. QED BY <1>1, Invariance, PTL

\* RestoreReadFrom undoes the translation of the address that a packet was sent to.
THEOREM MappingCorrect == Spec => []MappingAgrees
<1>1. IInv => MappingAgrees
  <2> SUFFICES ASSUME IInv, NEW s \in Sessions, NEW t \in Targets,
                      (\E o \in Origins : session[s].originToTarget[o] = t)
                         \/ session[s].targetToOrigin[t] # NoAddr
               PROVE  /\ RestoreReadFrom(s, t) \in Origins
                      /\ session[s].originToTarget[RestoreReadFrom(s, t)] = t
    BY DEF MappingAgrees
  <2>1. /\ session[s].targetToOrigin[t] \in Origins
        /\ session[s].originToTarget[session[s].targetToOrigin[t]] = t
    BY Facts DEF Inverse
  <2>2. RestoreReadFrom(s, t) = session[s].targetToOrigin[t]
    BY <2>1, Addresses DEF RestoreReadFrom
  <2>3. QED BY <2>1, <2>2
<1>2. QED BY <1>1, Invariance, PTL

\* However Send and Close overlap, one packet at most is left in the channel of a closed sender.
THEOREM LostCorrect == Spec => []AtMostOneLost
<1>1. IInv => AtMostOneLost
  BY DEF IInv, RecordOK, Channel, Emptied, AtMostOneLost
<1>2. QED BY <1>1, Invariance, PTL

\* A source's packets are written in the order of their arrival, across the end of one session
\* and the start of the next.
THEOREM OrderCorrect == Spec => InOrder
<1> DEFINE P == \A k \in Keys : last'[k] >= last[k]
<1>1. IInv /\ [Next]_vars => [P]_vars
  <2> SUFFICES ASSUME IInv, Next, NEW k \in Keys PROVE last'[k] >= last[k]
    OBVIOUS
  <2>1. last \in [Keys -> 0..MaxPackets] /\ last[k] \in Nat
    BY DEF IInv, Shape
  <2>2. CASE UNCHANGED last
    BY <2>1, <2>2
  <2>3. ASSUME NEW s \in Sessions, Forward(s) PROVE last'[k] >= last[k]
    <3>1. CASE session[s].pc # "open"
      BY <2>2, <2>3, <3>1 DEF Forward, Written
    <3>2. CASE session[s].pc = "open"
      <4>1. session[s].packet.n \in Held(session[s]) /\ session[s].packet.n \in Nat
        BY <2>3, PacketHeld DEF Forward, Packet
      <4>2. session[s].end # "ended"
        BY <3>2, Facts DEF Stages
      <4>3. last[session[s].key] < session[s].packet.n
        BY <4>1, <4>2 DEF IInv, OrderOK
      <4>4. last' = [last EXCEPT ![session[s].key] = session[s].packet.n]
        BY <2>3, <3>2 DEF Forward, Written
      <4>5. CASE k = session[s].key
        BY <2>1, <4>1, <4>3, <4>4, <4>5
      <4>6. CASE k # session[s].key
        BY <2>1, <4>4, <4>6
      <4>7. QED BY <4>5, <4>6
    <3>3. QED BY <3>1, <3>2
  <2>4. QED
    BY <2>2, <2>3
    DEF Next, Worker, Process, Finish, HandleUDPPacket, HandleDrop, HandleUDPConn, Send, Put,
        DialSuccess, DialFail, Take, ProcessEnd, ForwardFail, CloseConnection, ReadError,
        Cancel, DropAll, ClosePc, Delete
<1>2. QED BY <1>1, Invariance, PTL DEF Spec, InOrder
=============================================================================
