----------------------------- MODULE UDPSession -----------------------------
(***************************************************************************)
(* UDP through the tunnel (tunnel/tunnel.go, tunnel/connection.go,         *)
(* component/nat): packets are queued by their source, a worker finds or   *)
(* makes the session of the source in the NAT table and hands the packet   *)
(* to the session's sender, a goroutine of the session dials and then      *)
(* forwards packets, another one reads the replies and cleans up.          *)
(*                                                                         *)
(* A packet is [n, key, origin]: its number in the order of arrival, its   *)
(* source, and the address that the application sent it to.  The session   *)
(* of a sender that a sniffer wraps is left out.                           *)
(***************************************************************************)
EXTENDS Naturals, Sequences, FiniteSets

CONSTANTS
    Keys,           \* sources
    Workers,        \* goroutines that run processUDP
    WorkerOf,       \* source -> worker: the hash
    Origins,        \* addresses that applications send to, fake ones for instance
    Answers,        \* origin -> addresses that it may be resolved to
    NoAddr,         \* an address that is not valid
    NoSession,
    QueueCapacity,
    SenderCapacity,
    MaxPackets      \* packets that arrive

ASSUME UDPAssumption ==
    /\ WorkerOf \in [Keys -> Workers]
    /\ DOMAIN Answers = Origins /\ NoAddr \notin Origins \cup UNION {Answers[o] : o \in Origins}
    /\ QueueCapacity \in Nat \ {0} /\ SenderCapacity \in Nat \ {0} /\ MaxPackets \in Nat
    /\ NoSession \notin Nat

VARIABLES
    arrived,    \* packets so far
    queue,      \* worker -> packets: udpQueues
    work,       \* worker -> [at, packet, session]
    table,      \* source -> session: natTable
    session,    \* the sessions in the order of their creation
    last        \* source -> number of the last packet that was written to a server

vars == <<arrived, queue, work, table, session, last>>

Targets  == UNION {Answers[o] : o \in Origins}
Sessions == DOMAIN session
NoPacket == [n |-> 0]
Resting  == [at |-> "idle", packet |-> NoPacket, session |-> NoSession]

\* newPacketSender, for a packet from k to o.
NewSession(k, o) ==
    [key |-> k, origin |-> o, done |-> FALSE, ch |-> <<>>,
     run |-> "dial", packet |-> NoPacket,   \* the goroutine of the session
     pc |-> "none", end |-> "no",           \* the socket and the clean-up
     originToTarget |-> [a \in Origins |-> NoAddr], targetToOrigin |-> [t \in Targets |-> NoAddr]]

-----------------------------------------------------------------------------
(* From the listener to the sender.                                         *)

\* Mutant: the queue does not depend on the source.
HandleUDPPacketAny(k, o) ==
    \E w \in Workers :
        /\ arrived < MaxPackets /\ arrived' = arrived + 1
        /\ Len(queue[w]) < QueueCapacity
        /\ queue' = [queue EXCEPT ![w] = Append(@, [n |-> arrived + 1, key |-> k, origin |-> o])]
        /\ UNCHANGED <<work, table, session, last>>

\* A packet is dropped when the queue is full.
HandleUDPPacket(k, o) ==
    LET w == WorkerOf[k]
    IN  /\ arrived < MaxPackets /\ arrived' = arrived + 1
        /\ queue' = IF Len(queue[w]) < QueueCapacity
                    THEN [queue EXCEPT ![w] = Append(@, [n |-> arrived + 1, key |-> k, origin |-> o])]
                    ELSE queue
        /\ UNCHANGED <<work, table, session, last>>

\* handleUDPConn drops the packet: the tunnel is suspended, the metadata are not valid, or the
\* fake address has no host.
HandleDrop(w) ==
    /\ work[w].at = "idle" /\ queue[w] # <<>>
    /\ queue' = [queue EXCEPT ![w] = Tail(@)]
    /\ UNCHANGED <<arrived, work, table, session, last>>

\* handleUDPConn up to Send: GetOrCreate, and the goroutine that dials.
HandleUDPConn(w) ==
    LET p   == Head(queue[w])
        new == table[p.key] = NoSession
        s   == IF new THEN Len(session) + 1 ELSE table[p.key]
    IN  /\ work[w].at = "idle" /\ queue[w] # <<>>
        /\ queue' = [queue EXCEPT ![w] = Tail(@)]
        /\ table' = [table EXCEPT ![p.key] = s]
        /\ session' = IF new THEN Append(session, NewSession(p.key, p.origin)) ELSE session
        /\ work' = [work EXCEPT ![w] = [at |-> "send", packet |-> p, session |-> s]]
        /\ UNCHANGED <<arrived, last>>

\* Mutant: Send does not look first whether the sender is closed.
SendBlind(w) ==
    /\ work[w].at = "send"
    /\ work' = [work EXCEPT ![w].at = "put"]
    /\ UNCHANGED <<arrived, queue, table, session, last>>

\* The first select of Send: a closed sender drops the packet.
Send(w) ==
    /\ work[w].at = "send"
    /\ work' = [work EXCEPT ![w] = IF session[work[w].session].done THEN Resting ELSE [@ EXCEPT !.at = "put"]]
    /\ UNCHANGED <<arrived, queue, table, session, last>>

\* The second select: the packet is put, or dropped because the sender has been closed or the
\* channel is full.
Put(w) ==
    LET s == work[w].session
        full == Len(session[s].ch) = SenderCapacity
    IN  /\ work[w].at = "put"
        /\ work' = [work EXCEPT ![w] = Resting]
        /\ \/ ~full /\ session' = [session EXCEPT ![s].ch = Append(@, work[w].packet)]
           \/ (full \/ session[s].done) /\ UNCHANGED session
        /\ UNCHANGED <<arrived, queue, table, last>>

-----------------------------------------------------------------------------
(* The goroutine of the session.                                            *)

\* A record of the mapping that is not valid is overwritten, and no other.
AddMapping(r, o, t) ==
    [r EXCEPT !.originToTarget[o] = IF @ = NoAddr THEN t ELSE @,
              !.targetToOrigin = IF t = NoAddr \/ @[t] # NoAddr THEN @ ELSE [@ EXCEPT ![t] = o]]

\* dial succeeds: the tracker joins, the address may have been resolved for the rules, and
\* handleUDPToLocal starts.
DialSuccess(s) ==
    /\ session[s].run = "dial"
    /\ \E t \in Answers[session[s].origin] \cup {NoAddr} :
         session' = [session EXCEPT ![s] = [AddMapping(@, session[s].origin, t) EXCEPT !.run = "process", !.pc = "open"]]
    /\ UNCHANGED <<arrived, queue, work, table, last>>

\* Mutant: the sender and the entry stay behind.
DialFailSilent(s) ==
    /\ session[s].run = "dial"
    /\ session' = [session EXCEPT ![s].run = "stop"]
    /\ UNCHANGED <<arrived, queue, work, table, last>>

\* dial fails, with or without retries.
DialFail(s) ==
    /\ session[s].run = "dial"
    /\ session' = [session EXCEPT ![s].run = "stop", ![s].end = "cancel"]
    /\ UNCHANGED <<arrived, queue, work, table, last>>

\* Process: the next packet; the select may choose it although the sender is closed.
Take(s) ==
    /\ session[s].run = "process" /\ session[s].ch # <<>>
    /\ session' = [session EXCEPT ![s].run = "packet", ![s].packet = Head(session[s].ch), ![s].ch = Tail(@)]
    /\ UNCHANGED <<arrived, queue, work, table, last>>

ProcessEnd(s) ==
    /\ session[s].run = "process" /\ session[s].done
    /\ session' = [session EXCEPT ![s].run = "stop"]
    /\ UNCHANGED <<arrived, queue, work, table, last>>

\* The write to the server; a socket that is closed takes nothing.
Written(s) ==
    last' = IF session[s].pc = "open" THEN [last EXCEPT ![session[s].key] = session[s].packet.n] ELSE last

\* Mutant: every packet is resolved anew.
ForwardResolves(s) ==
    LET o == session[s].packet.origin
    IN  /\ session[s].run = "packet"
        /\ \E t \in Answers[o] :
             session' = [session EXCEPT ![s] = [AddMapping(@, o, t) EXCEPT !.run = "process", !.packet = NoPacket]]
        /\ Written(s)
        /\ UNCHANGED <<arrived, queue, work, table>>

\* processPacket: the address the origin was mapped to, or a new one, goes with the packet.
Forward(s) ==
    LET o == session[s].packet.origin
        known == session[s].originToTarget[o]
    IN  /\ session[s].run = "packet"
        /\ \E t \in IF known # NoAddr THEN {known} ELSE Answers[o] :
             session' = [session EXCEPT ![s] = [AddMapping(@, o, t) EXCEPT !.run = "process", !.packet = NoPacket]]
        /\ Written(s)
        /\ UNCHANGED <<arrived, queue, work, table>>

\* Mutant: the way out when the host cannot be resolved forgets the packet.
ForwardFailKeeps(s) ==
    /\ session[s].run = "packet" /\ session[s].originToTarget[session[s].packet.origin] = NoAddr
    /\ session' = [session EXCEPT ![s].run = "process"]
    /\ UNCHANGED <<arrived, queue, work, table, last>>

\* processPacket drops the packet: its host cannot be resolved.
ForwardFail(s) ==
    /\ session[s].run = "packet" /\ session[s].originToTarget[session[s].packet.origin] = NoAddr
    /\ session' = [session EXCEPT ![s].run = "process", ![s].packet = NoPacket]
    /\ UNCHANGED <<arrived, queue, work, table, last>>

-----------------------------------------------------------------------------
(* The end of a session.                                                    *)

\* Connections are closed from outside, through the tracker.
CloseConnection(s) ==
    /\ session[s].pc = "open"
    /\ session' = [session EXCEPT ![s].pc = "closed"]
    /\ UNCHANGED <<arrived, queue, work, table, last>>

\* handleUDPToLocal: the timeout of the session, an error of the socket, or an application that
\* does not take the reply.
ReadError(s) ==
    /\ session[s].pc # "none" /\ session[s].end = "no"
    /\ session' = [session EXCEPT ![s].end = "cancel"]
    /\ UNCHANGED <<arrived, queue, work, table, last>>

\* Close of the sender: cancel, then dropAll.
Cancel(s) ==
    /\ session[s].end = "cancel"
    /\ session' = [session EXCEPT ![s].done = TRUE, ![s].end = "drop"]
    /\ UNCHANGED <<arrived, queue, work, table, last>>

\* Mutant: the entry is deleted before the socket is closed.
DropAllDeletes(s) ==
    /\ session[s].end = "drop"
    /\ session' = [session EXCEPT ![s].ch = <<>>, ![s].end = IF session[s].pc = "none" THEN "delete" ELSE "close"]
    /\ table' = [table EXCEPT ![session[s].key] = NoSession]
    /\ UNCHANGED <<arrived, queue, work, last>>

DropAll(s) ==
    /\ session[s].end = "drop"
    /\ session' = [session EXCEPT ![s].ch = <<>>, ![s].end = IF session[s].pc = "none" THEN "delete" ELSE "close"]
    /\ UNCHANGED <<arrived, queue, work, table, last>>

ClosePc(s) ==
    /\ session[s].end = "close"
    /\ session' = [session EXCEPT ![s].pc = "closed", ![s].end = "delete"]
    /\ UNCHANGED <<arrived, queue, work, table, last>>

\* natTable.Delete, of the key and not of the session.
Delete(s) ==
    /\ session[s].end = "delete"
    /\ session' = [session EXCEPT ![s].end = "ended"]
    /\ table' = [table EXCEPT ![session[s].key] = NoSession]
    /\ UNCHANGED <<arrived, queue, work, last>>

-----------------------------------------------------------------------------

Init ==
    /\ arrived = 0
    /\ queue = [w \in Workers |-> <<>>]
    /\ work = [w \in Workers |-> Resting]
    /\ table = [k \in Keys |-> NoSession]
    /\ session = <<>>
    /\ last = [k \in Keys |-> 0]

Worker(w)  == HandleDrop(w) \/ HandleUDPConn(w) \/ Send(w) \/ Put(w)
Process(s) == DialSuccess(s) \/ DialFail(s) \/ Take(s) \/ ProcessEnd(s) \/ Forward(s) \/ ForwardFail(s)
Finish(s)  == Cancel(s) \/ DropAll(s) \/ ClosePc(s) \/ Delete(s)

Next == \/ \E k \in Keys, o \in Origins : HandleUDPPacket(k, o)
        \/ \E w \in Workers : Worker(w)
        \/ \E s \in Sessions : Process(s) \/ Finish(s) \/ CloseConnection(s) \/ ReadError(s)

Spec == Init /\ [][Next]_vars

\* Goroutines go on, dialling and resolving end (they have timeouts), and reading from a closed
\* socket fails.  A session that nobody closes need not end.
Fairness ==
    /\ \A w \in Workers : WF_vars(Worker(w))
    /\ \A s \in 1..MaxPackets : /\ WF_vars(s \in Sessions /\ Process(s))
                               /\ WF_vars(s \in Sessions /\ Finish(s))
                               /\ WF_vars(s \in Sessions /\ session[s].pc = "closed" /\ ReadError(s))

FairSpec == Spec /\ Fairness

-----------------------------------------------------------------------------
(* Properties.                                                              *)

\* Type invariant, with the stages of a session: its goroutine has a packet in hand while it
\* processes it and at no other time, so that processPacket drops it on every way out
\* (connection.go:66), and the order of the clean-up: the sender is closed before it is emptied,
\* the socket before the entry is deleted (connection.go:169-174).
TypeOK ==
    /\ arrived \in 0..MaxPackets
    /\ table \in [Keys -> Sessions \cup {NoSession}]
    /\ \A s \in Sessions :
         /\ session[s].run \in {"dial", "process", "packet", "stop"}
         /\ session[s].run = "packet" <=> session[s].packet # NoPacket
         /\ session[s].end \in {"no", "cancel", "drop", "close", "delete", "ended"}
         /\ session[s].end \notin {"no", "cancel"} => session[s].done
         /\ session[s].end \in {"delete", "ended"} => session[s].pc # "open"
    /\ last \in [Keys -> 0..MaxPackets]

\* A session stays in the table until its sender and its socket are closed, although entries
\* are deleted by key: no clean-up removes the session of a successor, and a source never has
\* two sessions.
OneSession ==
    \A s \in Sessions : session[s].end # "ended" => table[session[s].key] = s

\* The packets of a source reach servers in the order of their arrival, also when its session
\* ends and another one takes over while packets are queued (connection.go:27-28).
InOrder == [][\A k \in Keys : last'[k] >= last[k]]_vars

\* RestoreReadFrom: the source that a reply is given.
RestoreReadFrom(s, t) ==
    IF session[s].targetToOrigin[t] # NoAddr THEN session[s].targetToOrigin[t] ELSE t

\* Translation of addresses: a reply from an address that packets of the session go to is given
\* as its source an address that the application sent to and that stands for that server.
MappingAgrees ==
    \A s \in Sessions : \A t \in Targets :
        (\E o \in Origins : session[s].originToTarget[o] = t) \/ session[s].targetToOrigin[t] # NoAddr =>
            LET from == RestoreReadFrom(s, t)
            IN  from \in Origins /\ session[s].originToTarget[from] = t

\* Send puts a packet into a channel that nobody empties any more only if it overlaps Close:
\* a closed sender keeps at most one packet (connection.go:124-139).
AtMostOneLost ==
    \A s \in Sessions : session[s].end \in {"close", "delete", "ended"} => Len(session[s].ch) <= 1

\* Packet n waits in a queue or in the channel of a sender that is not closed.
Waits(n) ==
    \/ \E w \in Workers : \E i \in DOMAIN queue[w] : queue[w][i].n = n
    \/ \E s \in Sessions : ~session[s].done /\ \E i \in DOMAIN session[s].ch : session[s].ch[i].n = n

\* After the last packet nothing waits for ever, whether dialling fails, names cannot be resolved
\* or sessions are closed; and a session that is closed makes room for the next one.
Settles ==
    <>[](/\ \A n \in 1..MaxPackets : ~Waits(n)
         /\ \A s \in Sessions : session[s].pc = "closed" => table[session[s].key] # s)
=============================================================================
