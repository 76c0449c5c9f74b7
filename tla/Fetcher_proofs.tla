---------------------------- MODULE Fetcher_proofs ----------------------------
(***************************************************************************)
(* Proofs about the fetcher, for every set of documents and any number of  *)
(* fetchers: type correctness, that a provider uses what its hash says,    *)
(* that the file never holds a document that the parser rejects, and that  *)
(* an update without an error leaves what the server had when it answered. *)
(*                                                                         *)
(* The inductive invariant IInv says of every call in progress what its    *)
(* buffer, its hash, the ETag that it sent, the answer and the hash of the *)
(* fetcher have to do with each other at the point where it stands         *)
(* (CallOK), and that the mutex is held by the call that is between the    *)
(* parser and onUpdate.                                                    *)
(***************************************************************************)
EXTENDS Fetcher, TLAPS

Labels == {"stat", "idle", "update", "done", "sent", "answered", "load",
           "write", "writing", "install"}

\* The labels at which loadBuf holds the mutex.
Holding == {"write", "writing", "install"}

\* What a buffer may hold, and a hash stand for.
Read == Docs \cup {None, Torn}

FetcherRec == [hash : Read, contents : Read, mux : Procs \cup {None}, closed : BOOLEAN]

CallRec == [at : Labels, old : Read, match : Read, buf : Read, hash : Read,
            write : BOOLEAN, mixed : BOOLEAN, seen : Docs \cup {None}, overtaken : BOOLEAN]

\* A provider uses what its hash says.
FetcherOK(f) == f.contents = f.hash /\ f.contents \in Parses \cup {None}

\* A call that asked with an ETag still has the hash h of its fetcher, or was overtaken.
Keeps(f, c, h) == c.match # None /\ (f.hash = h \/ c.overtaken)

\* What holds of a call c of goroutine p on a fetcher f, by where it stands.
CallOK(f, p, c) ==
    /\ f.mux = p <=> c.at \in Holding
    /\ c.at \in Holding => c.buf \in Parses /\ c.hash = c.buf /\ (c.write => c.buf = c.seen)
    /\ c.at = "sent" => /\ c.match \in {None, c.old} /\ c.buf = None
                        /\ c.match # None => Keeps(f, c, c.match)
    /\ c.at = "answered" => c.buf \in Docs /\ c.hash = c.buf /\ c.buf = c.seen
    /\ c.at = "load" => /\ c.buf \in {None, c.hash}
                        /\ c.write /\ c.buf # None => c.buf = c.seen
                        /\ c.write /\ c.buf = None => c.hash = c.seen /\ Keeps(f, c, c.hash)

Shape ==
    /\ fetchers \in Seq(FetcherRec)
    /\ call \in Seq([Procs -> CallRec])
    /\ Len(call) = Len(fetchers)
    /\ Len(fetchers) > 0

Stores == server \in Docs /\ tag \in Docs \cup {None} /\ file \in Good \cup {None, Torn}

Calls == \A i \in DOMAIN fetchers :
            /\ FetcherOK(fetchers[i])
            /\ \A p \in Procs : CallOK(fetchers[i], p, call[i][p])

IInv == Shape /\ Stores /\ Calls

-----------------------------------------------------------------------------
\* The records of a new fetcher and of a call that has returned have their types.
LEMMA NewTypes ==
    /\ NewFetcher \in FetcherRec
    /\ \A at \in Labels : Idle(at) \in CallRec
    /\ NewCalls \in [Procs -> CallRec]
<1>1. NewFetcher \in FetcherRec
  BY DEF NewFetcher, FetcherRec, Read
<1>2. ASSUME NEW at \in Labels PROVE Idle(at) \in CallRec
  BY DEF Idle, CallRec, Read
<1>3. NewCalls \in [Procs -> CallRec]
  <2>1. ASSUME NEW p \in Procs
        PROVE  Idle(IF p = "initial" THEN "stat" ELSE "idle") \in CallRec
    BY <1>2 DEF Labels
  <2>2. QED BY <2>1 DEF NewCalls
<1>4. QED BY <1>1, <1>2, <1>3

\* A call that is where the mutex is not held, and where nothing was read, is in order on a
\* fetcher that it does not hold.
LEMMA IdleOK ==
    ASSUME NEW f, NEW p, f.mux # p,
           NEW at \in {"stat", "idle", "update", "done"}
    PROVE  CallOK(f, p, Idle(at))
BY DEF CallOK, Idle, Holding

\* A new fetcher and the calls of its goroutines are in order.
LEMMA NewOK ==
    FetcherOK(NewFetcher) /\ \A p \in Procs : CallOK(NewFetcher, p, NewCalls[p])
<1>1. FetcherOK(NewFetcher)
  BY DEF FetcherOK, NewFetcher
<1>2. ASSUME NEW p \in Procs PROVE CallOK(NewFetcher, p, NewCalls[p])
  <2>1. NewFetcher.mux # p
    BY FetcherAssumption DEF NewFetcher
  <2>2. NewCalls[p] = Idle(IF p = "initial" THEN "stat" ELSE "idle")
    BY DEF NewCalls
  <2>3. QED BY <2>1, <2>2, IdleOK
<1>3. QED BY <1>1, <1>2

\* What a step on one call of one fetcher has to show.
LEMMA Replace ==
    ASSUME Shape, Calls,
           NEW i \in DOMAIN fetchers, NEW p \in Procs,
           NEW f \in FetcherRec, NEW c \in CallRec,
           fetchers' = [fetchers EXCEPT ![i] = f],
           call' = [call EXCEPT ![i][p] = c],
           FetcherOK(f), CallOK(f, p, c), f.hash = fetchers[i].hash,
           \A q \in Procs \ {p} : (f.mux = q) = (fetchers[i].mux = q)
    PROVE  Shape' /\ Calls'
<1>1. i \in 1..Len(fetchers) /\ i \in 1..Len(call) /\ call[i] \in [Procs -> CallRec]
  BY DEF Shape
<1>2. fetchers' \in Seq(FetcherRec) /\ Len(fetchers') = Len(fetchers)
  BY <1>1 DEF Shape
<1>3. call' = [call EXCEPT ![i] = [call[i] EXCEPT ![p] = c]]
  OBVIOUS
<1>4. [call[i] EXCEPT ![p] = c] \in [Procs -> CallRec]
  BY <1>1
<1>5. call' \in Seq([Procs -> CallRec]) /\ Len(call') = Len(call)
  BY <1>1, <1>3, <1>4 DEF Shape
<1>6. Shape'
  BY <1>2, <1>5 DEF Shape
<1>7. ASSUME NEW j \in DOMAIN fetchers'
      PROVE  FetcherOK(fetchers'[j]) /\ \A q \in Procs : CallOK(fetchers'[j], q, call'[j][q])
  <2>1. j \in DOMAIN fetchers /\ j \in 1..Len(call)
    BY <1>2, <1>6 DEF Shape
  <2>2. CASE j # i
    <3>1. fetchers'[j] = fetchers[j] /\ call'[j] = call[j]
      BY <2>1, <2>2, <1>3 DEF Shape
    <3>2. QED BY <2>1, <3>1 DEF Calls
  <2>3. CASE j = i
    <3>1. fetchers'[j] = f /\ call'[j] = [call[i] EXCEPT ![p] = c]
      BY <1>1, <1>3, <2>3 DEF Shape
    <3>2. ASSUME NEW q \in Procs PROVE CallOK(f, q, call'[j][q])
      <4>1. CASE q = p
        BY <1>1, <3>1, <4>1
      <4>2. CASE q # p
        <5>1. call'[j][q] = call[i][q]
          BY <1>1, <3>1, <4>2
        <5>2. CallOK(fetchers[i], q, call[i][q])
          BY DEF Calls
        <5>3. (f.mux = q) = (fetchers[i].mux = q)
          BY <4>2
        <5>4. QED BY <5>1, <5>2, <5>3 DEF CallOK, Keeps
      <4>3. QED BY <4>1, <4>2
    <3>3. QED BY <3>1, <3>2
  <2>4. QED BY <2>2, <2>3
<1>8. Calls'
  BY <1>7 DEF Calls
<1>9. QED BY <1>6, <1>8

\* The same for a step that leaves the fetchers alone.
LEMMA ReplaceCall ==
    ASSUME Shape, Calls,
           NEW i \in DOMAIN fetchers, NEW p \in Procs, NEW c \in CallRec,
           UNCHANGED fetchers,
           call' = [call EXCEPT ![i][p] = c],
           CallOK(fetchers[i], p, c)
    PROVE  Shape' /\ Calls'
<1>1. fetchers[i] \in FetcherRec /\ FetcherOK(fetchers[i])
  BY DEF Shape, Calls
<1>2. fetchers' = [fetchers EXCEPT ![i] = fetchers[i]]
  BY DEF Shape
<1>3. QED BY <1>1, <1>2, Replace

-----------------------------------------------------------------------------
\* The facts about one call that its next step uses.
LEMMA Facts ==
    ASSUME IInv, NEW i \in DOMAIN fetchers, NEW p \in Procs
    PROVE  /\ fetchers[i] \in FetcherRec /\ FetcherOK(fetchers[i])
           /\ i \in 1..Len(call) /\ call[i] \in [Procs -> CallRec]
           /\ call[i][p] \in CallRec /\ CallOK(fetchers[i], p, call[i][p])
BY DEF IInv, Shape, Calls

\* A call that returns, and holds the mutex no longer, leaves its fetcher in order.
LEMMA ReturnOK ==
    ASSUME IInv, NEW i \in DOMAIN fetchers, NEW p \in Procs, NEW ok \in BOOLEAN,
           NEW f \in FetcherRec, FetcherOK(f), f.mux # p, f.hash = fetchers[i].hash,
           \A q \in Procs \ {p} : (f.mux = q) = (fetchers[i].mux = q),
           fetchers' = [fetchers EXCEPT ![i] = f], Return(i, p, ok)
    PROVE  Shape' /\ Calls'
<1>1. PICK at \in {"done", "update", "idle"} : Returned(i, p, ok) = Idle(at)
  BY DEF Returned
<1>2. Idle(at) \in CallRec /\ CallOK(f, p, Idle(at))
  BY NewTypes, IdleOK DEF Labels
<1>3. call' = [call EXCEPT ![i][p] = Idle(at)]
  BY <1>1 DEF Return
<1>4. QED BY <1>2, <1>3, Replace DEF IInv

\* The same for a call that does not hold the mutex.
LEMMA ReturnUnlockedOK ==
    ASSUME IInv, NEW i \in DOMAIN fetchers, NEW p \in Procs, NEW ok \in BOOLEAN,
           call[i][p].at \notin Holding, UNCHANGED fetchers, Return(i, p, ok)
    PROVE  Shape' /\ Calls'
<1>1. fetchers' = [fetchers EXCEPT ![i] = fetchers[i]]
  BY DEF IInv, Shape
<1>2. fetchers[i].mux # p
  BY Facts DEF CallOK
<1>3. QED BY <1>1, <1>2, Facts, ReturnOK

\* The fetcher after a call has let the mutex go: no other call holds it.
LEMMA Unlocked ==
    ASSUME IInv, NEW i \in DOMAIN fetchers, NEW p \in Procs, call[i][p].at \in Holding
    PROVE  /\ None # p
           /\ \A q \in Procs \ {p} : (None = q) = (fetchers[i].mux = q)
<1>1. fetchers[i].mux = p
  BY Facts DEF CallOK
<1>2. QED BY <1>1, FetcherAssumption

-----------------------------------------------------------------------------
(* One lemma per action.                                                    *)

\* Initial reads the file.
LEMMA InitialFileStep ==
    ASSUME IInv, NEW i \in DOMAIN fetchers, InitialFile(i) PROVE IInv'
<1>1. fetchers[i].mux # "initial"
  BY Facts DEF InitialFile, At, CallOK, Procs, Holding
<1>2. Stores' /\ UNCHANGED fetchers
  BY DEF InitialFile, IInv, Stores
<1>3. CASE file = None
  <2>1. Idle("update") \in CallRec /\ CallOK(fetchers[i], "initial", Idle("update"))
    BY <1>1, NewTypes, IdleOK DEF Labels
  <2>2. call' = [call EXCEPT ![i]["initial"] = Idle("update")]
    BY <1>3 DEF InitialFile
  <2>3. Shape' /\ Calls'
    BY <1>2, <2>1, <2>2, ReplaceCall DEF IInv, Procs
  <2>4. QED BY <1>2, <2>3 DEF IInv
<1>4. CASE file # None
  <2> DEFINE c == [Idle("load") EXCEPT !.buf = file, !.hash = file]
  <2>1. c \in CallRec /\ CallOK(fetchers[i], "initial", c)
    BY <1>1, FetcherAssumption
    DEF IInv, Stores, Idle, CallRec, Labels, CallOK, Holding, Good, Read
  <2>2. call' = [call EXCEPT ![i]["initial"] = c]
    BY <1>4 DEF InitialFile
  <2>3. Shape' /\ Calls'
    BY <1>2, <2>1, <2>2, ReplaceCall DEF IInv, Procs
  <2>4. QED BY <1>2, <2>3 DEF IInv
<1>5. QED BY <1>3, <1>4

\* Initial cannot read the file, or not the whole of it.
LEMMA InitialFileFailsStep ==
    ASSUME IInv, NEW i \in DOMAIN fetchers, InitialFileFails(i) PROVE IInv'
<1>1. fetchers[i].mux # "initial"
  BY Facts DEF InitialFileFails, At, CallOK, Procs, Holding
<1>2. Stores' /\ UNCHANGED fetchers
  BY DEF InitialFileFails, IInv, Stores
<1>3. PICK part \in {None, Torn} :
         call' = [call EXCEPT ![i]["initial"] = [Idle("load") EXCEPT !.buf = part, !.hash = part]]
  BY DEF InitialFileFails
<1> DEFINE c == [Idle("load") EXCEPT !.buf = part, !.hash = part]
<1>4. c \in CallRec /\ CallOK(fetchers[i], "initial", c)
  BY <1>1 DEF Idle, CallRec, Labels, CallOK, Holding, Read
<1>5. Shape' /\ Calls'
  BY <1>2, <1>3, <1>4, ReplaceCall DEF IInv, Procs
<1>6. QED BY <1>2, <1>5 DEF IInv

\* Only a call that does not hold the mutex may begin an update.
LEMMA MayUpdateUnlocked ==
    ASSUME IInv, NEW i \in DOMAIN fetchers, NEW p \in Procs, MayUpdate(i, p)
    PROVE  fetchers[i].mux # p
<1>1. call[i][p].at \in {"update", "idle"}
  BY DEF MayUpdate, At, Procs
<1>2. QED BY <1>1, Facts DEF CallOK, Holding

\* A request is sent, with the ETag of the document that the fetcher has, or with none.
LEMMA SendStep ==
    ASSUME IInv, NEW i \in DOMAIN fetchers, NEW p \in Procs, Send(i, p) PROVE IInv'
<1> DEFINE c == [Idle("sent") EXCEPT !.old = fetchers[i].hash, !.write = TRUE,
                                     !.match = IfNoneMatch(fetchers[i].hash)]
<1>1. fetchers[i].mux # p
  BY MayUpdateUnlocked DEF Send
<1>2. fetchers[i].hash \in Read
  BY Facts DEF FetcherRec
<1>3. IfNoneMatch(fetchers[i].hash) \in {None, fetchers[i].hash}
  BY DEF IfNoneMatch
<1>4. c \in CallRec /\ CallOK(fetchers[i], p, c)
  <2> HIDE DEF IfNoneMatch
  <2>1. QED BY <1>1, <1>2, <1>3 DEF Idle, CallRec, Labels, CallOK, Holding, Read, Keeps
<1>5. call' = [call EXCEPT ![i][p] = c] /\ UNCHANGED fetchers /\ Stores'
  BY DEF Send, IInv, Stores
<1>6. Shape' /\ Calls'
  BY <1>4, <1>5, ReplaceCall DEF IInv
<1>7. QED BY <1>5, <1>6 DEF IInv

\* The server answers with its document, or that the one of the request is current.
LEMMA AnswerStep ==
    ASSUME IInv, NEW i \in DOMAIN fetchers, NEW p \in Procs, Answer(i, p) PROVE IInv'
<1> DEFINE c == call[i][p]
<1>1. /\ fetchers[i].mux # p /\ c \in CallRec /\ CallOK(fetchers[i], p, c) /\ c.at = "sent"
      /\ c.old \in Read /\ server \in Docs /\ server # None
  BY Facts, FetcherAssumption DEF Answer, At, CallOK, CallRec, Holding, IInv, Stores
<1>2. UNCHANGED fetchers /\ Stores'
  BY DEF Answer, IInv, Stores
<1>3. CASE c.match = server
  <2> DEFINE d == [c EXCEPT !.at = "load", !.old = None, !.hash = c.old, !.seen = server]
  <2>1. d \in CallRec /\ CallOK(fetchers[i], p, d)
    <3>1. c.match = c.old /\ c.match # None /\ Keeps(fetchers[i], c, c.match)
      BY <1>1, <1>3 DEF CallOK
    <3>2. /\ d \in CallRec /\ d.at = "load" /\ d.hash = c.match /\ d.seen = server
          /\ d.match = c.match /\ d.overtaken = c.overtaken /\ d.buf = c.buf
      BY <1>1, <3>1 DEF CallRec, Labels, Read
    <3>3. c.buf = None
      BY <1>1 DEF CallOK
    <3> HIDE DEF d, c
    <3>4. QED BY <1>1, <1>3, <3>1, <3>2, <3>3 DEF CallOK, Holding, Keeps
  <2>2. call' = [call EXCEPT ![i][p] = d]
    BY <1>3 DEF Answer
  <2>3. Shape' /\ Calls'
    BY <1>2, <2>1, <2>2, ReplaceCall DEF IInv
  <2>4. QED BY <1>2, <2>3 DEF IInv
<1>4. CASE c.match # server
  <2> DEFINE d == [Idle("answered") EXCEPT !.buf = server, !.hash = server, !.write = TRUE,
                                           !.seen = server]
  <2>1. d \in CallRec /\ CallOK(fetchers[i], p, d)
    BY <1>1 DEF Idle, CallRec, Labels, CallOK, Holding, Read
  <2>2. call' = [call EXCEPT ![i][p] = d]
    BY <1>4 DEF Answer
  <2>3. Shape' /\ Calls'
    BY <1>2, <2>1, <2>2, ReplaceCall DEF IInv
  <2>4. QED BY <1>2, <2>3 DEF IInv
<1>5. QED BY <1>3, <1>4

\* The vehicle stores the ETag and hands the document to loadBuf.
LEMMA ReceiveStep ==
    ASSUME IInv, NEW i \in DOMAIN fetchers, NEW p \in Procs, Receive(i, p) PROVE IInv'
<1> DEFINE c == [call[i][p] EXCEPT !.at = "load"]
<1>1. call[i][p] \in CallRec /\ CallOK(fetchers[i], p, call[i][p]) /\ call[i][p].at = "answered"
  BY Facts DEF Receive, At
<1>2. c \in CallRec /\ CallOK(fetchers[i], p, c)
  BY <1>1, FetcherAssumption DEF CallRec, Labels, CallOK, Holding
<1>3. call' = [call EXCEPT ![i][p] = c] /\ UNCHANGED fetchers
  BY DEF Receive
<1>4. Shape' /\ Calls'
  BY <1>2, <1>3, ReplaceCall DEF IInv
<1>5. Stores'
  BY <1>1 DEF Receive, IInv, Stores, CallOK
<1>6. QED BY <1>4, <1>5 DEF IInv

\* The ETag is not stored, and the document is handed to loadBuf all the same.
LEMMA ReceiveUntaggedStep ==
    ASSUME IInv, NEW i \in DOMAIN fetchers, NEW p \in Procs, ReceiveUntagged(i, p) PROVE IInv'
<1> DEFINE c == [call[i][p] EXCEPT !.at = "load"]
<1>1. call[i][p] \in CallRec /\ CallOK(fetchers[i], p, call[i][p]) /\ call[i][p].at = "answered"
  BY Facts DEF ReceiveUntagged, At
<1>2. c \in CallRec /\ CallOK(fetchers[i], p, c)
  BY <1>1, FetcherAssumption DEF CallRec, Labels, CallOK, Holding
<1>3. call' = [call EXCEPT ![i][p] = c] /\ UNCHANGED fetchers /\ Stores'
  BY DEF ReceiveUntagged, IInv, Stores
<1>4. Shape' /\ Calls'
  BY <1>2, <1>3, ReplaceCall DEF IInv
<1>5. QED BY <1>3, <1>4 DEF IInv

\* The request fails.
LEMMA ReadErrorStep ==
    ASSUME IInv, NEW i \in DOMAIN fetchers, NEW p \in Procs, ReadError(i, p) PROVE IInv'
<1>1. call[i][p].at \notin Holding /\ UNCHANGED fetchers /\ Return(i, p, FALSE) /\ Stores'
  BY DEF ReadError, At, Holding, IInv, Stores
<1>2. QED BY <1>1, ReturnUnlockedOK DEF IInv

\* loadBuf finds that the document has not changed.
LEMMA LoadSameStep ==
    ASSUME IInv, NEW i \in DOMAIN fetchers, NEW p \in Procs, LoadSame(i, p) PROVE IInv'
<1>1. call[i][p].at \notin Holding /\ UNCHANGED fetchers /\ Return(i, p, TRUE) /\ Stores'
  BY DEF LoadSame, Loads, At, Holding, IInv, Stores
<1>2. QED BY <1>1, ReturnUnlockedOK DEF IInv

\* The parser rejects what was read.
LEMMA ParseErrorStep ==
    ASSUME IInv, NEW i \in DOMAIN fetchers, NEW p \in Procs, ParseError(i, p) PROVE IInv'
<1>1. call[i][p].at \notin Holding /\ UNCHANGED fetchers /\ Return(i, p, FALSE) /\ Stores'
  BY DEF ParseError, Fresh, Loads, At, Holding, IInv, Stores
<1>2. QED BY <1>1, ReturnUnlockedOK DEF IInv

\* The parser accepts the document, and the call takes the mutex, which nobody holds.
LEMMA ParsedStep ==
    ASSUME IInv, NEW i \in DOMAIN fetchers, NEW p \in Procs, Parsed(i, p) PROVE IInv'
<1> DEFINE f  == [fetchers[i] EXCEPT !.mux = p]
           at == IF call[i][p].write THEN "write" ELSE "install"
           c  == [call[i][p] EXCEPT !.at = at]
<1>1. /\ call[i][p] \in CallRec /\ CallOK(fetchers[i], p, call[i][p])
      /\ fetchers[i] \in FetcherRec /\ FetcherOK(fetchers[i])
  BY Facts
<1>2. /\ call[i][p].at = "load" /\ fetchers[i].mux = None
      /\ call[i][p].buf # None /\ call[i][p].buf \in Parses
  BY DEF Parsed, Fresh, Loads, At
<1>3. at \in {"write", "install"}
  OBVIOUS
<1>4. f \in FetcherRec /\ FetcherOK(f) /\ f.mux = p /\ f.hash = fetchers[i].hash
  BY <1>1 DEF FetcherRec, FetcherOK
<1>5. /\ c \in CallRec /\ c.at = at /\ c.buf = call[i][p].buf /\ c.hash = call[i][p].hash
      /\ c.write = call[i][p].write /\ c.seen = call[i][p].seen
  <2> HIDE DEF at
  <2>1. QED BY <1>1, <1>3 DEF CallRec, Labels
<1>6. CallOK(f, p, c)
  <2>1. /\ call[i][p].buf = call[i][p].hash
        /\ call[i][p].write => call[i][p].buf = call[i][p].seen
    BY <1>1, <1>2 DEF CallOK
  <2> HIDE DEF f, c, at
  <2>2. QED BY <1>2, <1>3, <1>4, <1>5, <2>1 DEF CallOK, Holding
<1>7. \A q \in Procs \ {p} : (f.mux = q) = (fetchers[i].mux = q)
  BY <1>2, <1>4, FetcherAssumption
<1>8. fetchers' = [fetchers EXCEPT ![i] = f] /\ call' = [call EXCEPT ![i][p] = c] /\ Stores'
  BY DEF Parsed, Locked, IInv, Stores
<1>9. Shape' /\ Calls'
  <2> HIDE DEF f, c
  <2>1. QED BY <1>4, <1>5, <1>6, <1>7, <1>8, Replace DEF IInv
<1>10. QED BY <1>8, <1>9 DEF IInv

\* The file is truncated; every call that is writing it learns that it is not alone.
LEMMA WriteBeginStep ==
    ASSUME IInv, NEW i \in DOMAIN fetchers, NEW p \in Procs, WriteBegin(i, p) PROVE IInv'
<1> DEFINE new(j, r) ==
             CASE <<j, r>> = <<i, p>>   -> [call[i][p] EXCEPT !.at = "writing", !.mixed = Writing # {}]
               [] <<j, r>> \in Writing  -> [call[j][r] EXCEPT !.mixed = TRUE]
               [] OTHER                 -> call[j][r]
<1>1. UNCHANGED fetchers /\ Stores' /\ call[i][p].at = "write"
  BY DEF WriteBegin, IInv, Stores, At
<1>2. call' = [j \in DOMAIN call |-> [r \in Procs |-> new(j, r)]]
  BY DEF WriteBegin
<1>3. ASSUME NEW j \in DOMAIN fetchers, NEW r \in Procs
      PROVE  new(j, r) \in CallRec /\ CallOK(fetchers[j], r, new(j, r))
  <2>1. call[j][r] \in CallRec /\ CallOK(fetchers[j], r, call[j][r])
    BY Facts
  <2>2. CASE j = i /\ r = p
    <3>1. new(j, r) = [call[i][p] EXCEPT !.at = "writing", !.mixed = Writing # {}]
      BY <1>1, <2>2 DEF Writing, At
    <3>2. (Writing # {}) \in BOOLEAN
      OBVIOUS
    <3>3. QED BY <1>1, <2>1, <2>2, <3>1, <3>2 DEF CallRec, Labels, CallOK, Holding
  <2>3. CASE ~(j = i /\ r = p) /\ <<j, r>> \in Writing
    <3>1. new(j, r) = [call[j][r] EXCEPT !.mixed = TRUE]
      BY <2>3
    <3>2. ASSUME NEW c \in CallRec PROVE [c EXCEPT !.mixed = TRUE] \in CallRec
      BY DEF CallRec
    <3> HIDE DEF new
    <3>3. PICK c : c = call[j][r]
      OBVIOUS
    <3>4. PICK d : d = new(j, r)
      OBVIOUS
    <3>5. /\ d.at = c.at /\ d.buf = c.buf /\ d.hash = c.hash /\ d.old = c.old
          /\ d.match = c.match /\ d.write = c.write /\ d.seen = c.seen /\ d.overtaken = c.overtaken
      <4>1. c \in CallRec /\ d = [c EXCEPT !.mixed = TRUE]
        BY <2>1, <3>1, <3>3, <3>4
      <4>2. QED BY <4>1 DEF CallRec
    <3>6. CallOK(fetchers[j], r, d)
      BY <2>1, <3>3, <3>5 DEF CallOK, Keeps
    <3>7. new(j, r) \in CallRec
      BY <2>1, <3>1, <3>2
    <3>8. QED BY <3>4, <3>6, <3>7
  <2>4. CASE ~(j = i /\ r = p) /\ <<j, r>> \notin Writing
    <3>1. new(j, r) = call[j][r]
      BY <2>4
    <3>2. QED BY <2>1, <3>1
  <2>5. QED BY <2>2, <2>3, <2>4
<1>4. DOMAIN call = 1..Len(call) /\ DOMAIN fetchers = 1..Len(fetchers) /\ Len(call) = Len(fetchers)
  BY DEF IInv, Shape
<1> HIDE DEF new
<1>5. ASSUME NEW j \in 1..Len(call) PROVE call'[j] = [r \in Procs |-> new(j, r)]
  BY <1>2, <1>4
<1>6. ASSUME NEW j \in 1..Len(call) PROVE [r \in Procs |-> new(j, r)] \in [Procs -> CallRec]
  BY <1>3, <1>4
<1>7. call' \in [1..Len(call) -> [Procs -> CallRec]]
  BY <1>2, <1>4, <1>6
<1>8. Len(call) \in Nat
  BY DEF IInv, Shape
<1>9. call' \in Seq([Procs -> CallRec]) /\ Len(call') = Len(call)
  BY <1>7, <1>8
<1>10. Shape'
  BY <1>1, <1>9 DEF IInv, Shape
<1>11. Calls'
  <2>1. ASSUME NEW j \in DOMAIN fetchers
        PROVE  FetcherOK(fetchers[j]) /\ \A r \in Procs : CallOK(fetchers[j], r, call'[j][r])
    BY <1>3, <1>4, <1>5 DEF IInv, Calls
  <2>2. QED BY <1>1, <2>1 DEF Calls
<1>12. QED BY <1>1, <1>10, <1>11 DEF IInv

\* The file is written, wholly or, when two calls write it, perhaps not.
LEMMA WriteEndStep ==
    ASSUME IInv, NEW i \in DOMAIN fetchers, NEW p \in Procs, WriteEnd(i, p) PROVE IInv'
<1> DEFINE c == [call[i][p] EXCEPT !.at = "install"]
<1>1. call[i][p] \in CallRec /\ CallOK(fetchers[i], p, call[i][p]) /\ call[i][p].at = "writing"
  BY Facts DEF WriteEnd, At
<1>2. c \in CallRec /\ CallOK(fetchers[i], p, c)
  BY <1>1 DEF CallRec, Labels, CallOK, Holding
<1>3. call' = [call EXCEPT ![i][p] = c] /\ UNCHANGED fetchers
  BY DEF WriteEnd
<1>4. Shape' /\ Calls'
  BY <1>2, <1>3, ReplaceCall DEF IInv
<1>5. call[i][p].buf \in Good \cup {Torn}
  BY <1>1 DEF CallOK, Holding, Parses
<1>6. file' \in {call[i][p].buf, Torn}
  BY DEF WriteEnd
<1>7. Stores'
  BY <1>5, <1>6 DEF WriteEnd, IInv, Stores
<1>8. QED BY <1>4, <1>7 DEF IInv

\* The file cannot be written: the mutex is released, and the fetcher is as it was.
LEMMA WriteErrorStep ==
    ASSUME IInv, NEW i \in DOMAIN fetchers, NEW p \in Procs, WriteError(i, p) PROVE IInv'
<1> DEFINE f == [fetchers[i] EXCEPT !.mux = None]
<1>1. call[i][p].at \in Holding
  BY DEF WriteError, At, Holding
<1>2. fetchers[i] \in FetcherRec /\ FetcherOK(fetchers[i])
  BY Facts
<1>3. f \in FetcherRec /\ FetcherOK(f) /\ f.mux = None /\ f.hash = fetchers[i].hash
  BY <1>2 DEF FetcherRec, FetcherOK
<1>4. fetchers' = [fetchers EXCEPT ![i] = f] /\ Return(i, p, FALSE) /\ Stores'
  BY DEF WriteError, IInv, Stores
<1>5. Shape' /\ Calls'
  <2> HIDE DEF f
  <2>1. QED BY <1>1, <1>3, <1>4, Unlocked, ReturnOK
<1>6. QED BY <1>4, <1>5 DEF IInv

\* The hash and the contents change together, to what this call has read and parsed; the
\* calls that wait for a "not modified" are overtaken.
LEMMA InstallStep ==
    ASSUME IInv, NEW i \in DOMAIN fetchers, NEW p \in Procs, Install(i, p) PROVE IInv'
<1> DEFINE f == [fetchers[i] EXCEPT !.hash = call[i][p].hash, !.contents = call[i][p].buf,
                                    !.mux = None]
           new == [r \in Procs |-> IF r = p THEN Returned(i, p, TRUE) ELSE Overtaken(call[i][r])]
<1>1. call[i][p].at \in Holding
  BY DEF Install, At, Holding
<1>2. fetchers[i] \in FetcherRec /\ call[i][p].buf \in Parses /\ call[i][p].hash = call[i][p].buf
  BY <1>1, Facts DEF CallOK
<1>3. f \in FetcherRec /\ FetcherOK(f) /\ f.mux = None
  BY <1>2 DEF FetcherRec, FetcherOK, Good, Parses, Read
<1>4. fetchers' = [fetchers EXCEPT ![i] = f] /\ call' = [call EXCEPT ![i] = new] /\ Stores'
  BY DEF Install, IInv, Stores
<1> HIDE DEF f
<1>5. ASSUME NEW r \in Procs PROVE new[r] \in CallRec /\ CallOK(f, r, new[r])
  <2>1. CASE r = p
    <3>1. PICK at \in {"done", "update", "idle"} : Returned(i, p, TRUE) = Idle(at)
      BY DEF Returned
    <3>2. f.mux # p
      BY <1>1, <1>3, Unlocked
    <3>3. Idle(at) \in CallRec /\ CallOK(f, p, Idle(at))
      BY <3>2, NewTypes, IdleOK DEF Labels
    <3>4. QED BY <2>1, <3>1, <3>3
  <2>2. CASE r # p
    <3> DEFINE c == call[i][r]
               d == [c EXCEPT !.overtaken = (c.match # None)]
    <3>1. c \in CallRec /\ CallOK(fetchers[i], r, c)
      BY Facts
    <3>2. (c.match # None) \in BOOLEAN
      OBVIOUS
    <3>3. d \in CallRec
      BY <3>1, <3>2 DEF CallRec
    <3>4. /\ d.at = c.at /\ d.old = c.old /\ d.match = c.match /\ d.buf = c.buf /\ d.hash = c.hash
          /\ d.write = c.write /\ d.seen = c.seen
      BY <3>1 DEF CallRec
    <3>5. c.match # None => d.overtaken
      BY <3>1 DEF CallRec
    <3>6. c.at \notin Holding /\ f.mux # r
      <4>1. fetchers[i].mux # r /\ f.mux # r
        <5>1. None # r /\ (None = r) = (fetchers[i].mux = r)
          BY <1>1, <2>2, Unlocked, FetcherAssumption
        <5>2. QED BY <1>3, <5>1
      <4>2. QED BY <3>1, <4>1 DEF CallOK
    <3>7. new[r] = d
      BY <2>2 DEF Overtaken
    <3> HIDE DEF d, c, new
    <3>8. CallOK(f, r, d)
      BY <3>1, <3>4, <3>5, <3>6 DEF CallOK, Keeps
    <3>9. QED BY <3>3, <3>7, <3>8
  <2>3. QED BY <2>1, <2>2
<1>6. new \in [Procs -> CallRec]
  BY <1>5
<1> HIDE DEF new
<1>7. Shape'
  BY <1>3, <1>4, <1>6 DEF IInv, Shape
<1>8. ASSUME NEW j \in DOMAIN fetchers'
      PROVE  FetcherOK(fetchers'[j]) /\ \A q \in Procs : CallOK(fetchers'[j], q, call'[j][q])
  <2>1. j \in DOMAIN fetchers /\ DOMAIN call = DOMAIN fetchers
    BY <1>4 DEF IInv, Shape
  <2>2. CASE j = i
    <3>1. fetchers'[j] = f /\ call'[j] = new
      BY <1>4, <2>1, <2>2
    <3>2. QED BY <1>3, <1>5, <3>1
  <2>3. CASE j # i
    <3>1. fetchers'[j] = fetchers[j] /\ call'[j] = call[j]
      BY <1>4, <2>1, <2>3
    <3>2. QED BY <2>1, <3>1 DEF IInv, Calls
  <2>4. QED BY <2>2, <2>3
<1>9. QED BY <1>4, <1>7, <1>8 DEF IInv, Calls

\* A new configuration adds a fetcher.
LEMMA ReloadStep == ASSUME IInv, Reload PROVE IInv'
<1>1. fetchers' = Append(fetchers, NewFetcher) /\ call' = Append(call, NewCalls) /\ Stores'
  BY DEF Reload, IInv, Stores
<1>2. Shape'
  BY <1>1, NewTypes DEF IInv, Shape
<1>3. ASSUME NEW j \in DOMAIN fetchers'
      PROVE  FetcherOK(fetchers'[j]) /\ \A q \in Procs : CallOK(fetchers'[j], q, call'[j][q])
  <2>1. CASE j \in DOMAIN fetchers
    <3>1. fetchers'[j] = fetchers[j] /\ call'[j] = call[j]
      BY <1>1, <2>1, NewTypes DEF IInv, Shape
    <3>2. QED BY <2>1, <3>1 DEF IInv, Calls
  <2>2. CASE j \notin DOMAIN fetchers
    <3>1. fetchers'[j] = NewFetcher /\ call'[j] = NewCalls
      BY <1>1, <2>2, NewTypes DEF IInv, Shape
    <3>2. QED BY <3>1, NewOK
  <2>3. QED BY <2>1, <2>2
<1>4. QED BY <1>1, <1>2, <1>3 DEF IInv, Calls

\* A finalizer closes an old fetcher.
LEMMA CloseStep ==
    ASSUME IInv, NEW i \in DOMAIN fetchers, Close(i) PROVE IInv'
<1> DEFINE f == [fetchers[i] EXCEPT !.closed = TRUE]
           p == "pull"
<1>1. /\ fetchers[i] \in FetcherRec /\ FetcherOK(fetchers[i])
      /\ call[i][p] \in CallRec /\ CallOK(fetchers[i], p, call[i][p])
      /\ i \in 1..Len(call) /\ call[i] \in [Procs -> CallRec]
  BY Facts DEF Procs
<1>2. f \in FetcherRec /\ FetcherOK(f) /\ f.mux = fetchers[i].mux /\ f.hash = fetchers[i].hash
  BY <1>1 DEF FetcherRec, FetcherOK
<1>3. CallOK(f, p, call[i][p])
  <2> HIDE DEF f
  <2>1. QED BY <1>1, <1>2 DEF CallOK, Keeps
<1>4. fetchers' = [fetchers EXCEPT ![i] = f] /\ UNCHANGED call /\ Stores'
  BY DEF Close, IInv, Stores
<1>5. call' = [call EXCEPT ![i][p] = call[i][p]]
  BY <1>1, <1>4 DEF IInv, Shape
<1>6. Shape' /\ Calls'
  <2> HIDE DEF f
  <2>1. QED BY <1>1, <1>2, <1>3, <1>4, <1>5, Replace DEF IInv, Procs
<1>7. QED BY <1>4, <1>6 DEF IInv

\* One fetcher that has not begun is in order: the first state, and that after a kill.
LEMMA FirstOK ==
    ASSUME fetchers = <<NewFetcher>>, call = <<NewCalls>> PROVE Shape /\ Calls
<1>1. Shape
  BY NewTypes DEF Shape
<1>2. \A i \in DOMAIN fetchers : fetchers[i] = NewFetcher /\ call[i] = NewCalls
  OBVIOUS
<1>3. QED BY <1>1, <1>2, NewOK DEF Calls

\* After a kill there is one new fetcher; file and ETag stay.
LEMMA KillStep == ASSUME IInv, Kill PROVE IInv'
<1>1. fetchers' = <<NewFetcher>> /\ call' = <<NewCalls>> /\ Stores'
  BY DEF Kill, IInv, Stores
<1>2. Shape'
  BY <1>1, NewTypes DEF Shape
<1>3. \A i \in DOMAIN fetchers' : fetchers'[i] = NewFetcher /\ call'[i] = NewCalls
  BY <1>1
<1>4. QED BY <1>1, <1>2, <1>3, NewOK DEF IInv, Calls

\* Nothing in IInv speaks of the document of the server.
LEMMA ServerChangesStep == ASSUME IInv, ServerChanges PROVE IInv'
<1>1. UNCHANGED <<tag, file, fetchers, call>> /\ server' \in Docs
  BY DEF ServerChanges
<1>2. QED BY <1>1 DEF IInv, Shape, Stores, Calls

-----------------------------------------------------------------------------
(* The theorems.                                                            *)

\* IInv holds initially.
LEMMA InitIInv == Init => IInv
<1> SUFFICES ASSUME Init PROVE IInv
  OBVIOUS
<1>1. Stores
  BY DEF Init, Stores
<1>2. Shape /\ Calls
  BY FirstOK DEF Init
<1>3. QED BY <1>1, <1>2 DEF IInv

\* Every step keeps IInv.
LEMMA NextIInv == IInv /\ [Next]_vars => IInv'
<1> SUFFICES ASSUME IInv, [Next]_vars PROVE IInv'
  OBVIOUS
<1>1. ASSUME NEW i \in DOMAIN fetchers, NEW p \in Procs, Works(i, p) PROVE IInv'
  BY <1>1, SendStep, AnswerStep, ReceiveStep, LoadSameStep, ParseErrorStep, ParsedStep,
     WriteBeginStep, WriteEndStep, InstallStep DEF Works, Finishes
<1>2. CASE Step
  BY <1>1, <1>2, InitialFileStep, CloseStep DEF Step
<1>3. CASE Failure
  BY <1>3, InitialFileFailsStep, ReadErrorStep, ReceiveUntaggedStep, WriteErrorStep
  DEF Failure, Fails
<1>4. CASE UNCHANGED vars
  BY <1>4 DEF vars, IInv, Shape, Stores, Calls
<1>5. QED
  BY <1>2, <1>3, <1>4, ReloadStep, KillStep, ServerChangesStep DEF Next

\* The inductive invariant: whatever the order of requests, answers, failures, reloads and
\* kills, every call and every fetcher are in order.
THEOREM Invariance == Spec => []IInv
<1>1. QED BY InitIInv, NextIInv, PTL DEF Spec

\* Type correctness, and mutual exclusion in loadBuf: the mutex of a fetcher is held by exactly
\* the call that is between the parser and onUpdate.
THEOREM TypesCorrect == Spec => []TypeOK
<1>1. IInv => TypeOK
  <2> SUFFICES ASSUME IInv PROVE TypeOK
    OBVIOUS
  <2>1. server \in Docs /\ tag \in Docs \cup {None} /\ file \in Docs \cup {None, Torn}
    BY DEF IInv, Stores, Good
  <2>2. ASSUME NEW i \in DOMAIN fetchers
        PROVE  fetchers[i].hash \in Docs \cup {None, Torn} /\ fetchers[i].mux \in Procs \cup {None}
    <3>1. fetchers[i] \in FetcherRec
      BY DEF IInv, Shape
    <3>2. QED BY <3>1 DEF FetcherRec, Read
  <2>3. ASSUME NEW i \in DOMAIN fetchers, NEW p \in Procs
        PROVE  (fetchers[i].mux = p) = (call[i][p].at \in {"write", "writing", "install"})
    BY Facts DEF CallOK, Holding
  <2>4. QED BY <2>1, <2>2, <2>3 DEF TypeOK
<1>2. QED BY <1>1, Invariance, PTL

\* What onUpdate was given last is what the hash of the fetcher says, and the parser took it.
THEOREM ContentsCorrect == Spec => []ContentsAreHash
<1>1. IInv => ContentsAreHash
  BY DEF IInv, Calls, FetcherOK, ContentsAreHash
<1>2. QED BY <1>1, Invariance, PTL

\* No document that the parser rejects is ever written to the file.
THEOREM FileCorrect == Spec => []FileParses
<1>1. IInv => FileParses
  BY DEF IInv, Stores, FileParses
<1>2. QED BY <1>1, Invariance, PTL

-----------------------------------------------------------------------------
\* An update that ends without an error leaves the provider with the document that the server
\* had when it answered, or another update of the fetcher has overtaken it.
THEOREM SuccessCorrect == Spec => SuccessIsFresh
<1> DEFINE P == \A i \in DOMAIN fetchers, p \in Procs :
                   call[i][p].write /\ (LoadSame(i, p) \/ Install(i, p)) =>
                      fetchers'[i].contents = call[i][p].seen \/ call[i][p].overtaken
<1>1. IInv => P
  <2> SUFFICES ASSUME IInv, NEW i \in DOMAIN fetchers, NEW p \in Procs,
                      call[i][p].write, LoadSame(i, p) \/ Install(i, p)
               PROVE  fetchers'[i].contents = call[i][p].seen \/ call[i][p].overtaken
    OBVIOUS
  <2>1. CallOK(fetchers[i], p, call[i][p]) /\ FetcherOK(fetchers[i]) /\ fetchers[i] \in FetcherRec
    BY Facts
  <2>2. CASE LoadSame(i, p)
    <3>1. /\ fetchers'[i].contents = fetchers[i].hash /\ call[i][p].at = "load"
          /\ call[i][p].hash = fetchers[i].hash \/ call[i][p].buf = None
      BY <2>1, <2>2 DEF LoadSame, Loads, At, FetcherOK
    <3>2. CASE call[i][p].buf = None
      BY <2>1, <3>1, <3>2 DEF CallOK, Keeps
    <3>3. CASE call[i][p].buf # None
      BY <2>1, <3>1, <3>3 DEF CallOK
    <3>4. QED BY <3>2, <3>3
  <2>3. CASE Install(i, p)
    <3>1. call[i][p].buf = call[i][p].seen
      BY <2>1, <2>3 DEF CallOK, Install, At, Holding
    <3>2. fetchers'[i] = [fetchers[i] EXCEPT !.hash = call[i][p].hash,
                                             !.contents = call[i][p].buf, !.mux = None]
      BY <2>3 DEF Install, IInv, Shape
    <3>3. fetchers'[i].contents = call[i][p].buf
      BY <2>1, <3>2 DEF FetcherRec
    <3>4. QED BY <3>1, <3>3
  <2>4. QED BY <2>2, <2>3
<1>2. IInv => [P]_vars
  BY <1>1
<1>3. QED BY <1>2, Invariance, PTL DEF SuccessIsFresh
=============================================================================
