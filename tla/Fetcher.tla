------------------------------- MODULE Fetcher -------------------------------
(***************************************************************************)
(* component/resource: the fetcher of a proxy or rule provider that is     *)
(* downloaded.  It keeps a copy of the document in a file, remembers the   *)
(* ETag of the last response in the cache file, and is asked for updates   *)
(* by its own pull loop and by the REST interface, also while it is being  *)
(* initialised.                                                            *)
(*                                                                         *)
(* Documents stand for their hashes.  The ETag of a server names its       *)
(* document.  When timers fire is left open, so the interval, the times of *)
(* the last update and the backoff are left out, and so is the bundle      *)
(* file, which proxy providers do not have.                                *)
(***************************************************************************)
EXTENDS Naturals, Sequences

CONSTANTS
    Docs,           \* what the server may have at the URL
    Bad,            \* the documents that the parser rejects
    None,
    MaxFetchers     \* fetchers in the life of a process

\* The goroutines that use a fetcher: Initial, pullLoop, and the REST interface.
Procs == {"initial", "pull", "rest"}

ASSUME FetcherAssumption ==
    Bad \subseteq Docs /\ None \notin Docs \cup Procs /\ MaxFetchers \in Nat \ {0}

Torn == "torn"      \* a file that was truncated and not yet, or not wholly, written or read
Good == Docs \ Bad

\* What the parser may accept: part of a YAML document or of a list may make sense or not.
Parses == Good \cup {Torn}

VARIABLES
    etag,       \* resource.etag: ETags are used
    server,     \* the document of the server
    tag,        \* EtagWithHash in the cache file: the document of hash and ETag
    file,       \* vehicle.Path()
    fetchers,   \* of the configurations loaded so far: [hash, contents, mux, closed];
                \* contents is what onUpdate was given last
    call        \* fetcher -> goroutine -> its Update or loadBuf in progress

vars == <<etag, server, tag, file, fetchers, call>>

NewFetcher == [hash |-> None, contents |-> None, mux |-> None, closed |-> FALSE]

\* at: the label; old: the hash that the vehicle was given; match: If-None-Match; buf and
\* hash: what was read; write: updateFile; mixed: another fetcher has written the file
\* at the same time.  Two are history and change nothing: seen, the document that the server
\* had when it answered, and overtaken, that another call on the fetcher has put a document
\* in since a request with an ETag was sent.
Idle(at) == [at |-> at, old |-> None, match |-> None, buf |-> None, hash |-> None,
             write |-> FALSE, mixed |-> FALSE, seen |-> None, overtaken |-> FALSE]

Current == Len(fetchers)

At(i, p, label) == call[i][p].at = label

\* Where a goroutine goes on when Update or loadBuf has returned.
Returned(i, p, ok) ==
    Idle(IF p = "initial" THEN (IF ok \/ call[i][p].write THEN "done" ELSE "update") ELSE "idle")

Return(i, p, ok) == call' = [call EXCEPT ![i][p] = Returned(i, p, ok)]

-----------------------------------------------------------------------------
(* Initial reads the file first.  It drops the error of reading it: what it *)
(* has read by then, perhaps nothing, goes to loadBuf like a whole file.    *)

InitialFile(i) ==
    /\ At(i, "initial", "stat")
    /\ call' = [call EXCEPT ![i]["initial"] =
                  IF file = None THEN Idle("update")
                  ELSE [Idle("load") EXCEPT !.buf = file, !.hash = file]]
    /\ UNCHANGED <<etag, server, tag, file, fetchers>>

InitialFileFails(i) ==
    /\ At(i, "initial", "stat") /\ file # None
    /\ \E part \in {None, Torn} :
          call' = [call EXCEPT ![i]["initial"] = [Idle("load") EXCEPT !.buf = part, !.hash = part]]
    /\ UNCHANGED <<etag, server, tag, file, fetchers>>

-----------------------------------------------------------------------------
(* Update: the vehicle reads, and loadBuf takes the result.                 *)

MayUpdate(i, p) ==
    CASE p = "initial" -> At(i, p, "update")
      [] p = "pull"    -> At(i, p, "idle") /\ At(i, "initial", "done") /\ ~fetchers[i].closed
      [] p = "rest"    -> At(i, p, "idle") /\ i = Current

\* Mutant: the ETag is sent whatever it was stored for.
IfNoneMatchAny(old) == IF etag /\ old # None THEN tag ELSE None

\* The ETag that a request of a fetcher with hash old carries.
IfNoneMatch(old) == IF etag /\ old # None /\ tag = old THEN tag ELSE None

Send(i, p) ==
    /\ MayUpdate(i, p)
    /\ call' = [call EXCEPT ![i][p] =
                  [Idle("sent") EXCEPT !.old = fetchers[i].hash, !.write = TRUE,
                                       !.match = IfNoneMatch(fetchers[i].hash)]]
    /\ UNCHANGED <<etag, server, tag, file, fetchers>>

\* The server answers: "not modified", or with its document.
Answer(i, p) ==
    LET c == call[i][p]
    IN  /\ At(i, p, "sent")
        /\ call' = [call EXCEPT ![i][p] =
                      IF c.match = server
                      THEN [c EXCEPT !.at = "load", !.old = None, !.hash = c.old, !.seen = server]
                      ELSE [Idle("answered") EXCEPT !.buf = server, !.hash = server, !.write = TRUE,
                                                    !.seen = server]]
        /\ UNCHANGED <<etag, server, tag, file, fetchers>>

Receive(i, p) ==
    /\ At(i, p, "answered")
    /\ tag' = IF etag THEN call[i][p].buf ELSE tag
    /\ call' = [call EXCEPT ![i][p].at = "load"]
    /\ UNCHANGED <<etag, server, file, fetchers>>

\* The cache file cannot be written, which is only logged.
ReceiveUntagged(i, p) ==
    /\ etag /\ At(i, p, "answered")
    /\ call' = [call EXCEPT ![i][p].at = "load"]
    /\ UNCHANGED <<etag, server, tag, file, fetchers>>

\* No answer, an error status, a timeout, or the context of a closed fetcher.
ReadError(i, p) ==
    /\ At(i, p, "sent") \/ At(i, p, "answered")
    /\ Return(i, p, FALSE)
    /\ UNCHANGED <<etag, server, tag, file, fetchers>>

Loads(i, p) == At(i, p, "load") /\ fetchers[i].mux = None

\* The document has not changed, or only its hash is known and that is no longer current.
LoadSame(i, p) ==
    /\ Loads(i, p)
    /\ call[i][p].hash = fetchers[i].hash \/ call[i][p].buf = None
    /\ Return(i, p, TRUE)
    /\ UNCHANGED <<etag, server, tag, file, fetchers>>

Fresh(i, p) == Loads(i, p) /\ call[i][p].buf # None /\ call[i][p].hash # fetchers[i].hash

ParseError(i, p) ==
    /\ Fresh(i, p) /\ call[i][p].buf \notin Good
    /\ Return(i, p, FALSE)
    /\ UNCHANGED <<etag, server, tag, file, fetchers>>

Locked(i, p) == call' = [call EXCEPT ![i][p].at = IF call[i][p].write THEN "write" ELSE "install"]

\* Mutant: the hash is taken over before it is known that the file can be written.
ParsedHashFirst(i, p) ==
    /\ Fresh(i, p) /\ call[i][p].buf \in Parses
    /\ fetchers' = [fetchers EXCEPT ![i].mux = p, ![i].hash = call[i][p].hash]
    /\ Locked(i, p)
    /\ UNCHANGED <<etag, server, tag, file>>

\* Mutant: the file is written whatever the parser says.
ParsedUnchecked(i, p) ==
    /\ Fresh(i, p)
    /\ fetchers' = [fetchers EXCEPT ![i].mux = p]
    /\ Locked(i, p)
    /\ UNCHANGED <<etag, server, tag, file>>

Parsed(i, p) ==
    /\ Fresh(i, p) /\ call[i][p].buf \in Parses
    /\ fetchers' = [fetchers EXCEPT ![i].mux = p]
    /\ Locked(i, p)
    /\ UNCHANGED <<etag, server, tag, file>>

Writing == {ip \in (DOMAIN fetchers) \X Procs : At(ip[1], ip[2], "writing")}

\* safeWrite: the file is truncated, then written.
WriteBegin(i, p) ==
    /\ At(i, p, "write")
    /\ file' = Torn
    /\ call' = [j \in DOMAIN call |-> [r \in Procs |->
                  CASE <<j, r>> = <<i, p>>   -> [call[i][p] EXCEPT !.at = "writing", !.mixed = Writing # {}]
                    [] <<j, r>> \in Writing  -> [call[j][r] EXCEPT !.mixed = TRUE]
                    [] OTHER                 -> call[j][r]]]
    /\ UNCHANGED <<etag, server, tag, fetchers>>

WriteEnd(i, p) ==
    /\ At(i, p, "writing")
    /\ file' \in {call[i][p].buf} \cup (IF call[i][p].mixed THEN {Torn} ELSE {})
    /\ call' = [call EXCEPT ![i][p].at = "install"]
    /\ UNCHANGED <<etag, server, tag, fetchers>>

\* Mutant: the mutex is not released.
WriteErrorLocked(i, p) ==
    /\ At(i, p, "write") \/ At(i, p, "writing")
    /\ Return(i, p, FALSE)
    /\ UNCHANGED <<etag, server, tag, file, fetchers>>

WriteError(i, p) ==
    /\ At(i, p, "write") \/ At(i, p, "writing")
    /\ fetchers' = [fetchers EXCEPT ![i].mux = None]
    /\ Return(i, p, FALSE)
    /\ UNCHANGED <<etag, server, tag, file>>

Overtaken(c) == [c EXCEPT !.overtaken = (c.match # None)]

Install(i, p) ==
    /\ At(i, p, "install")
    /\ fetchers' = [fetchers EXCEPT ![i] =
                      [@ EXCEPT !.hash = call[i][p].hash, !.contents = call[i][p].buf, !.mux = None]]
    /\ call' = [call EXCEPT ![i] = [r \in Procs |->
                  IF r = p THEN Returned(i, p, TRUE) ELSE Overtaken(call[i][r])]]
    /\ UNCHANGED <<etag, server, tag, file>>

-----------------------------------------------------------------------------
(* Reloads, the end of old fetchers, and kills.                             *)

NewCalls == [p \in Procs |-> Idle(IF p = "initial" THEN "stat" ELSE "idle")]

\* The next configuration, which waits until the last one is applied, has a fetcher for the
\* same URL and file.
Reload ==
    /\ Current < MaxFetchers /\ At(Current, "initial", "done")
    /\ fetchers' = Append(fetchers, NewFetcher)
    /\ call' = Append(call, NewCalls)
    /\ UNCHANGED <<etag, server, tag, file>>

\* The finalizer of the provider closes an old fetcher; what is in progress goes on.
Close(i) ==
    /\ i # Current /\ ~fetchers[i].closed
    /\ fetchers' = [fetchers EXCEPT ![i].closed = TRUE]
    /\ UNCHANGED <<etag, server, tag, file, call>>

Kill ==
    /\ fetchers' = <<NewFetcher>>
    /\ call' = <<NewCalls>>
    /\ UNCHANGED <<etag, server, tag, file>>

ServerChanges ==
    /\ server' \in Docs \ {server}
    /\ UNCHANGED <<etag, tag, file, fetchers, call>>

-----------------------------------------------------------------------------

Init ==
    /\ etag \in BOOLEAN
    /\ server \in Docs
    /\ tag = None
    /\ file \in Good \cup {None}
    /\ fetchers = <<NewFetcher>>
    /\ call = <<NewCalls>>

\* The call in progress goes on.
Finishes(i, p) == \/ Answer(i, p) \/ Receive(i, p) \/ LoadSame(i, p) \/ ParseError(i, p)
                  \/ Parsed(i, p) \/ WriteBegin(i, p) \/ WriteEnd(i, p) \/ Install(i, p)

Works(i, p) == Send(i, p) \/ Finishes(i, p)

\* The network, the server or the disk fails.
Fails(i, p) == ReadError(i, p) \/ ReceiveUntagged(i, p) \/ WriteError(i, p)

Step == \E i \in DOMAIN fetchers : InitialFile(i) \/ Close(i) \/ \E p \in Procs : Works(i, p)

Failure == \E i \in DOMAIN fetchers : InitialFileFails(i) \/ \E p \in Procs : Fails(i, p)

Next == Step \/ Failure \/ Reload \/ Kill \/ ServerChanges

Spec == Init /\ [][Next]_vars

\* Goroutines go on, servers answer, and the pull loop of the configuration in use wakes up
\* again.  Nothing is assumed of the next call of the REST interface or of an old pull loop.
Fairness ==
    \A i \in 1..MaxFetchers :
      /\ WF_vars(i \in DOMAIN fetchers /\ (InitialFile(i) \/ Works(i, "initial")))
      /\ WF_vars(i \in DOMAIN fetchers /\ (Finishes(i, "pull") \/ (i = Current /\ Send(i, "pull"))))
      /\ WF_vars(i \in DOMAIN fetchers /\ Finishes(i, "rest"))

-----------------------------------------------------------------------------
(* Properties.                                                              *)

\* Type invariant.
TypeOK ==
    /\ server \in Docs /\ tag \in Docs \cup {None} /\ file \in Docs \cup {None, Torn}
    /\ \A i \in DOMAIN fetchers :
         /\ fetchers[i].hash \in Docs \cup {None, Torn}
         /\ fetchers[i].mux \in Procs \cup {None}
         /\ \A p \in Procs : (fetchers[i].mux = p) = (call[i][p].at \in {"write", "writing", "install"})

\* What the provider uses is what its hash says, although updates overlap, parsers reject
\* documents and writes fail: a later download is compared with what is really in use.  A
\* document that the parser rejects is never in use; part of one, read at the start, may be.
ContentsAreHash ==
    \A i \in DOMAIN fetchers :
        /\ fetchers[i].contents = fetchers[i].hash
        /\ fetchers[i].contents \in Parses \cup {None}

\* Nothing that the parser rejects is ever in the file, so a start finds a document that it can
\* use or a file that was not wholly written.
FileParses == file \in Good \cup {None, Torn}

\* An update that reports no error, "the content doesn't change" included, leaves the provider
\* with the document that the server had when it answered, although ETags are stored before
\* their documents are parsed, written and taken over, which may fail, and outlive the process.
\* The one exception is an update that another one of the same fetcher, not excluded by the
\* mutex, has overtaken between its request and its "not modified" (fetcher.go:143).
SuccessIsFresh ==
    [][\A i \in DOMAIN fetchers, p \in Procs :
         call[i][p].write /\ (LoadSame(i, p) \/ Install(i, p)) =>
            fetchers'[i].contents = call[i][p].seen \/ call[i][p].overtaken]_vars

\* When the server no longer changes its document and nothing fails any more, the provider ends
\* up with that document for good: answers that arrived out of order, "not modified" answers,
\* failed writes and kills delay that and do not prevent it.
Converges == <>[](server \in Bad \/ fetchers[Current].contents = server)
=============================================================================
