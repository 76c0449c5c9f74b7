-------------------------- MODULE ProfileProcessor --------------------------
(***************************************************************************)
(* The profile database, the profile directories and the operations that   *)
(* ProfileProcessor runs on them under its two mutexes.                     *)
(*                                                                         *)
(* Several calls run at once: binder threads of the profile manager and    *)
(* coroutines of ProfileWorker, all in the :background process.  Each call *)
(* is a small program; its labels (pc) are the points at which another     *)
(* call, an operation that takes no lock (module ProfileManager) or a kill *)
(* of the process can observe or disturb it.                               *)
(*                                                                         *)
(* Data are abstracted as follows.  A source stands for the pair of the    *)
(* subscription URL and the age secret key that decrypts it.  A directory  *)
(* stands for its config.yaml, the file that the core parses: there is none *)
(* (NoDir), it is missing or not completely written (Partial), empty       *)
(* (Blank), a whole configuration, named by the source that it came from,  *)
(* or one that was cut short and that the core accepts all the same (Cut). *)
(* The provider files beside it are a cache: a provider that cannot be     *)
(* downloaded is no error (native/config/fetch.go).                        *)
(***************************************************************************)
EXTENDS Naturals, FiniteSets

CONSTANTS
    Calls,      \* slots for concurrent calls
    UUIDs,      \* profile identifiers
    Names,      \* display names
    Sources,    \* non-empty sources
    Empty,      \* the empty source string
    NoRow,      \* no row in the table
    NoDir,      \* the directory does not exist
    Partial,    \* config.yaml is missing or not completely written
    Blank,      \* config.yaml is empty
    Cut,        \* config.yaml was cut short, and still parses
    Free,       \* owner of a mutex that nobody holds
    None,       \* no age secret key
    MaxStamp    \* bound on the values of Pending.createdAt

ASSUME ConstantsAssumption ==
    /\ MaxStamp \in Nat
    /\ Free \notin Calls
    /\ None \notin Sources
    /\ Empty \notin Sources
    /\ {NoDir, Partial, Blank, Cut} \cap Sources = {}
    /\ NoDir # Partial /\ NoDir # Blank /\ Partial # Blank
    /\ Cut \notin {NoDir, Partial, Blank}

\* A profile of type External is made by another application; like one of type Url
\* it is downloaded from its source.
Types == {"File", "Url", "External"}

ImportedRow == [name : Names, source : Sources \cup {Empty}, type : Types]

PendingRow == [name : Names, source : Sources \cup {Empty}, type : Types,
               createdAt : 0..MaxStamp]

ASSUME NoRowAssumption == NoRow \notin ImportedRow \cup PendingRow

Content == Sources \cup {NoDir, Partial, Blank, Cut}

\* What the core accepts as a configuration.
Accepted == Sources \cup {Cut}

VARIABLES
    pending,        \* table "pending": uuid -> row or NoRow
    imported,       \* table "imported": uuid -> row or NoRow
    pendingDir,     \* files/pending/<uuid>
    importedDir,    \* files/imported/<uuid>
    processingDir,  \* files/processing, shared by every call
    ageSecretKey,   \* the key last given to the native core
    processLock,    \* ProfileProcessor.processLock
    profileLock,    \* ProfileProcessor.profileLock
    clock,          \* the next value of Pending.createdAt
    pc,             \* call -> label
    tgt,            \* call -> uuid it works on
    from,           \* call -> uuid whose imported files it copies
    snap,           \* call -> local "snapshot"
    row,            \* call -> local row read from a table
    seen,           \* call -> content of the source directory when a copy began
    used,           \* uuids handed out so far
    opened,         \* files open for writing: <<"pending" or "imported", uuid>>
    torn,           \* history: uuids whose publication was cut short, or whose
                    \* imported file was opened for writing in place
    raced,          \* history: uuids whose rows were written without a lock during a
                    \* publication, or whose publication was killed before its row
    deleted         \* history: uuids whose deletion began with no lock-free call at work on them

db    == <<pending, imported>>
dirs  == <<pendingDir, importedDir>>
locks == <<processLock, profileLock>>
ids   == <<clock, used, opened>>
hist  == <<torn, raced, deleted>>
local == <<tgt, from, snap, row, seen>>

\* deleteRecursively: who has the file open goes on writing to a file without a name.
Detach(d, u) == opened' = opened \ {<<d, u>>}

AsImported(r) == [name |-> r.name, source |-> r.source, type |-> r.type]

-----------------------------------------------------------------------------
(* Entering a call, and leaving it, normally or by an exception: withLock releases.          *)

Goto(c, l) == pc' = [pc EXCEPT ![c] = l]

Call(c, u, l) ==
    /\ pc[c] = "idle"
    /\ Goto(c, l)
    /\ tgt' = [tgt EXCEPT ![c] = u]
    /\ UNCHANGED <<db, dirs, processingDir, ageSecretKey, locks,
                   ids, from, snap, row, seen, hist>>

Return(c) == /\ Goto(c, "idle")
             /\ snap' = [snap EXCEPT ![c] = NoRow]
             /\ row' = [row EXCEPT ![c] = NoRow]
             /\ seen' = [seen EXCEPT ![c] = NoDir]
             /\ UNCHANGED <<tgt, from>>

ReleaseAll(c) == /\ Return(c)
                 /\ processLock' = Free
                 /\ profileLock' = Free

\* The call leaves while it holds processLock only.
ReleaseProcess(c) == /\ Return(c)
                     /\ processLock' = Free
                     /\ UNCHANGED profileLock

-----------------------------------------------------------------------------
(* apply: publish the pending version of a profile.                         *)

\* enforceFieldValid.  Every other check (blank name, unsupported scheme,
\* interval below 15 minutes) has the same outcome as this one.
FieldValid(r) == r.source # Empty \/ r.type = "File"

ApplyCall(c, u) == Call(c, u, "a_enter")

ApplyEnter(c) ==
    /\ pc[c] = "a_enter"
    /\ processLock = Free
    /\ processLock' = c
    /\ Goto(c, "a_snapshot")
    /\ UNCHANGED <<db, dirs, processingDir, ageSecretKey,
                   profileLock, ids, local, hist>>

ApplySnapshot(c) ==
    LET p == pending[tgt[c]] IN
    /\ pc[c] = "a_snapshot"
    /\ profileLock = Free
    /\ IF p = NoRow \/ ~FieldValid(p)
         THEN ReleaseProcess(c)                      \* IllegalArgumentException
         ELSE /\ profileLock' = c
              /\ snap' = [snap EXCEPT ![c] = p]
              /\ Goto(c, "a_stage")
              /\ UNCHANGED <<processLock, tgt, from, row, seen>>
    /\ UNCHANGED <<db, dirs, processingDir, ageSecretKey, ids,
                   hist>>

\* Copy the directory of the profile to the processing directory, release
\* profileLock and hand the key to the core.  A missing directory makes
\* copyRecursively throw, after the processing directory was emptied.
Stage(c, files, next) ==
    /\ processingDir' = files
    /\ IF files = NoDir
         THEN ReleaseAll(c) /\ UNCHANGED ageSecretKey
         ELSE /\ Goto(c, next)
              /\ profileLock' = Free
              /\ ageSecretKey' = IF snap[c].source = Empty THEN None ELSE snap[c].source
              /\ UNCHANGED <<local, processLock>>
    /\ UNCHANGED <<db, dirs, ids, hist>>

ApplyStage(c) == pc[c] = "a_stage" /\ Stage(c, pendingDir[tgt[c]], "a_fetch")

\* What Clash.fetchAndValid can leave in the processing directory when it
\* succeeds: the configuration of the source when it downloads, which it does
\* when forced and when config.yaml is missing; else the file it found, if it
\* parses, which a file that was cut short may do.
Fetched(c, force) ==
    {d \in Accepted :
        \/ d = snap[c].source /\ (force \/ processingDir = Partial)
        \/ ~force /\ (d = processingDir \/ (d = Cut /\ processingDir = Partial))}

FetchOk(c, force, next) ==
    /\ processingDir' \in Fetched(c, force)
    /\ Goto(c, next)
    /\ UNCHANGED <<db, dirs, ageSecretKey, locks, ids, local,
                   hist>>

\* Mutant: an exception in the download leaves processLock held.
FetchErrorKeepsLock(c) ==
    /\ processingDir' = Partial
    /\ Return(c)
    /\ UNCHANGED <<db, dirs, ageSecretKey, locks, ids, hist>>

FetchError(c) ==
    /\ processingDir' = Partial
    /\ ReleaseProcess(c)
    /\ UNCHANGED <<db, dirs, ageSecretKey, ids, hist>>

ApplyFetch(c) ==
    /\ pc[c] = "a_fetch"
    /\ FetchOk(c, snap[c].type # "File", "a_check") \/ FetchError(c)

\* Begin to replace the files of imported/<uuid>.
BeginPublish(c, next) ==
    /\ profileLock' = c
    /\ importedDir' = [importedDir EXCEPT ![tgt[c]] = NoDir]
    /\ Detach("imported", tgt[c])
    /\ Goto(c, next)
    /\ UNCHANGED <<processLock, clock, used>>

\* Mutant: any pending row will do, edited since the snapshot or not.
ApplyCheckExists(c) ==
    /\ pc[c] = "a_check"
    /\ profileLock = Free
    /\ IF pending[tgt[c]] # NoRow
         THEN /\ BeginPublish(c, "a_copy")
              /\ raced' = raced \ {tgt[c]}
              /\ UNCHANGED local
         ELSE ReleaseProcess(c) /\ UNCHANGED <<importedDir, ids, raced>>
    /\ UNCHANGED <<db, pendingDir, processingDir, ageSecretKey, torn, deleted>>

\* Mutant: the imported files are deleted before the pending row is compared.
ApplyCheckDeleteFirst(c) ==
    /\ pc[c] = "a_check"
    /\ profileLock = Free
    /\ IF pending[tgt[c]] = snap[c]
         THEN /\ BeginPublish(c, "a_copy")
              /\ raced' = raced \ {tgt[c]}
              /\ UNCHANGED local
         ELSE /\ ReleaseProcess(c)
              /\ importedDir' = [importedDir EXCEPT ![tgt[c]] = NoDir]
              /\ UNCHANGED <<ids, raced>>
    /\ UNCHANGED <<db, pendingDir, processingDir, ageSecretKey, torn, deleted>>

ApplyCheck(c) ==
    /\ pc[c] = "a_check"
    /\ profileLock = Free
    /\ IF pending[tgt[c]] = snap[c]
         THEN /\ BeginPublish(c, "a_copy")
              /\ raced' = raced \ {tgt[c]}
              /\ UNCHANGED local
         ELSE ReleaseProcess(c) /\ UNCHANGED <<importedDir, ids, raced>>
    /\ UNCHANGED <<db, pendingDir, processingDir, ageSecretKey, torn, deleted>>

\* copyRecursively(processingDir, importedDir/<uuid>): the copy starts, then
\* ends with all files in place or with an IOException.
CopyBegin(c, next) ==
    /\ importedDir' = [importedDir EXCEPT ![tgt[c]] = Partial]
    /\ Goto(c, next)
    /\ UNCHANGED <<db, pendingDir, processingDir, ageSecretKey,
                   locks, ids, local, hist>>

CopyEnd(c, next) ==
    LET shared == <<"imported", tgt[c]>> \in opened    \* opened since the copy began
    IN
    /\ importedDir' = [importedDir EXCEPT ![tgt[c]] = IF shared THEN Partial ELSE processingDir]
    /\ torn' = IF shared THEN torn ELSE torn \ {tgt[c]}
    /\ Goto(c, next)
    /\ UNCHANGED <<db, pendingDir, processingDir, ageSecretKey,
                   locks, ids, local, raced, deleted>>

CopyError(c) ==
    /\ torn' = torn \cup {tgt[c]}
    /\ ReleaseAll(c)
    /\ UNCHANGED <<db, dirs, processingDir, ageSecretKey, ids,
                   raced, deleted>>

ApplyCopy(c) ==
    \/ pc[c] = "a_copy" /\ CopyBegin(c, "a_copying")
    \/ pc[c] = "a_copying" /\ (CopyEnd(c, "a_row") \/ CopyError(c))

ApplyRow(c) ==
    /\ pc[c] = "a_row"
    /\ imported' = [imported EXCEPT ![tgt[c]] = AsImported(snap[c])]
    /\ Goto(c, "a_drop")
    /\ UNCHANGED <<pending, dirs, processingDir, ageSecretKey,
                   locks, ids, local, hist>>

ApplyDrop(c) ==
    /\ pc[c] = "a_drop"
    /\ pending' = [pending EXCEPT ![tgt[c]] = NoRow]
    /\ Goto(c, "a_dropdir")
    /\ UNCHANGED <<imported, dirs, processingDir, ageSecretKey,
                   locks, ids, local, hist>>

ApplyDropDir(c) ==
    /\ pc[c] = "a_dropdir"
    /\ pendingDir' = [pendingDir EXCEPT ![tgt[c]] = NoDir]
    /\ Detach("pending", tgt[c])
    /\ ReleaseAll(c)
    /\ UNCHANGED <<db, importedDir, processingDir, ageSecretKey,
                   clock, used, hist>>

Apply(c) ==
    \/ ApplyEnter(c) \/ ApplySnapshot(c) \/ ApplyStage(c) \/ ApplyFetch(c)
    \/ ApplyCheck(c) \/ ApplyCopy(c) \/ ApplyRow(c) \/ ApplyDrop(c)
    \/ ApplyDropDir(c)

-----------------------------------------------------------------------------
(* update: download the imported version of a profile again.                *)

UpdateCall(c, u) == Call(c, u, "u_enter")

\* Mutant: update does not take processLock.
UpdateEnterUnlocked(c) ==
    /\ pc[c] = "u_enter"
    /\ Goto(c, "u_snapshot")
    /\ UNCHANGED <<db, dirs, processingDir, ageSecretKey, locks, ids, local, hist>>

UpdateEnter(c) ==
    /\ pc[c] = "u_enter"
    /\ processLock = Free
    /\ processLock' = c
    /\ Goto(c, "u_snapshot")
    /\ UNCHANGED <<db, dirs, processingDir, ageSecretKey,
                   profileLock, ids, local, hist>>

UpdateSnapshot(c) ==
    /\ pc[c] = "u_snapshot"
    /\ profileLock = Free
    /\ IF imported[tgt[c]] = NoRow
         THEN ReleaseProcess(c)                      \* IllegalArgumentException
         ELSE /\ profileLock' = c
              /\ snap' = [snap EXCEPT ![c] = imported[tgt[c]]]
              /\ Goto(c, "u_stage")
              /\ UNCHANGED <<processLock, tgt, from, row, seen>>
    /\ UNCHANGED <<db, dirs, processingDir, ageSecretKey, ids,
                   hist>>

UpdateStage(c) == pc[c] = "u_stage" /\ Stage(c, importedDir[tgt[c]], "u_fetch")

UpdateFetch(c) ==
    /\ pc[c] = "u_fetch"
    /\ FetchOk(c, TRUE, "u_check") \/ FetchError(c)

\* Mutant: update does not look whether the profile still exists.
UpdateCheckBlind(c) ==
    /\ pc[c] = "u_check"
    /\ profileLock = Free
    /\ BeginPublish(c, "u_copy")
    /\ row' = [row EXCEPT ![c] = imported[tgt[c]]]
    /\ UNCHANGED <<tgt, from, snap, seen>>
    /\ UNCHANGED <<db, pendingDir, processingDir, ageSecretKey, hist>>

UpdateCheck(c) ==
    /\ pc[c] = "u_check"
    /\ profileLock = Free
    /\ IF imported[tgt[c]] # NoRow
         THEN /\ BeginPublish(c, "u_copy")
              /\ row' = [row EXCEPT ![c] = imported[tgt[c]]]
              /\ UNCHANGED <<tgt, from, snap, seen>>
         ELSE ReleaseProcess(c) /\ UNCHANGED <<importedDir, ids>>
    /\ UNCHANGED <<db, pendingDir, processingDir, ageSecretKey, hist>>

UpdateCopy(c) ==
    \/ pc[c] = "u_copy" /\ CopyBegin(c, "u_copying")
    \/ pc[c] = "u_copying" /\ (CopyEnd(c, "u_row") \/ CopyError(c))

\* With subscription information the row read by UpdateCheck is written back
\* with new traffic counters; without it the table is left alone.
UpdateRow(c) ==
    /\ pc[c] = "u_row"
    /\ \/ imported' = [imported EXCEPT ![tgt[c]] = row[c]]
       \/ UNCHANGED imported
    /\ ReleaseAll(c)
    /\ UNCHANGED <<pending, dirs, processingDir, ageSecretKey,
                   ids, hist>>

Update(c) ==
    \/ UpdateEnter(c) \/ UpdateSnapshot(c) \/ UpdateStage(c) \/ UpdateFetch(c)
    \/ UpdateCheck(c) \/ UpdateCopy(c) \/ UpdateRow(c)

-----------------------------------------------------------------------------
(* delete and release: profileLock only.                                    *)

DeleteCall(c, u) == Call(c, u, "d_enter")

\* Labels at which a call that takes no lock may still write to its profile.
LockFree == {"c_dir", "p_imported", "p_copy", "p_copying", "p_insert", "p_update",
             "l_copy", "l_copying", "l_insert", "n_pending", "n_read", "n_imported",
             "k_imported", "k_insert", "k_copy", "k_copying", "k_read", "k_pending", "k_open"}

DeleteImported(c) ==
    /\ pc[c] = "d_enter"
    /\ profileLock = Free
    /\ profileLock' = c
    /\ imported' = [imported EXCEPT ![tgt[c]] = NoRow]
    /\ Goto(c, "d_pending")
    /\ deleted' = IF \E d \in Calls : pc[d] \in LockFree /\ tgt[d] = tgt[c]
                    THEN deleted ELSE deleted \cup {tgt[c]}
    /\ UNCHANGED <<pending, dirs, processingDir, ageSecretKey,
                   processLock, ids, local, torn, raced>>

DeletePending(c) ==
    /\ pc[c] = "d_pending"
    /\ pending' = [pending EXCEPT ![tgt[c]] = NoRow]
    /\ Goto(c, "d_pendingdir")
    /\ UNCHANGED <<imported, dirs, processingDir, ageSecretKey,
                   locks, ids, local, hist>>

DeletePendingDir(c) ==
    /\ pc[c] = "d_pendingdir"
    /\ pendingDir' = [pendingDir EXCEPT ![tgt[c]] = NoDir]
    /\ Detach("pending", tgt[c])
    /\ Goto(c, "d_importeddir")
    /\ UNCHANGED <<db, importedDir, processingDir, ageSecretKey,
                   locks, clock, used, local, hist>>

DeleteImportedDir(c) ==
    /\ pc[c] = "d_importeddir"
    /\ importedDir' = [importedDir EXCEPT ![tgt[c]] = NoDir]
    /\ Detach("imported", tgt[c])
    /\ profileLock' = Free
    /\ Return(c)
    /\ UNCHANGED <<db, pendingDir, processingDir, ageSecretKey,
                   processLock, clock, used, hist>>

Delete(c) ==
    DeleteImported(c) \/ DeletePending(c) \/ DeletePendingDir(c) \/ DeleteImportedDir(c)

ReleaseCall(c, u) == Call(c, u, "r_enter")

ReleasePending(c) ==
    /\ pc[c] = "r_enter"
    /\ profileLock = Free
    /\ profileLock' = c
    /\ pending' = [pending EXCEPT ![tgt[c]] = NoRow]
    /\ Goto(c, "r_dir")
    /\ UNCHANGED <<imported, dirs, processingDir, ageSecretKey,
                   processLock, ids, local, hist>>

ReleasePendingDir(c) ==
    /\ pc[c] = "r_dir"
    /\ pendingDir' = [pendingDir EXCEPT ![tgt[c]] = NoDir]
    /\ Detach("pending", tgt[c])
    /\ profileLock' = Free
    /\ Return(c)
    /\ UNCHANGED <<db, importedDir, processingDir, ageSecretKey,
                   processLock, clock, used, hist>>

Release(c) == ReleasePending(c) \/ ReleasePendingDir(c)

=============================================================================
