--------------------------- MODULE ProfileManager ---------------------------
(***************************************************************************)
(* The profile operations that take no lock: create, clone, patch and      *)
(* rename of ProfileManager and the write access that FilesProvider gives   *)
(* through Picker.  They interleave with the locked operations of           *)
(* ProfileProcessor, and the process may be killed between any two steps.   *)
(***************************************************************************)
EXTENDS ProfileProcessor

vars == <<db, dirs, processingDir, ageSecretKey, locks, ids, pc,
          local, hist>>

\* Labels between the first change to imported/<uuid> and the last step of a
\* publication; at the first ones of them the directory is not complete.
Copying    == {"a_copy", "a_copying", "u_copy", "u_copying"}
Publishing == Copying \cup {"a_row", "a_drop", "u_row"}

\* Labels between the first and the last step of a deletion.
Deleting == {"d_pending", "d_pendingdir", "d_importeddir"}

PublishedNow(u) == \E c \in Calls : pc[c] \in Publishing /\ tgt[c] = u

\* History: a row of u is written by a call that holds no lock.
NoteRace(u) == raced' = IF PublishedNow(u) THEN raced \cup {u} ELSE raced

-----------------------------------------------------------------------------
(* cloneImportedFiles: delete the target, copy file by file.  The source    *)
(* may be replaced meanwhile: the copy then fails or is a mixture.          *)

CloneFilesBegin(c, next) ==
    /\ pendingDir' = [pendingDir EXCEPT ![tgt[c]] = Partial]
    /\ Detach("pending", tgt[c])
    /\ seen' = [seen EXCEPT ![c] = importedDir[from[c]]]
    /\ Goto(c, next)
    /\ UNCHANGED <<db, importedDir, processingDir, ageSecretKey,
                   locks, clock, used, tgt, from, snap, row, hist>>

CloneFilesEnd(c, next) ==
    /\ pendingDir' = [pendingDir EXCEPT ![tgt[c]] =
                        IF importedDir[from[c]] = seen[c] /\ <<"pending", tgt[c]>> \notin opened
                          THEN seen[c] ELSE Partial]
    /\ Goto(c, next)
    /\ UNCHANGED <<db, importedDir, processingDir, ageSecretKey,
                   locks, ids, local, hist>>

\* FileNotFoundException, NoSuchFileException: the call ends where it is.
CloneFilesError(c) ==
    /\ Return(c)
    /\ UNCHANGED <<db, dirs, processingDir, ageSecretKey, locks,
                   ids, hist>>

\* importedDir/<from> is checked before anything is deleted.
CloneImportedFiles(c, begin, copying, next) ==
    \/ /\ pc[c] = begin
       /\ IF importedDir[from[c]] = NoDir THEN CloneFilesError(c)
                                          ELSE CloneFilesBegin(c, copying)
    \/ /\ pc[c] = copying
       /\ \/ CloneFilesEnd(c, next)
          \/ importedDir[from[c]] # seen[c] /\ CloneFilesError(c)

\* A new Pending row; createdAt is the current time, which no two rows share.
NewPending(n, s, t) == [name |-> n, source |-> s, type |-> t, createdAt |-> clock]

\* MaxStamp bounds the model's clock, not the code's.
Tick == clock < MaxStamp /\ clock' = clock + 1

-----------------------------------------------------------------------------
(* create *)

CreateRow(c, u, n, s, t) ==
    /\ pc[c] = "idle"
    /\ u \notin used                                 \* generateProfileUUID
    /\ used' = used \cup {u}
    /\ pending' = [pending EXCEPT ![u] = NewPending(n, s, t)]
    /\ Tick
    /\ tgt' = [tgt EXCEPT ![c] = u]
    /\ Goto(c, "c_dir")
    /\ UNCHANGED <<imported, dirs, processingDir, ageSecretKey,
                   locks, opened, from, snap, row, seen, hist>>

CreateDir(c) ==
    /\ pc[c] = "c_dir"
    /\ pendingDir' = [pendingDir EXCEPT ![tgt[c]] = Blank]
    /\ Detach("pending", tgt[c])
    /\ Return(c)
    /\ UNCHANGED <<db, importedDir, processingDir, ageSecretKey,
                   locks, clock, used, hist>>

-----------------------------------------------------------------------------
(* clone *)

CloneCall(c, u, new) ==
    /\ pc[c] = "idle"
    /\ new \notin used                               \* generateProfileUUID
    /\ imported[u] # NoRow
    /\ used' = used \cup {new}
    /\ tgt' = [tgt EXCEPT ![c] = new]
    /\ from' = [from EXCEPT ![c] = u]
    /\ row' = [row EXCEPT ![c] = NewPending(imported[u].name, imported[u].source, "File")]
    /\ Tick
    /\ Goto(c, "l_copy")
    /\ UNCHANGED <<db, dirs, processingDir, ageSecretKey, locks,
                   opened, snap, seen, hist>>

CloneFiles(c) == CloneImportedFiles(c, "l_copy", "l_copying", "l_insert")

CloneInsert(c) ==
    /\ pc[c] = "l_insert"
    /\ pending' = [pending EXCEPT ![tgt[c]] = row[c]]
    /\ Return(c)
    /\ UNCHANGED <<imported, dirs, processingDir, ageSecretKey,
                   locks, ids, hist>>

-----------------------------------------------------------------------------
(* patch *)

PatchCall(c, u) ==
    /\ pc[c] = "idle"
    /\ tgt' = [tgt EXCEPT ![c] = u]
    /\ from' = [from EXCEPT ![c] = u]
    /\ IF pending[u] # NoRow
         THEN row' = [row EXCEPT ![c] = pending[u]] /\ Goto(c, "p_update")
         ELSE UNCHANGED row /\ Goto(c, "p_imported")
    /\ UNCHANGED <<db, dirs, processingDir, ageSecretKey, locks,
                   ids, snap, seen, hist>>

\* The second read, by patch and by the picker: the imported row becomes a pending one.
ReadImported(c, next) ==
    LET i == imported[tgt[c]] IN
    /\ IF i = NoRow
         THEN Return(c) /\ UNCHANGED clock           \* FileNotFoundException
         ELSE /\ row' = [row EXCEPT ![c] = NewPending(i.name, i.source, i.type)]
              /\ Tick
              /\ Goto(c, next)
              /\ UNCHANGED <<tgt, from, snap, seen>>
    /\ UNCHANGED <<db, dirs, processingDir, ageSecretKey, locks, used, opened, hist>>

PatchImported(c) == pc[c] = "p_imported" /\ ReadImported(c, "p_copy")

PatchFiles(c) == CloneImportedFiles(c, "p_copy", "p_copying", "p_insert")

PatchInsert(c, n, s) ==
    /\ pc[c] = "p_insert"
    /\ pending' = [pending EXCEPT ![tgt[c]] = [row[c] EXCEPT !.name = n, !.source = s]]
    /\ NoteRace(tgt[c])
    /\ Return(c)
    /\ UNCHANGED <<imported, dirs, processingDir, ageSecretKey,
                   locks, ids, torn, deleted>>

\* An SQL UPDATE: without effect when the row is gone.
UpdateRowIn(table, u, r) ==
    IF table[u] = NoRow THEN table ELSE [table EXCEPT ![u] = r]

PatchUpdate(c, n, s) ==
    /\ pc[c] = "p_update"
    /\ pending' = UpdateRowIn(pending, tgt[c], [row[c] EXCEPT !.name = n, !.source = s])
    /\ NoteRace(tgt[c])
    /\ Return(c)
    /\ UNCHANGED <<imported, dirs, processingDir, ageSecretKey,
                   locks, ids, torn, deleted>>

-----------------------------------------------------------------------------
(* rename: two read-modify-write pairs, on the pending and the imported row *)

RenameCall(c, u) ==
    /\ pc[c] = "idle"
    /\ tgt' = [tgt EXCEPT ![c] = u]
    /\ IF pending[u] # NoRow
         THEN row' = [row EXCEPT ![c] = pending[u]] /\ Goto(c, "n_pending")
         ELSE UNCHANGED row /\ Goto(c, "n_read")
    /\ UNCHANGED <<db, dirs, processingDir, ageSecretKey, locks,
                   ids, from, snap, seen, hist>>

RenamePending(c, n) ==
    /\ pc[c] = "n_pending"
    /\ pending' = UpdateRowIn(pending, tgt[c], [row[c] EXCEPT !.name = n])
    /\ NoteRace(tgt[c])
    /\ Goto(c, "n_read")
    /\ UNCHANGED <<imported, dirs, processingDir, ageSecretKey,
                   locks, ids, local, torn, deleted>>

RenameRead(c) ==
    /\ pc[c] = "n_read"
    /\ IF imported[tgt[c]] # NoRow
         THEN /\ row' = [row EXCEPT ![c] = imported[tgt[c]]]
              /\ Goto(c, "n_imported")
              /\ UNCHANGED <<tgt, from, snap, seen>>
         ELSE Return(c)
    /\ UNCHANGED <<db, dirs, processingDir, ageSecretKey, locks,
                   ids, hist>>

RenameImported(c, n) ==
    /\ pc[c] = "n_imported"
    /\ imported' = UpdateRowIn(imported, tgt[c], [row[c] EXCEPT !.name = n])
    /\ raced' = IF PublishedNow(tgt[c]) \/ imported[tgt[c]] # row[c]
                  THEN raced \cup {tgt[c]} ELSE raced
    /\ Return(c)
    /\ UNCHANGED <<pending, dirs, processingDir, ageSecretKey,
                   locks, ids, torn, deleted>>

-----------------------------------------------------------------------------
(* Picker.pick(path, writable = true) and FilesProvider.openDocument:        *)
(* cloneToPending inserts the row first, then copies the files.  The rows are *)
(* then read again, and the file is opened in the directory of whichever     *)
(* table held the profile.  The client writes to it later, on its own.       *)

PickCall(c, u) ==
    /\ pc[c] = "idle"
    /\ tgt' = [tgt EXCEPT ![c] = u]
    /\ from' = [from EXCEPT ![c] = u]
    /\ Goto(c, IF pending[u] # NoRow THEN "k_read" ELSE "k_imported")
    /\ UNCHANGED <<db, dirs, processingDir, ageSecretKey, locks, ids,
                   snap, row, seen, hist>>

PickImported(c) == pc[c] = "k_imported" /\ ReadImported(c, "k_insert")

\* PendingDao.insert replaces a row that was written since the first read.
PickInsert(c) ==
    /\ pc[c] = "k_insert"
    /\ pending' = [pending EXCEPT ![tgt[c]] = row[c]]
    /\ NoteRace(tgt[c])
    /\ Goto(c, "k_copy")
    /\ UNCHANGED <<imported, dirs, processingDir, ageSecretKey, locks, ids, local,
                   torn, deleted>>

\* No existence check here: copyRecursively fails after the target is deleted.
PickFiles(c) ==
    \/ /\ pc[c] = "k_copy"
       /\ IF importedDir[from[c]] = NoDir
            THEN /\ pendingDir' = [pendingDir EXCEPT ![tgt[c]] = NoDir]
                 /\ Detach("pending", tgt[c])
                 /\ Return(c)
                 /\ UNCHANGED <<db, importedDir, processingDir, ageSecretKey, locks,
                                clock, used, hist>>
            ELSE CloneFilesBegin(c, "k_copying")
    \/ /\ pc[c] = "k_copying"
       /\ \/ CloneFilesEnd(c, "k_read")
          \/ importedDir[from[c]] # seen[c] /\ CloneFilesError(c)

PickReadImported(c) ==
    /\ pc[c] = "k_read"
    /\ row' = [row EXCEPT ![c] = imported[tgt[c]]]
    /\ Goto(c, "k_pending")
    /\ UNCHANGED <<db, dirs, processingDir, ageSecretKey, locks, ids, tgt, from, snap, seen,
                   hist>>

PickReadPending(c) ==
    /\ pc[c] = "k_pending"
    /\ snap' = [snap EXCEPT ![c] = pending[tgt[c]]]
    /\ Goto(c, "k_open")
    /\ UNCHANGED <<db, dirs, processingDir, ageSecretKey, locks, ids, tgt, from, row, seen,
                   hist>>

\* The mode that the client asks for may or may not truncate the file.
OpenMode(dir, u) == dir' \in {dir, [dir EXCEPT ![u] = Blank]}

\* Open config.yaml of a File profile for writing.
OpenConfig(c) ==
    LET u == tgt[c] IN
    \/ /\ snap[c] # NoRow /\ snap[c].type = "File" /\ pendingDir[u] # NoDir
       /\ OpenMode(pendingDir, u)
       /\ opened' = opened \cup {<<"pending", u>>}
       /\ UNCHANGED <<importedDir, torn>>
    \/ /\ snap[c] = NoRow /\ row[c] # NoRow /\ row[c].type = "File" /\ importedDir[u] # NoDir
       /\ OpenMode(importedDir, u)
       /\ opened' = opened \cup {<<"imported", u>>}
       /\ torn' = torn \cup {u}
       /\ UNCHANGED pendingDir

\* It is refused, fails, or concerns a provider file.
OpenOther == UNCHANGED <<dirs, opened, torn>>

PickOpen(c) ==
    /\ pc[c] = "k_open"
    /\ OpenConfig(c) \/ OpenOther
    /\ Return(c)
    /\ UNCHANGED <<db, processingDir, ageSecretKey, locks, clock, used, raced, deleted>>

\* The client writes to a file that it has open: nobody validates what it writes.
WriteFile(u) ==
    /\ \E d \in Sources \cup {Partial} :
         \/ /\ <<"pending", u>> \in opened
            /\ pendingDir' = [pendingDir EXCEPT ![u] = d]
            /\ UNCHANGED importedDir
         \/ /\ <<"imported", u>> \in opened
            /\ importedDir' = [importedDir EXCEPT ![u] = d]
            /\ UNCHANGED pendingDir
    /\ UNCHANGED <<db, processingDir, ageSecretKey, locks, ids, pc, local, hist>>

-----------------------------------------------------------------------------
(* The :background process is killed: files and tables stay, mutexes and    *)
(* the state of the core go.  A descriptor belongs to the client: it stays. *)

Kill ==
    /\ pc' = [c \in Calls |-> "idle"]
    /\ processLock' = Free
    /\ profileLock' = Free
    /\ ageSecretKey' = None
    /\ torn' = torn \cup {u \in UUIDs : \E c \in Calls : pc[c] \in Copying /\ tgt[c] = u}
    /\ deleted' = deleted \ {u \in UUIDs : \E c \in Calls : pc[c] \in Deleting /\ tgt[c] = u}
    /\ snap' = [c \in Calls |-> NoRow]
    /\ row' = [c \in Calls |-> NoRow]
    /\ seen' = [c \in Calls |-> NoDir]
    /\ raced' = raced \cup {u \in UUIDs : \E c \in Calls : pc[c] = "a_row" /\ tgt[c] = u}
    /\ UNCHANGED <<db, dirs, processingDir, ids, tgt, from>>

-----------------------------------------------------------------------------
\* Some profiles, with their files, are left from earlier runs of the program;
\* every other identifier is still unused.
Init ==
    /\ imported \in [UUIDs -> {r \in ImportedRow : r.source # Empty} \cup {NoRow}]
    /\ used = {u \in UUIDs : imported[u] # NoRow}
    /\ importedDir = [u \in UUIDs |-> IF imported[u] = NoRow THEN NoDir ELSE imported[u].source]
    /\ pending = [u \in UUIDs |-> NoRow]
    /\ pendingDir = [u \in UUIDs |-> NoDir]
    /\ processingDir = NoDir
    /\ ageSecretKey = None
    /\ processLock = Free
    /\ profileLock = Free
    /\ clock = 0
    /\ pc = [c \in Calls |-> "idle"]
    /\ tgt \in {[c \in Calls |-> u] : u \in UUIDs}
    /\ from = tgt
    /\ snap = [c \in Calls |-> NoRow]
    /\ row = [c \in Calls |-> NoRow]
    /\ seen = [c \in Calls |-> NoDir]
    /\ opened = {}
    /\ torn = {} /\ raced = {} /\ deleted = {}

\* A client starts a call on a profile it has seen.
Start(c) ==
    \/ \E u \in used : \/ ApplyCall(c, u) \/ UpdateCall(c, u) \/ DeleteCall(c, u)
                       \/ ReleaseCall(c, u) \/ PatchCall(c, u) \/ RenameCall(c, u)
                       \/ PickCall(c, u)
    \/ \E u \in used, new \in UUIDs : CloneCall(c, u, new)
    \/ \E u \in UUIDs, n \in Names, s \in Sources \cup {Empty}, t \in Types :
           CreateRow(c, u, n, s, t)

\* A call that is under way takes a step.
Step(c) ==
    \/ Apply(c) \/ Update(c) \/ Delete(c) \/ Release(c)
    \/ CreateDir(c) \/ CloneFiles(c) \/ CloneInsert(c)
    \/ PatchImported(c) \/ PatchFiles(c) \/ RenameRead(c)
    \/ PickImported(c) \/ PickInsert(c) \/ PickFiles(c)
    \/ PickReadImported(c) \/ PickReadPending(c) \/ PickOpen(c)
    \/ \E n \in Names : \/ RenamePending(c, n) \/ RenameImported(c, n)
                        \/ \E s \in Sources \cup {Empty} :
                             PatchInsert(c, n, s) \/ PatchUpdate(c, n, s)

Next == \/ \E c \in Calls : Start(c) \/ Step(c)
        \/ \E u \in UUIDs : WriteFile(u)
        \/ Kill

Spec == Init /\ [][Next]_vars

\* A coroutine that can run does run; kotlinx.coroutines.sync.Mutex queues its
\* waiters in order, so a call that finds a mutex free again and again gets it.
FairSpec == Spec /\ \A c \in Calls : SF_vars(Step(c))

-----------------------------------------------------------------------------
Labels == {"idle", "a_enter", "a_snapshot", "a_stage", "a_fetch", "a_check", "a_copy",
           "a_copying", "a_row", "a_drop", "a_dropdir", "u_enter", "u_snapshot",
           "u_stage", "u_fetch", "u_check", "u_copy", "u_copying", "u_row", "d_enter",
           "d_pending", "d_pendingdir", "d_importeddir", "r_enter", "r_dir"} \cup LockFree

\* Labels at which a call holds profileLock.
ProfileHeld == {"a_stage", "a_copy", "a_copying", "a_row", "a_drop", "a_dropdir", "u_stage",
                "u_copy", "u_copying", "u_row", "d_pending", "d_pendingdir",
                "d_importeddir", "r_dir"}

\* Labels at which a call holds processLock.
ProcessHeld == {"a_snapshot", "a_stage", "a_fetch", "a_check", "a_copy", "a_copying", "a_row",
                "a_drop", "a_dropdir", "u_snapshot", "u_stage", "u_fetch", "u_check",
                "u_copy", "u_copying", "u_row"}

\* A mutex belongs to the one call whose label is in its critical section.
LockInv ==
    \A c \in Calls : /\ pc[c] \in ProfileHeld <=> profileLock = c
                     /\ pc[c] \in ProcessHeld <=> processLock = c

\* Every table, directory and local variable holds a value of its kind.
ValuesOK ==
    /\ pending \in [UUIDs -> PendingRow \cup {NoRow}]
    /\ imported \in [UUIDs -> ImportedRow \cup {NoRow}]
    /\ pendingDir \in [UUIDs -> Content]
    /\ importedDir \in [UUIDs -> Content]
    /\ processingDir \in Content
    /\ ageSecretKey \in Sources \cup {None}
    /\ processLock \in Calls \cup {Free}
    /\ profileLock \in Calls \cup {Free}
    /\ clock \in 0..MaxStamp
    /\ used \subseteq UUIDs
    /\ opened \subseteq {"pending", "imported"} \X UUIDs
    /\ pc \in [Calls -> Labels]
    /\ tgt \in [Calls -> UUIDs]
    /\ from \in [Calls -> UUIDs]
    /\ snap \in [Calls -> PendingRow \cup ImportedRow \cup {NoRow}]
    /\ row \in [Calls -> PendingRow \cup ImportedRow \cup {NoRow}]
    /\ seen \in [Calls -> Content]
    /\ torn \subseteq UUIDs
    /\ raced \subseteq UUIDs
    /\ deleted \subseteq UUIDs

\* Every variable has its type, and each of the two mutexes is held by the call that
\* is in its critical section, by nobody when there is none: withLock releases it
\* also when the download throws (ProfileProcessor.kt:32-33, 53, 94-95, 112).
TypeOK == ValuesOK /\ LockInv

\* What is published as the configuration of an imported profile has been accepted by
\* the core, from the processing directory that all calls share and of which the copy
\* outlives the download (ProfileProcessor.kt:50-56, 110-116).  Two things only take
\* this away: a publication, while it replaces the files and when an I/O error or a
\* kill ends it half-way, for it deletes them first; and a client that opened the
\* imported file itself, because the pending row was dropped under the picker
\* (Picker.kt:86-91).
ImportedFilesAccepted ==
    \A u \in UUIDs :
        imported[u] # NoRow =>
            \/ importedDir[u] \in Accepted
            \/ u \in torn
            \/ \E c \in Calls : pc[c] \in Copying /\ tgt[c] = u

\* The files of an imported profile that is not of type File were downloaded from the source in its
\* row: the processing directory, which all calls share, never carries the files
\* of one profile, or of an older source, into another (processLock,
\* ProfileProcessor.kt:32, 94).
ImportedContentOwn ==
    \A u \in UUIDs :
        /\ imported[u] # NoRow /\ imported[u].type # "File"
        /\ u \notin torn \cup raced
        /\ ~PublishedNow(u)
        => importedDir[u] = imported[u].source

\* When apply drops the pending row of a profile, what that row says (name, source)
\* has been published: a patch or a rename made while apply was downloading is not
\* lost (ProfileProcessor.kt:54).  Only one in the publication itself can be.  This is
\* about rows: the files in pending/<uuid> are dropped as they are, with what a client
\* of the picker has written to them since they were staged (ProfileProcessor.kt:83).
CommitPublishesRow ==
    [][\A u \in UUIDs :
         (\E c \in Calls : pc[c] = "a_drop" /\ pc'[c] = "a_dropdir" /\ tgt[c] = u)
            => \/ u \in raced
               \/ pending[u] # NoRow /\ imported[u] = AsImported(pending[u])]_vars

\* A download that was under way when its profile was deleted does not bring the
\* profile back, neither in the tables nor on disk (ProfileProcessor.kt:54, 114).
DeletedStaysDeleted ==
    \A u \in deleted :
        \/ /\ imported[u] = NoRow /\ pending[u] = NoRow
           /\ importedDir[u] = NoDir /\ pendingDir[u] = NoDir
        \/ \E c \in Calls : pc[c] \in Deleting /\ tgt[c] = u

\* Every call returns: the two mutexes, taken by apply and update in one order and
\* dropped for the download, are released on every path.
CallsReturn == \A c \in Calls : pc[c] # "idle" ~> pc[c] = "idle"

\* "Fast path: only update display name in DB, no re-fetch"
\* (ProfileManager.kt:135): only a commit changes where a profile comes from.
RenameKeepsSource ==
    [][\A u \in UUIDs :
         imported[u] # NoRow /\ imported'[u] # NoRow /\ imported'[u].source # imported[u].source
            => \E c \in Calls : pc[c] = "a_row" /\ tgt[c] = u]_vars

=============================================================================
