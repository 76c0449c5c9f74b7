----------------------- MODULE ProfileManager_proofs -----------------------
(***************************************************************************)
(* Proofs about the profile operations: type correctness and mutual         *)
(* exclusion; what is published was accepted by the core, and comes from    *)
(* the source of the profile; a deleted profile does not come back; apply   *)
(* drops no row it has not published.  The inductive invariant IInv adds    *)
(* what the processing directory holds during a download and its copy       *)
(* (Staged, StagedOwn), what a publication leaves when it writes the row    *)
(* (Published), which files can be open for writing (Opened), that a        *)
(* deletion removes the row before the files (DeletedRow, Gone, Remains),   *)
(* and what the rows of a profile are while update or apply works on it     *)
(* (UpdateOwn, ApplyOwn).                                                   *)
(***************************************************************************)
EXTENDS ProfileManager, TLAPS

\* The local rows of a call are rows of the table that the label says they are from.
LocalTypes ==
    \A c \in Calls :
        /\ pc[c] \in {"a_stage", "a_fetch", "a_check", "a_copy", "a_copying", "a_row",
                      "a_drop", "a_dropdir"} => snap[c] \in PendingRow
        /\ pc[c] \in {"u_stage", "u_fetch", "u_check", "u_copy", "u_copying", "u_row"}
              => snap[c] \in ImportedRow
        /\ pc[c] \in {"u_copy", "u_copying", "u_row", "n_imported"} => row[c] \in ImportedRow
        /\ pc[c] \in {"p_copy", "p_copying", "p_insert", "p_update", "l_copy", "l_copying",
                      "l_insert", "n_pending", "k_insert"} => row[c] \in PendingRow

TypeInv == ValuesOK /\ LocalTypes

\* Leaving a call keeps its label and its local variables well typed.
LEMMA ReturnTypes ==
    ASSUME ValuesOK, NEW c \in Calls, Return(c)
    PROVE  /\ pc' \in [Calls -> Labels]
           /\ tgt' \in [Calls -> UUIDs]
           /\ from' \in [Calls -> UUIDs]
           /\ snap' \in [Calls -> PendingRow \cup ImportedRow \cup {NoRow}]
           /\ row' \in [Calls -> PendingRow \cup ImportedRow \cup {NoRow}]
           /\ seen' \in [Calls -> Content]
BY DEF ValuesOK, Return, Goto, Labels, Content

\* A row built for the pending table is a row of that table.
LEMMA NewPendingType ==
    ASSUME ValuesOK, Tick, NEW n \in Names, NEW s \in Sources \cup {Empty}, NEW t \in Types
    PROVE  NewPending(n, s, t) \in PendingRow
BY DEF ValuesOK, Tick, NewPending, PendingRow

\* Every step preserves the type invariant.
LEMMA ValuesStep == ASSUME ValuesOK, LocalTypes, Next PROVE ValuesOK'
<1> USE ConstantsAssumption, NoRowAssumption
<1> USE DEF db, dirs, locks, local, ids, hist, Detach, Goto, ReleaseAll, ReleaseProcess
<1> USE DEF ValuesOK, Labels, LockFree, Content, Accepted
<1>1. ASSUME NEW c \in Calls, NEW u \in UUIDs, ApplyCall(c, u) PROVE ValuesOK'
  BY <1>1, ReturnTypes DEF ApplyCall, Call
<1>2. ASSUME NEW c \in Calls, NEW u \in UUIDs, UpdateCall(c, u) PROVE ValuesOK'
  BY <1>2, ReturnTypes DEF UpdateCall, Call
<1>3. ASSUME NEW c \in Calls, NEW u \in UUIDs, DeleteCall(c, u) PROVE ValuesOK'
  BY <1>3, ReturnTypes DEF DeleteCall, Call
<1>4. ASSUME NEW c \in Calls, NEW u \in UUIDs, ReleaseCall(c, u) PROVE ValuesOK'
  BY <1>4, ReturnTypes DEF ReleaseCall, Call
<1>5. ASSUME NEW c \in Calls, NEW u \in UUIDs, PatchCall(c, u) PROVE ValuesOK'
  <2>1. CASE pending[u] # NoRow
    BY <1>5, <2>1 DEF PatchCall
  <2>2. CASE pending[u] = NoRow
    BY <1>5, <2>2 DEF PatchCall
  <2>3. QED BY <2>1, <2>2
<1>6. ASSUME NEW c \in Calls, NEW u \in UUIDs, RenameCall(c, u) PROVE ValuesOK'
  <2>1. CASE pending[u] # NoRow
    BY <1>6, <2>1, ReturnTypes DEF RenameCall
  <2>2. CASE pending[u] = NoRow
    BY <1>6, <2>2, ReturnTypes DEF RenameCall
  <2>3. QED BY <1>6, <2>1, <2>2 DEF RenameCall
<1>7. ASSUME NEW c \in Calls, NEW u \in UUIDs, PickCall(c, u) PROVE ValuesOK'
  BY <1>7 DEF PickCall
<1>8. ASSUME NEW c \in Calls, NEW u \in UUIDs, NEW v \in UUIDs, CloneCall(c, u, v) PROVE ValuesOK'
  BY <1>8, ReturnTypes DEF CloneCall, NewPending, Tick, LocalTypes, PendingRow, ImportedRow,
       Types
<1>9. ASSUME NEW c \in Calls, NEW u \in UUIDs, NEW n \in Names,
                NEW s \in Sources \cup {Empty}, NEW t \in Types, CreateRow(c, u, n, s,
                     t) PROVE ValuesOK'
  BY <1>9, ReturnTypes DEF CreateRow, NewPending, Tick, LocalTypes, PendingRow, ImportedRow,
       Types
<1>10. ASSUME NEW c \in Calls, ApplyEnter(c) PROVE ValuesOK'
  BY <1>10, ReturnTypes DEF ApplyEnter
<1>11. ASSUME NEW c \in Calls, ApplySnapshot(c) PROVE ValuesOK'
  <2>1. CASE pending[tgt[c]] = NoRow \/ ~FieldValid(pending[tgt[c]])
    BY <1>11, <2>1, ReturnTypes DEF ApplySnapshot, FieldValid
  <2>2. CASE ~(pending[tgt[c]] = NoRow \/ ~FieldValid(pending[tgt[c]]))
    BY <1>11, <2>2, ReturnTypes DEF ApplySnapshot, FieldValid
  <2>3. QED BY <1>11, <2>1, <2>2 DEF ApplySnapshot, FieldValid
<1>12. ASSUME NEW c \in Calls, ApplyStage(c) PROVE ValuesOK'
  <2>1. CASE pendingDir[tgt[c]] = NoDir
    BY <1>12, <2>1, ReturnTypes DEF ApplyStage, Stage
  <2>2. CASE pendingDir[tgt[c]] # NoDir
    <3>1. snap[c].source \in Sources \cup {Empty}
      BY <1>12 DEF ApplyStage, LocalTypes, PendingRow
    <3>2. QED BY <1>12, <2>2, <3>1 DEF ApplyStage, Stage
  <2>3. QED BY <2>1, <2>2
<1>13. ASSUME NEW c \in Calls, ApplyFetch(c) PROVE ValuesOK'
  <2>1. CASE FetchOk(c, snap[c].type # "File", "a_check")
    BY <1>13, <2>1, ReturnTypes DEF ApplyFetch, FetchOk, FetchError, Fetched
  <2>2. CASE FetchError(c)
    BY <1>13, <2>2, ReturnTypes DEF ApplyFetch, FetchOk, FetchError, Fetched
  <2>3. QED BY <1>13, <2>1, <2>2 DEF ApplyFetch, FetchOk, FetchError, Fetched
<1>14. ASSUME NEW c \in Calls, ApplyCheck(c) PROVE ValuesOK'
  <2>1. CASE pending[tgt[c]] = snap[c]
    BY <1>14, <2>1, ReturnTypes DEF ApplyCheck, BeginPublish
  <2>2. CASE pending[tgt[c]] # snap[c]
    BY <1>14, <2>2, ReturnTypes DEF ApplyCheck, BeginPublish
  <2>3. QED BY <1>14, <2>1, <2>2 DEF ApplyCheck, BeginPublish
<1>15. ASSUME NEW c \in Calls, ApplyCopy(c) PROVE ValuesOK'
  <2>1. CASE CopyBegin(c, "a_copying")
    BY <1>15, <2>1, ReturnTypes DEF ApplyCopy, CopyBegin, CopyEnd, CopyError
  <2>2. CASE CopyEnd(c, "a_row")
    BY <1>15, <2>2, ReturnTypes DEF ApplyCopy, CopyBegin, CopyEnd, CopyError
  <2>3. CASE CopyError(c)
    BY <1>15, <2>3, ReturnTypes DEF ApplyCopy, CopyBegin, CopyEnd, CopyError
  <2>4. QED BY <1>15, <2>1, <2>2, <2>3 DEF ApplyCopy, CopyBegin, CopyEnd, CopyError
<1>16. ASSUME NEW c \in Calls, ApplyRow(c) PROVE ValuesOK'
  BY <1>16, ReturnTypes DEF ApplyRow, AsImported, LocalTypes, PendingRow, ImportedRow, Types
<1>17. ASSUME NEW c \in Calls, ApplyDrop(c) PROVE ValuesOK'
  BY <1>17, ReturnTypes DEF ApplyDrop
<1>18. ASSUME NEW c \in Calls, ApplyDropDir(c) PROVE ValuesOK'
  BY <1>18, ReturnTypes DEF ApplyDropDir
<1>19. ASSUME NEW c \in Calls, UpdateEnter(c) PROVE ValuesOK'
  BY <1>19, ReturnTypes DEF UpdateEnter
<1>20. ASSUME NEW c \in Calls, UpdateSnapshot(c) PROVE ValuesOK'
  <2>1. CASE imported[tgt[c]] # NoRow
    BY <1>20, <2>1, ReturnTypes DEF UpdateSnapshot
  <2>2. CASE imported[tgt[c]] = NoRow
    BY <1>20, <2>2, ReturnTypes DEF UpdateSnapshot
  <2>3. QED BY <1>20, <2>1, <2>2 DEF UpdateSnapshot
<1>21. ASSUME NEW c \in Calls, UpdateStage(c) PROVE ValuesOK'
  <2>1. CASE importedDir[tgt[c]] = NoDir
    BY <1>21, <2>1, ReturnTypes DEF UpdateStage, Stage
  <2>2. CASE importedDir[tgt[c]] # NoDir
    <3>1. snap[c].source \in Sources \cup {Empty}
      BY <1>21 DEF UpdateStage, LocalTypes, ImportedRow
    <3>2. QED BY <1>21, <2>2, <3>1 DEF UpdateStage, Stage
  <2>3. QED BY <2>1, <2>2
<1>22. ASSUME NEW c \in Calls, UpdateFetch(c) PROVE ValuesOK'
  <2>1. CASE FetchOk(c, TRUE, "u_check")
    BY <1>22, <2>1, ReturnTypes DEF UpdateFetch, FetchOk, FetchError, Fetched
  <2>2. CASE FetchError(c)
    BY <1>22, <2>2, ReturnTypes DEF UpdateFetch, FetchOk, FetchError, Fetched
  <2>3. QED BY <1>22, <2>1, <2>2 DEF UpdateFetch, FetchOk, FetchError, Fetched
<1>23. ASSUME NEW c \in Calls, UpdateCheck(c) PROVE ValuesOK'
  <2>1. CASE imported[tgt[c]] # NoRow
    BY <1>23, <2>1, ReturnTypes DEF UpdateCheck, BeginPublish
  <2>2. CASE imported[tgt[c]] = NoRow
    BY <1>23, <2>2, ReturnTypes DEF UpdateCheck, BeginPublish
  <2>3. QED BY <1>23, <2>1, <2>2 DEF UpdateCheck, BeginPublish
<1>24. ASSUME NEW c \in Calls, UpdateCopy(c) PROVE ValuesOK'
  <2>1. CASE CopyBegin(c, "u_copying")
    BY <1>24, <2>1, ReturnTypes DEF UpdateCopy, CopyBegin, CopyEnd, CopyError
  <2>2. CASE CopyEnd(c, "u_row")
    BY <1>24, <2>2, ReturnTypes DEF UpdateCopy, CopyBegin, CopyEnd, CopyError
  <2>3. CASE CopyError(c)
    BY <1>24, <2>3, ReturnTypes DEF UpdateCopy, CopyBegin, CopyEnd, CopyError
  <2>4. QED BY <1>24, <2>1, <2>2, <2>3 DEF UpdateCopy, CopyBegin, CopyEnd, CopyError
<1>25. ASSUME NEW c \in Calls, UpdateRow(c) PROVE ValuesOK'
  BY <1>25, ReturnTypes DEF UpdateRow, LocalTypes, PendingRow, ImportedRow, Types
<1>26. ASSUME NEW c \in Calls, DeleteImported(c) PROVE ValuesOK'
  BY <1>26, ReturnTypes DEF DeleteImported
<1>27. ASSUME NEW c \in Calls, DeletePending(c) PROVE ValuesOK'
  BY <1>27, ReturnTypes DEF DeletePending
<1>28. ASSUME NEW c \in Calls, DeletePendingDir(c) PROVE ValuesOK'
  BY <1>28, ReturnTypes DEF DeletePendingDir
<1>29. ASSUME NEW c \in Calls, DeleteImportedDir(c) PROVE ValuesOK'
  BY <1>29, ReturnTypes DEF DeleteImportedDir
<1>30. ASSUME NEW c \in Calls, ReleasePending(c) PROVE ValuesOK'
  BY <1>30, ReturnTypes DEF ReleasePending
<1>31. ASSUME NEW c \in Calls, ReleasePendingDir(c) PROVE ValuesOK'
  BY <1>31, ReturnTypes DEF ReleasePendingDir
<1>32. ASSUME NEW c \in Calls, CreateDir(c) PROVE ValuesOK'
  BY <1>32, ReturnTypes DEF CreateDir
<1>33. ASSUME NEW c \in Calls, CloneFiles(c) PROVE ValuesOK'
  <2>1. CASE CloneFilesError(c)
    BY <1>33, <2>1, ReturnTypes DEF CloneFiles, CloneImportedFiles, CloneFilesBegin,
         CloneFilesEnd, CloneFilesError
  <2>2. CASE pc[c] = "l_copy" /\ CloneFilesBegin(c, "l_copying")
    BY <1>33, <2>2, ReturnTypes DEF CloneFiles, CloneImportedFiles, CloneFilesBegin,
         CloneFilesEnd, CloneFilesError
  <2>3. CASE pc[c] = "l_copying" /\ CloneFilesEnd(c, "l_insert")
    BY <1>33, <2>3, ReturnTypes DEF CloneFiles, CloneImportedFiles, CloneFilesBegin,
         CloneFilesEnd, CloneFilesError
  <2>4. QED BY <1>33, <2>1, <2>2, <2>3 DEF CloneFiles, CloneImportedFiles, CloneFilesBegin,
       CloneFilesEnd, CloneFilesError
<1>34. ASSUME NEW c \in Calls, CloneInsert(c) PROVE ValuesOK'
  BY <1>34, ReturnTypes DEF CloneInsert, LocalTypes, PendingRow, ImportedRow, Types
<1>35. ASSUME NEW c \in Calls, PatchFiles(c) PROVE ValuesOK'
  <2>1. CASE CloneFilesError(c)
    BY <1>35, <2>1, ReturnTypes DEF PatchFiles, CloneImportedFiles, CloneFilesBegin,
         CloneFilesEnd, CloneFilesError
  <2>2. CASE pc[c] = "p_copy" /\ CloneFilesBegin(c, "p_copying")
    BY <1>35, <2>2, ReturnTypes DEF PatchFiles, CloneImportedFiles, CloneFilesBegin,
         CloneFilesEnd, CloneFilesError
  <2>3. CASE pc[c] = "p_copying" /\ CloneFilesEnd(c, "p_insert")
    BY <1>35, <2>3, ReturnTypes DEF PatchFiles, CloneImportedFiles, CloneFilesBegin,
         CloneFilesEnd, CloneFilesError
  <2>4. QED BY <1>35, <2>1, <2>2, <2>3 DEF PatchFiles, CloneImportedFiles, CloneFilesBegin,
       CloneFilesEnd, CloneFilesError
<1>36. ASSUME NEW c \in Calls, RenameRead(c) PROVE ValuesOK'
  <2>1. CASE imported[tgt[c]] # NoRow
    BY <1>36, <2>1, ReturnTypes DEF RenameRead
  <2>2. CASE imported[tgt[c]] = NoRow
    BY <1>36, <2>2, ReturnTypes DEF RenameRead
  <2>3. QED BY <1>36, <2>1, <2>2 DEF RenameRead
<1>37. ASSUME NEW c \in Calls, PickFiles(c) PROVE ValuesOK'
  <2>1. CASE pc[c] = "k_copy" /\ importedDir[from[c]] = NoDir
    BY <1>37, <2>1, ReturnTypes DEF PickFiles
  <2>2. CASE CloneFilesBegin(c, "k_copying")
    BY <1>37, <2>2, ReturnTypes DEF CloneFilesBegin
  <2>3. CASE CloneFilesEnd(c, "k_read")
    BY <1>37, <2>3, ReturnTypes DEF CloneFilesEnd
  <2>4. CASE CloneFilesError(c)
    BY <1>37, <2>4, ReturnTypes DEF CloneFilesError
  <2>5. QED BY <1>37, <2>1, <2>2, <2>3, <2>4 DEF PickFiles
<1>38. ASSUME NEW c \in Calls, PickOpen(c) PROVE ValuesOK'
  BY <1>38, ReturnTypes DEF PickOpen, OpenConfig, OpenOther, OpenMode
<1>39. ASSUME NEW c \in Calls, NEW n \in Names, RenamePending(c, n) PROVE ValuesOK'
  <2>0. row[c] \in PendingRow
    BY <1>39 DEF RenamePending, LocalTypes
  <2>1. [row[c] EXCEPT !.name = n] \in PendingRow
    BY <2>0 DEF PendingRow
  <2>2. QED BY <1>39, <2>1 DEF RenamePending, UpdateRowIn, NoteRace
<1>40. ASSUME NEW c \in Calls, NEW n \in Names, RenameImported(c, n) PROVE ValuesOK'
  <2>0. row[c] \in ImportedRow
    BY <1>40 DEF RenameImported, LocalTypes
  <2>1. [row[c] EXCEPT !.name = n] \in ImportedRow
    BY <2>0 DEF ImportedRow
  <2>2. QED BY <1>40, <2>1, ReturnTypes DEF RenameImported, UpdateRowIn
<1>41. ASSUME NEW c \in Calls, NEW n \in Names, NEW s \in Sources \cup {Empty}, PatchInsert(c,
     n, s) PROVE ValuesOK'
  <2>0. row[c] \in PendingRow
    BY <1>41 DEF PatchInsert, LocalTypes
  <2>1. [row[c] EXCEPT !.name = n, !.source = s] \in PendingRow
    BY <2>0 DEF PendingRow
  <2>2. QED BY <1>41, <2>1, ReturnTypes DEF PatchInsert, NoteRace
<1>42. ASSUME NEW c \in Calls, NEW n \in Names, NEW s \in Sources \cup {Empty}, PatchUpdate(c,
     n, s) PROVE ValuesOK'
  <2>0. row[c] \in PendingRow
    BY <1>42 DEF PatchUpdate, LocalTypes
  <2>1. [row[c] EXCEPT !.name = n, !.source = s] \in PendingRow
    BY <2>0 DEF PendingRow
  <2>2. QED BY <1>42, <2>1, ReturnTypes DEF PatchUpdate, UpdateRowIn, NoteRace
<1>43. ASSUME Kill PROVE ValuesOK'
  BY <1>43, ReturnTypes DEF Kill
<1>44. ASSUME NEW c \in Calls, PatchImported(c) PROVE ValuesOK'
  <2>1. CASE imported[tgt[c]] = NoRow
    BY <1>44, <2>1, ReturnTypes DEF PatchImported, ReadImported
  <2>2. CASE imported[tgt[c]] # NoRow
    <3>1. Tick
      BY <1>44, <2>2 DEF PatchImported, ReadImported
    <3>2. imported[tgt[c]] \in ImportedRow
      BY <2>2
    <3>3. NewPending(imported[tgt[c]].name, imported[tgt[c]].source, imported[tgt[c]].type) \in PendingRow
      BY <3>1, <3>2, NewPendingType DEF ImportedRow
    <3>4. QED BY <1>44, <2>2, <3>1, <3>3 DEF PatchImported, ReadImported, Tick
  <2>3. QED BY <2>1, <2>2
<1>45. ASSUME NEW c \in Calls, PickImported(c) PROVE ValuesOK'
  <2>1. CASE imported[tgt[c]] = NoRow
    BY <1>45, <2>1, ReturnTypes DEF PickImported, ReadImported
  <2>2. CASE imported[tgt[c]] # NoRow
    <3>1. Tick
      BY <1>45, <2>2 DEF PickImported, ReadImported
    <3>2. imported[tgt[c]] \in ImportedRow
      BY <2>2
    <3>3. NewPending(imported[tgt[c]].name, imported[tgt[c]].source, imported[tgt[c]].type) \in PendingRow
      BY <3>1, <3>2, NewPendingType DEF ImportedRow
    <3>4. QED BY <1>45, <2>2, <3>1, <3>3 DEF PickImported, ReadImported, Tick
  <2>3. QED BY <2>1, <2>2
<1>46. ASSUME NEW c \in Calls, PickInsert(c) PROVE ValuesOK'
  BY <1>46, ReturnTypes DEF PickInsert, NoteRace, LocalTypes
<1>47. ASSUME NEW c \in Calls, PickReadImported(c) PROVE ValuesOK'
  BY <1>47, ReturnTypes DEF PickReadImported
<1>48. ASSUME NEW c \in Calls, PickReadPending(c) PROVE ValuesOK'
  BY <1>48, ReturnTypes DEF PickReadPending
<1>49. ASSUME NEW u \in UUIDs, WriteFile(u) PROVE ValuesOK'
  BY <1>49 DEF WriteFile
<1>0. used \subseteq UUIDs OBVIOUS
<1> HIDE DEF ValuesOK, Labels, LockFree, Content, Accepted
<1> QED BY <1>0, <1>1, <1>2, <1>3, <1>4, <1>5, <1>6, <1>7, <1>8, <1>9, <1>10, <1>11, <1>12, <1>13,
     <1>14, <1>15, <1>16, <1>17, <1>18, <1>19, <1>20, <1>21, <1>22, <1>23, <1>24, <1>25, <1>26,
     <1>27, <1>28, <1>29, <1>30, <1>31, <1>32, <1>33, <1>34, <1>35, <1>36, <1>37, <1>38, <1>39,
     <1>40, <1>41, <1>42, <1>43, <1>44, <1>45, <1>46, <1>47, <1>48, <1>49 DEF Next, Start,
     Step, Apply, Update, Delete, Release

\* Every step preserves the types of the local rows.
LEMMA LocalTypesStep == ASSUME ValuesOK, LocalTypes, Next PROVE LocalTypes'
<1> USE ConstantsAssumption, NoRowAssumption
<1> USE DEF db, dirs, locks, local, ids, hist, Detach, Goto, Return, ReleaseAll, ReleaseProcess
<1> USE DEF ValuesOK, LocalTypes, Labels, LockFree, PendingRow, ImportedRow, Types
<1>1. ASSUME NEW c \in Calls, NEW u \in UUIDs, ApplyCall(c, u) PROVE LocalTypes'
  BY <1>1 DEF ApplyCall, Call
<1>2. ASSUME NEW c \in Calls, NEW u \in UUIDs, UpdateCall(c, u) PROVE LocalTypes'
  BY <1>2 DEF UpdateCall, Call
<1>3. ASSUME NEW c \in Calls, NEW u \in UUIDs, DeleteCall(c, u) PROVE LocalTypes'
  BY <1>3 DEF DeleteCall, Call
<1>4. ASSUME NEW c \in Calls, NEW u \in UUIDs, ReleaseCall(c, u) PROVE LocalTypes'
  BY <1>4 DEF ReleaseCall, Call
<1>5. ASSUME NEW c \in Calls, NEW u \in UUIDs, PatchCall(c, u) PROVE LocalTypes'
  <2>1. CASE pending[u] # NoRow
    BY <1>5, <2>1 DEF PatchCall
  <2>2. CASE pending[u] = NoRow
    BY <1>5, <2>2 DEF PatchCall
  <2>3. QED BY <1>5, <2>1, <2>2 DEF PatchCall
<1>6. ASSUME NEW c \in Calls, NEW u \in UUIDs, RenameCall(c, u) PROVE LocalTypes'
  <2>1. CASE pending[u] # NoRow
    BY <1>6, <2>1 DEF RenameCall
  <2>2. CASE pending[u] = NoRow
    BY <1>6, <2>2 DEF RenameCall
  <2>3. QED BY <1>6, <2>1, <2>2 DEF RenameCall
<1>7. ASSUME NEW c \in Calls, NEW u \in UUIDs, PickCall(c, u) PROVE LocalTypes'
  BY <1>7 DEF PickCall
<1>8. ASSUME NEW c \in Calls, NEW u \in UUIDs, NEW v \in UUIDs, CloneCall(c, u,
     v) PROVE LocalTypes'
  BY <1>8 DEF CloneCall, NewPending, Tick
<1>9. ASSUME NEW c \in Calls, NEW u \in UUIDs, NEW n \in Names,
                NEW s \in Sources \cup {Empty}, NEW t \in Types, CreateRow(c, u, n, s,
                     t) PROVE LocalTypes'
  BY <1>9 DEF CreateRow, NewPending, Tick
<1>10. ASSUME NEW c \in Calls, ApplyEnter(c) PROVE LocalTypes'
  BY <1>10 DEF ApplyEnter
<1>11. ASSUME NEW c \in Calls, ApplySnapshot(c) PROVE LocalTypes'
  <2>1. CASE pending[tgt[c]] = NoRow \/ ~FieldValid(pending[tgt[c]])
    BY <1>11, <2>1 DEF ApplySnapshot, FieldValid
  <2>2. CASE ~(pending[tgt[c]] = NoRow \/ ~FieldValid(pending[tgt[c]]))
    BY <1>11, <2>2 DEF ApplySnapshot, FieldValid
  <2>3. QED BY <1>11, <2>1, <2>2 DEF ApplySnapshot, FieldValid
<1>12. ASSUME NEW c \in Calls, ApplyStage(c) PROVE LocalTypes'
  <2>1. CASE pendingDir[tgt[c]] = NoDir
    BY <1>12, <2>1 DEF ApplyStage, Stage
  <2>2. CASE pendingDir[tgt[c]] # NoDir
    BY <1>12, <2>2 DEF ApplyStage, Stage
  <2>3. QED BY <1>12, <2>1, <2>2 DEF ApplyStage, Stage
<1>13. ASSUME NEW c \in Calls, ApplyFetch(c) PROVE LocalTypes'
  <2>1. CASE FetchOk(c, snap[c].type # "File", "a_check")
    BY <1>13, <2>1 DEF ApplyFetch, FetchOk, FetchError, Fetched
  <2>2. CASE FetchError(c)
    BY <1>13, <2>2 DEF ApplyFetch, FetchOk, FetchError, Fetched
  <2>3. QED BY <1>13, <2>1, <2>2 DEF ApplyFetch, FetchOk, FetchError, Fetched
<1>14. ASSUME NEW c \in Calls, ApplyCheck(c) PROVE LocalTypes'
  <2>1. CASE pending[tgt[c]] = snap[c]
    BY <1>14, <2>1 DEF ApplyCheck, BeginPublish
  <2>2. CASE pending[tgt[c]] # snap[c]
    BY <1>14, <2>2 DEF ApplyCheck, BeginPublish
  <2>3. QED BY <1>14, <2>1, <2>2 DEF ApplyCheck, BeginPublish
<1>15. ASSUME NEW c \in Calls, ApplyCopy(c) PROVE LocalTypes'
  <2>1. CASE CopyBegin(c, "a_copying")
    BY <1>15, <2>1 DEF ApplyCopy, CopyBegin, CopyEnd, CopyError
  <2>2. CASE CopyEnd(c, "a_row")
    BY <1>15, <2>2 DEF ApplyCopy, CopyBegin, CopyEnd, CopyError
  <2>3. CASE CopyError(c)
    BY <1>15, <2>3 DEF ApplyCopy, CopyBegin, CopyEnd, CopyError
  <2>4. QED BY <1>15, <2>1, <2>2, <2>3 DEF ApplyCopy, CopyBegin, CopyEnd, CopyError
<1>16. ASSUME NEW c \in Calls, ApplyRow(c) PROVE LocalTypes'
  BY <1>16 DEF ApplyRow, AsImported
<1>17. ASSUME NEW c \in Calls, ApplyDrop(c) PROVE LocalTypes'
  BY <1>17 DEF ApplyDrop
<1>18. ASSUME NEW c \in Calls, ApplyDropDir(c) PROVE LocalTypes'
  BY <1>18 DEF ApplyDropDir
<1>19. ASSUME NEW c \in Calls, UpdateEnter(c) PROVE LocalTypes'
  BY <1>19 DEF UpdateEnter
<1>20. ASSUME NEW c \in Calls, UpdateSnapshot(c) PROVE LocalTypes'
  <2>1. CASE imported[tgt[c]] # NoRow
    BY <1>20, <2>1 DEF UpdateSnapshot
  <2>2. CASE imported[tgt[c]] = NoRow
    BY <1>20, <2>2 DEF UpdateSnapshot
  <2>3. QED BY <1>20, <2>1, <2>2 DEF UpdateSnapshot
<1>21. ASSUME NEW c \in Calls, UpdateStage(c) PROVE LocalTypes'
  <2>1. CASE importedDir[tgt[c]] = NoDir
    BY <1>21, <2>1 DEF UpdateStage, Stage
  <2>2. CASE importedDir[tgt[c]] # NoDir
    BY <1>21, <2>2 DEF UpdateStage, Stage
  <2>3. QED BY <1>21, <2>1, <2>2 DEF UpdateStage, Stage
<1>22. ASSUME NEW c \in Calls, UpdateFetch(c) PROVE LocalTypes'
  <2>1. CASE FetchOk(c, TRUE, "u_check")
    BY <1>22, <2>1 DEF UpdateFetch, FetchOk, FetchError, Fetched
  <2>2. CASE FetchError(c)
    BY <1>22, <2>2 DEF UpdateFetch, FetchOk, FetchError, Fetched
  <2>3. QED BY <1>22, <2>1, <2>2 DEF UpdateFetch, FetchOk, FetchError, Fetched
<1>23. ASSUME NEW c \in Calls, UpdateCheck(c) PROVE LocalTypes'
  <2>1. CASE imported[tgt[c]] # NoRow
    BY <1>23, <2>1 DEF UpdateCheck, BeginPublish
  <2>2. CASE imported[tgt[c]] = NoRow
    BY <1>23, <2>2 DEF UpdateCheck, BeginPublish
  <2>3. QED BY <1>23, <2>1, <2>2 DEF UpdateCheck, BeginPublish
<1>24. ASSUME NEW c \in Calls, UpdateCopy(c) PROVE LocalTypes'
  <2>1. CASE CopyBegin(c, "u_copying")
    BY <1>24, <2>1 DEF UpdateCopy, CopyBegin, CopyEnd, CopyError
  <2>2. CASE CopyEnd(c, "u_row")
    BY <1>24, <2>2 DEF UpdateCopy, CopyBegin, CopyEnd, CopyError
  <2>3. CASE CopyError(c)
    BY <1>24, <2>3 DEF UpdateCopy, CopyBegin, CopyEnd, CopyError
  <2>4. QED BY <1>24, <2>1, <2>2, <2>3 DEF UpdateCopy, CopyBegin, CopyEnd, CopyError
<1>25. ASSUME NEW c \in Calls, UpdateRow(c) PROVE LocalTypes'
  BY <1>25 DEF UpdateRow
<1>26. ASSUME NEW c \in Calls, DeleteImported(c) PROVE LocalTypes'
  BY <1>26 DEF DeleteImported
<1>27. ASSUME NEW c \in Calls, DeletePending(c) PROVE LocalTypes'
  BY <1>27 DEF DeletePending
<1>28. ASSUME NEW c \in Calls, DeletePendingDir(c) PROVE LocalTypes'
  BY <1>28 DEF DeletePendingDir
<1>29. ASSUME NEW c \in Calls, DeleteImportedDir(c) PROVE LocalTypes'
  BY <1>29 DEF DeleteImportedDir
<1>30. ASSUME NEW c \in Calls, ReleasePending(c) PROVE LocalTypes'
  BY <1>30 DEF ReleasePending
<1>31. ASSUME NEW c \in Calls, ReleasePendingDir(c) PROVE LocalTypes'
  BY <1>31 DEF ReleasePendingDir
<1>32. ASSUME NEW c \in Calls, CreateDir(c) PROVE LocalTypes'
  BY <1>32 DEF CreateDir
<1>33. ASSUME NEW c \in Calls, CloneFiles(c) PROVE LocalTypes'
  <2>1. CASE CloneFilesError(c)
    BY <1>33, <2>1 DEF CloneFiles, CloneImportedFiles, CloneFilesBegin, CloneFilesEnd,
         CloneFilesError
  <2>2. CASE pc[c] = "l_copy" /\ CloneFilesBegin(c, "l_copying")
    BY <1>33, <2>2 DEF CloneFiles, CloneImportedFiles, CloneFilesBegin, CloneFilesEnd,
         CloneFilesError
  <2>3. CASE pc[c] = "l_copying" /\ CloneFilesEnd(c, "l_insert")
    BY <1>33, <2>3 DEF CloneFiles, CloneImportedFiles, CloneFilesBegin, CloneFilesEnd,
         CloneFilesError
  <2>4. QED BY <1>33, <2>1, <2>2, <2>3 DEF CloneFiles, CloneImportedFiles, CloneFilesBegin,
       CloneFilesEnd, CloneFilesError
<1>34. ASSUME NEW c \in Calls, CloneInsert(c) PROVE LocalTypes'
  BY <1>34 DEF CloneInsert
<1>35. ASSUME NEW c \in Calls, PatchFiles(c) PROVE LocalTypes'
  <2>1. CASE CloneFilesError(c)
    BY <1>35, <2>1 DEF PatchFiles, CloneImportedFiles, CloneFilesBegin, CloneFilesEnd,
         CloneFilesError
  <2>2. CASE pc[c] = "p_copy" /\ CloneFilesBegin(c, "p_copying")
    BY <1>35, <2>2 DEF PatchFiles, CloneImportedFiles, CloneFilesBegin, CloneFilesEnd,
         CloneFilesError
  <2>3. CASE pc[c] = "p_copying" /\ CloneFilesEnd(c, "p_insert")
    BY <1>35, <2>3 DEF PatchFiles, CloneImportedFiles, CloneFilesBegin, CloneFilesEnd,
         CloneFilesError
  <2>4. QED BY <1>35, <2>1, <2>2, <2>3 DEF PatchFiles, CloneImportedFiles, CloneFilesBegin,
       CloneFilesEnd, CloneFilesError
<1>36. ASSUME NEW c \in Calls, RenameRead(c) PROVE LocalTypes'
  <2>1. CASE imported[tgt[c]] # NoRow
    BY <1>36, <2>1 DEF RenameRead
  <2>2. CASE imported[tgt[c]] = NoRow
    BY <1>36, <2>2 DEF RenameRead
  <2>3. QED BY <1>36, <2>1, <2>2 DEF RenameRead
<1>37. ASSUME NEW c \in Calls, PickFiles(c) PROVE LocalTypes'
  <2>1. CASE pc'[c] = "idle"
    BY <1>37, <2>1 DEF PickFiles, CloneFilesBegin, CloneFilesEnd, CloneFilesError
  <2>2. CASE pc'[c] # "idle"
    BY <1>37, <2>2 DEF PickFiles, CloneFilesBegin, CloneFilesEnd, CloneFilesError
  <2>3. QED BY <1>37, <2>1, <2>2 DEF PickFiles, CloneFilesBegin, CloneFilesEnd, CloneFilesError
<1>38. ASSUME NEW c \in Calls, PickOpen(c) PROVE LocalTypes'
  BY <1>38 DEF PickOpen, OpenConfig, OpenOther, OpenMode
<1>39. ASSUME NEW c \in Calls, NEW n \in Names, RenamePending(c, n) PROVE LocalTypes'
  BY <1>39 DEF RenamePending, UpdateRowIn, NoteRace, PublishedNow
<1>40. ASSUME NEW c \in Calls, NEW n \in Names, RenameImported(c, n) PROVE LocalTypes'
  BY <1>40 DEF RenameImported, UpdateRowIn, PublishedNow
<1>41. ASSUME NEW c \in Calls, NEW n \in Names, NEW s \in Sources \cup {Empty}, PatchInsert(c,
     n, s) PROVE LocalTypes'
  BY <1>41 DEF PatchInsert, NoteRace, PublishedNow
<1>42. ASSUME NEW c \in Calls, NEW n \in Names, NEW s \in Sources \cup {Empty}, PatchUpdate(c,
     n, s) PROVE LocalTypes'
  BY <1>42 DEF PatchUpdate, UpdateRowIn, NoteRace, PublishedNow
<1>43. ASSUME Kill PROVE LocalTypes'
  BY <1>43 DEF Kill
<1>44. ASSUME NEW c \in Calls, PatchImported(c) PROVE LocalTypes'
  BY <1>44 DEF PatchImported, ReadImported, NewPending, Tick
<1>45. ASSUME NEW c \in Calls, PickImported(c) PROVE LocalTypes'
  BY <1>45 DEF PickImported, ReadImported, NewPending, Tick
<1>46. ASSUME NEW c \in Calls, PickInsert(c) PROVE LocalTypes'
  BY <1>46 DEF PickInsert, NoteRace, PublishedNow
<1>47. ASSUME NEW c \in Calls, PickReadImported(c) PROVE LocalTypes'
  BY <1>47 DEF PickReadImported
<1>48. ASSUME NEW c \in Calls, PickReadPending(c) PROVE LocalTypes'
  BY <1>48 DEF PickReadPending
<1>49. ASSUME NEW u \in UUIDs, WriteFile(u) PROVE LocalTypes'
  BY <1>49 DEF WriteFile
<1>0. used \subseteq UUIDs OBVIOUS
<1> HIDE DEF ValuesOK, Labels, LockFree, LocalTypes, PendingRow, ImportedRow, Types
<1> QED BY <1>0, <1>1, <1>2, <1>3, <1>4, <1>5, <1>6, <1>7, <1>8, <1>9, <1>10, <1>11, <1>12, <1>13,
     <1>14, <1>15, <1>16, <1>17, <1>18, <1>19, <1>20, <1>21, <1>22, <1>23, <1>24, <1>25, <1>26,
     <1>27, <1>28, <1>29, <1>30, <1>31, <1>32, <1>33, <1>34, <1>35, <1>36, <1>37, <1>38, <1>39,
     <1>40, <1>41, <1>42, <1>43, <1>44, <1>45, <1>46, <1>47, <1>48, <1>49 DEF Next, Start,
     Step, Apply, Update, Delete, Release

\* From the end of the download to the end of the copy the processing directory
\* holds a configuration that the core accepted.
Staged ==
    \A c \in Calls : pc[c] \in {"a_check", "a_copy", "a_copying", "u_check", "u_copy",
         "u_copying"}
                        => processingDir \in Accepted

\* While a deletion removes files, the row is already gone.
DeletedRow == \A c \in Calls : pc[c] \in Deleting => imported[tgt[c]] = NoRow

\* When a publication writes its row, its files are the ones that were accepted, unless
\* a client has opened them meanwhile.
Published == \A c \in Calls : pc[c] \in {"a_row", "u_row"} =>
                importedDir[tgt[c]] \in Accepted \/ tgt[c] \in torn

\* A file that is open has a name, and one of an imported profile is noted.
Opened == \A u \in UUIDs :
            /\ <<"pending", u>> \in opened => pendingDir[u] # NoDir
            /\ <<"imported", u>> \in opened => importedDir[u] # NoDir /\ u \in torn

\* Steps of calls outside every critical section that leave the imported table,
\* its files, the processing directory and the mutexes alone.
Quiet(c) ==
    /\ pc[c] \notin ProfileHeld \cup ProcessHeld
    /\ pc'[c] \notin ProfileHeld \cup ProcessHeld
    /\ \A d \in Calls \ {c} : pc'[d] = pc[d] /\ tgt'[d] = tgt[d] /\ snap'[d] = snap[d] /\ row'[d] = row[d]
    /\ UNCHANGED <<imported, importedDir, processingDir, locks, torn>> /\ raced \subseteq raced'

\* Starting a call, and the lock-free operations except the two that write to the
\* imported table or its files, are quiet.
LEMMA QuietStep ==
    ASSUME ValuesOK, NEW c \in Calls,
           \/ Start(c) \/ CreateDir(c) \/ CloneFiles(c) \/ CloneInsert(c)
           \/ PatchImported(c) \/ PatchFiles(c) \/ RenameRead(c)
           \/ PickImported(c) \/ PickInsert(c) \/ PickFiles(c)
           \/ PickReadImported(c) \/ PickReadPending(c)
           \/ \E n \in Names : \/ RenamePending(c, n)
                              \/ \E s \in Sources \cup {Empty} :
                                    PatchInsert(c, n, s) \/ PatchUpdate(c, n, s)
    PROVE  Quiet(c)
<1> USE DEF db, dirs, locks, local, ids, hist, Detach, Goto, Return, Quiet, ProfileHeld, ProcessHeld
<1>0. used \subseteq UUIDs BY DEF ValuesOK
<1> USE DEF ValuesOK
<1>1. ASSUME NEW u \in UUIDs, ApplyCall(c, u) PROVE Quiet(c)
  BY <1>1 DEF ApplyCall, Call
<1>2. ASSUME NEW u \in UUIDs, UpdateCall(c, u) PROVE Quiet(c)
  BY <1>2 DEF UpdateCall, Call
<1>3. ASSUME NEW u \in UUIDs, DeleteCall(c, u) PROVE Quiet(c)
  BY <1>3 DEF DeleteCall, Call
<1>4. ASSUME NEW u \in UUIDs, ReleaseCall(c, u) PROVE Quiet(c)
  BY <1>4 DEF ReleaseCall, Call
<1>5. ASSUME NEW u \in UUIDs, PatchCall(c, u) PROVE Quiet(c)
  BY <1>5 DEF PatchCall
<1>6. ASSUME NEW u \in UUIDs, RenameCall(c, u) PROVE Quiet(c)
  BY <1>6 DEF RenameCall
<1>7. ASSUME NEW u \in UUIDs, PickCall(c, u) PROVE Quiet(c)
  BY <1>7 DEF PickCall
<1>8. ASSUME NEW u \in UUIDs, NEW v \in UUIDs, CloneCall(c, u, v) PROVE Quiet(c)
  BY <1>8 DEF CloneCall, NewPending, Tick
<1>9. ASSUME NEW u \in UUIDs, NEW n \in Names,
                NEW s \in Sources \cup {Empty}, NEW t \in Types, CreateRow(c, u, n, s,
                     t) PROVE Quiet(c)
  BY <1>9 DEF CreateRow, NewPending, Tick
<1>10. ASSUME CreateDir(c) PROVE Quiet(c)
  BY <1>10 DEF CreateDir
<1>11. ASSUME CloneFiles(c) PROVE Quiet(c)
  BY <1>11 DEF CloneFiles, CloneImportedFiles, CloneFilesBegin, CloneFilesEnd, CloneFilesError
<1>12. ASSUME CloneInsert(c) PROVE Quiet(c)
  BY <1>12 DEF CloneInsert
<1>13. ASSUME PatchFiles(c) PROVE Quiet(c)
  BY <1>13 DEF PatchFiles, CloneImportedFiles, CloneFilesBegin, CloneFilesEnd, CloneFilesError
<1>14. ASSUME RenameRead(c) PROVE Quiet(c)
  BY <1>14 DEF RenameRead
<1>15. ASSUME PickFiles(c) PROVE Quiet(c)
  BY <1>15 DEF PickFiles, CloneFilesBegin, CloneFilesEnd, CloneFilesError
<1>16. ASSUME NEW n \in Names, RenamePending(c, n) PROVE Quiet(c)
  BY <1>16 DEF RenamePending, UpdateRowIn, NoteRace, PublishedNow
<1>17. ASSUME NEW n \in Names, NEW s \in Sources \cup {Empty}, PatchInsert(c, n,
     s) PROVE Quiet(c)
  BY <1>17 DEF PatchInsert, NoteRace, PublishedNow
<1>18. ASSUME NEW n \in Names, NEW s \in Sources \cup {Empty}, PatchUpdate(c, n,
     s) PROVE Quiet(c)
  BY <1>18 DEF PatchUpdate, UpdateRowIn, NoteRace, PublishedNow
<1>19. ASSUME PatchImported(c) PROVE Quiet(c)
  BY <1>19 DEF PatchImported, ReadImported, NewPending, Tick
<1>20. ASSUME PickImported(c) PROVE Quiet(c)
  BY <1>20 DEF PickImported, ReadImported, NewPending, Tick
<1>21. ASSUME PickInsert(c) PROVE Quiet(c)
  BY <1>21 DEF PickInsert, NoteRace, PublishedNow
<1>22. ASSUME PickReadImported(c) PROVE Quiet(c)
  BY <1>22 DEF PickReadImported
<1>23. ASSUME PickReadPending(c) PROVE Quiet(c)
  BY <1>23 DEF PickReadPending
<1> HIDE DEF Quiet, ValuesOK
<1> QED BY <1>0, <1>1, <1>2, <1>3, <1>4, <1>5, <1>6, <1>7, <1>8, <1>9, <1>10, <1>11, <1>12, <1>13,
     <1>14, <1>15, <1>16, <1>17, <1>18, <1>19, <1>20, <1>21, <1>22, <1>23 DEF Start

\* Every step preserves mutual exclusion.
LEMMA LockStep ==
    ASSUME ValuesOK, LockInv, Next PROVE LockInv'
<1> USE ConstantsAssumption
<1> USE DEF db, dirs, locks, local, ids, hist, Detach, Goto, Return, ReleaseAll, ReleaseProcess
<1> USE DEF ValuesOK, LockInv, ProfileHeld, ProcessHeld
<1>1. ASSUME NEW c \in Calls, Quiet(c) PROVE LockInv'
  BY <1>1 DEF Quiet
<1>2. ASSUME NEW c \in Calls, ApplyEnter(c) PROVE LockInv'
  BY <1>2 DEF ApplyEnter
<1>3. ASSUME NEW c \in Calls, ApplySnapshot(c) PROVE LockInv'
  BY <1>3 DEF ApplySnapshot, FieldValid
<1>4. ASSUME NEW c \in Calls, ApplyStage(c) PROVE LockInv'
  BY <1>4 DEF ApplyStage, Stage
<1>5. ASSUME NEW c \in Calls, ApplyFetch(c) PROVE LockInv'
  BY <1>5 DEF ApplyFetch, FetchOk, FetchError, Fetched
<1>6. ASSUME NEW c \in Calls, ApplyCheck(c) PROVE LockInv'
  BY <1>6 DEF ApplyCheck, BeginPublish
<1>7. ASSUME NEW c \in Calls, ApplyCopy(c) PROVE LockInv'
  BY <1>7 DEF ApplyCopy, CopyBegin, CopyEnd, CopyError
<1>8. ASSUME NEW c \in Calls, ApplyRow(c) PROVE LockInv'
  BY <1>8 DEF ApplyRow, AsImported
<1>9. ASSUME NEW c \in Calls, ApplyDrop(c) PROVE LockInv'
  BY <1>9 DEF ApplyDrop
<1>10. ASSUME NEW c \in Calls, ApplyDropDir(c) PROVE LockInv'
  BY <1>10 DEF ApplyDropDir
<1>11. ASSUME NEW c \in Calls, UpdateEnter(c) PROVE LockInv'
  BY <1>11 DEF UpdateEnter
<1>12. ASSUME NEW c \in Calls, UpdateSnapshot(c) PROVE LockInv'
  BY <1>12 DEF UpdateSnapshot
<1>13. ASSUME NEW c \in Calls, UpdateStage(c) PROVE LockInv'
  BY <1>13 DEF UpdateStage, Stage
<1>14. ASSUME NEW c \in Calls, UpdateFetch(c) PROVE LockInv'
  BY <1>14 DEF UpdateFetch, FetchOk, FetchError, Fetched
<1>15. ASSUME NEW c \in Calls, UpdateCheck(c) PROVE LockInv'
  BY <1>15 DEF UpdateCheck, BeginPublish
<1>16. ASSUME NEW c \in Calls, UpdateCopy(c) PROVE LockInv'
  BY <1>16 DEF UpdateCopy, CopyBegin, CopyEnd, CopyError
<1>17. ASSUME NEW c \in Calls, UpdateRow(c) PROVE LockInv'
  BY <1>17 DEF UpdateRow
<1>18. ASSUME NEW c \in Calls, DeleteImported(c) PROVE LockInv'
  BY <1>18 DEF DeleteImported
<1>19. ASSUME NEW c \in Calls, DeletePending(c) PROVE LockInv'
  BY <1>19 DEF DeletePending
<1>20. ASSUME NEW c \in Calls, DeletePendingDir(c) PROVE LockInv'
  BY <1>20 DEF DeletePendingDir
<1>21. ASSUME NEW c \in Calls, DeleteImportedDir(c) PROVE LockInv'
  BY <1>21 DEF DeleteImportedDir
<1>22. ASSUME NEW c \in Calls, Release(c) PROVE LockInv'
  BY <1>22 DEF Release, ReleasePending, ReleasePendingDir
<1>23. ASSUME NEW c \in Calls, PickOpen(c) PROVE LockInv'
  BY <1>23 DEF PickOpen, OpenConfig, OpenOther, OpenMode
<1>24. ASSUME NEW c \in Calls, NEW n \in Names, RenameImported(c, n) PROVE LockInv'
  BY <1>24 DEF RenameImported, UpdateRowIn, PublishedNow
<1>25. ASSUME Kill PROVE LockInv'
  BY <1>25 DEF Kill
<1>26. ASSUME NEW u \in UUIDs, WriteFile(u) PROVE LockInv'
  BY <1>26 DEF WriteFile
<1> HIDE DEF ValuesOK, LockInv, ProfileHeld, ProcessHeld
<1> QED BY QuietStep, <1>1, <1>2, <1>3, <1>4, <1>5, <1>6, <1>7, <1>8, <1>9, <1>10, <1>11, <1>12,
     <1>13, <1>14, <1>15, <1>16, <1>17, <1>18, <1>19, <1>20, <1>21, <1>22, <1>23, <1>24, <1>25,
     <1>26 DEF Next, Step, Apply, Update, Delete

\* Only the owner of processLock writes to the processing directory.
LEMMA StagedStep ==
    ASSUME ValuesOK, LockInv, Staged, Next PROVE Staged'
<1> USE ConstantsAssumption
<1> USE DEF db, dirs, locks, local, ids, hist, Detach, Goto, Return, ReleaseAll, ReleaseProcess
<1> USE DEF ValuesOK, LockInv, ProcessHeld, Staged
<1>1. ASSUME NEW c \in Calls, Quiet(c) PROVE Staged'
  BY <1>1 DEF Quiet
<1>2. ASSUME NEW c \in Calls, ApplyEnter(c) PROVE Staged'
  BY <1>2 DEF ApplyEnter
<1>3. ASSUME NEW c \in Calls, ApplySnapshot(c) PROVE Staged'
  BY <1>3 DEF ApplySnapshot, FieldValid
<1>4. ASSUME NEW c \in Calls, ApplyStage(c) PROVE Staged'
  BY <1>4 DEF ApplyStage, Stage
<1>5. ASSUME NEW c \in Calls, ApplyFetch(c) PROVE Staged'
  BY <1>5 DEF ApplyFetch, FetchOk, FetchError, Fetched
<1>6. ASSUME NEW c \in Calls, ApplyCheck(c) PROVE Staged'
  BY <1>6 DEF ApplyCheck, BeginPublish
<1>7. ASSUME NEW c \in Calls, ApplyCopy(c) PROVE Staged'
  BY <1>7 DEF ApplyCopy, CopyBegin, CopyEnd, CopyError
<1>8. ASSUME NEW c \in Calls, ApplyRow(c) PROVE Staged'
  BY <1>8 DEF ApplyRow, AsImported
<1>9. ASSUME NEW c \in Calls, ApplyDrop(c) PROVE Staged'
  BY <1>9 DEF ApplyDrop
<1>10. ASSUME NEW c \in Calls, ApplyDropDir(c) PROVE Staged'
  BY <1>10 DEF ApplyDropDir
<1>11. ASSUME NEW c \in Calls, UpdateEnter(c) PROVE Staged'
  BY <1>11 DEF UpdateEnter
<1>12. ASSUME NEW c \in Calls, UpdateSnapshot(c) PROVE Staged'
  BY <1>12 DEF UpdateSnapshot
<1>13. ASSUME NEW c \in Calls, UpdateStage(c) PROVE Staged'
  BY <1>13 DEF UpdateStage, Stage
<1>14. ASSUME NEW c \in Calls, UpdateFetch(c) PROVE Staged'
  BY <1>14 DEF UpdateFetch, FetchOk, FetchError, Fetched
<1>15. ASSUME NEW c \in Calls, UpdateCheck(c) PROVE Staged'
  BY <1>15 DEF UpdateCheck, BeginPublish
<1>16. ASSUME NEW c \in Calls, UpdateCopy(c) PROVE Staged'
  BY <1>16 DEF UpdateCopy, CopyBegin, CopyEnd, CopyError
<1>17. ASSUME NEW c \in Calls, UpdateRow(c) PROVE Staged'
  BY <1>17 DEF UpdateRow
<1>18. ASSUME NEW c \in Calls, DeleteImported(c) PROVE Staged'
  BY <1>18 DEF DeleteImported
<1>19. ASSUME NEW c \in Calls, DeletePending(c) PROVE Staged'
  BY <1>19 DEF DeletePending
<1>20. ASSUME NEW c \in Calls, DeletePendingDir(c) PROVE Staged'
  BY <1>20 DEF DeletePendingDir
<1>21. ASSUME NEW c \in Calls, DeleteImportedDir(c) PROVE Staged'
  BY <1>21 DEF DeleteImportedDir
<1>22. ASSUME NEW c \in Calls, Release(c) PROVE Staged'
  BY <1>22 DEF Release, ReleasePending, ReleasePendingDir
<1>23. ASSUME NEW c \in Calls, PickOpen(c) PROVE Staged'
  BY <1>23 DEF PickOpen, OpenConfig, OpenOther, OpenMode
<1>24. ASSUME NEW c \in Calls, NEW n \in Names, RenameImported(c, n) PROVE Staged'
  BY <1>24 DEF RenameImported, UpdateRowIn, PublishedNow
<1>25. ASSUME Kill PROVE Staged'
  BY <1>25 DEF Kill
<1>26. ASSUME NEW u \in UUIDs, WriteFile(u) PROVE Staged'
  BY <1>26 DEF WriteFile
<1> HIDE DEF ValuesOK, LockInv, ProcessHeld, Staged
<1> QED BY QuietStep, <1>1, <1>2, <1>3, <1>4, <1>5, <1>6, <1>7, <1>8, <1>9, <1>10, <1>11, <1>12,
     <1>13, <1>14, <1>15, <1>16, <1>17, <1>18, <1>19, <1>20, <1>21, <1>22, <1>23, <1>24, <1>25,
     <1>26 DEF Next, Step, Apply, Update, Delete

\* No row comes back while profileLock is held by a deletion.
LEMMA DeletedRowStep ==
    ASSUME ValuesOK, LockInv, DeletedRow, Next PROVE DeletedRow'
<1> USE ConstantsAssumption
<1> USE DEF db, dirs, locks, local, ids, hist, Detach, Goto, Return, ReleaseAll, ReleaseProcess
<1> USE DEF ValuesOK, LockInv, ProfileHeld, DeletedRow, Deleting
<1>1. ASSUME NEW c \in Calls, Quiet(c) PROVE DeletedRow'
  BY <1>1 DEF Quiet
<1>2. ASSUME NEW c \in Calls, ApplyEnter(c) PROVE DeletedRow'
  BY <1>2 DEF ApplyEnter
<1>3. ASSUME NEW c \in Calls, ApplySnapshot(c) PROVE DeletedRow'
  BY <1>3 DEF ApplySnapshot, FieldValid
<1>4. ASSUME NEW c \in Calls, ApplyStage(c) PROVE DeletedRow'
  BY <1>4 DEF ApplyStage, Stage
<1>5. ASSUME NEW c \in Calls, ApplyFetch(c) PROVE DeletedRow'
  BY <1>5 DEF ApplyFetch, FetchOk, FetchError, Fetched
<1>6. ASSUME NEW c \in Calls, ApplyCheck(c) PROVE DeletedRow'
  BY <1>6 DEF ApplyCheck, BeginPublish
<1>7. ASSUME NEW c \in Calls, ApplyCopy(c) PROVE DeletedRow'
  BY <1>7 DEF ApplyCopy, CopyBegin, CopyEnd, CopyError
<1>8. ASSUME NEW c \in Calls, ApplyRow(c) PROVE DeletedRow'
  BY <1>8 DEF ApplyRow, AsImported
<1>9. ASSUME NEW c \in Calls, ApplyDrop(c) PROVE DeletedRow'
  BY <1>9 DEF ApplyDrop
<1>10. ASSUME NEW c \in Calls, ApplyDropDir(c) PROVE DeletedRow'
  BY <1>10 DEF ApplyDropDir
<1>11. ASSUME NEW c \in Calls, UpdateEnter(c) PROVE DeletedRow'
  BY <1>11 DEF UpdateEnter
<1>12. ASSUME NEW c \in Calls, UpdateSnapshot(c) PROVE DeletedRow'
  BY <1>12 DEF UpdateSnapshot
<1>13. ASSUME NEW c \in Calls, UpdateStage(c) PROVE DeletedRow'
  BY <1>13 DEF UpdateStage, Stage
<1>14. ASSUME NEW c \in Calls, UpdateFetch(c) PROVE DeletedRow'
  BY <1>14 DEF UpdateFetch, FetchOk, FetchError, Fetched
<1>15. ASSUME NEW c \in Calls, UpdateCheck(c) PROVE DeletedRow'
  BY <1>15 DEF UpdateCheck, BeginPublish
<1>16. ASSUME NEW c \in Calls, UpdateCopy(c) PROVE DeletedRow'
  BY <1>16 DEF UpdateCopy, CopyBegin, CopyEnd, CopyError
<1>17. ASSUME NEW c \in Calls, UpdateRow(c) PROVE DeletedRow'
  BY <1>17 DEF UpdateRow
<1>18. ASSUME NEW c \in Calls, DeleteImported(c) PROVE DeletedRow'
  BY <1>18 DEF DeleteImported
<1>19. ASSUME NEW c \in Calls, DeletePending(c) PROVE DeletedRow'
  BY <1>19 DEF DeletePending
<1>20. ASSUME NEW c \in Calls, DeletePendingDir(c) PROVE DeletedRow'
  BY <1>20 DEF DeletePendingDir
<1>21. ASSUME NEW c \in Calls, DeleteImportedDir(c) PROVE DeletedRow'
  BY <1>21 DEF DeleteImportedDir
<1>22. ASSUME NEW c \in Calls, Release(c) PROVE DeletedRow'
  BY <1>22 DEF Release, ReleasePending, ReleasePendingDir
<1>23. ASSUME NEW c \in Calls, PickOpen(c) PROVE DeletedRow'
  BY <1>23 DEF PickOpen, OpenConfig, OpenOther, OpenMode
<1>24. ASSUME NEW c \in Calls, NEW n \in Names, RenameImported(c, n) PROVE DeletedRow'
  BY <1>24 DEF RenameImported, UpdateRowIn, PublishedNow
<1>25. ASSUME Kill PROVE DeletedRow'
  BY <1>25 DEF Kill
<1>26. ASSUME NEW u \in UUIDs, WriteFile(u) PROVE DeletedRow'
  BY <1>26 DEF WriteFile
<1> HIDE DEF ValuesOK, LockInv, ProfileHeld, DeletedRow, Deleting
<1> QED BY QuietStep, <1>1, <1>2, <1>3, <1>4, <1>5, <1>6, <1>7, <1>8, <1>9, <1>10, <1>11, <1>12,
     <1>13, <1>14, <1>15, <1>16, <1>17, <1>18, <1>19, <1>20, <1>21, <1>22, <1>23, <1>24, <1>25,
     <1>26 DEF Next, Step, Apply, Update, Delete

\* The end of a copy leaves what was staged, or a file that is noted as torn.
LEMMA CopyEndLeaves ==
    ASSUME ValuesOK, Opened, NEW c \in Calls, NEW next, CopyEnd(c, next)
    PROVE  /\ tgt[c] \in torn' \/ importedDir'[tgt[c]] = processingDir
           /\ \A u \in UUIDs \ {tgt[c]} : importedDir'[u] = importedDir[u] /\ (u \in torn' <=> u \in torn)
           /\ pc' = [pc EXCEPT ![c] = next]
           /\ UNCHANGED <<db, processingDir, locks, local, raced>>
<1> USE DEF ValuesOK, CopyEnd, Goto, locks, db
<1>1. CASE <<"imported", tgt[c]>> \in opened
  BY <1>1 DEF Opened
<1>2. CASE <<"imported", tgt[c]>> \notin opened
  BY <1>2
<1>3. QED BY <1>1, <1>2

\* What a client writes changes no imported file that is not noted as torn.
LEMMA WriteFileKeeps ==
    ASSUME ValuesOK, Opened, NEW u \in UUIDs, WriteFile(u)
    PROVE  \A v \in UUIDs : v \notin torn => importedDir'[v] = importedDir[v]
<1> USE DEF ValuesOK, dirs
<1>1. CASE <<"imported", u>> \in opened
  BY <1>1 DEF Opened, WriteFile
<1>2. CASE <<"imported", u>> \notin opened
  BY <1>2 DEF WriteFile
<1>3. QED BY <1>1, <1>2

\* No other call disturbs files that were just copied.
LEMMA PublishedStep ==
    ASSUME ValuesOK, LockInv, Staged, Opened, Published, Next PROVE Published'
<1> USE ConstantsAssumption
<1> USE DEF db, dirs, locks, local, ids, hist, Detach, Goto, Return, ReleaseAll, ReleaseProcess
<1> USE DEF ValuesOK, LockInv, ProfileHeld, Staged, Published
<1>1. ASSUME NEW c \in Calls, Quiet(c) PROVE Published'
  BY <1>1 DEF Quiet
<1>2. ASSUME NEW c \in Calls, ApplyEnter(c) PROVE Published'
  BY <1>2 DEF ApplyEnter
<1>3. ASSUME NEW c \in Calls, ApplySnapshot(c) PROVE Published'
  BY <1>3 DEF ApplySnapshot, FieldValid
<1>4. ASSUME NEW c \in Calls, ApplyStage(c) PROVE Published'
  BY <1>4 DEF ApplyStage, Stage
<1>5. ASSUME NEW c \in Calls, ApplyFetch(c) PROVE Published'
  BY <1>5 DEF ApplyFetch, FetchOk, FetchError, Fetched
<1>6. ASSUME NEW c \in Calls, ApplyCheck(c) PROVE Published'
  BY <1>6 DEF ApplyCheck, BeginPublish
<1>7. ASSUME NEW c \in Calls, ApplyCopy(c) PROVE Published'
  <2>1. CASE CopyBegin(c, "a_copying")
    BY <1>7, <2>1 DEF ApplyCopy, CopyBegin
  <2>2. CASE pc[c] = "a_copying" /\ CopyEnd(c, "a_row")
    BY <2>2, CopyEndLeaves
  <2>3. CASE CopyError(c)
    BY <1>7, <2>3 DEF ApplyCopy, CopyError
  <2>4. QED BY <1>7, <2>1, <2>2, <2>3 DEF ApplyCopy
<1>8. ASSUME NEW c \in Calls, ApplyRow(c) PROVE Published'
  BY <1>8 DEF ApplyRow, AsImported
<1>9. ASSUME NEW c \in Calls, ApplyDrop(c) PROVE Published'
  BY <1>9 DEF ApplyDrop
<1>10. ASSUME NEW c \in Calls, ApplyDropDir(c) PROVE Published'
  BY <1>10 DEF ApplyDropDir
<1>11. ASSUME NEW c \in Calls, UpdateEnter(c) PROVE Published'
  BY <1>11 DEF UpdateEnter
<1>12. ASSUME NEW c \in Calls, UpdateSnapshot(c) PROVE Published'
  BY <1>12 DEF UpdateSnapshot
<1>13. ASSUME NEW c \in Calls, UpdateStage(c) PROVE Published'
  BY <1>13 DEF UpdateStage, Stage
<1>14. ASSUME NEW c \in Calls, UpdateFetch(c) PROVE Published'
  BY <1>14 DEF UpdateFetch, FetchOk, FetchError, Fetched
<1>15. ASSUME NEW c \in Calls, UpdateCheck(c) PROVE Published'
  BY <1>15 DEF UpdateCheck, BeginPublish
<1>16. ASSUME NEW c \in Calls, UpdateCopy(c) PROVE Published'
  <2>1. CASE CopyBegin(c, "u_copying")
    BY <1>16, <2>1 DEF UpdateCopy, CopyBegin
  <2>2. CASE pc[c] = "u_copying" /\ CopyEnd(c, "u_row")
    BY <2>2, CopyEndLeaves
  <2>3. CASE CopyError(c)
    BY <1>16, <2>3 DEF UpdateCopy, CopyError
  <2>4. QED BY <1>16, <2>1, <2>2, <2>3 DEF UpdateCopy
<1>17. ASSUME NEW c \in Calls, UpdateRow(c) PROVE Published'
  BY <1>17 DEF UpdateRow
<1>18. ASSUME NEW c \in Calls, DeleteImported(c) PROVE Published'
  BY <1>18 DEF DeleteImported
<1>19. ASSUME NEW c \in Calls, DeletePending(c) PROVE Published'
  BY <1>19 DEF DeletePending
<1>20. ASSUME NEW c \in Calls, DeletePendingDir(c) PROVE Published'
  BY <1>20 DEF DeletePendingDir
<1>21. ASSUME NEW c \in Calls, DeleteImportedDir(c) PROVE Published'
  BY <1>21 DEF DeleteImportedDir
<1>22. ASSUME NEW c \in Calls, Release(c) PROVE Published'
  BY <1>22 DEF Release, ReleasePending, ReleasePendingDir
<1>23. ASSUME NEW c \in Calls, PickOpen(c) PROVE Published'
  BY <1>23 DEF Opened, PickOpen, OpenConfig, OpenOther, OpenMode
<1>24. ASSUME NEW c \in Calls, NEW n \in Names, RenameImported(c, n) PROVE Published'
  BY <1>24 DEF RenameImported, UpdateRowIn, PublishedNow
<1>25. ASSUME Kill PROVE Published'
  BY <1>25 DEF Kill
<1>26. ASSUME NEW u \in UUIDs, WriteFile(u) PROVE Published'
  BY <1>26, WriteFileKeeps DEF WriteFile
<1> HIDE DEF ValuesOK, LockInv, ProfileHeld, Staged, Published
<1> QED BY QuietStep, <1>1, <1>2, <1>3, <1>4, <1>5, <1>6, <1>7, <1>8, <1>9, <1>10, <1>11, <1>12,
     <1>13, <1>14, <1>15, <1>16, <1>17, <1>18, <1>19, <1>20, <1>21, <1>22, <1>23, <1>24, <1>25,
     <1>26 DEF Next, Step, Apply, Update, Delete

\* Every step preserves that imported files have been accepted.
LEMMA AcceptedStep ==
    ASSUME ValuesOK, LockInv, Staged, DeletedRow, Opened, Published, ImportedFilesAccepted,
         Next PROVE ImportedFilesAccepted'
<1> USE ConstantsAssumption
<1> USE DEF db, dirs, locks, local, ids, hist, Detach, Goto, Return, ReleaseAll, ReleaseProcess
<1> USE DEF ValuesOK, LockInv, ProfileHeld, Staged, Published, DeletedRow, ImportedFilesAccepted,
            Copying, Deleting
<1>1. ASSUME NEW c \in Calls, Quiet(c) PROVE ImportedFilesAccepted'
  BY <1>1 DEF Quiet
<1>2. ASSUME NEW c \in Calls, ApplyEnter(c) PROVE ImportedFilesAccepted'
  BY <1>2 DEF ApplyEnter
<1>3. ASSUME NEW c \in Calls, ApplySnapshot(c) PROVE ImportedFilesAccepted'
  BY <1>3 DEF ApplySnapshot, FieldValid
<1>4. ASSUME NEW c \in Calls, ApplyStage(c) PROVE ImportedFilesAccepted'
  BY <1>4 DEF ApplyStage, Stage
<1>5. ASSUME NEW c \in Calls, ApplyFetch(c) PROVE ImportedFilesAccepted'
  BY <1>5 DEF ApplyFetch, FetchOk, FetchError, Fetched
<1>6. ASSUME NEW c \in Calls, ApplyCheck(c) PROVE ImportedFilesAccepted'
  BY <1>6 DEF ApplyCheck, BeginPublish
<1>7. ASSUME NEW c \in Calls, ApplyCopy(c) PROVE ImportedFilesAccepted'
  <2>1. CASE CopyBegin(c, "a_copying")
    BY <1>7, <2>1 DEF ApplyCopy, CopyBegin
  <2>2. CASE pc[c] = "a_copying" /\ CopyEnd(c, "a_row")
    BY <2>2, CopyEndLeaves
  <2>3. CASE CopyError(c)
    BY <1>7, <2>3 DEF ApplyCopy, CopyError
  <2>4. QED BY <1>7, <2>1, <2>2, <2>3 DEF ApplyCopy
<1>8. ASSUME NEW c \in Calls, ApplyRow(c) PROVE ImportedFilesAccepted'
  BY <1>8 DEF ApplyRow, AsImported
<1>9. ASSUME NEW c \in Calls, ApplyDrop(c) PROVE ImportedFilesAccepted'
  BY <1>9 DEF ApplyDrop
<1>10. ASSUME NEW c \in Calls, ApplyDropDir(c) PROVE ImportedFilesAccepted'
  BY <1>10 DEF ApplyDropDir
<1>11. ASSUME NEW c \in Calls, UpdateEnter(c) PROVE ImportedFilesAccepted'
  BY <1>11 DEF UpdateEnter
<1>12. ASSUME NEW c \in Calls, UpdateSnapshot(c) PROVE ImportedFilesAccepted'
  BY <1>12 DEF UpdateSnapshot
<1>13. ASSUME NEW c \in Calls, UpdateStage(c) PROVE ImportedFilesAccepted'
  BY <1>13 DEF UpdateStage, Stage
<1>14. ASSUME NEW c \in Calls, UpdateFetch(c) PROVE ImportedFilesAccepted'
  BY <1>14 DEF UpdateFetch, FetchOk, FetchError, Fetched
<1>15. ASSUME NEW c \in Calls, UpdateCheck(c) PROVE ImportedFilesAccepted'
  BY <1>15 DEF UpdateCheck, BeginPublish
<1>16. ASSUME NEW c \in Calls, UpdateCopy(c) PROVE ImportedFilesAccepted'
  <2>1. CASE CopyBegin(c, "u_copying")
    BY <1>16, <2>1 DEF UpdateCopy, CopyBegin
  <2>2. CASE pc[c] = "u_copying" /\ CopyEnd(c, "u_row")
    BY <2>2, CopyEndLeaves
  <2>3. CASE CopyError(c)
    BY <1>16, <2>3 DEF UpdateCopy, CopyError
  <2>4. QED BY <1>16, <2>1, <2>2, <2>3 DEF UpdateCopy
<1>17. ASSUME NEW c \in Calls, UpdateRow(c) PROVE ImportedFilesAccepted'
  BY <1>17 DEF UpdateRow
<1>18. ASSUME NEW c \in Calls, DeleteImported(c) PROVE ImportedFilesAccepted'
  BY <1>18 DEF DeleteImported
<1>19. ASSUME NEW c \in Calls, DeletePending(c) PROVE ImportedFilesAccepted'
  BY <1>19 DEF DeletePending
<1>20. ASSUME NEW c \in Calls, DeletePendingDir(c) PROVE ImportedFilesAccepted'
  BY <1>20 DEF DeletePendingDir
<1>21. ASSUME NEW c \in Calls, DeleteImportedDir(c) PROVE ImportedFilesAccepted'
  BY <1>21 DEF DeleteImportedDir
<1>22. ASSUME NEW c \in Calls, Release(c) PROVE ImportedFilesAccepted'
  BY <1>22 DEF Release, ReleasePending, ReleasePendingDir
<1>23. ASSUME NEW c \in Calls, PickOpen(c) PROVE ImportedFilesAccepted'
  BY <1>23 DEF Opened, PickOpen, OpenConfig, OpenOther, OpenMode
<1>24. ASSUME NEW c \in Calls, NEW n \in Names, RenameImported(c, n) PROVE ImportedFilesAccepted'
  BY <1>24 DEF RenameImported, UpdateRowIn, PublishedNow
<1>25. ASSUME Kill PROVE ImportedFilesAccepted'
  BY <1>25 DEF Kill
<1>26. ASSUME NEW u \in UUIDs, WriteFile(u) PROVE ImportedFilesAccepted'
  BY <1>26, WriteFileKeeps DEF WriteFile
<1> HIDE DEF ValuesOK, LockInv, ProfileHeld, Staged, Published, DeletedRow, ImportedFilesAccepted,
            Copying, Deleting
<1> QED BY QuietStep, <1>1, <1>2, <1>3, <1>4, <1>5, <1>6, <1>7, <1>8, <1>9, <1>10, <1>11, <1>12,
     <1>13, <1>14, <1>15, <1>16, <1>17, <1>18, <1>19, <1>20, <1>21, <1>22, <1>23, <1>24, <1>25,
     <1>26 DEF Next, Step, Apply, Update, Delete

-----------------------------------------------------------------------------
(* Where the files of a profile come from, and what becomes of a deleted one. *)

\* Calls, deletions and rows are of profiles that have been handed out.
Known == /\ deleted \subseteq used
         /\ \A c \in Calls : pc[c] # "idle" => tgt[c] \in used
         /\ \A u \in UUIDs \ used : pending[u] = NoRow /\ imported[u] = NoRow

\* Labels at which a call cannot change a profile of which there are no rows.
Early == {"idle", "a_enter", "a_snapshot", "u_enter", "u_snapshot", "d_enter", "d_pending",
          "d_pendingdir", "d_importeddir", "r_enter", "r_dir", "n_read", "p_imported", "k_imported"}

\* A profile has no rows, and no other call is past its first look at it, until clone
\* inserts its row.
Cloning ==
    \A c \in Calls : pc[c] \in {"l_copy", "l_copying", "l_insert"} =>
        /\ pending[tgt[c]] = NoRow /\ imported[tgt[c]] = NoRow
        /\ \A d \in Calls \ {c} : tgt[d] = tgt[c] => pc[d] \in Early

\* Labels from which a call could bring a deleted profile back.
Reviving == Publishing \cup {"c_dir", "p_copy", "p_copying", "p_insert", "l_copy", "l_copying",
                             "l_insert", "k_insert", "k_copy", "k_copying"}

\* A deleted profile has no imported row, and no call that could bring it back.
Gone == \A u \in deleted : /\ imported[u] = NoRow
                           /\ \A c \in Calls : tgt[c] = u => pc[c] \notin Reviving

\* What is left of a deleted profile, by how far its deletion has come.
Remains ==
    \A u \in deleted :
        \/ \E c \in Calls : pc[c] = "d_pending" /\ tgt[c] = u
        \/ /\ pending[u] = NoRow
           /\ \E c \in Calls : pc[c] = "d_pendingdir" /\ tgt[c] = u
        \/ /\ pending[u] = NoRow /\ pendingDir[u] = NoDir
           /\ \E c \in Calls : pc[c] = "d_importeddir" /\ tgt[c] = u
        \/ pending[u] = NoRow /\ pendingDir[u] = NoDir /\ importedDir[u] = NoDir

\* What was downloaded came from the source of the snapshot; a File profile keeps its files.
StagedOwn ==
    \A c \in Calls :
        /\ pc[c] \in {"a_check", "a_copy", "a_copying"} /\ snap[c].type # "File" =>
              processingDir = snap[c].source
        /\ pc[c] \in {"u_check", "u_copy", "u_copying"} => processingDir = snap[c].source

SameOrigin(r, s) == r.source = s.source /\ r.type = s.type

\* While update works, only a rename changes the row, and only its name, or it is noted.
UpdateOwn ==
    \A c \in Calls :
        /\ pc[c] \in {"u_stage", "u_fetch", "u_check"} =>
              \/ tgt[c] \in raced \/ imported[tgt[c]] = NoRow
              \/ SameOrigin(imported[tgt[c]], snap[c])
        /\ pc[c] \in {"u_copy", "u_copying", "u_row"} =>
              tgt[c] \in raced \/ (imported[tgt[c]] = row[c] /\ SameOrigin(row[c], snap[c]))
        /\ pc[c] = "u_row" /\ snap[c].type # "File" =>
              tgt[c] \in raced \cup torn \/ importedDir[tgt[c]] = snap[c].source

\* While apply publishes, the pending row stays what it was at the snapshot, or it is noted;
\* then its files, and then its row, are published.
ApplyOwn ==
    \A c \in Calls :
        /\ pc[c] \in {"a_copy", "a_copying", "a_row", "a_drop"} =>
              pending[tgt[c]] # NoRow /\ (tgt[c] \in raced \/ pending[tgt[c]] = snap[c])
        /\ pc[c] \in {"a_row", "a_drop"} /\ snap[c].type # "File" =>
              tgt[c] \in torn \/ importedDir[tgt[c]] = snap[c].source
        /\ pc[c] = "a_drop" => tgt[c] \in raced \/ imported[tgt[c]] = AsImported(snap[c])

\* Calls are started on profiles that have been handed out.
LEMMA KnownStep ==
    ASSUME ValuesOK, Known, Next PROVE Known'
<1>0. used \subseteq UUIDs
  BY DEF ValuesOK
<1> USE ConstantsAssumption
<1> USE DEF db, dirs, locks, local, ids, hist, Detach, Goto, Return, ReleaseAll, ReleaseProcess
<1> USE DEF ValuesOK, Known
<1>1. ASSUME NEW c \in Calls, NEW u \in used, ApplyCall(c, u) \/ UpdateCall(c, u) \/ DeleteCall(c, u) \/ ReleaseCall(c, u) PROVE Known'
  BY <1>1, <1>0 DEF ApplyCall, UpdateCall, DeleteCall, ReleaseCall, Call
<1>2. ASSUME NEW c \in Calls, NEW u \in used, PatchCall(c, u) PROVE Known'
  BY <1>2, <1>0 DEF PatchCall
<1>3. ASSUME NEW c \in Calls, NEW u \in used, RenameCall(c, u) PROVE Known'
  BY <1>3, <1>0 DEF RenameCall
<1>4. ASSUME NEW c \in Calls, NEW u \in used, PickCall(c, u) PROVE Known'
  BY <1>4, <1>0 DEF PickCall
<1>5. ASSUME NEW c \in Calls, NEW u \in used, NEW v \in UUIDs, CloneCall(c, u, v) PROVE Known'
  BY <1>5, <1>0 DEF CloneCall, NewPending, Tick
<1>6. ASSUME NEW c \in Calls, NEW u \in UUIDs, NEW n \in Names, NEW s \in Sources \cup {Empty}, NEW t \in Types,
             CreateRow(c, u, n, s, t) PROVE Known'
  BY <1>6, <1>0 DEF CreateRow, NewPending, Tick
<1>7. ASSUME NEW c \in Calls, CreateDir(c) PROVE Known'
  BY <1>7, <1>0 DEF CreateDir
<1>8. ASSUME NEW c \in Calls, CloneFiles(c) PROVE Known'
  BY <1>8, <1>0 DEF CloneFiles, CloneImportedFiles, CloneFilesBegin, CloneFilesEnd,
    CloneFilesError
<1>9. ASSUME NEW c \in Calls, CloneInsert(c) PROVE Known'
  BY <1>9, <1>0 DEF CloneInsert
<1>10. ASSUME NEW c \in Calls, PatchFiles(c) PROVE Known'
  BY <1>10, <1>0 DEF PatchFiles, CloneImportedFiles, CloneFilesBegin, CloneFilesEnd,
    CloneFilesError
<1>11. ASSUME NEW c \in Calls, RenameRead(c) PROVE Known'
  BY <1>11, <1>0 DEF RenameRead
<1>12. ASSUME NEW c \in Calls, PickFiles(c) PROVE Known'
  BY <1>12, <1>0 DEF PickFiles, CloneFilesBegin, CloneFilesEnd, CloneFilesError
<1>13. ASSUME NEW c \in Calls, NEW n \in Names, RenamePending(c, n) PROVE Known'
  BY <1>13, <1>0 DEF RenamePending, UpdateRowIn, NoteRace
<1>14. ASSUME NEW c \in Calls, NEW n \in Names, NEW s \in Sources \cup {Empty}, PatchInsert(c, n, s) PROVE Known'
  BY <1>14, <1>0 DEF PatchInsert, NoteRace
<1>15. ASSUME NEW c \in Calls, NEW n \in Names, NEW s \in Sources \cup {Empty}, PatchUpdate(c, n, s) PROVE Known'
  BY <1>15, <1>0 DEF PatchUpdate, UpdateRowIn, NoteRace
<1>16. ASSUME NEW c \in Calls, ApplyEnter(c) PROVE Known'
  BY <1>16, <1>0 DEF ApplyEnter
<1>17. ASSUME NEW c \in Calls, ApplySnapshot(c) PROVE Known'
  BY <1>17, <1>0 DEF ApplySnapshot, FieldValid
<1>18. ASSUME NEW c \in Calls, ApplyStage(c) PROVE Known'
  BY <1>18, <1>0 DEF ApplyStage, Stage
<1>19. ASSUME NEW c \in Calls, ApplyFetch(c) PROVE Known'
  BY <1>19, <1>0 DEF ApplyFetch, FetchOk, FetchError, Fetched
<1>20. ASSUME NEW c \in Calls, ApplyCheck(c) PROVE Known'
  BY <1>20, <1>0 DEF ApplyCheck, BeginPublish
<1>21. ASSUME NEW c \in Calls, ApplyCopy(c) PROVE Known'
  BY <1>21, <1>0 DEF ApplyCopy, CopyBegin, CopyEnd, CopyError
<1>22. ASSUME NEW c \in Calls, ApplyRow(c) PROVE Known'
  BY <1>22, <1>0 DEF ApplyRow, AsImported
<1>23. ASSUME NEW c \in Calls, ApplyDrop(c) PROVE Known'
  BY <1>23, <1>0 DEF ApplyDrop
<1>24. ASSUME NEW c \in Calls, ApplyDropDir(c) PROVE Known'
  BY <1>24, <1>0 DEF ApplyDropDir
<1>25. ASSUME NEW c \in Calls, UpdateEnter(c) PROVE Known'
  BY <1>25, <1>0 DEF UpdateEnter
<1>26. ASSUME NEW c \in Calls, UpdateSnapshot(c) PROVE Known'
  BY <1>26, <1>0 DEF UpdateSnapshot
<1>27. ASSUME NEW c \in Calls, UpdateStage(c) PROVE Known'
  BY <1>27, <1>0 DEF UpdateStage, Stage
<1>28. ASSUME NEW c \in Calls, UpdateFetch(c) PROVE Known'
  BY <1>28, <1>0 DEF UpdateFetch, FetchOk, FetchError, Fetched
<1>29. ASSUME NEW c \in Calls, UpdateCheck(c) PROVE Known'
  BY <1>29, <1>0 DEF UpdateCheck, BeginPublish
<1>30. ASSUME NEW c \in Calls, UpdateCopy(c) PROVE Known'
  BY <1>30, <1>0 DEF UpdateCopy, CopyBegin, CopyEnd, CopyError
<1>31. ASSUME NEW c \in Calls, UpdateRow(c) PROVE Known'
  BY <1>31, <1>0 DEF UpdateRow
<1>32. ASSUME NEW c \in Calls, DeleteImported(c) PROVE Known'
  BY <1>32, <1>0 DEF DeleteImported
<1>33. ASSUME NEW c \in Calls, DeletePending(c) PROVE Known'
  BY <1>33, <1>0 DEF DeletePending
<1>34. ASSUME NEW c \in Calls, DeletePendingDir(c) PROVE Known'
  BY <1>34, <1>0 DEF DeletePendingDir
<1>35. ASSUME NEW c \in Calls, DeleteImportedDir(c) PROVE Known'
  BY <1>35, <1>0 DEF DeleteImportedDir
<1>36. ASSUME NEW c \in Calls, Release(c) PROVE Known'
  BY <1>36, <1>0 DEF Release, ReleasePending, ReleasePendingDir
<1>37. ASSUME NEW c \in Calls, PickOpen(c) PROVE Known'
  BY <1>37, <1>0 DEF PickOpen, OpenConfig, OpenOther, OpenMode
<1>38. ASSUME NEW c \in Calls, NEW n \in Names, RenameImported(c, n) PROVE Known'
  BY <1>38, <1>0 DEF RenameImported, UpdateRowIn, PublishedNow
<1>39. ASSUME Kill PROVE Known'
  BY <1>39, <1>0 DEF Kill
<1>40. ASSUME NEW c \in Calls, PatchImported(c) PROVE Known'
  BY <1>40, <1>0 DEF PatchImported, ReadImported, NewPending, Tick
<1>41. ASSUME NEW c \in Calls, PickImported(c) PROVE Known'
  BY <1>41, <1>0 DEF PickImported, ReadImported, NewPending, Tick
<1>42. ASSUME NEW c \in Calls, PickInsert(c) PROVE Known'
  BY <1>42, <1>0 DEF PickInsert, NoteRace, PublishedNow
<1>43. ASSUME NEW c \in Calls, PickReadImported(c) PROVE Known'
  BY <1>43, <1>0 DEF PickReadImported
<1>44. ASSUME NEW c \in Calls, PickReadPending(c) PROVE Known'
  BY <1>44, <1>0 DEF PickReadPending
<1>45. ASSUME NEW u \in UUIDs, WriteFile(u) PROVE Known'
  BY <1>45, <1>0 DEF WriteFile
<1> HIDE DEF ValuesOK, Known
<1> QED BY <1>1, <1>2, <1>3, <1>4, <1>5, <1>6, <1>7, <1>8, <1>9, <1>10, <1>11, <1>12, <1>13, <1>14,
     <1>15, <1>16, <1>17, <1>18, <1>19, <1>20, <1>21, <1>22, <1>23, <1>24, <1>25, <1>26, <1>27,
     <1>28, <1>29, <1>30, <1>31, <1>32, <1>33, <1>34, <1>35, <1>36, <1>37, <1>38, <1>39, <1>40,
     <1>41, <1>42, <1>43, <1>44, <1>45 DEF Next, Start, Step, Apply, Update, Delete

\* Deleting a file, or the directory it is in, takes it from those who have it open.
LEMMA OpenedStep ==
    ASSUME ValuesOK, Opened, Next PROVE Opened'
<1>0. used \subseteq UUIDs
  BY DEF ValuesOK
<1> USE ConstantsAssumption
<1> USE DEF db, dirs, locks, local, ids, hist, Detach, Goto, Return, ReleaseAll, ReleaseProcess
<1> USE DEF ValuesOK, Opened
<1>1. ASSUME NEW c \in Calls, NEW u \in used, ApplyCall(c, u) \/ UpdateCall(c, u) \/ DeleteCall(c, u) \/ ReleaseCall(c, u) PROVE Opened'
  BY <1>1, <1>0 DEF ApplyCall, UpdateCall, DeleteCall, ReleaseCall, Call
<1>2. ASSUME NEW c \in Calls, NEW u \in used, PatchCall(c, u) PROVE Opened'
  BY <1>2, <1>0 DEF PatchCall
<1>3. ASSUME NEW c \in Calls, NEW u \in used, RenameCall(c, u) PROVE Opened'
  BY <1>3, <1>0 DEF RenameCall
<1>4. ASSUME NEW c \in Calls, NEW u \in used, PickCall(c, u) PROVE Opened'
  BY <1>4, <1>0 DEF PickCall
<1>5. ASSUME NEW c \in Calls, NEW u \in used, NEW v \in UUIDs, CloneCall(c, u, v) PROVE Opened'
  BY <1>5, <1>0 DEF CloneCall, NewPending, Tick
<1>6. ASSUME NEW c \in Calls, NEW u \in UUIDs, NEW n \in Names, NEW s \in Sources \cup {Empty}, NEW t \in Types,
             CreateRow(c, u, n, s, t) PROVE Opened'
  BY <1>6, <1>0 DEF CreateRow, NewPending, Tick
<1>7. ASSUME NEW c \in Calls, CreateDir(c) PROVE Opened'
  BY <1>7, <1>0 DEF CreateDir
<1>8. ASSUME NEW c \in Calls, CloneFiles(c) PROVE Opened'
  BY <1>8, <1>0 DEF CloneFiles, CloneImportedFiles, CloneFilesBegin, CloneFilesEnd,
    CloneFilesError
<1>9. ASSUME NEW c \in Calls, CloneInsert(c) PROVE Opened'
  BY <1>9, <1>0 DEF CloneInsert
<1>10. ASSUME NEW c \in Calls, PatchFiles(c) PROVE Opened'
  BY <1>10, <1>0 DEF PatchFiles, CloneImportedFiles, CloneFilesBegin, CloneFilesEnd,
    CloneFilesError
<1>11. ASSUME NEW c \in Calls, RenameRead(c) PROVE Opened'
  BY <1>11, <1>0 DEF RenameRead
<1>12. ASSUME NEW c \in Calls, PickFiles(c) PROVE Opened'
  BY <1>12, <1>0 DEF PickFiles, CloneFilesBegin, CloneFilesEnd, CloneFilesError
<1>13. ASSUME NEW c \in Calls, NEW n \in Names, RenamePending(c, n) PROVE Opened'
  BY <1>13, <1>0 DEF RenamePending, UpdateRowIn, NoteRace
<1>14. ASSUME NEW c \in Calls, NEW n \in Names, NEW s \in Sources \cup {Empty}, PatchInsert(c, n, s) PROVE Opened'
  BY <1>14, <1>0 DEF PatchInsert, NoteRace
<1>15. ASSUME NEW c \in Calls, NEW n \in Names, NEW s \in Sources \cup {Empty}, PatchUpdate(c, n, s) PROVE Opened'
  BY <1>15, <1>0 DEF PatchUpdate, UpdateRowIn, NoteRace
<1>16. ASSUME NEW c \in Calls, ApplyEnter(c) PROVE Opened'
  BY <1>16, <1>0 DEF ApplyEnter
<1>17. ASSUME NEW c \in Calls, ApplySnapshot(c) PROVE Opened'
  BY <1>17, <1>0 DEF ApplySnapshot, FieldValid
<1>18. ASSUME NEW c \in Calls, ApplyStage(c) PROVE Opened'
  BY <1>18, <1>0 DEF ApplyStage, Stage
<1>19. ASSUME NEW c \in Calls, ApplyFetch(c) PROVE Opened'
  BY <1>19, <1>0 DEF ApplyFetch, FetchOk, FetchError, Fetched
<1>20. ASSUME NEW c \in Calls, ApplyCheck(c) PROVE Opened'
  BY <1>20, <1>0 DEF ApplyCheck, BeginPublish
<1>21. ASSUME NEW c \in Calls, ApplyCopy(c) PROVE Opened'
  BY <1>21, <1>0 DEF ApplyCopy, CopyBegin, CopyEnd, CopyError
<1>22. ASSUME NEW c \in Calls, ApplyRow(c) PROVE Opened'
  BY <1>22, <1>0 DEF ApplyRow, AsImported
<1>23. ASSUME NEW c \in Calls, ApplyDrop(c) PROVE Opened'
  BY <1>23, <1>0 DEF ApplyDrop
<1>24. ASSUME NEW c \in Calls, ApplyDropDir(c) PROVE Opened'
  BY <1>24, <1>0 DEF ApplyDropDir
<1>25. ASSUME NEW c \in Calls, UpdateEnter(c) PROVE Opened'
  BY <1>25, <1>0 DEF UpdateEnter
<1>26. ASSUME NEW c \in Calls, UpdateSnapshot(c) PROVE Opened'
  BY <1>26, <1>0 DEF UpdateSnapshot
<1>27. ASSUME NEW c \in Calls, UpdateStage(c) PROVE Opened'
  BY <1>27, <1>0 DEF UpdateStage, Stage
<1>28. ASSUME NEW c \in Calls, UpdateFetch(c) PROVE Opened'
  BY <1>28, <1>0 DEF UpdateFetch, FetchOk, FetchError, Fetched
<1>29. ASSUME NEW c \in Calls, UpdateCheck(c) PROVE Opened'
  BY <1>29, <1>0 DEF UpdateCheck, BeginPublish
<1>30. ASSUME NEW c \in Calls, UpdateCopy(c) PROVE Opened'
  BY <1>30, <1>0 DEF UpdateCopy, CopyBegin, CopyEnd, CopyError
<1>31. ASSUME NEW c \in Calls, UpdateRow(c) PROVE Opened'
  BY <1>31, <1>0 DEF UpdateRow
<1>32. ASSUME NEW c \in Calls, DeleteImported(c) PROVE Opened'
  BY <1>32, <1>0 DEF DeleteImported
<1>33. ASSUME NEW c \in Calls, DeletePending(c) PROVE Opened'
  BY <1>33, <1>0 DEF DeletePending
<1>34. ASSUME NEW c \in Calls, DeletePendingDir(c) PROVE Opened'
  BY <1>34, <1>0 DEF DeletePendingDir
<1>35. ASSUME NEW c \in Calls, DeleteImportedDir(c) PROVE Opened'
  BY <1>35, <1>0 DEF DeleteImportedDir
<1>36. ASSUME NEW c \in Calls, Release(c) PROVE Opened'
  BY <1>36, <1>0 DEF Release, ReleasePending, ReleasePendingDir
<1>37. ASSUME NEW c \in Calls, PickOpen(c) PROVE Opened'
  <2>1. CASE OpenConfig(c)
    <3>1. tgt[c] \in UUIDs
      OBVIOUS
    <3>2. CASE /\ pendingDir[tgt[c]] # NoDir
               /\ OpenMode(pendingDir, tgt[c])
               /\ opened' = opened \cup {<<"pending", tgt[c]>>}
               /\ UNCHANGED <<importedDir, torn>>
      <4>1. \A u \in UUIDs : pendingDir[u] # NoDir => pendingDir'[u] # NoDir
        BY <3>1, <3>2 DEF OpenMode
      <4>2. QED BY <3>1, <3>2, <4>1
    <3>3. CASE /\ importedDir[tgt[c]] # NoDir
               /\ OpenMode(importedDir, tgt[c])
               /\ opened' = opened \cup {<<"imported", tgt[c]>>}
               /\ torn' = torn \cup {tgt[c]}
               /\ UNCHANGED pendingDir
      <4>1. \A u \in UUIDs : importedDir[u] # NoDir => importedDir'[u] # NoDir
        BY <3>1, <3>3 DEF OpenMode
      <4>2. QED BY <3>1, <3>3, <4>1
    <3>4. QED BY <2>1, <3>2, <3>3 DEF OpenConfig
  <2>2. CASE OpenOther
    BY <1>37, <2>2 DEF PickOpen, OpenOther
  <2>3. QED BY <1>37, <2>1, <2>2 DEF PickOpen
<1>38. ASSUME NEW c \in Calls, NEW n \in Names, RenameImported(c, n) PROVE Opened'
  BY <1>38, <1>0 DEF RenameImported, UpdateRowIn, PublishedNow
<1>39. ASSUME Kill PROVE Opened'
  BY <1>39, <1>0 DEF Kill
<1>40. ASSUME NEW c \in Calls, PatchImported(c) PROVE Opened'
  BY <1>40, <1>0 DEF PatchImported, ReadImported, NewPending, Tick
<1>41. ASSUME NEW c \in Calls, PickImported(c) PROVE Opened'
  BY <1>41, <1>0 DEF PickImported, ReadImported, NewPending, Tick
<1>42. ASSUME NEW c \in Calls, PickInsert(c) PROVE Opened'
  BY <1>42, <1>0 DEF PickInsert, NoteRace, PublishedNow
<1>43. ASSUME NEW c \in Calls, PickReadImported(c) PROVE Opened'
  BY <1>43, <1>0 DEF PickReadImported
<1>44. ASSUME NEW c \in Calls, PickReadPending(c) PROVE Opened'
  BY <1>44, <1>0 DEF PickReadPending
<1>45. ASSUME NEW u \in UUIDs, WriteFile(u) PROVE Opened'
  BY <1>45, <1>0 DEF WriteFile
<1> HIDE DEF ValuesOK, Opened
<1> QED BY <1>1, <1>2, <1>3, <1>4, <1>5, <1>6, <1>7, <1>8, <1>9, <1>10, <1>11, <1>12, <1>13, <1>14,
     <1>15, <1>16, <1>17, <1>18, <1>19, <1>20, <1>21, <1>22, <1>23, <1>24, <1>25, <1>26, <1>27,
     <1>28, <1>29, <1>30, <1>31, <1>32, <1>33, <1>34, <1>35, <1>36, <1>37, <1>38, <1>39, <1>40,
     <1>41, <1>42, <1>43, <1>44, <1>45 DEF Next, Start, Step, Apply, Update, Delete

\* Only the owner of processLock writes to the processing directory, from its own source.
LEMMA StagedOwnStep ==
    ASSUME ValuesOK, LocalTypes, LockInv, StagedOwn, Next PROVE StagedOwn'
<1> USE ConstantsAssumption
<1> USE DEF db, dirs, locks, local, ids, hist, Detach, Goto, Return, ReleaseAll, ReleaseProcess
<1> USE DEF ValuesOK, LockInv, ProcessHeld, StagedOwn
<1>1. ASSUME NEW c \in Calls, Quiet(c) PROVE StagedOwn'
  BY <1>1 DEF Quiet
<1>2. ASSUME NEW c \in Calls, ApplyEnter(c) PROVE StagedOwn'
  BY <1>2 DEF ApplyEnter
<1>3. ASSUME NEW c \in Calls, ApplySnapshot(c) PROVE StagedOwn'
  BY <1>3 DEF ApplySnapshot, FieldValid
<1>4. ASSUME NEW c \in Calls, ApplyStage(c) PROVE StagedOwn'
  BY <1>4 DEF ApplyStage, Stage
<1>5. ASSUME NEW c \in Calls, ApplyFetch(c) PROVE StagedOwn'
  BY <1>5 DEF ApplyFetch, FetchOk, FetchError, Fetched
<1>6. ASSUME NEW c \in Calls, ApplyCheck(c) PROVE StagedOwn'
  BY <1>6 DEF ApplyCheck, BeginPublish
<1>7. ASSUME NEW c \in Calls, ApplyCopy(c) PROVE StagedOwn'
  BY <1>7 DEF ApplyCopy, CopyBegin, CopyEnd, CopyError
<1>8. ASSUME NEW c \in Calls, ApplyRow(c) PROVE StagedOwn'
  BY <1>8 DEF ApplyRow, AsImported
<1>9. ASSUME NEW c \in Calls, ApplyDrop(c) PROVE StagedOwn'
  BY <1>9 DEF ApplyDrop
<1>10. ASSUME NEW c \in Calls, ApplyDropDir(c) PROVE StagedOwn'
  BY <1>10 DEF ApplyDropDir
<1>11. ASSUME NEW c \in Calls, UpdateEnter(c) PROVE StagedOwn'
  BY <1>11 DEF UpdateEnter
<1>12. ASSUME NEW c \in Calls, UpdateSnapshot(c) PROVE StagedOwn'
  BY <1>12 DEF UpdateSnapshot
<1>13. ASSUME NEW c \in Calls, UpdateStage(c) PROVE StagedOwn'
  BY <1>13 DEF UpdateStage, Stage
<1>14. ASSUME NEW c \in Calls, UpdateFetch(c) PROVE StagedOwn'
  BY <1>14 DEF UpdateFetch, FetchOk, FetchError, Fetched
<1>15. ASSUME NEW c \in Calls, UpdateCheck(c) PROVE StagedOwn'
  BY <1>15 DEF UpdateCheck, BeginPublish
<1>16. ASSUME NEW c \in Calls, UpdateCopy(c) PROVE StagedOwn'
  BY <1>16 DEF UpdateCopy, CopyBegin, CopyEnd, CopyError
<1>17. ASSUME NEW c \in Calls, UpdateRow(c) PROVE StagedOwn'
  BY <1>17 DEF UpdateRow
<1>18. ASSUME NEW c \in Calls, DeleteImported(c) PROVE StagedOwn'
  BY <1>18 DEF DeleteImported
<1>19. ASSUME NEW c \in Calls, DeletePending(c) PROVE StagedOwn'
  BY <1>19 DEF DeletePending
<1>20. ASSUME NEW c \in Calls, DeletePendingDir(c) PROVE StagedOwn'
  BY <1>20 DEF DeletePendingDir
<1>21. ASSUME NEW c \in Calls, DeleteImportedDir(c) PROVE StagedOwn'
  BY <1>21 DEF DeleteImportedDir
<1>22. ASSUME NEW c \in Calls, Release(c) PROVE StagedOwn'
  BY <1>22 DEF Release, ReleasePending, ReleasePendingDir
<1>23. ASSUME NEW c \in Calls, PickOpen(c) PROVE StagedOwn'
  BY <1>23 DEF PickOpen, OpenConfig, OpenOther, OpenMode
<1>24. ASSUME NEW c \in Calls, NEW n \in Names, RenameImported(c, n) PROVE StagedOwn'
  BY <1>24 DEF RenameImported, UpdateRowIn, PublishedNow
<1>25. ASSUME Kill PROVE StagedOwn'
  BY <1>25 DEF Kill
<1>26. ASSUME NEW u \in UUIDs, WriteFile(u) PROVE StagedOwn'
  BY <1>26 DEF WriteFile
<1> HIDE DEF ValuesOK, LockInv, ProcessHeld, StagedOwn
<1> QED BY QuietStep, <1>1, <1>2, <1>3, <1>4, <1>5, <1>6, <1>7, <1>8, <1>9, <1>10, <1>11, <1>12,
     <1>13, <1>14, <1>15, <1>16, <1>17, <1>18, <1>19, <1>20, <1>21, <1>22, <1>23, <1>24, <1>25,
     <1>26 DEF Next, Step, Apply, Update, Delete

\* Nobody finds a row of a profile that clone has not inserted yet.
LEMMA CloningStep ==
    ASSUME ValuesOK, Known, Cloning, Next PROVE Cloning'
<1>0. used \subseteq UUIDs
  BY DEF ValuesOK
<1> USE ConstantsAssumption
<1> USE DEF db, dirs, locks, local, ids, hist, Detach, Goto, Return, ReleaseAll, ReleaseProcess
<1> USE DEF ValuesOK, Known, Cloning, Early
<1>1. ASSUME NEW c \in Calls, NEW u \in used, ApplyCall(c, u) \/ UpdateCall(c, u) \/ DeleteCall(c, u) \/ ReleaseCall(c, u) PROVE Cloning'
  BY <1>1, <1>0 DEF ApplyCall, UpdateCall, DeleteCall, ReleaseCall, Call
<1>2. ASSUME NEW c \in Calls, NEW u \in used, PatchCall(c, u) PROVE Cloning'
  BY <1>2, <1>0 DEF PatchCall
<1>3. ASSUME NEW c \in Calls, NEW u \in used, RenameCall(c, u) PROVE Cloning'
  BY <1>3, <1>0 DEF RenameCall
<1>4. ASSUME NEW c \in Calls, NEW u \in used, PickCall(c, u) PROVE Cloning'
  BY <1>4, <1>0 DEF PickCall
<1>5. ASSUME NEW c \in Calls, NEW u \in used, NEW v \in UUIDs, CloneCall(c, u, v) PROVE Cloning'
  BY <1>5, <1>0 DEF CloneCall, NewPending, Tick
<1>6. ASSUME NEW c \in Calls, NEW u \in UUIDs, NEW n \in Names, NEW s \in Sources \cup {Empty}, NEW t \in Types,
             CreateRow(c, u, n, s, t) PROVE Cloning'
  BY <1>6, <1>0 DEF CreateRow, NewPending, Tick
<1>7. ASSUME NEW c \in Calls, CreateDir(c) PROVE Cloning'
  BY <1>7, <1>0 DEF CreateDir
<1>8. ASSUME NEW c \in Calls, CloneFiles(c) PROVE Cloning'
  BY <1>8, <1>0 DEF CloneFiles, CloneImportedFiles, CloneFilesBegin, CloneFilesEnd,
    CloneFilesError
<1>9. ASSUME NEW c \in Calls, CloneInsert(c) PROVE Cloning'
  BY <1>9, <1>0 DEF CloneInsert
<1>10. ASSUME NEW c \in Calls, PatchFiles(c) PROVE Cloning'
  BY <1>10, <1>0 DEF PatchFiles, CloneImportedFiles, CloneFilesBegin, CloneFilesEnd,
    CloneFilesError
<1>11. ASSUME NEW c \in Calls, RenameRead(c) PROVE Cloning'
  BY <1>11, <1>0 DEF RenameRead
<1>12. ASSUME NEW c \in Calls, PickFiles(c) PROVE Cloning'
  BY <1>12, <1>0 DEF PickFiles, CloneFilesBegin, CloneFilesEnd, CloneFilesError
<1>13. ASSUME NEW c \in Calls, NEW n \in Names, RenamePending(c, n) PROVE Cloning'
  BY <1>13, <1>0 DEF RenamePending, UpdateRowIn, NoteRace
<1>14. ASSUME NEW c \in Calls, NEW n \in Names, NEW s \in Sources \cup {Empty}, PatchInsert(c, n, s) PROVE Cloning'
  BY <1>14, <1>0 DEF PatchInsert, NoteRace
<1>15. ASSUME NEW c \in Calls, NEW n \in Names, NEW s \in Sources \cup {Empty}, PatchUpdate(c, n, s) PROVE Cloning'
  BY <1>15, <1>0 DEF PatchUpdate, UpdateRowIn, NoteRace
<1>16. ASSUME NEW c \in Calls, ApplyEnter(c) PROVE Cloning'
  BY <1>16, <1>0 DEF ApplyEnter
<1>17. ASSUME NEW c \in Calls, ApplySnapshot(c) PROVE Cloning'
  BY <1>17, <1>0 DEF ApplySnapshot, FieldValid
<1>18. ASSUME NEW c \in Calls, ApplyStage(c) PROVE Cloning'
  BY <1>18, <1>0 DEF ApplyStage, Stage
<1>19. ASSUME NEW c \in Calls, ApplyFetch(c) PROVE Cloning'
  BY <1>19, <1>0 DEF ApplyFetch, FetchOk, FetchError, Fetched
<1>20. ASSUME NEW c \in Calls, ApplyCheck(c) PROVE Cloning'
  BY <1>20, <1>0 DEF ApplyCheck, BeginPublish
<1>21. ASSUME NEW c \in Calls, ApplyCopy(c) PROVE Cloning'
  BY <1>21, <1>0 DEF ApplyCopy, CopyBegin, CopyEnd, CopyError
<1>22. ASSUME NEW c \in Calls, ApplyRow(c) PROVE Cloning'
  BY <1>22, <1>0 DEF ApplyRow, AsImported
<1>23. ASSUME NEW c \in Calls, ApplyDrop(c) PROVE Cloning'
  BY <1>23, <1>0 DEF ApplyDrop
<1>24. ASSUME NEW c \in Calls, ApplyDropDir(c) PROVE Cloning'
  BY <1>24, <1>0 DEF ApplyDropDir
<1>25. ASSUME NEW c \in Calls, UpdateEnter(c) PROVE Cloning'
  BY <1>25, <1>0 DEF UpdateEnter
<1>26. ASSUME NEW c \in Calls, UpdateSnapshot(c) PROVE Cloning'
  BY <1>26, <1>0 DEF UpdateSnapshot
<1>27. ASSUME NEW c \in Calls, UpdateStage(c) PROVE Cloning'
  BY <1>27, <1>0 DEF UpdateStage, Stage
<1>28. ASSUME NEW c \in Calls, UpdateFetch(c) PROVE Cloning'
  BY <1>28, <1>0 DEF UpdateFetch, FetchOk, FetchError, Fetched
<1>29. ASSUME NEW c \in Calls, UpdateCheck(c) PROVE Cloning'
  BY <1>29, <1>0 DEF UpdateCheck, BeginPublish
<1>30. ASSUME NEW c \in Calls, UpdateCopy(c) PROVE Cloning'
  BY <1>30, <1>0 DEF UpdateCopy, CopyBegin, CopyEnd, CopyError
<1>31. ASSUME NEW c \in Calls, UpdateRow(c) PROVE Cloning'
  BY <1>31, <1>0 DEF UpdateRow
<1>32. ASSUME NEW c \in Calls, DeleteImported(c) PROVE Cloning'
  BY <1>32, <1>0 DEF DeleteImported
<1>33. ASSUME NEW c \in Calls, DeletePending(c) PROVE Cloning'
  BY <1>33, <1>0 DEF DeletePending
<1>34. ASSUME NEW c \in Calls, DeletePendingDir(c) PROVE Cloning'
  BY <1>34, <1>0 DEF DeletePendingDir
<1>35. ASSUME NEW c \in Calls, DeleteImportedDir(c) PROVE Cloning'
  BY <1>35, <1>0 DEF DeleteImportedDir
<1>36. ASSUME NEW c \in Calls, Release(c) PROVE Cloning'
  BY <1>36, <1>0 DEF Release, ReleasePending, ReleasePendingDir
<1>37. ASSUME NEW c \in Calls, PickOpen(c) PROVE Cloning'
  BY <1>37, <1>0 DEF PickOpen, OpenConfig, OpenOther, OpenMode
<1>38. ASSUME NEW c \in Calls, NEW n \in Names, RenameImported(c, n) PROVE Cloning'
  BY <1>38, <1>0 DEF RenameImported, UpdateRowIn, PublishedNow
<1>39. ASSUME Kill PROVE Cloning'
  BY <1>39, <1>0 DEF Kill
<1>40. ASSUME NEW c \in Calls, PatchImported(c) PROVE Cloning'
  BY <1>40, <1>0 DEF PatchImported, ReadImported, NewPending, Tick
<1>41. ASSUME NEW c \in Calls, PickImported(c) PROVE Cloning'
  BY <1>41, <1>0 DEF PickImported, ReadImported, NewPending, Tick
<1>42. ASSUME NEW c \in Calls, PickInsert(c) PROVE Cloning'
  BY <1>42, <1>0 DEF PickInsert, NoteRace, PublishedNow
<1>43. ASSUME NEW c \in Calls, PickReadImported(c) PROVE Cloning'
  BY <1>43, <1>0 DEF PickReadImported
<1>44. ASSUME NEW c \in Calls, PickReadPending(c) PROVE Cloning'
  BY <1>44, <1>0 DEF PickReadPending
<1>45. ASSUME NEW u \in UUIDs, WriteFile(u) PROVE Cloning'
  BY <1>45, <1>0 DEF WriteFile
<1> HIDE DEF ValuesOK, Known, Cloning, Early
<1> QED BY <1>1, <1>2, <1>3, <1>4, <1>5, <1>6, <1>7, <1>8, <1>9, <1>10, <1>11, <1>12, <1>13, <1>14,
     <1>15, <1>16, <1>17, <1>18, <1>19, <1>20, <1>21, <1>22, <1>23, <1>24, <1>25, <1>26, <1>27,
     <1>28, <1>29, <1>30, <1>31, <1>32, <1>33, <1>34, <1>35, <1>36, <1>37, <1>38, <1>39, <1>40,
     <1>41, <1>42, <1>43, <1>44, <1>45 DEF Next, Start, Step, Apply, Update, Delete

\* No call brings a deleted profile back: what it finds in the tables turns it away.
LEMMA GoneStep ==
    ASSUME ValuesOK, LocalTypes, LockInv, Known, Gone, Remains, Next PROVE Gone'
<1>0. used \subseteq UUIDs
  BY DEF ValuesOK
<1> USE ConstantsAssumption, NoRowAssumption
<1> USE DEF db, dirs, locks, local, ids, hist, Detach, Goto, Return, ReleaseAll, ReleaseProcess
<1> USE DEF ValuesOK, LockInv, ProfileHeld, Known, Gone, Reviving, Publishing, Copying
<1>1. ASSUME NEW c \in Calls, NEW u \in used, ApplyCall(c, u) \/ UpdateCall(c, u) \/ DeleteCall(c, u) \/ ReleaseCall(c, u) PROVE Gone'
  BY <1>1, <1>0 DEF ApplyCall, UpdateCall, DeleteCall, ReleaseCall, Call
<1>2. ASSUME NEW c \in Calls, NEW u \in used, PatchCall(c, u) PROVE Gone'
  BY <1>2, <1>0 DEF PatchCall
<1>3. ASSUME NEW c \in Calls, NEW u \in used, RenameCall(c, u) PROVE Gone'
  BY <1>3, <1>0 DEF RenameCall
<1>4. ASSUME NEW c \in Calls, NEW u \in used, PickCall(c, u) PROVE Gone'
  BY <1>4, <1>0 DEF PickCall
<1>5. ASSUME NEW c \in Calls, NEW u \in used, NEW v \in UUIDs, CloneCall(c, u, v) PROVE Gone'
  BY <1>5, <1>0 DEF CloneCall, NewPending, Tick
<1>6. ASSUME NEW c \in Calls, NEW u \in UUIDs, NEW n \in Names, NEW s \in Sources \cup {Empty}, NEW t \in Types,
             CreateRow(c, u, n, s, t) PROVE Gone'
  BY <1>6, <1>0 DEF CreateRow, NewPending, Tick
<1>7. ASSUME NEW c \in Calls, CreateDir(c) PROVE Gone'
  BY <1>7, <1>0 DEF CreateDir
<1>8. ASSUME NEW c \in Calls, CloneFiles(c) PROVE Gone'
  BY <1>8, <1>0 DEF CloneFiles, CloneImportedFiles, CloneFilesBegin, CloneFilesEnd,
    CloneFilesError
<1>9. ASSUME NEW c \in Calls, CloneInsert(c) PROVE Gone'
  BY <1>9, <1>0 DEF CloneInsert
<1>10. ASSUME NEW c \in Calls, PatchFiles(c) PROVE Gone'
  BY <1>10, <1>0 DEF PatchFiles, CloneImportedFiles, CloneFilesBegin, CloneFilesEnd,
    CloneFilesError
<1>11. ASSUME NEW c \in Calls, RenameRead(c) PROVE Gone'
  BY <1>11, <1>0 DEF RenameRead
<1>12. ASSUME NEW c \in Calls, PickFiles(c) PROVE Gone'
  BY <1>12, <1>0 DEF PickFiles, CloneFilesBegin, CloneFilesEnd, CloneFilesError
<1>13. ASSUME NEW c \in Calls, NEW n \in Names, RenamePending(c, n) PROVE Gone'
  BY <1>13, <1>0 DEF RenamePending, UpdateRowIn, NoteRace
<1>14. ASSUME NEW c \in Calls, NEW n \in Names, NEW s \in Sources \cup {Empty}, PatchInsert(c, n, s) PROVE Gone'
  BY <1>14, <1>0 DEF PatchInsert, NoteRace
<1>15. ASSUME NEW c \in Calls, NEW n \in Names, NEW s \in Sources \cup {Empty}, PatchUpdate(c, n, s) PROVE Gone'
  BY <1>15, <1>0 DEF PatchUpdate, UpdateRowIn, NoteRace
<1>16. ASSUME NEW c \in Calls, ApplyEnter(c) PROVE Gone'
  BY <1>16, <1>0 DEF ApplyEnter
<1>17. ASSUME NEW c \in Calls, ApplySnapshot(c) PROVE Gone'
  BY <1>17, <1>0 DEF ApplySnapshot, FieldValid
<1>18. ASSUME NEW c \in Calls, ApplyStage(c) PROVE Gone'
  BY <1>18, <1>0 DEF ApplyStage, Stage
<1>19. ASSUME NEW c \in Calls, ApplyFetch(c) PROVE Gone'
  BY <1>19, <1>0 DEF ApplyFetch, FetchOk, FetchError, Fetched
<1>20. ASSUME NEW c \in Calls, ApplyCheck(c) PROVE Gone'
  BY <1>20, <1>0 DEF ApplyCheck, BeginPublish, LocalTypes, Remains
<1>21. ASSUME NEW c \in Calls, ApplyCopy(c) PROVE Gone'
  BY <1>21, <1>0 DEF ApplyCopy, CopyBegin, CopyEnd, CopyError
<1>22. ASSUME NEW c \in Calls, ApplyRow(c) PROVE Gone'
  BY <1>22, <1>0 DEF ApplyRow, AsImported
<1>23. ASSUME NEW c \in Calls, ApplyDrop(c) PROVE Gone'
  BY <1>23, <1>0 DEF ApplyDrop
<1>24. ASSUME NEW c \in Calls, ApplyDropDir(c) PROVE Gone'
  BY <1>24, <1>0 DEF ApplyDropDir
<1>25. ASSUME NEW c \in Calls, UpdateEnter(c) PROVE Gone'
  BY <1>25, <1>0 DEF UpdateEnter
<1>26. ASSUME NEW c \in Calls, UpdateSnapshot(c) PROVE Gone'
  BY <1>26, <1>0 DEF UpdateSnapshot
<1>27. ASSUME NEW c \in Calls, UpdateStage(c) PROVE Gone'
  BY <1>27, <1>0 DEF UpdateStage, Stage
<1>28. ASSUME NEW c \in Calls, UpdateFetch(c) PROVE Gone'
  BY <1>28, <1>0 DEF UpdateFetch, FetchOk, FetchError, Fetched
<1>29. ASSUME NEW c \in Calls, UpdateCheck(c) PROVE Gone'
  BY <1>29, <1>0 DEF UpdateCheck, BeginPublish
<1>30. ASSUME NEW c \in Calls, UpdateCopy(c) PROVE Gone'
  BY <1>30, <1>0 DEF UpdateCopy, CopyBegin, CopyEnd, CopyError
<1>31. ASSUME NEW c \in Calls, UpdateRow(c) PROVE Gone'
  BY <1>31, <1>0 DEF UpdateRow
<1>32. ASSUME NEW c \in Calls, DeleteImported(c) PROVE Gone'
  BY <1>32, <1>0 DEF DeleteImported, LockFree
<1>33. ASSUME NEW c \in Calls, DeletePending(c) PROVE Gone'
  BY <1>33, <1>0 DEF DeletePending
<1>34. ASSUME NEW c \in Calls, DeletePendingDir(c) PROVE Gone'
  BY <1>34, <1>0 DEF DeletePendingDir
<1>35. ASSUME NEW c \in Calls, DeleteImportedDir(c) PROVE Gone'
  BY <1>35, <1>0 DEF DeleteImportedDir
<1>36. ASSUME NEW c \in Calls, Release(c) PROVE Gone'
  BY <1>36, <1>0 DEF Release, ReleasePending, ReleasePendingDir
<1>37. ASSUME NEW c \in Calls, PickOpen(c) PROVE Gone'
  BY <1>37, <1>0 DEF PickOpen, OpenConfig, OpenOther, OpenMode
<1>38. ASSUME NEW c \in Calls, NEW n \in Names, RenameImported(c, n) PROVE Gone'
  BY <1>38, <1>0 DEF RenameImported, UpdateRowIn, PublishedNow
<1>39. ASSUME Kill PROVE Gone'
  BY <1>39, <1>0 DEF Kill
<1>40. ASSUME NEW c \in Calls, PatchImported(c) PROVE Gone'
  BY <1>40, <1>0 DEF PatchImported, ReadImported, NewPending, Tick
<1>41. ASSUME NEW c \in Calls, PickImported(c) PROVE Gone'
  BY <1>41, <1>0 DEF PickImported, ReadImported, NewPending, Tick
<1>42. ASSUME NEW c \in Calls, PickInsert(c) PROVE Gone'
  BY <1>42, <1>0 DEF PickInsert, NoteRace, PublishedNow
<1>43. ASSUME NEW c \in Calls, PickReadImported(c) PROVE Gone'
  BY <1>43, <1>0 DEF PickReadImported
<1>44. ASSUME NEW c \in Calls, PickReadPending(c) PROVE Gone'
  BY <1>44, <1>0 DEF PickReadPending
<1>45. ASSUME NEW u \in UUIDs, WriteFile(u) PROVE Gone'
  BY <1>45, <1>0 DEF WriteFile
<1> HIDE DEF ValuesOK, LockInv, ProfileHeld, Known, Gone, Reviving, Publishing, Copying
<1> QED BY <1>1, <1>2, <1>3, <1>4, <1>5, <1>6, <1>7, <1>8, <1>9, <1>10, <1>11, <1>12, <1>13, <1>14,
     <1>15, <1>16, <1>17, <1>18, <1>19, <1>20, <1>21, <1>22, <1>23, <1>24, <1>25, <1>26, <1>27,
     <1>28, <1>29, <1>30, <1>31, <1>32, <1>33, <1>34, <1>35, <1>36, <1>37, <1>38, <1>39, <1>40,
     <1>41, <1>42, <1>43, <1>44, <1>45 DEF Next, Start, Step, Apply, Update, Delete

\* A deletion that has removed a row or a directory is not undone.
LEMMA RemainsStep ==
    ASSUME ValuesOK, LocalTypes, LockInv, Known, Opened, Gone, Remains, Next PROVE Remains'
<1>0. used \subseteq UUIDs
  BY DEF ValuesOK
<1> USE ConstantsAssumption, NoRowAssumption
<1> USE DEF db, dirs, locks, local, ids, hist, Detach, Goto, Return, ReleaseAll, ReleaseProcess
<1> USE DEF ValuesOK, LockInv, ProfileHeld, Known, Gone, Reviving, Publishing, Copying,
  Remains
<1>1. ASSUME NEW c \in Calls, NEW u \in used, ApplyCall(c, u) \/ UpdateCall(c, u) \/ DeleteCall(c, u) \/ ReleaseCall(c, u) PROVE Remains'
  BY <1>1, <1>0 DEF ApplyCall, UpdateCall, DeleteCall, ReleaseCall, Call
<1>2. ASSUME NEW c \in Calls, NEW u \in used, PatchCall(c, u) PROVE Remains'
  BY <1>2, <1>0 DEF PatchCall
<1>3. ASSUME NEW c \in Calls, NEW u \in used, RenameCall(c, u) PROVE Remains'
  BY <1>3, <1>0 DEF RenameCall
<1>4. ASSUME NEW c \in Calls, NEW u \in used, PickCall(c, u) PROVE Remains'
  BY <1>4, <1>0 DEF PickCall
<1>5. ASSUME NEW c \in Calls, NEW u \in used, NEW v \in UUIDs, CloneCall(c, u, v) PROVE Remains'
  BY <1>5, <1>0 DEF CloneCall, NewPending, Tick
<1>6. ASSUME NEW c \in Calls, NEW u \in UUIDs, NEW n \in Names, NEW s \in Sources \cup {Empty}, NEW t \in Types,
             CreateRow(c, u, n, s, t) PROVE Remains'
  BY <1>6, <1>0 DEF CreateRow, NewPending, Tick
<1>7. ASSUME NEW c \in Calls, CreateDir(c) PROVE Remains'
  BY <1>7, <1>0 DEF CreateDir
<1>8. ASSUME NEW c \in Calls, CloneFiles(c) PROVE Remains'
  BY <1>8, <1>0 DEF CloneFiles, CloneImportedFiles, CloneFilesBegin, CloneFilesEnd,
    CloneFilesError
<1>9. ASSUME NEW c \in Calls, CloneInsert(c) PROVE Remains'
  BY <1>9, <1>0 DEF CloneInsert
<1>10. ASSUME NEW c \in Calls, PatchFiles(c) PROVE Remains'
  BY <1>10, <1>0 DEF PatchFiles, CloneImportedFiles, CloneFilesBegin, CloneFilesEnd,
    CloneFilesError
<1>11. ASSUME NEW c \in Calls, RenameRead(c) PROVE Remains'
  BY <1>11, <1>0 DEF RenameRead
<1>12. ASSUME NEW c \in Calls, PickFiles(c) PROVE Remains'
  BY <1>12, <1>0 DEF PickFiles, CloneFilesBegin, CloneFilesEnd, CloneFilesError
<1>13. ASSUME NEW c \in Calls, NEW n \in Names, RenamePending(c, n) PROVE Remains'
  BY <1>13, <1>0 DEF RenamePending, UpdateRowIn, NoteRace
<1>14. ASSUME NEW c \in Calls, NEW n \in Names, NEW s \in Sources \cup {Empty}, PatchInsert(c, n, s) PROVE Remains'
  BY <1>14, <1>0 DEF PatchInsert, NoteRace
<1>15. ASSUME NEW c \in Calls, NEW n \in Names, NEW s \in Sources \cup {Empty}, PatchUpdate(c, n, s) PROVE Remains'
  BY <1>15, <1>0 DEF PatchUpdate, UpdateRowIn, NoteRace
<1>16. ASSUME NEW c \in Calls, ApplyEnter(c) PROVE Remains'
  BY <1>16, <1>0 DEF ApplyEnter
<1>17. ASSUME NEW c \in Calls, ApplySnapshot(c) PROVE Remains'
  BY <1>17, <1>0 DEF ApplySnapshot, FieldValid
<1>18. ASSUME NEW c \in Calls, ApplyStage(c) PROVE Remains'
  BY <1>18, <1>0 DEF ApplyStage, Stage
<1>19. ASSUME NEW c \in Calls, ApplyFetch(c) PROVE Remains'
  BY <1>19, <1>0 DEF ApplyFetch, FetchOk, FetchError, Fetched
<1>20. ASSUME NEW c \in Calls, ApplyCheck(c) PROVE Remains'
  BY <1>20, <1>0 DEF ApplyCheck, BeginPublish
<1>21. ASSUME NEW c \in Calls, ApplyCopy(c) PROVE Remains'
  BY <1>21, <1>0 DEF ApplyCopy, CopyBegin, CopyEnd, CopyError
<1>22. ASSUME NEW c \in Calls, ApplyRow(c) PROVE Remains'
  BY <1>22, <1>0 DEF ApplyRow, AsImported
<1>23. ASSUME NEW c \in Calls, ApplyDrop(c) PROVE Remains'
  BY <1>23, <1>0 DEF ApplyDrop
<1>24. ASSUME NEW c \in Calls, ApplyDropDir(c) PROVE Remains'
  BY <1>24, <1>0 DEF ApplyDropDir
<1>25. ASSUME NEW c \in Calls, UpdateEnter(c) PROVE Remains'
  BY <1>25, <1>0 DEF UpdateEnter
<1>26. ASSUME NEW c \in Calls, UpdateSnapshot(c) PROVE Remains'
  BY <1>26, <1>0 DEF UpdateSnapshot
<1>27. ASSUME NEW c \in Calls, UpdateStage(c) PROVE Remains'
  BY <1>27, <1>0 DEF UpdateStage, Stage
<1>28. ASSUME NEW c \in Calls, UpdateFetch(c) PROVE Remains'
  BY <1>28, <1>0 DEF UpdateFetch, FetchOk, FetchError, Fetched
<1>29. ASSUME NEW c \in Calls, UpdateCheck(c) PROVE Remains'
  BY <1>29, <1>0 DEF UpdateCheck, BeginPublish
<1>30. ASSUME NEW c \in Calls, UpdateCopy(c) PROVE Remains'
  BY <1>30, <1>0 DEF UpdateCopy, CopyBegin, CopyEnd, CopyError
<1>31. ASSUME NEW c \in Calls, UpdateRow(c) PROVE Remains'
  BY <1>31, <1>0 DEF UpdateRow
<1>32. ASSUME NEW c \in Calls, DeleteImported(c) PROVE Remains'
  BY <1>32, <1>0 DEF DeleteImported
<1>33. ASSUME NEW c \in Calls, DeletePending(c) PROVE Remains'
  BY <1>33, <1>0 DEF DeletePending
<1>34. ASSUME NEW c \in Calls, DeletePendingDir(c) PROVE Remains'
  BY <1>34, <1>0 DEF DeletePendingDir
<1>35. ASSUME NEW c \in Calls, DeleteImportedDir(c) PROVE Remains'
  BY <1>35, <1>0 DEF DeleteImportedDir
<1>36. ASSUME NEW c \in Calls, Release(c) PROVE Remains'
  BY <1>36, <1>0 DEF Release, ReleasePending, ReleasePendingDir
<1>37. ASSUME NEW c \in Calls, PickOpen(c) PROVE Remains'
  BY <1>37, <1>0 DEF Opened, PickOpen, OpenConfig, OpenOther, OpenMode
<1>38. ASSUME NEW c \in Calls, NEW n \in Names, RenameImported(c, n) PROVE Remains'
  BY <1>38, <1>0 DEF RenameImported, UpdateRowIn, PublishedNow
<1>39. ASSUME Kill PROVE Remains'
  BY <1>39, <1>0 DEF Kill, Deleting
<1>40. ASSUME NEW c \in Calls, PatchImported(c) PROVE Remains'
  BY <1>40, <1>0 DEF PatchImported, ReadImported, NewPending, Tick
<1>41. ASSUME NEW c \in Calls, PickImported(c) PROVE Remains'
  BY <1>41, <1>0 DEF PickImported, ReadImported, NewPending, Tick
<1>42. ASSUME NEW c \in Calls, PickInsert(c) PROVE Remains'
  BY <1>42, <1>0 DEF PickInsert, NoteRace, PublishedNow
<1>43. ASSUME NEW c \in Calls, PickReadImported(c) PROVE Remains'
  BY <1>43, <1>0 DEF PickReadImported
<1>44. ASSUME NEW c \in Calls, PickReadPending(c) PROVE Remains'
  BY <1>44, <1>0 DEF PickReadPending
<1>45. ASSUME NEW u \in UUIDs, WriteFile(u) PROVE Remains'
  BY <1>45, <1>0 DEF Opened, WriteFile
<1> HIDE DEF ValuesOK, LockInv, ProfileHeld, Known, Gone, Reviving, Publishing, Copying,
  Remains
<1> QED BY <1>1, <1>2, <1>3, <1>4, <1>5, <1>6, <1>7, <1>8, <1>9, <1>10, <1>11, <1>12, <1>13, <1>14,
     <1>15, <1>16, <1>17, <1>18, <1>19, <1>20, <1>21, <1>22, <1>23, <1>24, <1>25, <1>26, <1>27,
     <1>28, <1>29, <1>30, <1>31, <1>32, <1>33, <1>34, <1>35, <1>36, <1>37, <1>38, <1>39, <1>40,
     <1>41, <1>42, <1>43, <1>44, <1>45 DEF Next, Start, Step, Apply, Update, Delete

\* The row under an update keeps its origin.
LEMMA UpdateOwnStep ==
    ASSUME ValuesOK, LocalTypes, LockInv, Opened, StagedOwn, UpdateOwn, Next PROVE UpdateOwn'
<1> USE ConstantsAssumption
<1> USE DEF db, dirs, locks, local, ids, hist, Detach, Goto, Return, ReleaseAll, ReleaseProcess
<1> USE DEF ValuesOK, LockInv, ProfileHeld, ProcessHeld, StagedOwn, UpdateOwn, SameOrigin
<1>1. ASSUME NEW c \in Calls, Quiet(c) PROVE UpdateOwn'
  BY <1>1 DEF Quiet
<1>2. ASSUME NEW c \in Calls, ApplyEnter(c) PROVE UpdateOwn'
  BY <1>2 DEF ApplyEnter
<1>3. ASSUME NEW c \in Calls, ApplySnapshot(c) PROVE UpdateOwn'
  BY <1>3 DEF ApplySnapshot, FieldValid
<1>4. ASSUME NEW c \in Calls, ApplyStage(c) PROVE UpdateOwn'
  BY <1>4 DEF ApplyStage, Stage
<1>5. ASSUME NEW c \in Calls, ApplyFetch(c) PROVE UpdateOwn'
  BY <1>5 DEF ApplyFetch, FetchOk, FetchError, Fetched
<1>6. ASSUME NEW c \in Calls, ApplyCheck(c) PROVE UpdateOwn'
  BY <1>6 DEF ApplyCheck, BeginPublish
<1>7. ASSUME NEW c \in Calls, ApplyCopy(c) PROVE UpdateOwn'
  <2>1. CASE CopyBegin(c, "a_copying")
    BY <1>7, <2>1 DEF ApplyCopy, CopyBegin
  <2>2. CASE pc[c] = "a_copying" /\ CopyEnd(c, "a_row")
    BY <2>2, CopyEndLeaves
  <2>3. CASE CopyError(c)
    BY <1>7, <2>3 DEF ApplyCopy, CopyError
  <2>4. QED BY <1>7, <2>1, <2>2, <2>3 DEF ApplyCopy
<1>8. ASSUME NEW c \in Calls, ApplyRow(c) PROVE UpdateOwn'
  BY <1>8 DEF ApplyRow, AsImported
<1>9. ASSUME NEW c \in Calls, ApplyDrop(c) PROVE UpdateOwn'
  BY <1>9 DEF ApplyDrop
<1>10. ASSUME NEW c \in Calls, ApplyDropDir(c) PROVE UpdateOwn'
  BY <1>10 DEF ApplyDropDir
<1>11. ASSUME NEW c \in Calls, UpdateEnter(c) PROVE UpdateOwn'
  BY <1>11 DEF UpdateEnter
<1>12. ASSUME NEW c \in Calls, UpdateSnapshot(c) PROVE UpdateOwn'
  BY <1>12 DEF UpdateSnapshot
<1>13. ASSUME NEW c \in Calls, UpdateStage(c) PROVE UpdateOwn'
  BY <1>13 DEF UpdateStage, Stage
<1>14. ASSUME NEW c \in Calls, UpdateFetch(c) PROVE UpdateOwn'
  BY <1>14 DEF UpdateFetch, FetchOk, FetchError, Fetched
<1>15. ASSUME NEW c \in Calls, UpdateCheck(c) PROVE UpdateOwn'
  BY <1>15 DEF UpdateCheck, BeginPublish
<1>16. ASSUME NEW c \in Calls, UpdateCopy(c) PROVE UpdateOwn'
  <2>1. CASE CopyBegin(c, "u_copying")
    BY <1>16, <2>1 DEF UpdateCopy, CopyBegin
  <2>2. CASE pc[c] = "u_copying" /\ CopyEnd(c, "u_row")
    BY <2>2, CopyEndLeaves
  <2>3. CASE CopyError(c)
    BY <1>16, <2>3 DEF UpdateCopy, CopyError
  <2>4. QED BY <1>16, <2>1, <2>2, <2>3 DEF UpdateCopy
<1>17. ASSUME NEW c \in Calls, UpdateRow(c) PROVE UpdateOwn'
  BY <1>17 DEF UpdateRow
<1>18. ASSUME NEW c \in Calls, DeleteImported(c) PROVE UpdateOwn'
  BY <1>18 DEF DeleteImported
<1>19. ASSUME NEW c \in Calls, DeletePending(c) PROVE UpdateOwn'
  BY <1>19 DEF DeletePending
<1>20. ASSUME NEW c \in Calls, DeletePendingDir(c) PROVE UpdateOwn'
  BY <1>20 DEF DeletePendingDir
<1>21. ASSUME NEW c \in Calls, DeleteImportedDir(c) PROVE UpdateOwn'
  BY <1>21 DEF DeleteImportedDir
<1>22. ASSUME NEW c \in Calls, Release(c) PROVE UpdateOwn'
  BY <1>22 DEF Release, ReleasePending, ReleasePendingDir
<1>23. ASSUME NEW c \in Calls, PickOpen(c) PROVE UpdateOwn'
  BY <1>23 DEF Opened, PickOpen, OpenConfig, OpenOther, OpenMode
<1>24. ASSUME NEW c \in Calls, NEW n \in Names, RenameImported(c, n) PROVE UpdateOwn'
  <2>1. row[c] \in ImportedRow
    BY <1>24 DEF RenameImported, LocalTypes
  <2>2. SameOrigin([row[c] EXCEPT !.name = n], row[c])
    BY <2>1 DEF ImportedRow
  <2>3. QED BY <1>24, <2>2 DEF RenameImported, UpdateRowIn, PublishedNow, Publishing, Copying
<1>25. ASSUME Kill PROVE UpdateOwn'
  BY <1>25 DEF Kill
<1>26. ASSUME NEW u \in UUIDs, WriteFile(u) PROVE UpdateOwn'
  BY <1>26, WriteFileKeeps DEF WriteFile
<1> HIDE DEF ValuesOK, LockInv, ProfileHeld, ProcessHeld, StagedOwn, UpdateOwn, SameOrigin
<1> QED BY QuietStep, <1>1, <1>2, <1>3, <1>4, <1>5, <1>6, <1>7, <1>8, <1>9, <1>10, <1>11, <1>12,
     <1>13, <1>14, <1>15, <1>16, <1>17, <1>18, <1>19, <1>20, <1>21, <1>22, <1>23, <1>24, <1>25,
     <1>26 DEF Next, Step, Apply, Update, Delete

\* The pending row stays while it is published.
LEMMA ApplyOwnStep ==
    ASSUME ValuesOK, LocalTypes, LockInv, Known, Cloning, Opened, StagedOwn, ApplyOwn, Next PROVE ApplyOwn'
<1>0. used \subseteq UUIDs
  BY DEF ValuesOK
<1> USE ConstantsAssumption, NoRowAssumption
<1> USE DEF db, dirs, locks, local, ids, hist, Detach, Goto, Return, ReleaseAll, ReleaseProcess
<1> USE DEF ValuesOK, LockInv, ProfileHeld, ProcessHeld, Known, StagedOwn, ApplyOwn
<1>1. ASSUME NEW c \in Calls, NEW u \in used, ApplyCall(c, u) \/ UpdateCall(c, u) \/ DeleteCall(c, u) \/ ReleaseCall(c, u) PROVE ApplyOwn'
  BY <1>1, <1>0 DEF ApplyCall, UpdateCall, DeleteCall, ReleaseCall, Call
<1>2. ASSUME NEW c \in Calls, NEW u \in used, PatchCall(c, u) PROVE ApplyOwn'
  BY <1>2, <1>0 DEF PatchCall
<1>3. ASSUME NEW c \in Calls, NEW u \in used, RenameCall(c, u) PROVE ApplyOwn'
  BY <1>3, <1>0 DEF RenameCall
<1>4. ASSUME NEW c \in Calls, NEW u \in used, PickCall(c, u) PROVE ApplyOwn'
  BY <1>4, <1>0 DEF PickCall
<1>5. ASSUME NEW c \in Calls, NEW u \in used, NEW v \in UUIDs, CloneCall(c, u, v) PROVE ApplyOwn'
  BY <1>5, <1>0 DEF CloneCall, NewPending, Tick
<1>6. ASSUME NEW c \in Calls, NEW u \in UUIDs, NEW n \in Names, NEW s \in Sources \cup {Empty}, NEW t \in Types,
             CreateRow(c, u, n, s, t) PROVE ApplyOwn'
  BY <1>6, <1>0 DEF CreateRow, NewPending, Tick
<1>7. ASSUME NEW c \in Calls, CreateDir(c) PROVE ApplyOwn'
  BY <1>7, <1>0 DEF CreateDir
<1>8. ASSUME NEW c \in Calls, CloneFiles(c) PROVE ApplyOwn'
  BY <1>8, <1>0 DEF CloneFiles, CloneImportedFiles, CloneFilesBegin, CloneFilesEnd,
    CloneFilesError
<1>9. ASSUME NEW c \in Calls, CloneInsert(c) PROVE ApplyOwn'
  BY <1>9, <1>0 DEF CloneInsert, Cloning, Early
<1>10. ASSUME NEW c \in Calls, PatchFiles(c) PROVE ApplyOwn'
  BY <1>10, <1>0 DEF PatchFiles, CloneImportedFiles, CloneFilesBegin, CloneFilesEnd,
    CloneFilesError
<1>11. ASSUME NEW c \in Calls, RenameRead(c) PROVE ApplyOwn'
  BY <1>11, <1>0 DEF RenameRead
<1>12. ASSUME NEW c \in Calls, PickFiles(c) PROVE ApplyOwn'
  BY <1>12, <1>0 DEF PickFiles, CloneFilesBegin, CloneFilesEnd, CloneFilesError
<1>13. ASSUME NEW c \in Calls, NEW n \in Names, RenamePending(c, n) PROVE ApplyOwn'
  <2>1. row[c] \in PendingRow
    BY <1>13 DEF RenamePending, LocalTypes
  <2>2. [row[c] EXCEPT !.name = n] \in PendingRow
    BY <2>1 DEF PendingRow
  <2>3. QED BY <1>13, <2>2 DEF RenamePending, UpdateRowIn, NoteRace, PublishedNow, Publishing, Copying
<1>14. ASSUME NEW c \in Calls, NEW n \in Names, NEW s \in Sources \cup {Empty}, PatchInsert(c, n, s) PROVE ApplyOwn'
  <2>1. row[c] \in PendingRow
    BY <1>14 DEF PatchInsert, LocalTypes
  <2>2. [row[c] EXCEPT !.name = n, !.source = s] \in PendingRow
    BY <2>1 DEF PendingRow
  <2>3. QED BY <1>14, <2>2 DEF PatchInsert, UpdateRowIn, NoteRace, PublishedNow, Publishing, Copying
<1>15. ASSUME NEW c \in Calls, NEW n \in Names, NEW s \in Sources \cup {Empty}, PatchUpdate(c, n, s) PROVE ApplyOwn'
  <2>1. row[c] \in PendingRow
    BY <1>15 DEF PatchUpdate, LocalTypes
  <2>2. [row[c] EXCEPT !.name = n, !.source = s] \in PendingRow
    BY <2>1 DEF PendingRow
  <2>3. QED BY <1>15, <2>2 DEF PatchUpdate, UpdateRowIn, NoteRace, PublishedNow, Publishing, Copying
<1>16. ASSUME NEW c \in Calls, ApplyEnter(c) PROVE ApplyOwn'
  BY <1>16, <1>0 DEF ApplyEnter
<1>17. ASSUME NEW c \in Calls, ApplySnapshot(c) PROVE ApplyOwn'
  BY <1>17, <1>0 DEF ApplySnapshot, FieldValid
<1>18. ASSUME NEW c \in Calls, ApplyStage(c) PROVE ApplyOwn'
  BY <1>18, <1>0 DEF ApplyStage, Stage
<1>19. ASSUME NEW c \in Calls, ApplyFetch(c) PROVE ApplyOwn'
  BY <1>19, <1>0 DEF ApplyFetch, FetchOk, FetchError, Fetched
<1>20. ASSUME NEW c \in Calls, ApplyCheck(c) PROVE ApplyOwn'
  BY <1>20, <1>0 DEF ApplyCheck, BeginPublish, LocalTypes
<1>21. ASSUME NEW c \in Calls, ApplyCopy(c) PROVE ApplyOwn'
  <2>1. CASE CopyBegin(c, "a_copying")
    BY <1>21, <2>1 DEF ApplyCopy, CopyBegin
  <2>2. CASE pc[c] = "a_copying" /\ CopyEnd(c, "a_row")
    BY <2>2, CopyEndLeaves
  <2>3. CASE CopyError(c)
    BY <1>21, <2>3 DEF ApplyCopy, CopyError
  <2>4. QED BY <1>21, <2>1, <2>2, <2>3 DEF ApplyCopy
<1>22. ASSUME NEW c \in Calls, ApplyRow(c) PROVE ApplyOwn'
  BY <1>22, <1>0 DEF ApplyRow, AsImported
<1>23. ASSUME NEW c \in Calls, ApplyDrop(c) PROVE ApplyOwn'
  BY <1>23, <1>0 DEF ApplyDrop
<1>24. ASSUME NEW c \in Calls, ApplyDropDir(c) PROVE ApplyOwn'
  BY <1>24, <1>0 DEF ApplyDropDir
<1>25. ASSUME NEW c \in Calls, UpdateEnter(c) PROVE ApplyOwn'
  BY <1>25, <1>0 DEF UpdateEnter
<1>26. ASSUME NEW c \in Calls, UpdateSnapshot(c) PROVE ApplyOwn'
  BY <1>26, <1>0 DEF UpdateSnapshot
<1>27. ASSUME NEW c \in Calls, UpdateStage(c) PROVE ApplyOwn'
  BY <1>27, <1>0 DEF UpdateStage, Stage
<1>28. ASSUME NEW c \in Calls, UpdateFetch(c) PROVE ApplyOwn'
  BY <1>28, <1>0 DEF UpdateFetch, FetchOk, FetchError, Fetched
<1>29. ASSUME NEW c \in Calls, UpdateCheck(c) PROVE ApplyOwn'
  BY <1>29, <1>0 DEF UpdateCheck, BeginPublish
<1>30. ASSUME NEW c \in Calls, UpdateCopy(c) PROVE ApplyOwn'
  <2>1. CASE CopyBegin(c, "u_copying")
    BY <1>30, <2>1 DEF UpdateCopy, CopyBegin
  <2>2. CASE pc[c] = "u_copying" /\ CopyEnd(c, "u_row")
    BY <2>2, CopyEndLeaves
  <2>3. CASE CopyError(c)
    BY <1>30, <2>3 DEF UpdateCopy, CopyError
  <2>4. QED BY <1>30, <2>1, <2>2, <2>3 DEF UpdateCopy
<1>31. ASSUME NEW c \in Calls, UpdateRow(c) PROVE ApplyOwn'
  BY <1>31, <1>0 DEF UpdateRow
<1>32. ASSUME NEW c \in Calls, DeleteImported(c) PROVE ApplyOwn'
  BY <1>32, <1>0 DEF DeleteImported
<1>33. ASSUME NEW c \in Calls, DeletePending(c) PROVE ApplyOwn'
  BY <1>33, <1>0 DEF DeletePending
<1>34. ASSUME NEW c \in Calls, DeletePendingDir(c) PROVE ApplyOwn'
  BY <1>34, <1>0 DEF DeletePendingDir
<1>35. ASSUME NEW c \in Calls, DeleteImportedDir(c) PROVE ApplyOwn'
  BY <1>35, <1>0 DEF DeleteImportedDir
<1>36. ASSUME NEW c \in Calls, Release(c) PROVE ApplyOwn'
  BY <1>36, <1>0 DEF Release, ReleasePending, ReleasePendingDir
<1>37. ASSUME NEW c \in Calls, PickOpen(c) PROVE ApplyOwn'
  BY <1>37, <1>0 DEF Opened, PickOpen, OpenConfig, OpenOther, OpenMode
<1>38. ASSUME NEW c \in Calls, NEW n \in Names, RenameImported(c, n) PROVE ApplyOwn'
  BY <1>38, <1>0 DEF RenameImported, UpdateRowIn, PublishedNow, Publishing, Copying
<1>39. ASSUME Kill PROVE ApplyOwn'
  BY <1>39, <1>0 DEF Kill
<1>40. ASSUME NEW c \in Calls, PatchImported(c) PROVE ApplyOwn'
  BY <1>40, <1>0 DEF PatchImported, ReadImported, NewPending, Tick
<1>41. ASSUME NEW c \in Calls, PickImported(c) PROVE ApplyOwn'
  BY <1>41, <1>0 DEF PickImported, ReadImported, NewPending, Tick
<1>42. ASSUME NEW c \in Calls, PickInsert(c) PROVE ApplyOwn'
  BY <1>42, <1>0 DEF PickInsert, NoteRace, PublishedNow, Publishing, Copying, LocalTypes
<1>43. ASSUME NEW c \in Calls, PickReadImported(c) PROVE ApplyOwn'
  BY <1>43, <1>0 DEF PickReadImported
<1>44. ASSUME NEW c \in Calls, PickReadPending(c) PROVE ApplyOwn'
  BY <1>44, <1>0 DEF PickReadPending
<1>45. ASSUME NEW u \in UUIDs, WriteFile(u) PROVE ApplyOwn'
  BY <1>45, WriteFileKeeps DEF WriteFile
<1> HIDE DEF ValuesOK, LockInv, ProfileHeld, ProcessHeld, Known, StagedOwn, ApplyOwn
<1> QED BY <1>1, <1>2, <1>3, <1>4, <1>5, <1>6, <1>7, <1>8, <1>9, <1>10, <1>11, <1>12, <1>13, <1>14,
     <1>15, <1>16, <1>17, <1>18, <1>19, <1>20, <1>21, <1>22, <1>23, <1>24, <1>25, <1>26, <1>27,
     <1>28, <1>29, <1>30, <1>31, <1>32, <1>33, <1>34, <1>35, <1>36, <1>37, <1>38, <1>39, <1>40,
     <1>41, <1>42, <1>43, <1>44, <1>45 DEF Next, Start, Step, Apply, Update, Delete

\* The files of a profile match its row again when a publication ends.
LEMMA ContentOwnStep ==
    ASSUME ValuesOK, LocalTypes, LockInv, DeletedRow, Opened, UpdateOwn, ApplyOwn, ImportedContentOwn, Next PROVE ImportedContentOwn'
<1> USE ConstantsAssumption
<1> USE DEF db, dirs, locks, local, ids, hist, Detach, Goto, Return, ReleaseAll, ReleaseProcess
<1> USE DEF ValuesOK, LockInv, ProfileHeld, ImportedContentOwn, PublishedNow, Publishing,
  Copying
<1>1. ASSUME NEW c \in Calls, Quiet(c) PROVE ImportedContentOwn'
  BY <1>1 DEF Quiet
<1>2. ASSUME NEW c \in Calls, ApplyEnter(c) PROVE ImportedContentOwn'
  BY <1>2 DEF ApplyEnter
<1>3. ASSUME NEW c \in Calls, ApplySnapshot(c) PROVE ImportedContentOwn'
  BY <1>3 DEF ApplySnapshot, FieldValid
<1>4. ASSUME NEW c \in Calls, ApplyStage(c) PROVE ImportedContentOwn'
  BY <1>4 DEF ApplyStage, Stage
<1>5. ASSUME NEW c \in Calls, ApplyFetch(c) PROVE ImportedContentOwn'
  BY <1>5 DEF ApplyFetch, FetchOk, FetchError, Fetched
<1>6. ASSUME NEW c \in Calls, ApplyCheck(c) PROVE ImportedContentOwn'
  BY <1>6 DEF ApplyCheck, BeginPublish
<1>7. ASSUME NEW c \in Calls, ApplyCopy(c) PROVE ImportedContentOwn'
  BY <1>7 DEF ApplyCopy, CopyBegin, CopyEnd, CopyError
<1>8. ASSUME NEW c \in Calls, ApplyRow(c) PROVE ImportedContentOwn'
  BY <1>8 DEF ApplyRow, AsImported
<1>9. ASSUME NEW c \in Calls, ApplyDrop(c) PROVE ImportedContentOwn'
  <2> SUFFICES ASSUME NEW u \in UUIDs, imported[u] # NoRow, imported[u].type # "File",
                      u \notin torn \cup raced, ~PublishedNow(u)'
               PROVE  importedDir[u] = imported[u].source
    BY <1>9 DEF ApplyDrop
  <2>1. CASE u = tgt[c]
    <3>1. imported[u] = AsImported(snap[c])
      BY <1>9, <2>1 DEF ApplyDrop, ApplyOwn
    <3>2. snap[c].type # "File" /\ snap[c].source = imported[u].source
      BY <3>1 DEF AsImported
    <3>3. QED BY <1>9, <2>1, <3>2 DEF ApplyDrop, ApplyOwn
  <2>2. CASE u # tgt[c]
    BY <1>9, <2>2 DEF ApplyDrop
  <2>3. QED BY <2>1, <2>2
<1>10. ASSUME NEW c \in Calls, ApplyDropDir(c) PROVE ImportedContentOwn'
  BY <1>10 DEF ApplyDropDir
<1>11. ASSUME NEW c \in Calls, UpdateEnter(c) PROVE ImportedContentOwn'
  BY <1>11 DEF UpdateEnter
<1>12. ASSUME NEW c \in Calls, UpdateSnapshot(c) PROVE ImportedContentOwn'
  BY <1>12 DEF UpdateSnapshot
<1>13. ASSUME NEW c \in Calls, UpdateStage(c) PROVE ImportedContentOwn'
  BY <1>13 DEF UpdateStage, Stage
<1>14. ASSUME NEW c \in Calls, UpdateFetch(c) PROVE ImportedContentOwn'
  BY <1>14 DEF UpdateFetch, FetchOk, FetchError, Fetched
<1>15. ASSUME NEW c \in Calls, UpdateCheck(c) PROVE ImportedContentOwn'
  BY <1>15 DEF UpdateCheck, BeginPublish
<1>16. ASSUME NEW c \in Calls, UpdateCopy(c) PROVE ImportedContentOwn'
  BY <1>16 DEF UpdateCopy, CopyBegin, CopyEnd, CopyError
<1>17. ASSUME NEW c \in Calls, UpdateRow(c) PROVE ImportedContentOwn'
  BY <1>17 DEF UpdateRow, UpdateOwn, SameOrigin
<1>18. ASSUME NEW c \in Calls, DeleteImported(c) PROVE ImportedContentOwn'
  BY <1>18 DEF DeleteImported
<1>19. ASSUME NEW c \in Calls, DeletePending(c) PROVE ImportedContentOwn'
  BY <1>19 DEF DeletePending
<1>20. ASSUME NEW c \in Calls, DeletePendingDir(c) PROVE ImportedContentOwn'
  BY <1>20 DEF DeletePendingDir
<1>21. ASSUME NEW c \in Calls, DeleteImportedDir(c) PROVE ImportedContentOwn'
  BY <1>21 DEF DeleteImportedDir, DeletedRow, Deleting
<1>22. ASSUME NEW c \in Calls, Release(c) PROVE ImportedContentOwn'
  BY <1>22 DEF Release, ReleasePending, ReleasePendingDir
<1>23. ASSUME NEW c \in Calls, PickOpen(c) PROVE ImportedContentOwn'
  BY <1>23 DEF Opened, PickOpen, OpenConfig, OpenOther, OpenMode
<1>24. ASSUME NEW c \in Calls, NEW n \in Names, RenameImported(c, n) PROVE ImportedContentOwn'
  BY <1>24 DEF RenameImported, UpdateRowIn
<1>25. ASSUME Kill PROVE ImportedContentOwn'
  <2> SUFFICES ASSUME NEW u \in UUIDs, imported[u] # NoRow, imported[u].type # "File",
                      u \notin torn' \cup raced'
               PROVE  importedDir[u] = imported[u].source
    BY <1>25 DEF Kill
  <2>1. ASSUME NEW c \in Calls, tgt[c] = u, pc[c] = "a_drop" PROVE importedDir[u] = imported[u].source
    <3>1. imported[u] = AsImported(snap[c])
      BY <1>25, <2>1 DEF Kill, ApplyOwn
    <3>2. snap[c].type # "File" /\ snap[c].source = imported[u].source
      BY <3>1 DEF AsImported
    <3>3. QED BY <1>25, <2>1, <3>2 DEF Kill, ApplyOwn
  <2>2. ASSUME NEW c \in Calls, tgt[c] = u, pc[c] = "u_row" PROVE importedDir[u] = imported[u].source
    BY <1>25, <2>2 DEF Kill, UpdateOwn, SameOrigin
  <2>3. u \notin torn \cup raced
        /\ \A c \in Calls : tgt[c] = u => pc[c] \notin Copying \cup {"a_row"}
    BY <1>25 DEF Kill
  <2>4. QED BY <2>1, <2>2, <2>3
<1>26. ASSUME NEW u \in UUIDs, WriteFile(u) PROVE ImportedContentOwn'
  BY <1>26 DEF Opened, WriteFile
<1> HIDE DEF ValuesOK, LockInv, ProfileHeld, ImportedContentOwn, PublishedNow, Publishing,
  Copying
<1> QED BY QuietStep, <1>1, <1>2, <1>3, <1>4, <1>5, <1>6, <1>7, <1>8, <1>9, <1>10, <1>11, <1>12,
     <1>13, <1>14, <1>15, <1>16, <1>17, <1>18, <1>19, <1>20, <1>21, <1>22, <1>23, <1>24, <1>25,
     <1>26 DEF Next, Step, Apply, Update, Delete

-----------------------------------------------------------------------------
\* The inductive invariant.
IInv == /\ ValuesOK /\ LocalTypes
        /\ LockInv /\ Staged /\ DeletedRow /\ Opened /\ Published
        /\ ImportedFilesAccepted
        /\ Known /\ Cloning /\ Gone /\ Remains
        /\ StagedOwn /\ UpdateOwn /\ ApplyOwn /\ ImportedContentOwn

\* The invariant holds initially.
LEMMA InitIInv == ASSUME Init PROVE IInv
<1> USE ConstantsAssumption, NoRowAssumption DEF Init
<1>1. \A u \in UUIDs : imported[u] # NoRow => imported[u] \in ImportedRow /\ imported[u].source \in Sources
  BY DEF ImportedRow
<1>2. ValuesOK
  <2>1. importedDir \in [UUIDs -> Content]
    BY <1>1 DEF Content
  <2>2. imported \in [UUIDs -> ImportedRow \cup {NoRow}]
    OBVIOUS
  <2>3. QED BY <2>1, <2>2 DEF ValuesOK, Labels, Content
<1>3. ImportedFilesAccepted
  BY <1>1 DEF ImportedFilesAccepted, Accepted
<1>4. LocalTypes /\ LockInv /\ Staged /\ DeletedRow /\ Opened /\ Published
  BY DEF Opened, LocalTypes, LockInv, ProfileHeld, ProcessHeld, Staged, DeletedRow, Deleting, Published
<1>5. Known /\ Cloning /\ Gone /\ Remains
  BY DEF Known, Cloning, Gone, Remains
<1>6. StagedOwn /\ UpdateOwn /\ ApplyOwn
  BY DEF StagedOwn, UpdateOwn, ApplyOwn
<1>7. ImportedContentOwn
  BY DEF ImportedContentOwn
<1>8. QED BY <1>2, <1>3, <1>4, <1>5, <1>6, <1>7 DEF IInv

\* The invariant is inductive.
LEMMA NextIInv == ASSUME IInv, [Next]_vars PROVE IInv'
<1>1. CASE Next
  BY <1>1, ValuesStep, LocalTypesStep, LockStep, StagedStep, DeletedRowStep, PublishedStep,
     OpenedStep, AcceptedStep, KnownStep, CloningStep, GoneStep, RemainsStep, StagedOwnStep, UpdateOwnStep,
     ApplyOwnStep, ContentOwnStep DEF IInv
<1>2. CASE UNCHANGED vars
  <2>1. ValuesOK' /\ LocalTypes'
    BY <1>2 DEF IInv, vars, db, dirs, locks, local, ids, hist, ValuesOK, LocalTypes
  <2>2. LockInv' /\ Staged' /\ DeletedRow' /\ Opened' /\ Published' /\ ImportedFilesAccepted'
    BY <1>2 DEF IInv, vars, db, dirs, locks, local, ids, hist, LockInv, Staged, DeletedRow,
       Opened, Published, ImportedFilesAccepted
  <2>3. Known' /\ Cloning' /\ Gone' /\ Remains'
    BY <1>2 DEF IInv, vars, db, dirs, locks, local, ids, hist, Known, Cloning, Gone, Remains
  <2>4. StagedOwn' /\ UpdateOwn' /\ ApplyOwn' /\ ImportedContentOwn'
    BY <1>2 DEF IInv, vars, db, dirs, locks, local, ids, hist, StagedOwn, UpdateOwn, ApplyOwn,
       ImportedContentOwn, PublishedNow
  <2>5. QED BY <2>1, <2>2, <2>3, <2>4 DEF IInv
<1>3. QED BY <1>1, <1>2

\* Every step of the profile operations, locked or not, and every kill of the
\* process keeps tables, directories, mutexes and local variables well typed, and
\* each mutex with the one call that is in its critical section.
THEOREM TypeCorrect == Spec => []TypeOK
<1>1. Init => IInv BY InitIInv
<1>2. IInv /\ [Next]_vars => IInv' BY NextIInv
<1>3. IInv => TypeOK BY DEF IInv, TypeOK
<1>4. QED BY <1>1, <1>2, <1>3, PTL DEF Spec

\* For any number of profiles, concurrent calls and clients that write to files they
\* have open: the configuration of an imported profile is one that the core accepted,
\* unless a publication is replacing it or was cut short, or a client has opened the
\* imported file itself (ProfileProcessor.kt:53-87, 112-132; Picker.kt:86-91).
THEOREM ImportedFilesStayAccepted == Spec => []ImportedFilesAccepted
<1>1. Init => IInv BY InitIInv
<1>2. IInv /\ [Next]_vars => IInv' BY NextIInv
<1>3. IInv => ImportedFilesAccepted BY DEF IInv
<1>4. QED BY <1>1, <1>2, <1>3, PTL DEF Spec

\* For any number of profiles and of concurrent calls: the files of an imported
\* profile that is not of type File were downloaded from the source in its row, unless a
\* publication is at work or was cut short, or a row was written without a lock during one
\* (ProfileProcessor.kt:32, 54, 94, 114): the processing directory that all calls share
\* carries no files from one profile, or from an older source, into another.
THEOREM ImportedContentStaysOwn == Spec => []ImportedContentOwn
<1>1. Init => IInv BY InitIInv
<1>2. IInv /\ [Next]_vars => IInv' BY NextIInv
<1>3. IInv => ImportedContentOwn BY DEF IInv
<1>4. QED BY <1>1, <1>2, <1>3, PTL DEF Spec

\* A deletion leaves nothing of a profile, and no download, apply, update, edit or clone
\* that was under way when it began brings a row or a directory back
\* (ProfileProcessor.kt:54, 114, 164-179).
THEOREM DeletionIsFinal == Spec => []DeletedStaysDeleted
<1>1. Init => IInv BY InitIInv
<1>2. IInv /\ [Next]_vars => IInv' BY NextIInv
<1>3. IInv => DeletedStaysDeleted BY DEF IInv, DeletedStaysDeleted, Gone, Remains, Deleting
<1>4. QED BY <1>1, <1>2, <1>3, PTL DEF Spec

\* When apply drops the pending row, all that the row says has been published: a patch or
\* a rename made during the download, which holds no profileLock, makes the commit give up
\* instead (ProfileProcessor.kt:54).  Files that were written meanwhile are not covered.
THEOREM CommitKeepsRows == Spec => CommitPublishesRow
<1>1. Init => IInv BY InitIInv
<1>2. IInv /\ [Next]_vars => IInv' BY NextIInv
<1> DEFINE Kept == \A u \in UUIDs :
         (\E c \in Calls : pc[c] = "a_drop" /\ pc'[c] = "a_dropdir" /\ tgt[c] = u)
            => \/ u \in raced
               \/ pending[u] # NoRow /\ imported[u] = AsImported(pending[u])
<1>3. IInv => Kept
  BY DEF IInv, ApplyOwn
<1> HIDE DEF Kept
<1>4. IInv /\ [Next]_vars => [Kept]_vars
  BY <1>3
<1>5. Spec => [][Kept]_vars
  BY <1>1, <1>2, <1>4, PTL DEF Spec
<1>6. QED BY <1>5 DEF Kept, CommitPublishesRow

=============================================================================
