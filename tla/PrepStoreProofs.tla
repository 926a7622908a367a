--------------------------- MODULE PrepStoreProofs ---------------------------
(* Theorems about PrepStore for every value of its constants: first its inductive     *)
(* invariant and what follows from it, then what failed operations, deaths and        *)
(* outages may leave behind, and what a recovery collects.                            *)
EXTENDS PrepStoreInv, TLAPS

\* What create_dir makes is a directory.
LEMMA EmptyDirIsDir == EmptyDir \in Dir
BY DEF EmptyDir, Dir

\* Every edit the code makes to a directory yields a directory.
LEMMA DirEdits ==
  ASSUME NEW d \in Dir
  PROVE  /\ [d EXCEPT !.made = TRUE] \in Dir
         /\ \A f \in File :
              [d EXCEPT !.prefix = @ \cup {f}, !.built = @ \cup {f}] \in Dir
         /\ [d EXCEPT !.synced = @ \cup {"tree"}] \in Dir
         /\ [d EXCEPT !.synced = @ \cup {"meta"}] \in Dir
         /\ \A m \in ResultId \cup {NoMeta, Torn} : [d EXCEPT !.meta = m] \in Dir
<1>1. [d EXCEPT !.made = TRUE] \in Dir
  BY DEF Dir
<1>2. ASSUME NEW f \in File
      PROVE  [d EXCEPT !.prefix = @ \cup {f}, !.built = @ \cup {f}] \in Dir
  BY DEF Dir
<1>3. [d EXCEPT !.synced = @ \cup {"tree"}] \in Dir
  BY DEF Dir
<1>4. [d EXCEPT !.synced = @ \cup {"meta"}] \in Dir
  BY DEF Dir
<1>5. ASSUME NEW m \in ResultId \cup {NoMeta, Torn}
      PROVE  [d EXCEPT !.meta = m] \in Dir
  BY DEF Dir
<1>6. QED
  BY <1>1, <1>2, <1>3, <1>4, <1>5

\* Setting up, syncing and describing a staging directory does not remove it.
LEMMA StagingEdits ==
  ASSUME TypeOK, Ownership, NEW w \in Worker, txn[w] \in TxnId, staging[txn[w]] \in Dir,
         BeginPrefix(w) \/ SyncTree(w) \/ WriteMetadata(w) \/ SyncStaging(w)
  PROVE  staging'[txn[w]] # Absent
<1>1. CASE BeginPrefix(w)
  BY <1>1, DirEdits, AbsentAssumption DEF BeginPrefix, TypeOK
<1>2. CASE SyncTree(w)
  BY <1>2, DirEdits, AbsentAssumption DEF SyncTree, StageStep, TypeOK
<1>3. CASE WriteMetadata(w)
  <2>1. goal[w] \in ResultId
    BY <1>3 DEF WriteMetadata, StageStep, Ownership, CommitPc
  <2>2. [staging[txn[w]] EXCEPT !.meta = goal[w]] \in Dir
    BY <2>1, DirEdits
  <2>3. staging'[txn[w]] = [staging[txn[w]] EXCEPT !.meta = goal[w]]
    BY <1>3 DEF WriteMetadata, StageStep, TypeOK
  <2>4. QED
    BY <2>2, <2>3, AbsentAssumption
<1>4. CASE SyncStaging(w)
  BY <1>4, DirEdits, AbsentAssumption DEF SyncStaging, StageStep, TypeOK
<1>5. QED
  BY <1>1, <1>2, <1>3, <1>4

\* Removing an entry of a directory leaves a directory, as synced as it was.
LEMMA ShrunkDir ==
  ASSUME NEW d \in Dir
  PROVE  \A e \in Shrunk(d) : e \in Dir /\ e.synced = d.synced
<1>1. ASSUME NEW f
      PROVE  LET e == [d EXCEPT !.prefix = @ \ {f}] IN e \in Dir /\ e.synced = d.synced
  BY DEF Dir
<1>2. LET e == [d EXCEPT !.made = FALSE] IN e \in Dir /\ e.synced = d.synced
  BY DEF Dir
<1>3. LET e == [d EXCEPT !.meta = NoMeta] IN e \in Dir /\ e.synced = d.synced
  BY DEF Dir
<1>4. QED
  BY <1>1, <1>2, <1>3 DEF Shrunk

\* So does an outage, which spares what was synced and what is not there.
LEMMA OutageDir ==
  ASSUME NEW d \in Dir, NEW lost
  PROVE  /\ AfterOutage(d, lost) \in Dir
         /\ d.synced = {"tree", "meta"} => AfterOutage(d, lost) = d
<1>1. AfterOutage(d, lost) \in Dir
  BY AbsentAssumption, Zenon DEF AfterOutage, Dir
<1>2. ASSUME d.synced = {"tree", "meta"} PROVE AfterOutage(d, lost) = d
  BY <1>2, Zenon DEF AfterOutage, Dir
<1>3. QED
  BY <1>1, <1>2

\* An outage creates nothing.
LEMMA OutageAbsent ==
  ASSUME NEW lost
  PROVE  AfterOutage(Absent, lost) = Absent
BY SMTT(30) DEF AfterOutage

\* Every step keeps the types.
LEMMA TypeOKStep ==
  ASSUME TypeOK, Ownership, Publication, [Next]_vars
  PROVE  TypeOK'
<1> USE DEF TypeOK, Ownership, Publication, TxnPc, DirPc, LockedPc, CommitPc, PublishPc, RecoverPc,
       leases, stages, public, handle, scanner, mishaps, calm
<1>1. ASSUME NEW w \in Worker, NEW kind \in {"b_stage", "s_stage"}, BeginLease(w, kind) PROVE TypeOK'
  BY <1>1 DEF BeginLease, LockStore, NewTxnId, Goto, Idle
<1>2. ASSUME NEW w \in Worker, BeginLeaseFails(w) PROVE TypeOK'
  BY <1>2, BoundAssumption DEF BeginLeaseFails, NewTxnId, Fault, Idle
<1>3. ASSUME NEW w \in Worker, BeginStage(w) PROVE TypeOK'
  BY <1>3, AbsentAssumption, SentinelAssumption DEF BeginStage, Goto, EmptyDir, Dir, Staged
<1>4. ASSUME NEW w \in Worker, BeginPrefix(w) PROVE TypeOK'
  <2>1. staging[txn[w]] \in Dir /\ txn[w] \in TxnId
    BY <1>4, SentinelAssumption DEF BeginPrefix
  <2>2. staging' \in [TxnId -> Dir \cup {Absent}]
    BY <2>1, <1>4, DirEdits DEF BeginPrefix
  <2>3. QED
    BY <2>2, <1>4, BoundAssumption DEF BeginPrefix, Goto, Return
<1>5. ASSUME NEW w \in Worker, BeginSource(w) PROVE TypeOK'
  BY <1>5 DEF BeginSource, Goto, Return, Staged
<1>6a. ASSUME NEW w \in Worker, BeginRetries(w) PROVE TypeOK'
  BY <1>6a, BoundAssumption DEF BeginRetries, NewTxnId, Staged, Fault
<1>6. ASSUME NEW w \in Worker, BeginFails(w) PROVE TypeOK'
  BY <1>6, BoundAssumption, SentinelAssumption, SMTT(30) DEF BeginFails, RemoveStage, Release, Fault, CloseHandle, Return, Goto, Staged
<1>7. ASSUME NEW w \in Worker, BeginUndoFails(w) PROVE TypeOK'
  <2>1. staging' \in [TxnId -> Dir \cup {Absent}] /\ sourceStage' \subseteq TxnId
    BY <1>7 DEF BeginUndoFails, HalfUndone, RemoveStage
  <2>2. lockFile' \subseteq TxnId /\ lease' \in [TxnId -> Worker \cup {NoWorker}]
    BY <1>7 DEF BeginUndoFails
  <2>3. faults' \in 0..MaxFaults
    BY <1>7, BoundAssumption DEF BeginUndoFails
  <2>4. QED
    BY <1>7, <2>1, <2>2, <2>3, SentinelAssumption DEF BeginUndoFails, CloseHandle, Return, Goto
<1>8. ASSUME NEW w \in Worker, NEW f \in File, Build(w, f) PROVE TypeOK'
  <2>1. staging[txn[w]] \in Dir /\ txn[w] \in TxnId
    BY <1>8, SentinelAssumption DEF Build, HasTransaction, Idle, Staged, StagedPc
  <2>2. staging' \in [TxnId -> Dir \cup {Absent}]
    BY <2>1, <1>8, DirEdits, ZenonT(60) DEF Build, HasTransaction, Idle, Staged, StagedPc
  <2>3. QED
    BY <2>2, <1>8, BoundAssumption DEF Build, HasTransaction, Idle, Staged, StagedPc, Goto
<1>9. ASSUME NEW w \in Worker, NEW r \in ResultId, Commit(w, r) PROVE TypeOK'
  BY <1>9 DEF Commit, HasTransaction, Idle, LockStore, Goto
<1>10. ASSUME NEW w \in Worker, CommitLockFails(w) PROVE TypeOK'
  BY <1>10, BoundAssumption DEF CommitLockFails, HasTransaction, Idle, Goto, Fault
<1>11. ASSUME NEW w \in Worker, ValidateOutput(w) PROVE TypeOK'
  BY <1>11 DEF ValidateOutput, Goto, Abort
<1>12. ASSUME NEW w \in Worker, SyncTree(w) PROVE TypeOK'
  <2>1. staging[txn[w]] \in Dir /\ txn[w] \in TxnId
    BY <1>12, SentinelAssumption DEF SyncTree, StageStep
  <2>2. staging' \in [TxnId -> Dir \cup {Absent}]
    BY <2>1, <1>12, DirEdits DEF SyncTree, StageStep
  <2>3. QED
    BY <2>2, <1>12, BoundAssumption DEF SyncTree, StageStep, Goto
<1>13. ASSUME NEW w \in Worker, WriteMetadata(w) PROVE TypeOK'
  <2>1. staging[txn[w]] \in Dir /\ txn[w] \in TxnId /\ goal[w] \in ResultId
    BY <1>13, SentinelAssumption DEF WriteMetadata, StageStep
  <2>2. staging' \in [TxnId -> Dir \cup {Absent}]
    BY <2>1, <1>13, DirEdits DEF WriteMetadata, StageStep
  <2>3. QED
    BY <2>2, <1>13, BoundAssumption DEF WriteMetadata, StageStep, Goto
<1>14. ASSUME NEW w \in Worker, SyncStaging(w) PROVE TypeOK'
  <2>1. staging[txn[w]] \in Dir /\ txn[w] \in TxnId
    BY <1>14, SentinelAssumption DEF SyncStaging, StageStep
  <2>2. staging' \in [TxnId -> Dir \cup {Absent}]
    BY <2>1, <1>14, DirEdits DEF SyncStaging, StageStep
  <2>3. QED
    BY <2>2, <1>14, BoundAssumption DEF SyncStaging, StageStep, Goto
<1>15. ASSUME NEW w \in Worker, WriteMetadataFails(w) PROVE TypeOK'
  <2>1. staging[txn[w]] \in Dir /\ txn[w] \in TxnId
    BY <1>15, SentinelAssumption DEF WriteMetadataFails
  <2>2. PICK m \in {NoMeta, Torn} : staging' = [staging EXCEPT ![txn[w]].meta = m]
    BY <1>15 DEF WriteMetadataFails
  <2>3. staging' \in [TxnId -> Dir \cup {Absent}]
    BY <2>1, <2>2, DirEdits
  <2>4. QED
    BY <2>3, <1>15, BoundAssumption DEF WriteMetadataFails, Abort, Goto, Fault
<1>16. ASSUME NEW w \in Worker, CheckDestination(w) PROVE TypeOK'
  BY <1>16 DEF CheckDestination, Goto, Abort, Valid
<1>17. ASSUME NEW w \in Worker, RenameToResult(w) PROVE TypeOK'
  BY <1>17 DEF RenameToResult, Goto
<1>18. ASSUME NEW w \in Worker, CommitStepFails(w) PROVE TypeOK'
  BY <1>18, BoundAssumption DEF CommitStepFails, Abort, Goto, Fault
<1>19. ASSUME NEW w \in Worker, RemoveRedundantStage(w) PROVE TypeOK'
  BY <1>19 DEF RemoveRedundantStage, RemoveStage, Goto
<1>20. ASSUME NEW w \in Worker, ReturnExisting(w) PROVE TypeOK'
  BY <1>20, SentinelAssumption DEF ReturnExisting, Release, CloseHandle, Return, Goto
<1>21. ASSUME NEW w \in Worker, ReleaseExistingFails(w) PROVE TypeOK'
  BY <1>21, BoundAssumption DEF ReleaseExistingFails, FailedRelease, Abort, Goto, Fault
<1>22. ASSUME NEW w \in Worker, VerifyPublished(w) PROVE TypeOK'
  BY <1>22, SentinelAssumption DEF VerifyPublished, Goto
<1>23. ASSUME NEW w \in Worker, FinishLease(w) PROVE TypeOK'
  BY <1>23 DEF FinishLease, Release, Goto
<1>24. ASSUME NEW w \in Worker, ReturnPublished(w) PROVE TypeOK'
  BY <1>24, SentinelAssumption, SentinelAssumption DEF ReturnPublished, SyncResults, CloseHandle, Return, Goto
<1>25. ASSUME NEW w \in Worker, PublishStepFails(w) PROVE TypeOK'
  BY <1>25, BoundAssumption, SentinelAssumption DEF PublishStepFails, FailedRelease, Goto, Fault
<1>26. ASSUME NEW w \in Worker, RollbackEntry(w) PROVE TypeOK'
  <2>1. results[goal[w]] \in Dir /\ goal[w] \in ResultId
    BY <1>26 DEF RollbackEntry
  <2>2. results' \in [ResultId -> Dir \cup {Absent}]
    BY <2>1, ShrunkDir, <1>26 DEF RollbackEntry
  <2>3. QED
    BY <2>2, <1>26 DEF RollbackEntry
<1>27. ASSUME NEW w \in Worker, RollbackRoot(w) PROVE TypeOK'
  BY <1>27 DEF RollbackRoot, Goto
<1>28. ASSUME NEW w \in Worker, RollbackSync(w) PROVE TypeOK'
  <2>1. /\ txn' \in [Worker -> TxnId \cup {NoTxn}]
        /\ goal' \in [Worker -> ResultId \cup {NoResult}]
    BY <1>28, SentinelAssumption DEF RollbackSync, CloseHandle
  <2>2. /\ lease' \in [TxnId -> Worker \cup {NoWorker}]
        /\ lockFile' \subseteq TxnId
    BY <1>28, SentinelAssumption DEF RollbackSync, Release, FailedRelease
  <2>3. faults' \in 0..MaxFaults /\ UNCHANGED <<crashes, outages>>
    BY <1>28, BoundAssumption DEF RollbackSync, FailedRelease, Fault
  <2>4. /\ reply' \in [Worker ->
              {"none", "published", "existing", "error", "corrupt", "recovered"}]
        /\ pc' \in [Worker -> {"idle", "drop"} \cup LockedPc] /\ storeLock' \in Worker \cup {NoWorker}
    BY <1>28 DEF RollbackSync, Return, Goto
  <2>. QED BY <1>28, <2>1, <2>2, <2>3, <2>4 DEF RollbackSync
<1>29. ASSUME NEW w \in Worker, RollbackFails(w) PROVE TypeOK'
  BY <1>29, BoundAssumption, SentinelAssumption DEF RollbackFails, CloseHandle, Return, Goto, Fault
<1>30. ASSUME NEW w \in Worker, DropHandle(w) PROVE TypeOK'
  BY <1>30 DEF DropHandle, Idle, Goto
<1>31. ASSUME NEW w \in Worker, DropLock(w) PROVE TypeOK'
  BY <1>31 DEF DropLock, LockStore, Goto
<1>32. ASSUME NEW w \in Worker, DropLockFails(w) PROVE TypeOK'
  BY <1>32, BoundAssumption, SentinelAssumption DEF DropLockFails, CloseLeases, CloseHandle, Goto, Fault
<1>33. ASSUME NEW w \in Worker, DropRemove(w) PROVE TypeOK'
  BY <1>33, BoundAssumption DEF DropRemove, RemoveStage, Fault, Goto
<1>34. ASSUME NEW w \in Worker, DropLease(w) PROVE TypeOK'
  BY <1>34, BoundAssumption, SentinelAssumption DEF DropLease, Release, FailedRelease, Fault, CloseHandle, Return, Goto
<1>35. ASSUME NEW w \in Worker, NEW r \in ResultId, Get(w, r) PROVE TypeOK'
  BY <1>35 DEF Get, Idle, Valid
<1>36. ASSUME NEW w \in Worker, RecoverStart(w) PROVE TypeOK'
  BY <1>36 DEF RecoverStart, Idle, LockStore, ReadRoot, Entries, Goto
<1>37. ASSUME NEW w \in Worker, RecoverEntry(w) PROVE TypeOK'
  <2>1. lease' \in [TxnId -> Worker \cup {NoWorker}]
    BY <1>37 DEF RecoverEntry, Unlocked
  <2>2. /\ pc' \in [Worker -> {"idle", "drop"} \cup LockedPc]
        /\ cur' \in [Worker -> TxnId \cup {NoTxn}]
        /\ todo' \in [Worker -> SUBSET TxnId]
    BY <1>37, SMTT(60) DEF RecoverEntry, Goto, LockedPc, RecoverPc
  <2>. QED BY <1>37, <2>1, <2>2 DEF RecoverEntry
<1>38. ASSUME NEW w \in Worker, RecoverMissingLease(w) PROVE TypeOK'
  BY <1>38 DEF RecoverMissingLease, StopRecovery, Return, Goto
<1>39. ASSUME NEW w \in Worker, RecoverRemove(w) PROVE TypeOK'
  BY <1>39 DEF RecoverRemove, RemoveStage, Goto
<1>40. ASSUME NEW w \in Worker, RecoverRelease(w) PROVE TypeOK'
  BY <1>40 DEF RecoverRelease, Release, Goto
<1>41. ASSUME NEW w \in Worker, RecoverFails(w) PROVE TypeOK'
  BY <1>41, BoundAssumption DEF RecoverFails, StopRecovery, Return, Goto, Fault
<1>42. ASSUME NEW w \in Worker, RecoverNextRoot(w) PROVE TypeOK'
  BY <1>42 DEF RecoverNextRoot, ReadRoot, Entries
<1>43. ASSUME NEW w \in Worker, RecoverDone(w) PROVE TypeOK'
  BY <1>43 DEF RecoverDone, StopRecovery, Return, Goto
<1>44. ASSUME NEW w \in Worker, Crash(w) PROVE TypeOK'
  <2>1. crashes' \in 0..MaxCrashes
    BY <1>44, BoundAssumption DEF Crash
  <2>2. /\ storeLock' \in Worker \cup {NoWorker}
        /\ lease' \in [TxnId -> Worker \cup {NoWorker}]
        /\ txn' \in [Worker -> TxnId \cup {NoTxn}]
        /\ goal' \in [Worker -> ResultId \cup {NoResult}]
    BY <1>44 DEF Crash, CloseLeases, CloseHandle
  <2>3. QED
    BY <2>1, <2>2, <1>44 DEF Crash, Goto
<1>45. CASE PowerLoss
  <2>1. PICK undone \in SUBSET {r \in ResultId : unsynced[r] # NoTxn}, lost \in SUBSET File :
          /\ results' = [r \in ResultId |->
                IF r \in undone THEN Absent ELSE AfterOutage(results[r], lost)]
          /\ staging' = [t \in TxnId |->
                IF \E r \in undone : unsynced[r] = t
                THEN results[CHOOSE r \in undone : unsynced[r] = t]
                ELSE staging[t]]
          /\ returned' = [r \in ResultId |->
                IF r \in undone /\ returned[r] = "seen" THEN "no" ELSE returned[r]]
    BY <1>45 DEF PowerLoss
  <2>2. \A r \in ResultId : AfterOutage(results[r], lost) \in Dir \cup {Absent}
    BY OutageDir, OutageAbsent
  <2>3. results' \in [ResultId -> Dir \cup {Absent}]
    BY <2>1, <2>2
  <2>4. staging' \in [TxnId -> Dir \cup {Absent}]
    <3>1. ASSUME NEW t \in TxnId, \E r \in undone : unsynced[r] = t
          PROVE  (CHOOSE r \in undone : unsynced[r] = t) \in ResultId
      BY <3>1
    <3>2. QED
      BY <2>1, <3>1
  <2>5. returned' \in [ResultId -> {"no", "seen", "published"}]
    BY <2>1
  <2>6. outages' \in 0..MaxOutages
    BY <1>45, BoundAssumption DEF PowerLoss
  <2>7. QED
    BY <2>3, <2>4, <2>5, <2>6, <1>45 DEF PowerLoss
<1>46. CASE UNCHANGED vars
  BY <1>46 DEF vars
<1>47. QED
  BY <1>1, <1>2, <1>3, <1>4, <1>5, <1>6, <1>6a, <1>7, <1>8, <1>9, <1>10, <1>11, <1>12,
     <1>13, <1>14, <1>15, <1>16, <1>17, <1>18, <1>19, <1>20, <1>21, <1>22, <1>23, <1>24,
     <1>25, <1>26, <1>27, <1>28, <1>29, <1>30, <1>31, <1>32, <1>33, <1>34, <1>35, <1>36,
     <1>37, <1>38, <1>39, <1>40, <1>41, <1>42, <1>43, <1>44, <1>45, <1>46, Zenon
  DEF Next, Proceed, Call, Fail

\* Every step keeps the store lock with the one inside a locked operation.
LEMMA StoreLockProtectsStep ==
  ASSUME TypeOK, StoreLockProtects, [Next]_vars
  PROVE  StoreLockProtects'
<1> USE DEF TypeOK, StoreLockProtects, LockedPc, CommitPc, PublishPc, RecoverPc,
       leases, stages, public, handle, scanner, mishaps, calm
<1>1. ASSUME NEW w \in Worker, NEW kind \in {"b_stage", "s_stage"}, BeginLease(w, kind) PROVE StoreLockProtects'
  BY <1>1, SentinelAssumption DEF BeginLease, LockStore, NewTxnId, Goto, Idle
<1>2. ASSUME NEW w \in Worker, BeginLeaseFails(w) PROVE StoreLockProtects'
  BY <1>2 DEF BeginLeaseFails, NewTxnId, Fault, Idle
<1>3. ASSUME NEW w \in Worker, BeginStage(w) PROVE StoreLockProtects'
  BY <1>3 DEF BeginStage, Goto, EmptyDir, Dir, Staged
<1>4. ASSUME NEW w \in Worker, BeginPrefix(w) PROVE StoreLockProtects'
  BY <1>4 DEF BeginPrefix, Goto, Return, Dir
<1>5. ASSUME NEW w \in Worker, BeginSource(w) PROVE StoreLockProtects'
  BY <1>5 DEF BeginSource, Goto, Return, Staged
<1>6a. ASSUME NEW w \in Worker, BeginRetries(w) PROVE StoreLockProtects'
  BY <1>6a DEF BeginRetries, NewTxnId, Staged
<1>6. ASSUME NEW w \in Worker, BeginFails(w) PROVE StoreLockProtects'
  BY <1>6 DEF BeginFails, RemoveStage, Release, Fault, CloseHandle, Return, Goto, Staged
<1>7. ASSUME NEW w \in Worker, BeginUndoFails(w) PROVE StoreLockProtects'
  BY <1>7 DEF BeginUndoFails, CloseHandle, Return, Goto
<1>8. ASSUME NEW w \in Worker, NEW f \in File, Build(w, f) PROVE StoreLockProtects'
  BY <1>8 DEF Build, HasTransaction, Idle, Dir, Staged
<1>9. ASSUME NEW w \in Worker, NEW r \in ResultId, Commit(w, r) PROVE StoreLockProtects'
  BY <1>9, SentinelAssumption DEF Commit, HasTransaction, Idle, LockStore, Goto
<1>10. ASSUME NEW w \in Worker, CommitLockFails(w) PROVE StoreLockProtects'
  BY <1>10 DEF CommitLockFails, HasTransaction, Idle, Goto, Fault
<1>11. ASSUME NEW w \in Worker, ValidateOutput(w) PROVE StoreLockProtects'
  BY <1>11 DEF ValidateOutput, Goto, Abort
<1>12. ASSUME NEW w \in Worker, SyncTree(w) PROVE StoreLockProtects'
  BY <1>12 DEF SyncTree, StageStep, Goto, Dir
<1>13. ASSUME NEW w \in Worker, WriteMetadata(w) PROVE StoreLockProtects'
  BY <1>13 DEF WriteMetadata, StageStep, Goto, Dir
<1>14. ASSUME NEW w \in Worker, SyncStaging(w) PROVE StoreLockProtects'
  BY <1>14 DEF SyncStaging, StageStep, Goto, Dir
<1>15. ASSUME NEW w \in Worker, WriteMetadataFails(w) PROVE StoreLockProtects'
  BY <1>15 DEF WriteMetadataFails, Abort, Goto, Fault, Dir
<1>16. ASSUME NEW w \in Worker, CheckDestination(w) PROVE StoreLockProtects'
  BY <1>16 DEF CheckDestination, Goto, Abort, Valid
<1>17. ASSUME NEW w \in Worker, RenameToResult(w) PROVE StoreLockProtects'
  BY <1>17 DEF RenameToResult, Goto
<1>18. ASSUME NEW w \in Worker, CommitStepFails(w) PROVE StoreLockProtects'
  BY <1>18 DEF CommitStepFails, Abort, Goto, Fault
<1>19. ASSUME NEW w \in Worker, RemoveRedundantStage(w) PROVE StoreLockProtects'
  BY <1>19 DEF RemoveRedundantStage, RemoveStage, Goto
<1>20. ASSUME NEW w \in Worker, ReturnExisting(w) PROVE StoreLockProtects'
  BY <1>20 DEF ReturnExisting, Release, CloseHandle, Return, Goto
<1>21. ASSUME NEW w \in Worker, ReleaseExistingFails(w) PROVE StoreLockProtects'
  BY <1>21 DEF ReleaseExistingFails, FailedRelease, Abort, Goto, Fault
<1>22. ASSUME NEW w \in Worker, VerifyPublished(w) PROVE StoreLockProtects'
  BY <1>22 DEF VerifyPublished, Goto
<1>23. ASSUME NEW w \in Worker, FinishLease(w) PROVE StoreLockProtects'
  BY <1>23 DEF FinishLease, Release, Goto
<1>24. ASSUME NEW w \in Worker, ReturnPublished(w) PROVE StoreLockProtects'
  BY <1>24 DEF ReturnPublished, SyncResults, CloseHandle, Return, Goto
<1>25. ASSUME NEW w \in Worker, PublishStepFails(w) PROVE StoreLockProtects'
  BY <1>25 DEF PublishStepFails, FailedRelease, Goto, Fault
<1>26. ASSUME NEW w \in Worker, RollbackEntry(w) PROVE StoreLockProtects'
  BY <1>26 DEF RollbackEntry, Shrunk, Dir
<1>27. ASSUME NEW w \in Worker, RollbackRoot(w) PROVE StoreLockProtects'
  BY <1>27 DEF RollbackRoot, Goto
<1>28. ASSUME NEW w \in Worker, RollbackSync(w) PROVE StoreLockProtects'
  BY <1>28 DEF RollbackSync, Release, FailedRelease, Fault, CloseHandle, Return, Goto
<1>29. ASSUME NEW w \in Worker, RollbackFails(w) PROVE StoreLockProtects'
  BY <1>29 DEF RollbackFails, CloseHandle, Return, Goto, Fault
<1>30. ASSUME NEW w \in Worker, DropHandle(w) PROVE StoreLockProtects'
  BY <1>30 DEF DropHandle, Idle, Goto
<1>31. ASSUME NEW w \in Worker, DropLock(w) PROVE StoreLockProtects'
  BY <1>31, SentinelAssumption DEF DropLock, LockStore, Goto
<1>32. ASSUME NEW w \in Worker, DropLockFails(w) PROVE StoreLockProtects'
  BY <1>32 DEF DropLockFails, CloseLeases, CloseHandle, Goto, Fault
<1>33. ASSUME NEW w \in Worker, DropRemove(w) PROVE StoreLockProtects'
  BY <1>33 DEF DropRemove, RemoveStage, Fault, Goto
<1>34. ASSUME NEW w \in Worker, DropLease(w) PROVE StoreLockProtects'
  BY <1>34 DEF DropLease, Release, FailedRelease, Fault, CloseHandle, Return, Goto
<1>35. ASSUME NEW w \in Worker, NEW r \in ResultId, Get(w, r) PROVE StoreLockProtects'
  BY <1>35 DEF Get, Idle, Valid
<1>36. ASSUME NEW w \in Worker, RecoverStart(w) PROVE StoreLockProtects'
  BY <1>36, SentinelAssumption DEF RecoverStart, Idle, LockStore, ReadRoot, Entries, Goto
<1>37. ASSUME NEW w \in Worker, RecoverEntry(w) PROVE StoreLockProtects'
  BY <1>37 DEF RecoverEntry, Unlocked, Goto
<1>38. ASSUME NEW w \in Worker, RecoverMissingLease(w) PROVE StoreLockProtects'
  BY <1>38 DEF RecoverMissingLease, StopRecovery, Return, Goto
<1>39. ASSUME NEW w \in Worker, RecoverRemove(w) PROVE StoreLockProtects'
  BY <1>39 DEF RecoverRemove, RemoveStage, Goto
<1>40. ASSUME NEW w \in Worker, RecoverRelease(w) PROVE StoreLockProtects'
  BY <1>40 DEF RecoverRelease, Release, Goto
<1>41. ASSUME NEW w \in Worker, RecoverFails(w) PROVE StoreLockProtects'
  BY <1>41 DEF RecoverFails, StopRecovery, Return, Goto, Fault
<1>42. ASSUME NEW w \in Worker, RecoverNextRoot(w) PROVE StoreLockProtects'
  BY <1>42 DEF RecoverNextRoot, ReadRoot, Entries
<1>43. ASSUME NEW w \in Worker, RecoverDone(w) PROVE StoreLockProtects'
  BY <1>43 DEF RecoverDone, StopRecovery, Return, Goto
<1>44. ASSUME NEW w \in Worker, Crash(w) PROVE StoreLockProtects'
  BY <1>44 DEF Crash, CloseLeases, CloseHandle, Goto
<1>45. CASE PowerLoss
  BY <1>45 DEF PowerLoss
<1>46. CASE UNCHANGED vars
  BY <1>46, SMTT(30) DEF vars
<1>47. QED
  BY <1>1, <1>2, <1>3, <1>4, <1>5, <1>6, <1>6a, <1>7, <1>8, <1>9, <1>10, <1>11, <1>12,
     <1>13, <1>14, <1>15, <1>16, <1>17, <1>18, <1>19, <1>20, <1>21, <1>22, <1>23, <1>24,
     <1>25, <1>26, <1>27, <1>28, <1>29, <1>30, <1>31, <1>32, <1>33, <1>34, <1>35, <1>36,
     <1>37, <1>38, <1>39, <1>40, <1>41, <1>42, <1>43, <1>44, <1>45, <1>46
  DEF Next, Proceed, Call, Fail

\* Every step keeps transactions, directories and leases with their owners.
LEMMA OwnershipStep ==
  ASSUME TypeOK, StoreLockProtects, Ownership, [Next]_vars
  PROVE  Ownership'
<1> USE DEF TypeOK, StoreLockProtects, Ownership, Staged, TxnPc, DirPc, StagedPc, LeasePc, LockedPc, CommitPc, PublishPc, RecoverPc,
       leases, stages, public, handle, scanner, mishaps, calm
<1>1. ASSUME NEW w \in Worker, NEW kind \in {"b_stage", "s_stage"}, BeginLease(w, kind) PROVE Ownership'
  BY <1>1, SentinelAssumption DEF BeginLease, LockStore, NewTxnId, Goto, Idle
<1>2. ASSUME NEW w \in Worker, BeginLeaseFails(w) PROVE Ownership'
  BY <1>2, SentinelAssumption DEF BeginLeaseFails, NewTxnId, Fault, Idle
<1>3. ASSUME NEW w \in Worker, BeginStage(w) PROVE Ownership'
  <2>1. EmptyDir # Absent
    BY EmptyDirIsDir, AbsentAssumption
  <2>2. QED
    BY <2>1, <1>3, SentinelAssumption DEF BeginStage, Goto
<1>4. ASSUME NEW w \in Worker, BeginPrefix(w) PROVE Ownership'
  <2>1. staging[txn[w]] \in Dir /\ txn[w] \in TxnId
    BY <1>4, SentinelAssumption DEF BeginPrefix
  <2>2. staging'[txn[w]] # Absent
    BY <2>1, <1>4, StagingEdits
  <2>3. QED
    BY <2>1, <2>2, <1>4, SentinelAssumption DEF BeginPrefix, Goto, Return
<1>5. ASSUME NEW w \in Worker, BeginSource(w) PROVE Ownership'
  BY <1>5, SentinelAssumption, AbsentAssumption DEF BeginSource, Goto, Return, Staged
<1>6a. ASSUME NEW w \in Worker, BeginRetries(w) PROVE Ownership'
  BY <1>6a, SentinelAssumption, AbsentAssumption DEF BeginRetries, NewTxnId, Staged
<1>6. ASSUME NEW w \in Worker, BeginFails(w) PROVE Ownership'
  BY <1>6, SentinelAssumption, AbsentAssumption DEF BeginFails, RemoveStage, Release, Fault, CloseHandle, Return, Goto, Staged
<1>7. ASSUME NEW w \in Worker, BeginUndoFails(w) PROVE Ownership'
  BY <1>7, SentinelAssumption, AbsentAssumption, SMTT(30)
  DEF BeginUndoFails, HalfUndone, RemoveStage, CloseHandle, Return, Goto, Staged
<1>8. ASSUME NEW w \in Worker, NEW f \in File, Build(w, f) PROVE Ownership'
  BY <1>8, SentinelAssumption, AbsentAssumption DEF Build, HasTransaction, Idle, Dir, Staged
<1>9. ASSUME NEW w \in Worker, NEW r \in ResultId, Commit(w, r) PROVE Ownership'
  BY <1>9, SentinelAssumption DEF Commit, HasTransaction, Idle, LockStore, Goto
<1>10. ASSUME NEW w \in Worker, CommitLockFails(w) PROVE Ownership'
  BY <1>10, SentinelAssumption DEF CommitLockFails, HasTransaction, Idle, Goto, Fault
<1>11. ASSUME NEW w \in Worker, ValidateOutput(w) PROVE Ownership'
  BY <1>11, SentinelAssumption DEF ValidateOutput, Goto, Abort
<1>12. ASSUME NEW w \in Worker, SyncTree(w) PROVE Ownership'
  <2>1. staging[txn[w]] \in Dir /\ txn[w] \in TxnId
    BY <1>12, SentinelAssumption DEF SyncTree, StageStep
  <2>2. staging'[txn[w]] # Absent
    BY <2>1, <1>12, StagingEdits
  <2>3. QED
    BY <2>1, <2>2, <1>12, SentinelAssumption DEF SyncTree, StageStep, Goto, Return
<1>13. ASSUME NEW w \in Worker, WriteMetadata(w) PROVE Ownership'
  <2>1. staging[txn[w]] \in Dir /\ txn[w] \in TxnId
    BY <1>13, SentinelAssumption DEF WriteMetadata, StageStep
  <2>2. staging'[txn[w]] # Absent
    BY <2>1, <1>13, StagingEdits
  <2>3. QED
    BY <2>1, <2>2, <1>13, SentinelAssumption DEF WriteMetadata, StageStep, Goto, Return
<1>14. ASSUME NEW w \in Worker, SyncStaging(w) PROVE Ownership'
  <2>1. staging[txn[w]] \in Dir /\ txn[w] \in TxnId
    BY <1>14, SentinelAssumption DEF SyncStaging, StageStep
  <2>2. staging'[txn[w]] # Absent
    BY <2>1, <1>14, StagingEdits
  <2>3. QED
    BY <2>1, <2>2, <1>14, SentinelAssumption DEF SyncStaging, StageStep, Goto, Return
<1>15. ASSUME NEW w \in Worker, WriteMetadataFails(w) PROVE Ownership'
  BY <1>15, SentinelAssumption DEF WriteMetadataFails, Abort, Goto, Fault, Dir
<1>16. ASSUME NEW w \in Worker, CheckDestination(w) PROVE Ownership'
  BY <1>16, SentinelAssumption DEF CheckDestination, Goto, Abort, Valid
<1>17. ASSUME NEW w \in Worker, RenameToResult(w) PROVE Ownership'
  BY <1>17, SentinelAssumption DEF RenameToResult, Goto
<1>18. ASSUME NEW w \in Worker, CommitStepFails(w) PROVE Ownership'
  BY <1>18, SentinelAssumption DEF CommitStepFails, Abort, Goto, Fault
<1>19. ASSUME NEW w \in Worker, RemoveRedundantStage(w) PROVE Ownership'
  BY <1>19, SentinelAssumption, AbsentAssumption DEF RemoveRedundantStage, RemoveStage, Goto
<1>20. ASSUME NEW w \in Worker, ReturnExisting(w) PROVE Ownership'
  BY <1>20, SentinelAssumption DEF ReturnExisting, Release, CloseHandle, Return, Goto
<1>21. ASSUME NEW w \in Worker, ReleaseExistingFails(w) PROVE Ownership'
  BY <1>21, SentinelAssumption DEF ReleaseExistingFails, FailedRelease, Abort, Goto, Fault
<1>22. ASSUME NEW w \in Worker, VerifyPublished(w) PROVE Ownership'
  BY <1>22, SentinelAssumption DEF VerifyPublished, Goto
<1>23. ASSUME NEW w \in Worker, FinishLease(w) PROVE Ownership'
  BY <1>23, SentinelAssumption DEF FinishLease, Release, Goto
<1>24. ASSUME NEW w \in Worker, ReturnPublished(w) PROVE Ownership'
  BY <1>24, SentinelAssumption DEF ReturnPublished, SyncResults, CloseHandle, Return, Goto
<1>25. ASSUME NEW w \in Worker, PublishStepFails(w) PROVE Ownership'
  BY <1>25, SentinelAssumption DEF PublishStepFails, FailedRelease, Goto, Fault
<1>26. ASSUME NEW w \in Worker, RollbackEntry(w) PROVE Ownership'
  BY <1>26, SentinelAssumption DEF RollbackEntry, Shrunk, Dir
<1>27. ASSUME NEW w \in Worker, RollbackRoot(w) PROVE Ownership'
  BY <1>27, SentinelAssumption DEF RollbackRoot, Goto
<1>28. ASSUME NEW w \in Worker, RollbackSync(w) PROVE Ownership'
  BY <1>28, SentinelAssumption DEF RollbackSync, Release, FailedRelease, Fault, CloseHandle, Return, Goto
<1>29. ASSUME NEW w \in Worker, RollbackFails(w) PROVE Ownership'
  BY <1>29, SentinelAssumption DEF RollbackFails, CloseHandle, Return, Goto, Fault
<1>30. ASSUME NEW w \in Worker, DropHandle(w) PROVE Ownership'
  BY <1>30, SentinelAssumption DEF DropHandle, Idle, Goto
<1>31. ASSUME NEW w \in Worker, DropLock(w) PROVE Ownership'
  BY <1>31, SentinelAssumption DEF DropLock, LockStore, Goto
<1>32. ASSUME NEW w \in Worker, DropLockFails(w) PROVE Ownership'
  BY <1>32, SentinelAssumption DEF DropLockFails, CloseLeases, CloseHandle, Goto, Fault
<1>33. ASSUME NEW w \in Worker, DropRemove(w) PROVE Ownership'
  BY <1>33, SentinelAssumption, AbsentAssumption DEF DropRemove, RemoveStage, Fault, Goto
<1>34. ASSUME NEW w \in Worker, DropLease(w) PROVE Ownership'
  BY <1>34, SentinelAssumption DEF DropLease, Release, FailedRelease, Fault, CloseHandle, Return, Goto
<1>35. ASSUME NEW w \in Worker, NEW r \in ResultId, Get(w, r) PROVE Ownership'
  BY <1>35, SentinelAssumption DEF Get, Idle, Valid
<1>36. ASSUME NEW w \in Worker, RecoverStart(w) PROVE Ownership'
  BY <1>36, SentinelAssumption DEF RecoverStart, Idle, LockStore, ReadRoot, Entries, Goto
<1>37. ASSUME NEW w \in Worker, RecoverEntry(w) PROVE Ownership'
  BY <1>37, SentinelAssumption DEF RecoverEntry, Unlocked, Goto
<1>38. ASSUME NEW w \in Worker, RecoverMissingLease(w) PROVE Ownership'
  BY <1>38, SentinelAssumption DEF RecoverMissingLease, StopRecovery, Return, Goto
<1>39. ASSUME NEW w \in Worker, RecoverRemove(w) PROVE Ownership'
  BY <1>39, SentinelAssumption, AbsentAssumption DEF RecoverRemove, RemoveStage, Goto
<1>40. ASSUME NEW w \in Worker, RecoverRelease(w) PROVE Ownership'
  BY <1>40, SentinelAssumption DEF RecoverRelease, Release, Goto
<1>41. ASSUME NEW w \in Worker, RecoverFails(w) PROVE Ownership'
  BY <1>41, SentinelAssumption DEF RecoverFails, StopRecovery, Return, Goto, Fault
<1>42. ASSUME NEW w \in Worker, RecoverNextRoot(w) PROVE Ownership'
  BY <1>42, SentinelAssumption DEF RecoverNextRoot, ReadRoot, Entries
<1>43. ASSUME NEW w \in Worker, RecoverDone(w) PROVE Ownership'
  BY <1>43, SentinelAssumption DEF RecoverDone, StopRecovery, Return, Goto
<1>44. ASSUME NEW w \in Worker, Crash(w) PROVE Ownership'
  BY <1>44, SentinelAssumption DEF Crash, CloseLeases, CloseHandle, Goto
<1>45. CASE PowerLoss
  BY <1>45 DEF PowerLoss
<1>46. CASE UNCHANGED vars
  BY <1>46, SMTT(30) DEF vars
<1>47. QED
  BY <1>1, <1>2, <1>3, <1>4, <1>5, <1>6, <1>6a, <1>7, <1>8, <1>9, <1>10, <1>11, <1>12,
     <1>13, <1>14, <1>15, <1>16, <1>17, <1>18, <1>19, <1>20, <1>21, <1>22, <1>23, <1>24,
     <1>25, <1>26, <1>27, <1>28, <1>29, <1>30, <1>31, <1>32, <1>33, <1>34, <1>35, <1>36,
     <1>37, <1>38, <1>39, <1>40, <1>41, <1>42, <1>43, <1>44, <1>45, <1>46, Zenon
  DEF Next, Proceed, Call, Fail

\* Every step keeps what is known of results that are being published or were returned.
LEMMA PublicationStep ==
  ASSUME TypeOK, StoreLockProtects, Ownership, Publication, [Next]_vars
  PROVE  Publication'
<1> USE DEF TypeOK, StoreLockProtects, Ownership, Publication, RenameOntoNothing, AllSynced, TxnPc, DirPc, StagedPc, LeasePc, LockedPc, CommitPc, PublishPc, RecoverPc,
       leases, stages, public, handle, scanner, mishaps, calm
<1>1. ASSUME NEW w \in Worker, NEW kind \in {"b_stage", "s_stage"}, BeginLease(w, kind) PROVE Publication'
  BY <1>1, SentinelAssumption DEF BeginLease, LockStore, NewTxnId, Goto, Idle
<1>2. ASSUME NEW w \in Worker, BeginLeaseFails(w) PROVE Publication'
  BY <1>2, SentinelAssumption DEF BeginLeaseFails, NewTxnId, Fault, Idle
<1>3. ASSUME NEW w \in Worker, BeginStage(w) PROVE Publication'
  BY <1>3, SentinelAssumption, AbsentAssumption DEF BeginStage, Goto, EmptyDir, Dir, Staged
<1>4. ASSUME NEW w \in Worker, BeginPrefix(w) PROVE Publication'
  BY <1>4, SentinelAssumption DEF BeginPrefix, Goto, Return, Dir
<1>5. ASSUME NEW w \in Worker, BeginSource(w) PROVE Publication'
  BY <1>5, SentinelAssumption, AbsentAssumption DEF BeginSource, Goto, Return, Staged
<1>6a. ASSUME NEW w \in Worker, BeginRetries(w) PROVE Publication'
  BY <1>6a, SentinelAssumption, AbsentAssumption DEF BeginRetries, NewTxnId, Staged
<1>6. ASSUME NEW w \in Worker, BeginFails(w) PROVE Publication'
  BY <1>6, SentinelAssumption, AbsentAssumption DEF BeginFails, RemoveStage, Release, Fault, CloseHandle, Return, Goto, Staged
<1>7. ASSUME NEW w \in Worker, BeginUndoFails(w) PROVE Publication'
  BY <1>7, SentinelAssumption DEF BeginUndoFails, CloseHandle, Return, Goto
<1>8. ASSUME NEW w \in Worker, NEW f \in File, Build(w, f) PROVE Publication'
  BY <1>8, SentinelAssumption, AbsentAssumption DEF Build, HasTransaction, Idle, Dir, Staged
<1>9. ASSUME NEW w \in Worker, NEW r \in ResultId, Commit(w, r) PROVE Publication'
  BY <1>9, SentinelAssumption DEF Commit, HasTransaction, Idle, LockStore, Goto
<1>10. ASSUME NEW w \in Worker, CommitLockFails(w) PROVE Publication'
  BY <1>10, SentinelAssumption DEF CommitLockFails, HasTransaction, Idle, Goto, Fault
<1>11. ASSUME NEW w \in Worker, ValidateOutput(w) PROVE Publication'
  BY <1>11, SentinelAssumption DEF ValidateOutput, Goto, Abort
<1>12. ASSUME NEW w \in Worker, SyncTree(w) PROVE Publication'
  BY <1>12, SentinelAssumption, AbsentAssumption DEF SyncTree, StageStep, Goto, Dir
<1>13. ASSUME NEW w \in Worker, WriteMetadata(w) PROVE Publication'
  BY <1>13, SentinelAssumption, AbsentAssumption DEF WriteMetadata, StageStep, Goto, Dir
<1>14. ASSUME NEW w \in Worker, SyncStaging(w) PROVE Publication'
  BY <1>14, SentinelAssumption, AbsentAssumption DEF SyncStaging, StageStep, Goto, Dir
<1>15. ASSUME NEW w \in Worker, WriteMetadataFails(w) PROVE Publication'
  BY <1>15, SentinelAssumption DEF WriteMetadataFails, Abort, Goto, Fault, Dir
<1>16. ASSUME NEW w \in Worker, CheckDestination(w) PROVE Publication'
  BY <1>16, SentinelAssumption DEF CheckDestination, Goto, Abort, Valid
<1>17. ASSUME NEW w \in Worker, RenameToResult(w) PROVE Publication'
  BY <1>17, SentinelAssumption DEF RenameToResult, Goto
<1>18. ASSUME NEW w \in Worker, CommitStepFails(w) PROVE Publication'
  BY <1>18, SentinelAssumption DEF CommitStepFails, Abort, Goto, Fault
<1>19. ASSUME NEW w \in Worker, RemoveRedundantStage(w) PROVE Publication'
  BY <1>19, SentinelAssumption, AbsentAssumption DEF RemoveRedundantStage, RemoveStage, Goto
<1>20. ASSUME NEW w \in Worker, ReturnExisting(w) PROVE Publication'
  BY <1>20, SentinelAssumption DEF ReturnExisting, Release, CloseHandle, Return, Goto
<1>21. ASSUME NEW w \in Worker, ReleaseExistingFails(w) PROVE Publication'
  BY <1>21, SentinelAssumption DEF ReleaseExistingFails, FailedRelease, Abort, Goto, Fault
<1>22. ASSUME NEW w \in Worker, VerifyPublished(w) PROVE Publication'
  BY <1>22, SentinelAssumption DEF VerifyPublished, Goto
<1>23. ASSUME NEW w \in Worker, FinishLease(w) PROVE Publication'
  BY <1>23, SentinelAssumption DEF FinishLease, Release, Goto
<1>24. ASSUME NEW w \in Worker, ReturnPublished(w) PROVE Publication'
  BY <1>24, SentinelAssumption DEF ReturnPublished, SyncResults, CloseHandle, Return, Goto
<1>25. ASSUME NEW w \in Worker, PublishStepFails(w) PROVE Publication'
  BY <1>25, SentinelAssumption DEF PublishStepFails, FailedRelease, Goto, Fault
<1>26. ASSUME NEW w \in Worker, RollbackEntry(w) PROVE Publication'
  <2>1. results[goal[w]] \in Dir /\ goal[w] \in ResultId
    BY <1>26 DEF RollbackEntry
  <2>2. PICK d \in Shrunk(results[goal[w]]) : results' = [results EXCEPT ![goal[w]] = d]
    BY <1>26 DEF RollbackEntry
  <2>3. d # Absent /\ d.synced = results[goal[w]].synced
    BY <2>1, <2>2, ShrunkDir, AbsentAssumption
  <2>4. QED
    BY <2>1, <2>2, <2>3, <1>26 DEF RollbackEntry
<1>27. ASSUME NEW w \in Worker, RollbackRoot(w) PROVE Publication'
  BY <1>27, SentinelAssumption DEF RollbackRoot, Goto
<1>28. ASSUME NEW w \in Worker, RollbackSync(w) PROVE Publication'
  BY <1>28, SentinelAssumption DEF RollbackSync, Release, FailedRelease, Fault, CloseHandle, Return, Goto
<1>29. ASSUME NEW w \in Worker, RollbackFails(w) PROVE Publication'
  BY <1>29, SentinelAssumption DEF RollbackFails, CloseHandle, Return, Goto, Fault
<1>30. ASSUME NEW w \in Worker, DropHandle(w) PROVE Publication'
  BY <1>30, SentinelAssumption DEF DropHandle, Idle, Goto
<1>31. ASSUME NEW w \in Worker, DropLock(w) PROVE Publication'
  BY <1>31, SentinelAssumption DEF DropLock, LockStore, Goto
<1>32. ASSUME NEW w \in Worker, DropLockFails(w) PROVE Publication'
  BY <1>32, SentinelAssumption DEF DropLockFails, CloseLeases, CloseHandle, Goto, Fault
<1>33. ASSUME NEW w \in Worker, DropRemove(w) PROVE Publication'
  BY <1>33, SentinelAssumption, AbsentAssumption DEF DropRemove, RemoveStage, Fault, Goto
<1>34. ASSUME NEW w \in Worker, DropLease(w) PROVE Publication'
  BY <1>34, SentinelAssumption DEF DropLease, Release, FailedRelease, Fault, CloseHandle, Return, Goto
<1>35. ASSUME NEW w \in Worker, NEW r \in ResultId, Get(w, r) PROVE Publication'
  BY <1>35, SentinelAssumption DEF Get, Idle, Valid
<1>36. ASSUME NEW w \in Worker, RecoverStart(w) PROVE Publication'
  BY <1>36, SentinelAssumption DEF RecoverStart, Idle, LockStore, ReadRoot, Entries, Goto
<1>37. ASSUME NEW w \in Worker, RecoverEntry(w) PROVE Publication'
  BY <1>37, SentinelAssumption DEF RecoverEntry, Unlocked, Goto
<1>38. ASSUME NEW w \in Worker, RecoverMissingLease(w) PROVE Publication'
  BY <1>38, SentinelAssumption DEF RecoverMissingLease, StopRecovery, Return, Goto
<1>39. ASSUME NEW w \in Worker, RecoverRemove(w) PROVE Publication'
  BY <1>39, SentinelAssumption, AbsentAssumption DEF RecoverRemove, RemoveStage, Goto
<1>40. ASSUME NEW w \in Worker, RecoverRelease(w) PROVE Publication'
  BY <1>40, SentinelAssumption DEF RecoverRelease, Release, Goto
<1>41. ASSUME NEW w \in Worker, RecoverFails(w) PROVE Publication'
  BY <1>41, SentinelAssumption DEF RecoverFails, StopRecovery, Return, Goto, Fault
<1>42. ASSUME NEW w \in Worker, RecoverNextRoot(w) PROVE Publication'
  BY <1>42, SentinelAssumption DEF RecoverNextRoot, ReadRoot, Entries
<1>43. ASSUME NEW w \in Worker, RecoverDone(w) PROVE Publication'
  BY <1>43, SentinelAssumption DEF RecoverDone, StopRecovery, Return, Goto
<1>44. ASSUME NEW w \in Worker, Crash(w) PROVE Publication'
  BY <1>44, SentinelAssumption DEF Crash, CloseLeases, CloseHandle, Goto
<1>45. CASE PowerLoss
  <2>1. PICK undone \in SUBSET {r \in ResultId : unsynced[r] # NoTxn}, lost \in SUBSET File :
          /\ results' = [r \in ResultId |->
                IF r \in undone THEN Absent ELSE AfterOutage(results[r], lost)]
          /\ returned' = [r \in ResultId |->
                IF r \in undone /\ returned[r] = "seen" THEN "no" ELSE returned[r]]
    BY <1>45, ZenonT(60) DEF PowerLoss
  <2>2. \A r \in ResultId : AfterOutage(results[r], lost) = results[r]
    BY OutageDir, OutageAbsent
  <2>3. \A r \in ResultId : returned'[r] # "no" => r \notin undone
    BY <2>1
  <2>4. \A w \in Worker : pc'[w] = "idle"
    BY <1>45 DEF PowerLoss
  <2>5. QED
    BY <2>1, <2>2, <2>3, <2>4, <1>45 DEF PowerLoss
<1>46. CASE UNCHANGED vars
  BY <1>46 DEF vars
<1>47. QED
  BY <1>1, <1>2, <1>3, <1>4, <1>5, <1>6, <1>6a, <1>7, <1>8, <1>9, <1>10, <1>11, <1>12,
     <1>13, <1>14, <1>15, <1>16, <1>17, <1>18, <1>19, <1>20, <1>21, <1>22, <1>23, <1>24,
     <1>25, <1>26, <1>27, <1>28, <1>29, <1>30, <1>31, <1>32, <1>33, <1>34, <1>35, <1>36,
     <1>37, <1>38, <1>39, <1>40, <1>41, <1>42, <1>43, <1>44, <1>45, <1>46, Zenon
  DEF Next, Proceed, Call, Fail

-----------------------------------------------------------------------------
(* The invariant *)

\* The empty store satisfies the inductive invariant.
LEMMA InitIInv == Init => IInv
<1> SUFFICES ASSUME Init PROVE IInv
  OBVIOUS
<1>1. TypeOK
  BY BoundAssumption DEF Init, TypeOK
<1>2. StoreLockProtects
  BY DEF Init, StoreLockProtects, LockedPc, CommitPc, RecoverPc, PublishPc
<1>3. Ownership
  BY DEF Init, Ownership, TxnPc, CommitPc, PublishPc, StagedPc, LeasePc, DirPc,
         RecoverPc
<1>4. Publication
  BY DEF Init, Publication, PublishPc, RenameOntoNothing
<1>5. QED
  BY <1>1, <1>2, <1>3, <1>4 DEF IInv

\* Every step keeps the inductive invariant.
LEMMA StepIInv == IInv /\ [Next]_vars => IInv'
BY TypeOKStep, StoreLockProtectsStep, OwnershipStep, PublicationStep DEF IInv

\* The inductive invariant holds of every behaviour of the store, for any number of
\* processes, transactions, results, faults, crashes and outages.
THEOREM StoreInvariant == Spec => []IInv
<1>1. Init => IInv
  BY InitIInv
<1>2. IInv /\ [Next]_vars => IInv'
  BY StepIInv
<1>3. QED
  BY <1>1, <1>2, PTL DEF Spec

\* The variables keep their types.
THEOREM StoreTypes == Spec => []TypeOK
<1>1. IInv => TypeOK
  BY DEF IInv
<1>2. QED
  BY <1>1, StoreInvariant, PTL

\* lock_store serialises: whoever is inside begin, commit, drop or recovery holds
\* the store lock.
THEOREM StoreLockSerialises == Spec => []StoreLockProtects
<1>1. IInv => StoreLockProtects
  BY DEF IInv
<1>2. QED
  BY <1>1, StoreInvariant, PTL

\* commit never renames onto a result that exists.
THEOREM NothingOverwritten == Spec => []RenameOntoNothing
<1>1. IInv => RenameOntoNothing
  BY DEF IInv, Publication
<1>2. QED
  BY <1>1, StoreInvariant, PTL

\* No process, recovering ones included, takes the staging directory or the lease of
\* a transaction another process still holds.
THEOREM LiveTransactionsSafe == Spec => []LiveTransactionKept
<1>1. IInv => LiveTransactionKept
  BY DEF IInv, Ownership, LiveTransactionKept, LeasePc, StagedPc
<1>2. QED
  BY <1>1, StoreInvariant, PTL

-----------------------------------------------------------------------------
(* Results that were handed to a caller *)

\* Only a rename, a rollback and an outage change what is published.
LEMMA ResultsFrame ==
  ASSUME [Next]_vars
  PROVE  \/ results' = results
         \/ \E w \in Worker : RenameToResult(w) \/ RollbackEntry(w) \/ RollbackRoot(w)
         \/ PowerLoss
<1>1. ASSUME NEW w \in Worker, Proceed(w)
      PROVE  results' = results \/ RenameToResult(w) \/ RollbackEntry(w) \/ RollbackRoot(w)
  <2> USE DEF public
  <2>1. BeginStage(w) \/ BeginPrefix(w) \/ BeginSource(w)
          \/ BeginRetries(w) \/ BeginFails(w) => results' = results
    BY DEF BeginStage, BeginPrefix, BeginSource, BeginRetries, BeginFails
  <2>2. ValidateOutput(w) \/ SyncTree(w) \/ WriteMetadata(w) \/ SyncStaging(w)
          => results' = results
    BY DEF ValidateOutput, SyncTree, WriteMetadata, SyncStaging, StageStep
  <2>3. CheckDestination(w) \/ RemoveRedundantStage(w) \/ ReturnExisting(w)
          => results' = results
    BY DEF CheckDestination, RemoveRedundantStage, ReturnExisting
  <2>4. VerifyPublished(w) \/ FinishLease(w) \/ ReturnPublished(w) \/ RollbackSync(w)
          => results' = results
    BY DEF VerifyPublished, FinishLease, ReturnPublished, RollbackSync
  <2>5. DropRemove(w) \/ DropLease(w) => results' = results
    BY DEF DropRemove, DropLease
  <2>6. RecoverEntry(w) \/ RecoverMissingLease(w) \/ RecoverRemove(w) \/ RecoverRelease(w)
          \/ RecoverNextRoot(w) \/ RecoverDone(w) => results' = results
    BY DEF RecoverEntry, RecoverMissingLease, RecoverRemove, RecoverRelease,
           RecoverNextRoot, RecoverDone
  <2>7. QED
    BY <1>1, <2>1, <2>2, <2>3, <2>4, <2>5, <2>6 DEF Proceed
<1>2. ASSUME NEW w \in Worker, DropLock(w) \/ Call(w) \/ Crash(w)
      PROVE  results' = results
  BY <1>2 DEF DropLock, Call, Crash, BeginLease, Build, Commit, Get, DropHandle,
              RecoverStart, public
<1>3. ASSUME NEW w \in Worker, Fail(w)
      PROVE  results' = results
  BY <1>3 DEF Fail, BeginLeaseFails, BeginUndoFails, CommitLockFails, CommitStepFails,
              WriteMetadataFails, ReleaseExistingFails, PublishStepFails, RollbackFails,
              DropLockFails, RecoverFails, public
<1>4. CASE UNCHANGED vars
  BY <1>4 DEF vars, public
<1>5. QED
  BY <1>1, <1>2, <1>3, <1>4 DEF Next

\* A rename finds nothing in its way and a rollback removes only what was not yet
\* returned, so neither touches a result some caller was given.
LEMMA ReturnedUntouched ==
  ASSUME IInv, NEW w \in Worker,
         RenameToResult(w) \/ RollbackEntry(w) \/ RollbackRoot(w),
         NEW r \in ResultId, returned[r] # "no"
  PROVE  results'[r] = results[r]
<1> USE DEF IInv, TypeOK, Publication
<1>1. goal[w] # r
  <2>1. CASE RenameToResult(w)
    BY <2>1 DEF RenameToResult, RenameOntoNothing
  <2>2. CASE RollbackEntry(w) \/ RollbackRoot(w)
    BY <2>2 DEF RollbackEntry, RollbackRoot, PublishPc
  <2>3. QED
    BY <2>1, <2>2
<1>2. QED
  BY <1>1 DEF RenameToResult, RollbackEntry, RollbackRoot

\* What get or commit handed out is never removed, replaced or changed, except by an
\* outage.
THEOREM ReturnedResultsKept == Spec => ReturnedResultKeptProp
<1>1. IInv /\ [Next]_vars => [ReturnedResultKept]_vars
  <2> SUFFICES ASSUME IInv, [Next]_vars, NEW r \in ResultId, returned[r] # "no"
               PROVE  results'[r] = results[r] \/ outages' # outages
    BY DEF ReturnedResultKept
  <2>1. CASE PowerLoss
    BY <2>1 DEF PowerLoss, IInv, TypeOK
  <2>2. CASE results' = results
    BY <2>2
  <2>3. CASE \E w \in Worker : RenameToResult(w) \/ RollbackEntry(w) \/ RollbackRoot(w)
    BY <2>3, ReturnedUntouched
  <2>4. QED
    BY <2>1, <2>2, <2>3, ResultsFrame
<1>2. QED
  BY <1>1, StoreInvariant, PTL DEF Spec, ReturnedResultKeptProp

\* What commit answered Published for survives outages too: tree, metadata and
\* directory entry were on disk before the answer.
THEOREM PublishedSurvives == Spec => PublishedSurvivesOutageProp
<1>1. IInv /\ [Next]_vars => [PublishedSurvivesOutage]_vars
  <2> SUFFICES ASSUME IInv, [Next]_vars, NEW r \in ResultId, returned[r] = "published"
               PROVE  results'[r] = results[r]
    BY DEF PublishedSurvivesOutage
  <2>1. CASE PowerLoss
    <3>1. unsynced[r] = NoTxn /\ results[r] \in Dir /\ results[r].synced = AllSynced
      BY DEF IInv, TypeOK, Publication
    <3>2. PICK undone \in SUBSET {q \in ResultId : unsynced[q] # NoTxn},
               lost \in SUBSET File :
                 results' = [q \in ResultId |->
                    IF q \in undone THEN Absent ELSE AfterOutage(results[q], lost)]
      BY <2>1 DEF PowerLoss
    <3>3. results'[r] = AfterOutage(results[r], lost)
      BY <3>1, <3>2
    <3>4. QED
      BY <3>1, <3>3, OutageDir DEF AllSynced
  <2>2. CASE results' = results
    BY <2>2
  <2>3. CASE \E w \in Worker : RenameToResult(w) \/ RollbackEntry(w) \/ RollbackRoot(w)
    BY <2>3, ReturnedUntouched
  <2>4. QED
    BY <2>1, <2>2, <2>3, ResultsFrame
<1>2. QED
  BY <1>1, StoreInvariant, PTL DEF Spec, PublishedSurvivesOutageProp

-----------------------------------------------------------------------------
(* What failed operations, deaths and outages may leave behind *)

\* A bounded counter counts up.
LEMMA CountersGrow ==
  ASSUME TypeOK, [Next]_vars
  PROVE  /\ faults > 0 => faults' > 0
         /\ outages > 0 => outages' > 0
         /\ TwoMishaps => TwoMishaps'
<1> DEFINE Same == UNCHANGED mishaps
           Failed == /\ \E n \in 1..3 : faults' = faults + n
                     /\ UNCHANGED <<crashes, outages>>
           Grown == \/ Same \/ Failed
                    \/ crashes' = crashes + 1 /\ UNCHANGED <<faults, outages>>
                    \/ outages' = outages + 1 /\ UNCHANGED <<faults, crashes>>
<1> faults \in Nat /\ crashes \in Nat /\ outages \in Nat
  BY BoundAssumption DEF TypeOK
<1> USE DEF mishaps, calm
<1>1. ASSUME NEW w \in Worker, Proceed(w) PROVE Same \/ Failed
  <2> USE DEF Fault
  <2>1. BeginStage(w) \/ BeginPrefix(w) \/ BeginSource(w) => Same
    BY DEF BeginStage, BeginPrefix, BeginSource
  <2>2. BeginRetries(w) \/ BeginFails(w) => Same \/ Failed
    BY DEF BeginRetries, BeginFails
  <2>3. ValidateOutput(w) \/ SyncTree(w) \/ WriteMetadata(w) \/ SyncStaging(w)
          \/ CheckDestination(w) \/ RenameToResult(w) \/ RemoveRedundantStage(w)
          \/ ReturnExisting(w) => Same
    BY DEF ValidateOutput, SyncTree, WriteMetadata, SyncStaging, StageStep,
           CheckDestination, RenameToResult, RemoveRedundantStage, ReturnExisting
  <2>4. VerifyPublished(w) \/ FinishLease(w) \/ ReturnPublished(w) \/ RollbackEntry(w)
          \/ RollbackRoot(w) => Same
    BY DEF VerifyPublished, FinishLease, ReturnPublished, RollbackEntry, RollbackRoot
  <2>5. RollbackSync(w) \/ DropRemove(w) \/ DropLease(w) => Same \/ Failed
    BY DEF RollbackSync, DropRemove, DropLease, FailedRelease
  <2>6. RecoverEntry(w) \/ RecoverMissingLease(w) \/ RecoverRemove(w) \/ RecoverRelease(w)
          \/ RecoverNextRoot(w) \/ RecoverDone(w) => Same
    BY DEF RecoverEntry, RecoverMissingLease, RecoverRemove, RecoverRelease,
           RecoverNextRoot, RecoverDone
  <2>7. QED
    BY <1>1, <2>1, <2>2, <2>3, <2>4, <2>5, <2>6 DEF Proceed
<1>2. ASSUME NEW w \in Worker, DropLock(w) \/ Call(w) PROVE Same
  BY <1>2 DEF DropLock, Call, BeginLease, Build, Commit, Get, DropHandle, RecoverStart
<1>3. ASSUME NEW w \in Worker, Fail(w) PROVE Failed
  <2>1. BeginLeaseFails(w) \/ CommitLockFails(w) \/ CommitStepFails(w)
          \/ WriteMetadataFails(w) \/ RollbackFails(w) \/ DropLockFails(w)
          \/ RecoverFails(w) => Failed
    BY DEF BeginLeaseFails, CommitLockFails, CommitStepFails, WriteMetadataFails,
           RollbackFails, DropLockFails, RecoverFails, Fault
  <2>2. ReleaseExistingFails(w) \/ PublishStepFails(w) => Failed
    BY DEF ReleaseExistingFails, PublishStepFails, FailedRelease, Fault
  <2>3. BeginUndoFails(w) => Failed
    BY DEF BeginUndoFails
  <2>4. QED
    BY <1>3, <2>1, <2>2, <2>3 DEF Fail
<1>4. ASSUME NEW w \in Worker, Crash(w) PROVE Grown
  BY <1>4 DEF Crash
<1>5. ASSUME PowerLoss PROVE Grown
  BY <1>5 DEF PowerLoss
<1>6. ASSUME UNCHANGED vars PROVE Same
  BY <1>6 DEF vars
<1>7. Grown
  BY <1>1, <1>2, <1>3, <1>4, <1>5, <1>6 DEF Next
<1>8. QED
  BY <1>7 DEF TwoMishaps


Kept(w) == pc'[w] = pc[w] /\ txn'[w] = txn[w] /\ goal'[w] = goal[w]

\* The steps of another process leave alone where a worker is and what it holds.
LEMMA OthersKeep ==
  ASSUME TypeOK, NEW w \in Worker, NEW v \in Worker, v # w,
         Proceed(v) \/ DropLock(v) \/ Call(v) \/ Fail(v) \/ Crash(v)
  PROVE  Kept(w)
<1>1. /\ pc \in [Worker -> {"idle", "drop"} \cup LockedPc]
      /\ txn \in [Worker -> TxnId \cup {NoTxn}]
      /\ goal \in [Worker -> ResultId \cup {NoResult}]
  BY DEF TypeOK
<1> USE DEF Kept, Goto, Return, Abort, CloseHandle, handle
<1>2. CASE Proceed(v)
  <2>1. BeginStage(v) \/ BeginPrefix(v) \/ BeginSource(v) \/ BeginRetries(v)
          \/ BeginFails(v) => Kept(w)
    BY <1>1 DEF BeginStage, BeginPrefix, BeginSource, BeginRetries, BeginFails
  <2>2. ValidateOutput(v) \/ SyncTree(v) \/ WriteMetadata(v) \/ SyncStaging(v)
          \/ CheckDestination(v) \/ RenameToResult(v) => Kept(w)
    BY <1>1 DEF ValidateOutput, SyncTree, WriteMetadata, SyncStaging, StageStep,
                CheckDestination, RenameToResult
  <2>3. RemoveRedundantStage(v) \/ ReturnExisting(v) \/ VerifyPublished(v)
          \/ FinishLease(v) \/ ReturnPublished(v) \/ RollbackEntry(v) => Kept(w)
    BY <1>1 DEF RemoveRedundantStage, ReturnExisting, VerifyPublished, FinishLease,
                ReturnPublished, RollbackEntry
  <2>4. RollbackRoot(v) \/ RollbackSync(v) \/ DropRemove(v) \/ DropLease(v)
          => Kept(w)
    BY <1>1 DEF RollbackRoot, RollbackSync, DropRemove, DropLease
  <2>5. RecoverEntry(v) \/ RecoverMissingLease(v) \/ RecoverRemove(v)
          \/ RecoverRelease(v) \/ RecoverNextRoot(v) \/ RecoverDone(v) => Kept(w)
    BY <1>1 DEF RecoverEntry, RecoverMissingLease, RecoverRemove, RecoverRelease,
                RecoverNextRoot, RecoverDone, StopRecovery
  <2>6. QED
    BY <1>2, <2>1, <2>2, <2>3, <2>4, <2>5 DEF Proceed
<1>3. CASE DropLock(v) \/ Call(v)
  BY <1>1, <1>3 DEF DropLock, Call, BeginLease, Build, Commit, Get, DropHandle,
                    RecoverStart
<1>4. CASE Fail(v)
  BY <1>1, <1>4 DEF Fail, BeginLeaseFails, BeginUndoFails, CommitLockFails,
                    CommitStepFails, WriteMetadataFails, ReleaseExistingFails,
                    PublishStepFails, RollbackFails, DropLockFails, RecoverFails,
                    StopRecovery
<1>5. CASE Crash(v)
  BY <1>1, <1>5 DEF Crash
<1>6. QED
  BY <1>2, <1>3, <1>4, <1>5

\* No step but an outage makes a staging directory less than its builder wrote.
LEMMA StagingStaysWhole ==
  ASSUME TypeOK, Ownership, [Next]_vars, ~PowerLoss, NEW t \in TxnId, Whole(staging[t])
  PROVE  Whole(staging'[t])
<1> USE DEF Whole, Complete, TypeOK, stages
<1>1. CASE staging' = staging
  BY <1>1
<1>3. ASSUME NEW w \in Worker, staging[txn[w]] \in Dir, txn[w] \in TxnId,
             \/ BeginPrefix(w) \/ SyncTree(w) \/ WriteMetadata(w) \/ SyncStaging(w)
             \/ WriteMetadataFails(w)
      PROVE  Whole(staging'[t])
  <2>1. CASE t # txn[w]
    BY <1>3, <2>1 DEF BeginPrefix, SyncTree, WriteMetadata, SyncStaging, StageStep,
                      WriteMetadataFails
  <2>2. CASE t = txn[w]
    <3>1. Complete(staging[t])
      BY <2>2, <1>3, AbsentAssumption
    <3>2. CASE BeginPrefix(w)
      BY <3>1, <3>2, <2>2, <1>3 DEF BeginPrefix, Dir
    <3>3. CASE SyncTree(w)
      BY <3>1, <3>3, <2>2, <1>3 DEF SyncTree, StageStep, Dir
    <3>4. CASE WriteMetadata(w)
      BY <3>1, <3>4, <2>2, <1>3 DEF WriteMetadata, StageStep, Dir
    <3>5. CASE SyncStaging(w)
      BY <3>1, <3>5, <2>2, <1>3 DEF SyncStaging, StageStep, Dir
    <3>6. CASE WriteMetadataFails(w)
      BY <3>1, <3>6, <2>2, <1>3 DEF WriteMetadataFails, Dir
    <3>7. QED
      BY <1>3, <3>2, <3>3, <3>4, <3>5, <3>6
  <2>3. QED
    BY <2>1, <2>2
<1>4. ASSUME NEW w \in Worker, NEW f \in File, Build(w, f)
      PROVE  Whole(staging'[t])
  <2>1. CASE t # txn[w]
    BY <1>4, <2>1 DEF Build
  <2>2. CASE t = txn[w]
    <3>1. staging[t] \in Dir
      BY <2>2, <1>4, AbsentAssumption
      DEF Build, HasTransaction, Idle, Ownership, StagedPc, Staged
    <3>2. Complete(staging[t])
      BY <3>1, AbsentAssumption
    <3>3. staging'[t] = [staging[t] EXCEPT !.prefix = @ \cup {f}, !.built = @ \cup {f}]
      BY <2>2, <1>4 DEF Build
    <3>4. QED
      BY <3>1, <3>2, <3>3 DEF Dir
  <2>3. QED
    BY <2>1, <2>2
<1>5. ASSUME NEW w \in Worker, BeginStage(w)
      PROVE  Whole(staging'[t])
  <2>1. Complete(EmptyDir)
    BY DEF EmptyDir
  <2>2. QED
    BY <2>1, <1>5 DEF BeginStage
<1>6. ASSUME NEW w \in Worker, Proceed(w)
      PROVE  Whole(staging'[t])
  <2>1. BeginSource(w) \/ BeginRetries(w) \/ ValidateOutput(w) \/ CheckDestination(w)
          \/ ReturnExisting(w) => staging' = staging
    BY DEF BeginSource, BeginRetries, ValidateOutput, CheckDestination, ReturnExisting
  <2>2. VerifyPublished(w) \/ FinishLease(w) \/ ReturnPublished(w) \/ RollbackEntry(w)
          \/ RollbackRoot(w) \/ RollbackSync(w) \/ DropLease(w) => staging' = staging
    BY DEF VerifyPublished, FinishLease, ReturnPublished, RollbackEntry, RollbackRoot,
           RollbackSync, DropLease
  <2>3. RecoverEntry(w) \/ RecoverMissingLease(w) \/ RecoverRelease(w)
          \/ RecoverNextRoot(w) \/ RecoverDone(w) => staging' = staging
    BY DEF RecoverEntry, RecoverMissingLease, RecoverRelease, RecoverNextRoot, RecoverDone
  <2>4. BeginFails(w) \/ RenameToResult(w) \/ RemoveRedundantStage(w) \/ DropRemove(w)
          \/ RecoverRemove(w)
          => staging'[t] = Absent \/ staging'[t] = staging[t]
    BY DEF BeginFails, RenameToResult, RemoveRedundantStage, DropRemove, RecoverRemove,
           RemoveStage
  <2>5. ASSUME \/ BeginPrefix(w) \/ SyncTree(w) \/ WriteMetadata(w) \/ SyncStaging(w)
        PROVE  Whole(staging'[t])
    <3>1. pc[w] \in {"b_prefix", "c_sync", "c_meta", "c_syncdir"}
      BY <2>5 DEF BeginPrefix, SyncTree, WriteMetadata, SyncStaging, StageStep
    <3>2. txn[w] \in TxnId /\ staging[txn[w]] \in Dir
      BY <3>1 DEF Ownership, TxnPc, CommitPc, DirPc
    <3>3. QED
      BY <3>2, <2>5, <1>3
  <2>6. QED
    BY <1>6, <1>1, <1>5, <2>1, <2>2, <2>3, <2>4, <2>5 DEF Proceed
<1>7. ASSUME NEW w \in Worker, Call(w)
      PROVE  Whole(staging'[t])
  BY <1>7, <1>4 DEF Call, BeginLease, Commit, Get, DropHandle, RecoverStart
<1>8. ASSUME NEW w \in Worker, DropLock(w) \/ Crash(w)
      PROVE  staging' = staging
  BY <1>8 DEF DropLock, Crash
<1>9. ASSUME NEW w \in Worker, Fail(w)
      PROVE  Whole(staging'[t])
  <2>1. CASE WriteMetadataFails(w)
    <3>1. txn[w] \in TxnId /\ staging[txn[w]] \in Dir
      BY <2>1 DEF WriteMetadataFails, Ownership, TxnPc, CommitPc, DirPc
    <3>2. QED
      BY <3>1, <2>1, <1>3
  <2>2. BeginLeaseFails(w) \/ CommitLockFails(w) \/ CommitStepFails(w)
          \/ ReleaseExistingFails(w) \/ PublishStepFails(w) \/ RollbackFails(w)
          \/ DropLockFails(w) \/ RecoverFails(w) => staging' = staging
    BY DEF BeginLeaseFails, CommitLockFails, CommitStepFails,
           ReleaseExistingFails, PublishStepFails, RollbackFails, DropLockFails,
           RecoverFails
  <2>3. BeginUndoFails(w) => staging'[t] = Absent \/ staging'[t] = staging[t]
    BY DEF BeginUndoFails, HalfUndone, RemoveStage
  <2>4. QED
    BY <1>1, <1>9, <2>1, <2>2, <2>3 DEF Fail
<1>10. UNCHANGED vars => staging' = staging
  BY DEF vars
<1>11. QED
  BY <1>1, <1>6, <1>7, <1>8, <1>9, <1>10 DEF Next


\* A worker is in a rollback after a failed step of its publication, and leaves it by
\* finishing it or by another mishap.
LEMMA RollingFrame ==
  ASSUME TypeOK, [Next]_vars, ~PowerLoss, NEW v \in Worker
  PROVE  /\ pc'[v] \in RollingPc =>
              \/ pc[v] \in RollingPc /\ goal'[v] = goal[v]
              \/ PublishStepFails(v)
         /\ pc'[v] = "rb_sync" => (pc[v] = "rb_sync" /\ goal'[v] = goal[v]) \/ RollbackRoot(v)
         /\ pc[v] = "rb_rm" => \/ pc'[v] = "rb_rm" /\ goal'[v] = goal[v]
                               \/ RollbackRoot(v) \/ RollbackFails(v) \/ Crash(v)
<1> DEFINE Rolls(w) == PublishStepFails(w) \/ RollbackRoot(w) \/ RollbackFails(w)
           Goal == /\ pc'[v] \in RollingPc =>
                        \/ pc[v] \in RollingPc /\ goal'[v] = goal[v]
                        \/ PublishStepFails(v)
                   /\ pc'[v] = "rb_sync" =>
                        (pc[v] = "rb_sync" /\ goal'[v] = goal[v]) \/ RollbackRoot(v)
                   /\ pc[v] = "rb_rm" => \/ pc'[v] = "rb_rm" /\ goal'[v] = goal[v]
                                         \/ RollbackRoot(v) \/ RollbackFails(v) \/ Crash(v)
           Out == /\ goal'[v] = goal[v] \/ pc'[v] \notin RollingPc
                  /\ pc'[v] = pc[v] \/ {pc[v], pc'[v]} \cap RollingPc = {}
                  /\ pc[v] \in RollingPc => goal'[v] = goal[v]
<1> USE DEF RollingPc
<1>1. pc \in [Worker -> {"idle", "drop"} \cup LockedPc]
      /\ goal \in [Worker -> ResultId \cup {NoResult}]
  BY DEF TypeOK
<1> USE DEF handle, Goto, Return, Abort, CloseHandle
<1>2. ASSUME Out PROVE Goal
  BY <1>2
<1>3. ASSUME NEW w \in Worker, Proceed(w), ~Rolls(w) PROVE Goal
  <2>1. BeginStage(w) \/ BeginPrefix(w) \/ BeginSource(w)
          \/ BeginRetries(w) \/ BeginFails(w) => Out
    BY <1>1 DEF BeginStage, BeginPrefix, BeginSource, BeginRetries, BeginFails
  <2>2. ValidateOutput(w) \/ SyncTree(w) \/ WriteMetadata(w) \/ SyncStaging(w)
          \/ CheckDestination(w) \/ RenameToResult(w) => Out
    BY <1>1 DEF ValidateOutput, SyncTree, WriteMetadata, SyncStaging, StageStep,
                CheckDestination, RenameToResult
  <2>3. RemoveRedundantStage(w) \/ ReturnExisting(w) \/ VerifyPublished(w)
          \/ FinishLease(w) \/ ReturnPublished(w) \/ RollbackEntry(w) => Out
    BY <1>1 DEF RemoveRedundantStage, ReturnExisting, VerifyPublished, FinishLease,
                ReturnPublished, RollbackEntry
  <2>4. RollbackSync(w) => Goal
    BY <1>1 DEF RollbackSync
  <2>5. DropRemove(w) \/ DropLease(w) => Out
    BY <1>1 DEF DropRemove, DropLease
  <2>6. RecoverEntry(w) \/ RecoverMissingLease(w) \/ RecoverRemove(w) \/ RecoverRelease(w)
          \/ RecoverNextRoot(w) \/ RecoverDone(w) => Out
    BY <1>1 DEF RecoverEntry, RecoverMissingLease, RecoverRemove, RecoverRelease,
                RecoverNextRoot, RecoverDone, StopRecovery
  <2>7. QED
    BY <1>2, <1>3, <2>1, <2>2, <2>3, <2>4, <2>5, <2>6 DEF Proceed
<1>4. ASSUME NEW w \in Worker, DropLock(w) \/ Call(w) PROVE Out
  BY <1>1, <1>4, ZenonT(30) DEF DropLock, Call, BeginLease, Build, Commit, Get, DropHandle,
                    RecoverStart, HasTransaction, Idle
<1>5. ASSUME NEW w \in Worker, Fail(w), ~Rolls(w) PROVE Out
  BY <1>1, <1>5 DEF Fail, BeginLeaseFails, BeginUndoFails, CommitLockFails,
                    CommitStepFails, WriteMetadataFails, ReleaseExistingFails,
                    DropLockFails, RecoverFails, StopRecovery, HasTransaction, Idle
<1>6. ASSUME NEW w \in Worker, Rolls(w) \/ Crash(w) PROVE Goal
  BY <1>1, <1>6 DEF PublishStepFails, RollbackRoot, RollbackFails, Crash
<1>7. ASSUME UNCHANGED vars PROVE Out
  BY <1>7 DEF vars
<1>8. QED
  BY <1>2, <1>3, <1>4, <1>5, <1>6, <1>7 DEF Next


\* Every step but an outage keeps what is known of what mishaps leave.
LEMMA AftermathStep ==
  ASSUME IInv, Aftermath, [Next]_vars, ~PowerLoss
  PROVE  Aftermath'
<1> USE DEF IInv
<1>1. ASSUME NEW v \in Worker, pc'[v] \in RollingPc
      PROVE  faults' > 0
  <2>1. CASE PublishStepFails(v)
    BY <2>1, BoundAssumption DEF PublishStepFails, Fault, FailedRelease, TypeOK
  <2>2. QED
    BY <1>1, <2>1, RollingFrame, CountersGrow DEF Aftermath
<1>2. ASSUME NEW v \in Worker, pc'[v] = "rb_sync"
      PROVE  results'[goal'[v]] = Absent
  <2>1. CASE RollbackRoot(v)
    <3>1. goal[v] \in ResultId
      BY <2>1 DEF RollbackRoot, Ownership, CommitPc, PublishPc
    <3>2. QED
      BY <2>1, <3>1 DEF RollbackRoot, TypeOK, handle
  <2>2. CASE pc[v] = "rb_sync" /\ goal'[v] = goal[v]
    <3>1. results[goal[v]] = Absent /\ goal[v] \in ResultId /\ storeLock = v
      BY <2>2 DEF Aftermath, Ownership, CommitPc, PublishPc, StoreLockProtects, LockedPc
    <3>2. CASE results' = results
      BY <2>2, <3>1, <3>2
    <3>3. ASSUME NEW w \in Worker,
                 RenameToResult(w) \/ RollbackEntry(w) \/ RollbackRoot(w)
          PROVE  FALSE
      <4>1. pc[w] \in {"c_rename", "rb_rm"}
        BY <3>3 DEF RenameToResult, RollbackEntry, RollbackRoot
      <4>2. QED
        BY <4>1, <3>1, <2>2 DEF StoreLockProtects, LockedPc, CommitPc, PublishPc
    <3>4. QED
      BY <3>2, <3>3, ResultsFrame
  <2>3. QED
    BY <1>2, <2>1, <2>2, RollingFrame
<1>3. ASSUME NEW t \in TxnId
      PROVE  Whole(staging'[t]) \/ TwoMishaps'
  BY StagingStaysWhole, CountersGrow DEF Aftermath
<1>4. ASSUME NEW r \in ResultId
      PROVE  \/ Whole(results'[r]) \/ TwoMishaps'
             \/ \E w \in Worker : pc'[w] = "rb_rm" /\ goal'[w] = r
  <2>1. ASSUME NEW w \in Worker, RenameToResult(w), goal[w] = r
        PROVE  Whole(results'[r]) \/ TwoMishaps'
    <3>1. results'[r] = staging[txn[w]] /\ txn[w] \in TxnId
      BY <2>1 DEF RenameToResult, Ownership, TypeOK, TxnPc, CommitPc
    <3>2. QED
      BY <3>1, CountersGrow DEF Aftermath
  <2>2. ASSUME NEW w \in Worker, RollbackEntry(w), goal[w] = r
        PROVE  pc'[w] = "rb_rm" /\ goal'[w] = r
    BY <2>2 DEF RollbackEntry, handle
  <2>3. ASSUME NEW w \in Worker, RollbackRoot(w), goal[w] = r
        PROVE  Whole(results'[r])
    BY <2>3 DEF RollbackRoot, Whole, TypeOK
  <2>4. CASE results'[r] = results[r]
    <3>1. ASSUME NEW w \in Worker, pc[w] = "rb_rm", goal[w] = r,
                 RollbackFails(w) \/ Crash(w)
          PROVE  TwoMishaps'
      <4>1. faults > 0 /\ faults \in Nat /\ crashes \in Nat /\ outages \in Nat
        BY <3>1, BoundAssumption DEF Aftermath, RollingPc, TypeOK
      <4>2. QED
        BY <3>1, <4>1 DEF RollbackFails, Crash, Fault, TwoMishaps
    <3>2. QED
      BY <2>3, <2>4, <3>1, RollingFrame, CountersGrow DEF Aftermath
  <2>5. CASE \E w \in Worker : RenameToResult(w) \/ RollbackEntry(w) \/ RollbackRoot(w)
    <3>1. PICK w \in Worker : RenameToResult(w) \/ RollbackEntry(w) \/ RollbackRoot(w)
      BY <2>5
    <3>2. goal[w] # r => results'[r] = results[r]
      BY <3>1 DEF RenameToResult, RollbackEntry, RollbackRoot, TypeOK
    <3>3. QED
      BY <2>1, <2>2, <2>3, <2>4, <3>1, <3>2
  <2>6. QED
    BY <2>4, <2>5, ResultsFrame
<1>5. QED
  BY <1>1, <1>2, <1>3, <1>4 DEF Aftermath

\* So does an outage: it spares what was synced, and what it turns back into a staging
\* directory is what the result was.
LEMMA AftermathOutage ==
  ASSUME IInv, Aftermath, PowerLoss
  PROVE  Aftermath'
<1> USE DEF IInv
<1>1. PICK undone \in SUBSET {r \in ResultId : unsynced[r] # NoTxn}, lost \in SUBSET File :
          /\ results' = [r \in ResultId |->
                IF r \in undone THEN Absent ELSE AfterOutage(results[r], lost)]
          /\ staging' = [t \in TxnId |->
                IF \E r \in undone : unsynced[r] = t
                THEN results[CHOOSE r \in undone : unsynced[r] = t]
                ELSE staging[t]]
  BY DEF PowerLoss
<1>2. \A r \in ResultId : Whole(results[r]) \/ TwoMishaps'
  <2>1. faults' = faults /\ crashes' = crashes /\ outages' = outages + 1
    BY DEF PowerLoss
  <2>2. faults \in Nat /\ crashes \in Nat /\ outages \in Nat
    BY BoundAssumption DEF TypeOK
  <2>3. QED
    BY <2>1, <2>2 DEF Aftermath, TwoMishaps, RollingPc
<1>3. \A r \in ResultId : AfterOutage(results[r], lost) = results[r]
  BY OutageDir, OutageAbsent DEF Publication, TypeOK, AllSynced
<1>4. ASSUME NEW r \in ResultId PROVE Whole(results'[r]) \/ TwoMishaps'
  BY <1>1, <1>2, <1>3 DEF Whole
<1>5. ASSUME NEW t \in TxnId PROVE Whole(staging'[t]) \/ TwoMishaps'
  <2>1. CASE \E r \in undone : unsynced[r] = t
    <3>1. (CHOOSE r \in undone : unsynced[r] = t) \in ResultId
      BY <2>1
    <3>2. QED
      BY <1>1, <1>2, <2>1, <3>1
  <2>2. CASE ~ \E r \in undone : unsynced[r] = t
    <3>1. TwoMishaps => TwoMishaps'
      BY CountersGrow DEF Next
    <3>2. QED
      BY <1>1, <2>2, <3>1 DEF Aftermath
  <2>3. QED
    BY <2>1, <2>2
<1>6. \A w \in Worker : pc'[w] = "idle"
  BY DEF PowerLoss
<1>7. QED
  BY <1>4, <1>5, <1>6 DEF Aftermath, RollingPc

\* What mishaps may leave behind, in every reachable state.
LEMMA AftermathInvariant == Spec => []Aftermath
<1>1. Init => Aftermath
  BY DEF Init, Aftermath, RollingPc, Whole
<1>2. IInv /\ Aftermath /\ [Next]_vars => Aftermath'
  BY AftermathStep, AftermathOutage
<1>3. QED
  BY <1>1, <1>2, StoreInvariant, PTL DEF Spec

-----------------------------------------------------------------------------
(* Failed commits *)

\* After its rename a commit answers an error only at the end of a rollback.
LEMMA ErrorsEndRollbacks ==
  ASSUME TypeOK, [Next]_vars, NEW v \in Worker, pc[v] \in PublishPc,
         pc'[v] = "idle", reply'[v] = "error"
  PROVE  RollbackSync(v)
<1>1. /\ pc \in [Worker -> {"idle", "drop"} \cup LockedPc]
      /\ reply \in [Worker ->
            {"none", "published", "existing", "error", "corrupt", "recovered"}]
  BY DEF TypeOK
<1> USE DEF PublishPc, Goto, Return, Abort
<1>2. ASSUME NEW w \in Worker, Proceed(w), ~RollbackSync(v) PROVE FALSE
  <2>1. ~BeginStage(w) /\ ~BeginPrefix(w) /\ ~BeginSource(w)
          /\ ~BeginRetries(w) /\ ~BeginFails(w)
    BY <1>1 DEF BeginStage, BeginPrefix, BeginSource, BeginRetries, BeginFails
  <2>2. ~ValidateOutput(w) /\ ~SyncTree(w) /\ ~WriteMetadata(w) /\ ~SyncStaging(w)
          /\ ~CheckDestination(w) /\ ~RenameToResult(w)
    BY <1>1 DEF ValidateOutput, SyncTree, WriteMetadata, SyncStaging, StageStep,
                CheckDestination, RenameToResult
  <2>3. ~RemoveRedundantStage(w) /\ ~ReturnExisting(w) /\ ~VerifyPublished(w)
          /\ ~FinishLease(w) /\ ~ReturnPublished(w) /\ ~RollbackEntry(w) /\ ~RollbackRoot(w)
    BY <1>1 DEF RemoveRedundantStage, ReturnExisting, VerifyPublished, FinishLease,
                ReturnPublished, RollbackEntry, RollbackRoot
  <2>4. ~RollbackSync(w)
    BY <1>1, <1>2 DEF RollbackSync
  <2>5. ~DropRemove(w) /\ ~DropLease(w)
    BY <1>1 DEF DropRemove, DropLease
  <2>6. ~RecoverEntry(w) /\ ~RecoverMissingLease(w) /\ ~RecoverRemove(w)
          /\ ~RecoverRelease(w) /\ ~RecoverNextRoot(w) /\ ~RecoverDone(w)
    BY <1>1 DEF RecoverEntry, RecoverMissingLease, RecoverRemove, RecoverRelease,
                RecoverNextRoot, RecoverDone, StopRecovery
  <2>7. QED
    BY <1>2, <2>1, <2>2, <2>3, <2>4, <2>5, <2>6 DEF Proceed
<1>3. ASSUME NEW w \in Worker, DropLock(w) \/ Call(w) PROVE FALSE
  BY <1>1, <1>3 DEF DropLock, Call, BeginLease, Build, Commit, Get, DropHandle,
                    RecoverStart, HasTransaction, Idle
<1>4. ASSUME NEW w \in Worker, Fail(w) PROVE FALSE
  <2>1. ~BeginLeaseFails(w) /\ ~BeginUndoFails(w) /\ ~CommitLockFails(w)
          /\ ~CommitStepFails(w) /\ ~WriteMetadataFails(w) /\ ~ReleaseExistingFails(w)
    BY <1>1 DEF BeginLeaseFails, BeginUndoFails, CommitLockFails, CommitStepFails,
                WriteMetadataFails, ReleaseExistingFails, HasTransaction, Idle
  <2>2. ~PublishStepFails(w) /\ ~RollbackFails(w) /\ ~DropLockFails(w) /\ ~RecoverFails(w)
    BY <1>1 DEF PublishStepFails, RollbackFails, DropLockFails, RecoverFails, StopRecovery
  <2>3. QED
    BY <1>4, <2>1, <2>2 DEF Fail
<1>5. ASSUME NEW w \in Worker, Crash(w) PROVE FALSE
  BY <1>1, <1>5 DEF Crash
<1>6. ~PowerLoss
  BY DEF PowerLoss
<1>7. ~UNCHANGED vars
  BY DEF vars
<1>8. QED
  BY <1>2, <1>3, <1>4, <1>5, <1>6, <1>7 DEF Next

\* A commit that reports the error which made it roll back has taken its result away.
THEOREM RolledBackIsGone == Spec => FailedCommitLeavesNoResultProp
<1>1. IInv /\ Aftermath /\ [Next]_vars => [FailedCommitLeavesNoResult]_vars
  <2> SUFFICES ASSUME IInv, Aftermath, [Next]_vars, NEW v \in Worker, pc[v] \in PublishPc,
                      pc'[v] = "idle", reply'[v] = "error"
               PROVE  ~Valid(results'[goal[v]], goal[v])
    BY DEF FailedCommitLeavesNoResult
  <2>1. RollbackSync(v)
    BY ErrorsEndRollbacks DEF IInv
  <2>2. QED
    BY <2>1 DEF RollbackSync, Aftermath, public, Valid
<1>2. QED
  BY <1>1, AftermathInvariant, StoreInvariant, PTL DEF Spec, FailedCommitLeavesNoResultProp


-----------------------------------------------------------------------------
(* Recovery *)

\* The steps of a recovery that runs, and the death of its process.
RecoveryMoves(w) ==
    \/ RecoverEntry(w) \/ RecoverMissingLease(w) \/ RecoverRemove(w) \/ RecoverRelease(w)
    \/ RecoverNextRoot(w) \/ RecoverDone(w) \/ RecoverFails(w) \/ Crash(w)

\* What other processes may do beside a recovery: let leases go.
Beside(w) ==
    /\ \A t \in TxnId : staging[t] = Absent => staging'[t] = Absent
    /\ \A t \in TxnId : lease'[t] \in {lease[t], NoWorker}
    /\ UNCHANGED <<sourceStage, lockFile>>
    /\ scan'[w] = scan[w] /\ todo'[w] = todo[w]
    /\ cur'[w] = cur[w] /\ doomed'[w] = doomed[w]
    /\ pc'[w] = pc[w] /\ reply'[w] = reply[w]

\* What a call does next it does inside the store lock.
LEMMA ProceedsLocked ==
  ASSUME NEW w \in Worker, Proceed(w)
  PROVE  pc[w] \in LockedPc
<1> USE DEF LockedPc, CommitPc, PublishPc, RecoverPc
<1>1. BeginStage(w) \/ BeginPrefix(w) \/ BeginSource(w) \/ BeginRetries(w)
        \/ BeginFails(w) => pc[w] \in LockedPc
  BY DEF BeginStage, BeginPrefix, BeginSource, BeginRetries, BeginFails
<1>2. ValidateOutput(w) \/ SyncTree(w) \/ WriteMetadata(w) \/ SyncStaging(w)
        \/ CheckDestination(w) \/ RenameToResult(w) \/ RemoveRedundantStage(w)
        \/ ReturnExisting(w) => pc[w] \in LockedPc
  BY DEF ValidateOutput, SyncTree, WriteMetadata, SyncStaging, StageStep,
         CheckDestination, RenameToResult, RemoveRedundantStage, ReturnExisting
<1>3. VerifyPublished(w) \/ FinishLease(w) \/ ReturnPublished(w) \/ RollbackEntry(w)
        \/ RollbackRoot(w) \/ RollbackSync(w) \/ DropRemove(w) \/ DropLease(w)
        => pc[w] \in LockedPc
  BY DEF VerifyPublished, FinishLease, ReturnPublished, RollbackEntry, RollbackRoot,
         RollbackSync, DropRemove, DropLease
<1>4. RecoverEntry(w) \/ RecoverMissingLease(w) \/ RecoverRemove(w) \/ RecoverRelease(w)
        \/ RecoverNextRoot(w) \/ RecoverDone(w) => pc[w] \in LockedPc
  BY DEF RecoverEntry, RecoverMissingLease, RecoverRemove, RecoverRelease,
         RecoverNextRoot, RecoverDone
<1>5. QED
  BY <1>1, <1>2, <1>3, <1>4 DEF Proceed

\* A recovery has the store lock, and with it the two staging roots and the lease files,
\* to itself.
LEMMA OthersBeside ==
  ASSUME TypeOK, StoreLockProtects, Ownership, NEW w \in Worker, NEW v \in Worker, v # w,
         pc[w] \in RecoverPc,
         Proceed(v) \/ DropLock(v) \/ Call(v) \/ Fail(v) \/ Crash(v)
  PROVE  Beside(w)
<1>1. storeLock = w /\ storeLock # NoWorker
  BY SentinelAssumption DEF StoreLockProtects, LockedPc
<1>2. pc[v] \notin LockedPc
  BY <1>1 DEF StoreLockProtects
<1>3. /\ pc \in [Worker -> {"idle", "drop"} \cup LockedPc]
      /\ reply \in [Worker ->
            {"none", "published", "existing", "error", "corrupt", "recovered"}]
  BY DEF TypeOK
<1> USE DEF leases, stages, scanner, calm, Goto, Return, Abort
<1>4. CASE Call(v)
  <2>1. ASSUME NEW f \in File, Build(v, f)
        PROVE  Beside(w)
    <3>1. txn[v] \in TxnId /\ staging[txn[v]] # Absent
      BY <2>1 DEF Build, HasTransaction, Idle, Ownership, StagedPc, Staged, TypeOK
    <3>2. \A t \in TxnId : staging[t] = Absent => staging'[t] = Absent
      BY <2>1, <3>1 DEF Build, TypeOK
    <3>3. QED
      BY <2>1, <3>2 DEF Build, Beside
  <2>2. DropHandle(v) => Beside(w)
    BY <1>3 DEF DropHandle, Beside
  <2>3. QED
    BY <1>1, <1>4, <2>1, <2>2 DEF Call, BeginLease, Commit, Get, RecoverStart, LockStore
<1>5. CASE Fail(v)
  <2>1. CommitLockFails(v) => Beside(w)
    BY <1>3 DEF CommitLockFails, Beside
  <2>2. DropLockFails(v) => Beside(w)
    BY <1>3 DEF DropLockFails, CloseLeases, Beside
  <2>3. ~BeginLeaseFails(v)
    BY <1>1 DEF BeginLeaseFails
  <2>4. BeginUndoFails(v) \/ CommitStepFails(v) \/ WriteMetadataFails(v)
          \/ ReleaseExistingFails(v) \/ PublishStepFails(v) \/ RollbackFails(v)
          \/ RecoverFails(v) => pc[v] \in LockedPc
    BY DEF BeginUndoFails, CommitStepFails, WriteMetadataFails, ReleaseExistingFails,
           PublishStepFails, RollbackFails, RecoverFails, LockedPc, CommitPc, PublishPc,
           RecoverPc
  <2>5. QED
    BY <1>2, <1>5, <2>1, <2>2, <2>3, <2>4 DEF Fail
<1>6. CASE Crash(v)
  <2>1. scan'[w] = scan[w] /\ todo'[w] = todo[w] /\ cur'[w] = cur[w] /\ doomed'[w] = doomed[w]
    BY <1>6 DEF Crash, TypeOK
  <2>2. QED
    BY <1>3, <1>6, <2>1 DEF Crash, CloseLeases, Beside
<1>7. QED
  BY <1>1, <1>2, <1>4, <1>5, <1>6, ProceedsLocked DEF DropLock, LockStore


\* A worker in a recovery is there by RecoverStart and moves by the recovery's steps.
LEMMA OwnMoves ==
  ASSUME TypeOK, NEW w \in Worker, pc[w] \in RecoverPc \/ pc'[w] \in RecoverPc,
         Proceed(w) \/ DropLock(w) \/ Call(w) \/ Fail(w) \/ Crash(w)
  PROVE  RecoverStart(w) \/ (pc[w] \in RecoverPc /\ RecoveryMoves(w))
<1>1. pc \in [Worker -> {"idle", "drop"} \cup LockedPc]
  BY DEF TypeOK
<1> USE DEF RecoverPc, RecoveryMoves, Goto, Return, Abort
<1>2. CASE Proceed(w)
  <2>1. ~BeginStage(w) /\ ~BeginPrefix(w) /\ ~BeginSource(w)
          /\ ~BeginRetries(w) /\ ~BeginFails(w)
    BY <1>1 DEF BeginStage, BeginPrefix, BeginSource, BeginRetries, BeginFails
  <2>2. ~ValidateOutput(w) /\ ~SyncTree(w) /\ ~WriteMetadata(w) /\ ~SyncStaging(w)
          /\ ~CheckDestination(w) /\ ~RenameToResult(w)
    BY <1>1 DEF ValidateOutput, SyncTree, WriteMetadata, SyncStaging, StageStep,
                CheckDestination, RenameToResult
  <2>3. ~RemoveRedundantStage(w) /\ ~ReturnExisting(w) /\ ~VerifyPublished(w)
          /\ ~FinishLease(w) /\ ~ReturnPublished(w) /\ ~RollbackEntry(w)
    BY <1>1 DEF RemoveRedundantStage, ReturnExisting, VerifyPublished, FinishLease,
                ReturnPublished, RollbackEntry
  <2>4. ~RollbackRoot(w) /\ ~RollbackSync(w) /\ ~DropRemove(w) /\ ~DropLease(w)
    BY <1>1 DEF RollbackRoot, RollbackSync, DropRemove, DropLease
  <2>5. ASSUME RecoverEntry(w) \/ RecoverMissingLease(w) \/ RecoverRemove(w)
                 \/ RecoverRelease(w) \/ RecoverNextRoot(w) \/ RecoverDone(w)
        PROVE  pc[w] \in RecoverPc
    BY <2>5 DEF RecoverEntry, RecoverMissingLease, RecoverRemove, RecoverRelease,
                RecoverNextRoot, RecoverDone
  <2>6. QED
    BY <1>2, <2>1, <2>2, <2>3, <2>4, <2>5 DEF Proceed
<1>3. CASE DropLock(w) \/ Call(w)
  BY <1>1, <1>3 DEF DropLock, Call, BeginLease, Build, Commit, Get, DropHandle,
                    HasTransaction, Idle
<1>4. CASE Fail(w)
  <2>1. ~BeginLeaseFails(w) /\ ~BeginUndoFails(w) /\ ~CommitLockFails(w)
          /\ ~CommitStepFails(w) /\ ~WriteMetadataFails(w) /\ ~ReleaseExistingFails(w)
    BY <1>1 DEF BeginLeaseFails, BeginUndoFails, CommitLockFails, CommitStepFails,
                WriteMetadataFails, ReleaseExistingFails, HasTransaction, Idle
  <2>2. ~PublishStepFails(w) /\ ~RollbackFails(w) /\ ~DropLockFails(w)
    BY <1>1 DEF PublishStepFails, RollbackFails, DropLockFails
  <2>3. RecoverFails(w) => pc[w] \in RecoverPc
    BY DEF RecoverFails
  <2>4. QED
    BY <1>4, <2>1, <2>2, <2>3 DEF Fail
<1>5. CASE Crash(w)
  BY <1>1, <1>5 DEF Crash
<1>6. QED
  BY <1>2, <1>3, <1>4, <1>5

\* What is left for one recovery to do.
LEMMA ScanningStep ==
  ASSUME IInv, Scanning, [Next]_vars
  PROVE  Scanning'
<1> DEFINE Left(w) ==
      /\ reply[w] # "recovered"
      /\ pc[w] = "r_rel" => ~Staged(cur[w])
      /\ scan[w] = "leases" => \A t \in todo[w] : ~Staged(t)
      /\ \A t \in doomed[w] :
           /\ lease[t] = NoWorker \/ t = cur[w]
           /\ scan[w] = "results" => staging[t] = Absent \/ t \in Pending(w)
           /\ scan[w] = "sources" => staging[t] = Absent
           /\ scan[w] = "sources" => t \notin sourceStage \/ t \in Pending(w)
           /\ scan[w] = "leases" => ~Staged(t)
           /\ scan[w] = "leases" => t \notin lockFile \/ t \in Pending(w)
<1> USE DEF IInv
<1> SUFFICES ASSUME NEW w \in Worker, pc'[w] \in RecoverPc
             PROVE  Left(w)'
  BY DEF Scanning
<1>1. /\ pc[w] \in RecoverPc => Left(w)
      /\ doomed[w] \subseteq TxnId /\ todo[w] \subseteq TxnId
  BY DEF Scanning, TypeOK
<1> HIDE DEF Left
<1>2. ASSUME Beside(w), pc[w] \in RecoverPc PROVE Left(w)'
  <2>1. Left(w)
    BY <1>1, <1>2
  <2>2. pc[w] = "r_rel" => cur[w] \in TxnId
    BY DEF Ownership
  <2>3. QED
    BY <1>1, <1>2, <2>1, <2>2 DEF Left, Beside, Staged, Pending
<1>3. ASSUME RecoverStart(w) PROVE Left(w)'
  BY <1>3 DEF Left, RecoverStart, ReadRoot, Entries, Pending, Goto, Idle, TypeOK, leases,
              stages
<1>4. ASSUME pc[w] \in RecoverPc, RecoveryMoves(w) PROVE Left(w)'
  <2>1. Left(w) /\ pc \in [Worker -> {"idle", "drop"} \cup LockedPc]
    BY <1>1, <1>4 DEF TypeOK
  <2> USE <2>1 DEF Goto, Return, StopRecovery, RecoverPc
  <2>2. CASE RecoverEntry(w)
    <3>1. PICK e \in todo[w] \cap lockFile :
            /\ todo' = [todo EXCEPT ![w] = @ \ {e}]
            /\ \/ lease[e] # NoWorker /\ UNCHANGED <<lease, cur, pc>>
               \/ /\ lease[e] = NoWorker
                  /\ lease' = [lease EXCEPT ![e] = w]
                  /\ cur' = [cur EXCEPT ![w] = e]
                  /\ Goto(w, IF scan[w] = "leases" THEN "r_rel" ELSE "r_rm")
      BY <2>2 DEF RecoverEntry, Unlocked
    <3>2. /\ pc[w] = "r_scan" /\ cur[w] = NoTxn /\ e \in TxnId
          /\ UNCHANGED <<lockFile, staging, sourceStage, reply, scan, doomed>>
      BY <2>2 DEF RecoverEntry, Ownership, TypeOK, stages
    <3>3. CASE lease[e] # NoWorker /\ UNCHANGED <<lease, cur, pc>>
      <4>1. e \notin doomed[w]
        BY <1>1, <3>2, <3>3, SentinelAssumption DEF Left
      <4>2. todo'[w] = todo[w] \ {e}
        BY <3>1 DEF TypeOK
      <4>3. QED
        BY <3>2, <3>3, <4>1, <4>2 DEF Left, Staged, Pending
    <3>4. CASE /\ lease[e] = NoWorker
               /\ lease' = [lease EXCEPT ![e] = w]
               /\ cur' = [cur EXCEPT ![w] = e]
               /\ Goto(w, IF scan[w] = "leases" THEN "r_rel" ELSE "r_rm")
      <4>1. Pending(w)' = (todo[w] \ {e}) \cup {e} /\ cur'[w] = e
        BY <3>1, <3>4 DEF Pending, TypeOK
      <4>2. \A t \in doomed[w] : lease'[t] = NoWorker \/ t = e
        BY <1>1, <3>2, <3>4, SentinelAssumption DEF Left, TypeOK
      <4>3. pc'[w] = "r_rel" => scan[w] = "leases"
        BY <3>4
      <4>4. scan[w] = "leases" => ~Staged(e)
        BY <3>1 DEF Left
      <4>5. todo'[w] \subseteq todo[w] /\ Pending(w) \subseteq Pending(w)' \cup {NoTxn}
        BY <3>1, <3>2, <4>1 DEF Pending, TypeOK
      <4>6. \A t \in doomed[w] : t # NoTxn
        BY <1>1, SentinelAssumption
      <4>7. QED
        BY <3>2, <4>1, <4>2, <4>3, <4>4, <4>5, <4>6 DEF Left, Staged
    <3>5. QED
      BY <3>1, <3>3, <3>4
  <2>3. CASE RecoverRemove(w)
    BY <2>3, SentinelAssumption
    DEF RecoverRemove, RemoveStage, Left, Staged, Pending,
        TypeOK, Ownership, leases, calm, scanner
  <2>4. CASE RecoverRelease(w)
    BY <2>4, SentinelAssumption
    DEF RecoverRelease, Release, Left, Staged, Pending, TypeOK, Ownership, stages
  <2>5. CASE RecoverNextRoot(w)
    BY <2>5, SentinelAssumption
    DEF RecoverNextRoot, ReadRoot, Entries, Left, Staged,
        Pending, TypeOK, Ownership, leases, stages
  <2>6. CASE RecoverMissingLease(w) \/ RecoverDone(w) \/ RecoverFails(w) \/ Crash(w)
    BY <2>6 DEF RecoverMissingLease, RecoverDone, RecoverFails, Crash
  <2>7. QED
    BY <1>4, <2>2, <2>3, <2>4, <2>5, <2>6 DEF RecoveryMoves
<1>5. ~PowerLoss
  BY DEF PowerLoss, RecoverPc
<1>6. CASE UNCHANGED vars
  <2>1. Beside(w) /\ pc'[w] = pc[w]
    BY <1>6 DEF vars, leases, stages, calm, scanner, Beside
  <2>2. QED
    BY <1>2, <2>1
<1>7. CASE \E v \in Worker : Proceed(v) \/ DropLock(v) \/ Call(v) \/ Fail(v) \/ Crash(v)
  BY <1>2, <1>3, <1>4, <1>7, OwnMoves, OthersKeep, OthersBeside DEF Kept
<1>8. QED
  BY <1>5, <1>6, <1>7 DEF Next

\* In every reachable state a recovery has listed what it has still to do.
LEMMA ScanningInvariant == Spec => []Scanning
<1>1. Init => Scanning
  BY DEF Init, Scanning, RecoverPc
<1>2. QED
  BY <1>1, ScanningStep, StoreInvariant, PTL DEF Spec

\* A recovery that answers Ok has removed the directory and the lease file of every
\* transaction that was abandoned when it began.
THEOREM AbandonedCollected == Spec => RecoveryCollectsProp
<1>1. IInv /\ Scanning /\ [Next]_vars => [RecoveryCollects]_vars
  <2> SUFFICES ASSUME IInv, Scanning, [Next]_vars, NEW w \in Worker, pc[w] \in RecoverPc,
                      reply'[w] = "recovered", NEW t \in doomed[w]
               PROVE  ~Staged(t) /\ t \notin lockFile
    BY DEF RecoveryCollects
  <2> USE DEF IInv
  <2>1. reply[w] # "recovered"
    BY DEF Scanning
  <2>2. ASSUME RecoverDone(w) PROVE ~Staged(t) /\ t \notin lockFile
    <3>1. cur[w] = NoTxn /\ t \in TxnId
      BY <2>2 DEF RecoverDone, Ownership, TypeOK
    <3>2. QED
      BY <2>2, <3>1, SentinelAssumption DEF RecoverDone, Scanning, Pending
  <2>3. ASSUME RecoveryMoves(w) PROVE RecoverDone(w)
    BY <2>1, <2>3 DEF RecoveryMoves, RecoverEntry, RecoverMissingLease, RecoverRemove,
       RecoverRelease, RecoverNextRoot, RecoverFails, Crash, StopRecovery, Return, TypeOK
  <2>4. ~RecoverStart(w)
    BY DEF RecoverStart, Idle, RecoverPc
  <2>5. ASSUME Beside(w) PROVE FALSE
    BY <2>1, <2>5 DEF Beside
  <2>6. CASE \E v \in Worker : Proceed(v) \/ DropLock(v) \/ Call(v) \/ Fail(v) \/ Crash(v)
    BY <2>2, <2>3, <2>4, <2>5, <2>6, OwnMoves, OthersBeside
  <2>7. PowerLoss => reply'[w] = "none"
    BY DEF PowerLoss
  <2>8. UNCHANGED vars => reply' = reply
    BY DEF vars
  <2>9. QED
    BY <2>1, <2>6, <2>7, <2>8 DEF Next
<1>2. QED
  BY <1>1, ScanningInvariant, StoreInvariant, PTL DEF Spec, RecoveryCollectsProp


-----------------------------------------------------------------------------
(* Nothing is left that recovery cannot collect *)

\* A directory of a transaction is made by begin alone.
LEMMA StagedFrame ==
  ASSUME TypeOK, Ownership, NEW w \in Worker, NEW t \in TxnId, ~Staged(t), Staged(t)',
         Proceed(w) \/ DropLock(w) \/ Call(w) \/ Fail(w) \/ Crash(w)
  PROVE  t = txn[w] /\ (BeginStage(w) \/ BeginSource(w))
<1> USE DEF Staged, stages
<1>1. txn[w] \in TxnId \cup {NoTxn} /\ staging \in [TxnId -> Dir \cup {Absent}]
  BY DEF TypeOK
<1>2. CASE Proceed(w)
  <2>1. ASSUME BeginPrefix(w) \/ SyncTree(w) \/ WriteMetadata(w) \/ SyncStaging(w)
        PROVE  FALSE
    <3>1. pc[w] \in DirPc
      BY <2>1 DEF BeginPrefix, SyncTree, WriteMetadata, SyncStaging, StageStep, DirPc
    <3>2. staging[txn[w]] # Absent
      BY <3>1 DEF Ownership
    <3>3. QED
      BY <1>1, <2>1, <3>2 DEF BeginPrefix, SyncTree, WriteMetadata, SyncStaging, StageStep
  <2>2. ~BeginRetries(w) /\ ~BeginFails(w) /\ ~ValidateOutput(w) /\ ~CheckDestination(w)
    BY <1>1 DEF BeginRetries, BeginFails, RemoveStage, ValidateOutput, CheckDestination
  <2>3. ~RenameToResult(w) /\ ~RemoveRedundantStage(w) /\ ~ReturnExisting(w)
    BY <1>1 DEF RenameToResult, RemoveRedundantStage, RemoveStage, ReturnExisting
  <2>4. ~VerifyPublished(w) /\ ~FinishLease(w) /\ ~ReturnPublished(w) /\ ~RollbackEntry(w)
          /\ ~RollbackRoot(w) /\ ~RollbackSync(w)
    BY DEF VerifyPublished, FinishLease, ReturnPublished, RollbackEntry, RollbackRoot,
           RollbackSync
  <2>5. ~DropRemove(w) /\ ~DropLease(w)
    BY <1>1 DEF DropRemove, RemoveStage, DropLease
  <2>6. ~RecoverEntry(w) /\ ~RecoverMissingLease(w) /\ ~RecoverRemove(w)
          /\ ~RecoverRelease(w) /\ ~RecoverNextRoot(w) /\ ~RecoverDone(w)
    BY <1>1 DEF RecoverEntry, RecoverMissingLease, RecoverRemove, RemoveStage,
                RecoverRelease, RecoverNextRoot, RecoverDone
  <2>7. BeginStage(w) \/ BeginSource(w) => t = txn[w]
    BY <1>1 DEF BeginStage, BeginSource
  <2>8. QED
    BY <1>2, <2>1, <2>2, <2>3, <2>4, <2>5, <2>6, <2>7 DEF Proceed
<1>3. CASE Call(w)
  <2>1. ASSUME NEW f \in File, Build(w, f)
        PROVE  FALSE
    <3>1. Staged(txn[w]) /\ txn[w] \in TxnId
      BY <2>1, <1>1 DEF Build, HasTransaction, Idle, Ownership, StagedPc
    <3>2. QED
      BY <1>1, <2>1, <3>1 DEF Build, HasTransaction
  <2>2. QED
    BY <1>3, <2>1 DEF Call, BeginLease, Commit, Get, DropHandle, RecoverStart
<1>4. CASE Fail(w)
  <2>1. ASSUME WriteMetadataFails(w) PROVE FALSE
    <3>1. staging[txn[w]] # Absent
      BY <2>1 DEF WriteMetadataFails, Ownership, DirPc
    <3>2. QED
      BY <1>1, <2>1, <3>1 DEF WriteMetadataFails
  <2>2. ~BeginUndoFails(w)
    BY <1>1 DEF BeginUndoFails, HalfUndone, RemoveStage
  <2>3. QED
    BY <1>4, <2>1, <2>2 DEF Fail, BeginLeaseFails, CommitLockFails,
       CommitStepFails, ReleaseExistingFails, PublishStepFails, RollbackFails,
       DropLockFails, RecoverFails
<1>5. ~DropLock(w) /\ ~Crash(w)
  BY DEF DropLock, Crash
<1>6. QED
  BY <1>2, <1>3, <1>4, <1>5

\* Where a call loses its directory, or gets its lease, and how it enters commit.
LEMMA BareFrame ==
  ASSUME TypeOK, NEW w \in Worker, faults' = faults,
         Proceed(w) \/ DropLock(w) \/ Call(w) \/ Fail(w) \/ Crash(w)
  PROVE  /\ pc'[w] \in BarePc =>
              \/ pc[w] \in BarePc /\ txn'[w] = txn[w]
              \/ BeginLease(w, "b_stage") \/ BeginLease(w, "s_stage") \/ BeginRetries(w)
              \/ RenameToResult(w) \/ RemoveRedundantStage(w) \/ DropRemove(w)
         /\ pc'[w] \in CommitPc =>
              \/ pc[w] \in CommitPc /\ txn'[w] = txn[w]
              \/ \E r \in ResultId : Commit(w, r)
<1> DEFINE Same == {pc[w], pc'[w]} \subseteq CommitPc \ BarePc /\ txn'[w] = txn[w]
           Out == pc'[w] \notin BarePc \cup CommitPc
           In == {pc[w], pc'[w]} \subseteq PublishPc /\ txn'[w] = txn[w]
<1>1. /\ pc \in [Worker -> {"idle", "drop"} \cup LockedPc]
      /\ txn \in [Worker -> TxnId \cup {NoTxn}]
      /\ faults \in Nat
  BY BoundAssumption DEF TypeOK
<1> USE DEF BarePc, CommitPc, PublishPc, Goto, Return, Abort, handle
<1>2. CASE Proceed(w)
  <2>1. BeginStage(w) \/ BeginPrefix(w) \/ BeginSource(w) \/ BeginFails(w) => Out
    BY <1>1 DEF BeginStage, BeginPrefix, BeginSource, BeginFails
  <2>2. BeginRetries(w) => pc'[w] \notin CommitPc
    BY <1>1 DEF BeginRetries
  <2>3. ValidateOutput(w) \/ SyncTree(w) \/ WriteMetadata(w) \/ SyncStaging(w)
          \/ CheckDestination(w) => Same \/ Out
    BY <1>1 DEF ValidateOutput, SyncTree, WriteMetadata, SyncStaging, StageStep,
                CheckDestination
  <2>4. RenameToResult(w) \/ RemoveRedundantStage(w) => pc[w] \in CommitPc /\ txn'[w] = txn[w]
    BY <1>1 DEF RenameToResult, RemoveRedundantStage
  <2>5. VerifyPublished(w) \/ FinishLease(w) \/ RollbackEntry(w) \/ RollbackRoot(w) => In
    BY <1>1 DEF VerifyPublished, FinishLease, RollbackEntry, RollbackRoot
  <2>6. ReturnExisting(w) \/ ReturnPublished(w) \/ RollbackSync(w) \/ DropLease(w) => Out
    BY <1>1 DEF ReturnExisting, ReturnPublished, RollbackSync, DropLease
  <2>7. DropRemove(w) => pc'[w] \notin CommitPc
    BY <1>1 DEF DropRemove
  <2>8. RecoverEntry(w) \/ RecoverMissingLease(w) \/ RecoverRemove(w)
          \/ RecoverRelease(w) \/ RecoverNextRoot(w) \/ RecoverDone(w) => Out
    BY <1>1 DEF RecoverEntry, RecoverMissingLease, RecoverRemove, RecoverRelease,
                RecoverNextRoot, RecoverDone, StopRecovery
  <2>9. QED
    BY <1>2, <2>1, <2>2, <2>3, <2>4, <2>5, <2>6, <2>7, <2>8 DEF Proceed
<1>3. CASE Call(w)
  <2>1. BeginLease(w, "b_stage") \/ BeginLease(w, "s_stage") => pc'[w] \notin CommitPc
    BY <1>1 DEF BeginLease
  <2>2. ASSUME NEW r \in ResultId, Commit(w, r) PROVE pc'[w] \notin BarePc
    BY <1>1, <2>2 DEF Commit
  <2>3. ASSUME \/ \E f \in File : Build(w, f)
               \/ \E r \in ResultId : Get(w, r)
               \/ DropHandle(w) \/ RecoverStart(w)
        PROVE  Out
    BY <1>1, <2>3 DEF Build, Get, DropHandle, RecoverStart, HasTransaction, Idle
  <2>4. QED
    BY <1>3, <2>1, <2>2, <2>3 DEF Call
<1>4. DropLock(w) \/ Crash(w) => Out
  BY <1>1 DEF DropLock, Crash
<1>5. ~Fail(w)
  BY <1>1 DEF Fail, BeginLeaseFails, BeginUndoFails, CommitLockFails, CommitStepFails,
     WriteMetadataFails, ReleaseExistingFails, PublishStepFails, FailedRelease,
     RollbackFails, DropLockFails, RecoverFails, Fault
<1>6. QED
  BY <1>2, <1>3, <1>4, <1>5


\* A source stage is made by begin_unverified_source alone.
LEMMA SourceFrame ==
  ASSUME NEW w \in Worker, NEW t \in sourceStage', t \notin sourceStage,
         Proceed(w) \/ DropLock(w) \/ Call(w) \/ Fail(w) \/ Crash(w)
  PROVE  t = txn[w] /\ BeginSource(w)
<1> USE DEF stages, RemoveStage
<1>1. CASE Proceed(w)
  <2>1. ~BeginStage(w) /\ ~BeginPrefix(w) /\ ~BeginRetries(w) /\ ~BeginFails(w)
    BY DEF BeginStage, BeginPrefix, BeginRetries, BeginFails
  <2>2. ~ValidateOutput(w) /\ ~SyncTree(w) /\ ~WriteMetadata(w) /\ ~SyncStaging(w)
          /\ ~CheckDestination(w) /\ ~RenameToResult(w)
    BY DEF ValidateOutput, SyncTree, WriteMetadata, SyncStaging, StageStep,
           CheckDestination, RenameToResult
  <2>3. ~RemoveRedundantStage(w) /\ ~ReturnExisting(w) /\ ~VerifyPublished(w)
          /\ ~FinishLease(w) /\ ~ReturnPublished(w) /\ ~RollbackEntry(w)
    BY DEF RemoveRedundantStage, ReturnExisting, VerifyPublished, FinishLease,
           ReturnPublished, RollbackEntry
  <2>4. ~RollbackRoot(w) /\ ~RollbackSync(w) /\ ~DropRemove(w) /\ ~DropLease(w)
    BY DEF RollbackRoot, RollbackSync, DropRemove, DropLease
  <2>5. ~RecoverEntry(w) /\ ~RecoverMissingLease(w) /\ ~RecoverRemove(w)
          /\ ~RecoverRelease(w) /\ ~RecoverNextRoot(w) /\ ~RecoverDone(w)
    BY DEF RecoverEntry, RecoverMissingLease, RecoverRemove, RecoverRelease,
           RecoverNextRoot, RecoverDone
  <2>6. BeginSource(w) => t = txn[w]
    BY DEF BeginSource
  <2>7. QED
    BY <1>1, <2>1, <2>2, <2>3, <2>4, <2>5, <2>6 DEF Proceed
<1>2. ~DropLock(w) /\ ~Call(w) /\ ~Crash(w)
  BY DEF DropLock, Call, Crash, BeginLease, Build, Commit, Get, DropHandle, RecoverStart
<1>3. ~Fail(w)
  BY DEF Fail, BeginLeaseFails, BeginUndoFails, HalfUndone, CommitLockFails, CommitStepFails,
     WriteMetadataFails, ReleaseExistingFails, PublishStepFails, RollbackFails,
     DropLockFails, RecoverFails
<1>4. QED
  BY <1>1, <1>2, <1>3

\* Without a failed operation no lease file is removed before its directory.
LEMMA LeaseFileGoesLast ==
  ASSUME IInv, Scanning, Collectable, faults = 0, outages = 0, faults' = faults,
         NEW w \in Worker, NEW t \in lockFile, t \notin lockFile',
         Proceed(w) \/ DropLock(w) \/ Call(w) \/ Fail(w) \/ Crash(w)
  PROVE  ~Staged(t)
<1> USE DEF leases, Release
<1>1. pc[w] \in BarePc => ~Staged(txn[w])
  BY DEF Collectable
<1>2. pc[w] = "r_rel" => ~Staged(cur[w])
  BY DEF Scanning, RecoverPc
<1>3. faults \in Nat
  BY BoundAssumption DEF IInv, TypeOK
<1>4. CASE Proceed(w)
  <2>1. ~BeginStage(w) /\ ~BeginPrefix(w) /\ ~BeginSource(w)
    BY DEF BeginStage, BeginPrefix, BeginSource
  <2>2. BeginRetries(w) \/ BeginFails(w) => pc[w] \in BarePc /\ t = txn[w]
    BY <1>3 DEF BeginRetries, BeginFails, Fault, BarePc
  <2>3. ~ValidateOutput(w) /\ ~SyncTree(w) /\ ~WriteMetadata(w) /\ ~SyncStaging(w)
          /\ ~CheckDestination(w) /\ ~RenameToResult(w) /\ ~RemoveRedundantStage(w)
    BY DEF ValidateOutput, SyncTree, WriteMetadata, SyncStaging, StageStep,
           CheckDestination, RenameToResult, RemoveRedundantStage
  <2>4. ReturnExisting(w) \/ FinishLease(w) => pc[w] \in BarePc /\ t = txn[w]
    BY DEF ReturnExisting, FinishLease, BarePc, PublishPc
  <2>5. RollbackSync(w) \/ DropLease(w) => pc[w] \in BarePc /\ t = txn[w]
    BY <1>3 DEF RollbackSync, DropLease, FailedRelease, Fault, BarePc, PublishPc
  <2>6. ~VerifyPublished(w) /\ ~ReturnPublished(w) /\ ~RollbackEntry(w)
          /\ ~RollbackRoot(w) /\ ~DropRemove(w)
    BY DEF VerifyPublished, ReturnPublished, RollbackEntry, RollbackRoot, DropRemove
  <2>7. ~RecoverEntry(w) /\ ~RecoverMissingLease(w) /\ ~RecoverRemove(w)
          /\ ~RecoverNextRoot(w) /\ ~RecoverDone(w)
    BY DEF RecoverEntry, RecoverMissingLease, RecoverRemove, RecoverNextRoot, RecoverDone
  <2>8. RecoverRelease(w) => pc[w] = "r_rel" /\ t = cur[w]
    BY DEF RecoverRelease
  <2>9. QED
    BY <1>1, <1>2, <1>4, <2>1, <2>2, <2>3, <2>4, <2>5, <2>6, <2>7, <2>8 DEF Proceed
<1>5. ~DropLock(w) /\ ~Call(w) /\ ~Crash(w)
  BY DEF DropLock, Call, Crash, BeginLease, Build, Commit, Get, DropHandle, RecoverStart
<1>6. ~Fail(w)
  BY <1>3 DEF Fail, BeginLeaseFails, BeginUndoFails, CommitLockFails, CommitStepFails,
     WriteMetadataFails, ReleaseExistingFails, PublishStepFails, FailedRelease,
     RollbackFails, DropLockFails, RecoverFails, Fault
<1>7. QED
  BY <1>4, <1>5, <1>6

\* While nothing but processes has failed, every step keeps the lease files of what is
\* staged.
LEMMA CollectableStep ==
  ASSUME IInv, Scanning, Collectable, [Next]_vars
  PROVE  Collectable'
<1> SUFFICES ASSUME faults' = 0, outages' = 0
             PROVE  /\ StagingCollectable'
                    /\ \A v \in Worker : pc'[v] \in BarePc => ~Staged(txn[v])'
                    /\ \A v \in Worker : pc'[v] \in CommitPc => txn'[v] \notin sourceStage'
  BY DEF Collectable
<1> USE DEF IInv
<1>1. faults = 0 /\ outages = 0
  BY CountersGrow, BoundAssumption DEF TypeOK
<1>2. /\ StagingCollectable
      /\ \A v \in Worker : pc[v] \in BarePc => ~Staged(txn[v])
      /\ \A v \in Worker : pc[v] \in CommitPc => txn[v] \notin sourceStage
  BY <1>1 DEF Collectable
<1>3. CASE UNCHANGED vars
  BY <1>2, <1>3 DEF vars, leases, stages, handle, StagingCollectable, Staged
<1>4. ~PowerLoss
  BY <1>1 DEF PowerLoss
<1>5. ASSUME NEW w \in Worker, Proceed(w) \/ DropLock(w) \/ Call(w) \/ Fail(w) \/ Crash(w)
      PROVE  /\ StagingCollectable'
             /\ \A v \in Worker : pc'[v] \in BarePc => ~Staged(txn[v])'
             /\ \A v \in Worker : pc'[v] \in CommitPc => txn'[v] \notin sourceStage'
  <2>1. ASSUME NEW t \in TxnId, Staged(t)' PROVE t \in lockFile'
    <3>1. CASE Staged(t)
      BY <1>1, <1>2, <1>5, <3>1, LeaseFileGoesLast DEF StagingCollectable
    <3>2. CASE ~Staged(t)
      <4>1. t = txn[w] /\ (BeginStage(w) \/ BeginSource(w))
        BY <1>5, <2>1, <3>2, StagedFrame
      <4>2. QED
        BY <4>1, SentinelAssumption DEF BeginStage, BeginSource, Ownership, LeasePc, leases
    <3>3. QED
      BY <3>1, <3>2
  <2>2. ASSUME NEW v \in Worker, v # w, pc'[v] \in BarePc PROVE ~Staged(txn[v])'
    <3>1. pc[v] \in BarePc /\ txn'[v] = txn[v]
      BY <1>5, <2>2, OthersKeep DEF Kept
    <3>2. txn[v] \in TxnId /\ txn[v] # txn[w]
      BY <2>2, <3>1, SentinelAssumption DEF BarePc, Ownership, TxnPc, CommitPc
    <3>3. ~Staged(txn[v])
      BY <1>2, <3>1
    <3>4. QED
      BY <1>5, <3>1, <3>2, <3>3, StagedFrame DEF Staged
  <2>3. ASSUME pc'[w] \in BarePc PROVE ~Staged(txn[w])'
    <3>1. CASE pc[w] \in BarePc /\ txn'[w] = txn[w]
      <4>1. ~Staged(txn[w]) /\ txn[w] \in TxnId
        BY <1>2, <3>1 DEF BarePc, Ownership, TxnPc, CommitPc
      <4>2. ~BeginStage(w) /\ ~BeginSource(w)
        BY <2>3 DEF BeginStage, BeginSource, Goto, Return, BarePc, PublishPc, TypeOK
      <4>3. QED
        BY <1>5, <3>1, <4>1, <4>2, StagedFrame DEF Staged
    <3>2. CASE BeginLease(w, "b_stage") \/ BeginLease(w, "s_stage")
      BY <1>2, <3>2 DEF BeginLease, NewTxnId, StagingCollectable, Staged, stages, TypeOK
    <3>3. CASE BeginRetries(w)
      BY <3>3 DEF BeginRetries, Staged, stages, TypeOK
    <3>4. CASE RenameToResult(w)
      <4>1. txn[w] \notin sourceStage /\ txn[w] \in TxnId
        BY <1>2, <3>4 DEF RenameToResult, Ownership, TxnPc, CommitPc
      <4>2. QED
        BY <3>4, <4>1 DEF RenameToResult, Staged, handle, TypeOK
    <3>5. CASE RemoveRedundantStage(w)
      BY <3>5 DEF RemoveRedundantStage, RemoveStage, Ownership, TxnPc, CommitPc, Staged,
                  handle, TypeOK
    <3>6. CASE DropRemove(w)
      BY <1>1, <3>6 DEF DropRemove, RemoveStage, Fault, Ownership, TxnPc, Staged,
                        handle, TypeOK
    <3>7. QED
      BY <1>1, <1>5, <2>3, <3>1, <3>2, <3>3, <3>4, <3>5, <3>6, BareFrame
  <2>4. ASSUME NEW v \in Worker, pc'[v] \in CommitPc PROVE txn'[v] \notin sourceStage'
    <3>1. CASE pc[v] \in CommitPc /\ txn'[v] = txn[v]
      <4>1. txn[v] \notin sourceStage /\ txn[v] \in TxnId
        BY <1>2, <3>1 DEF Ownership, TxnPc
      <4>2. BeginSource(w) => pc[w] \notin CommitPc
        BY DEF BeginSource, CommitPc, PublishPc
      <4>3. BeginSource(w) => txn[v] # txn[w]
        BY <3>1, <4>1, <4>2, SentinelAssumption DEF Ownership
      <4>4. QED
        BY <1>5, <3>1, <4>1, <4>3, SourceFrame
    <3>2. CASE v = w /\ \E r \in ResultId : Commit(w, r)
      BY <3>2 DEF Commit, HasTransaction, stages
    <3>3. QED
      BY <1>1, <1>5, <2>4, <3>1, <3>2, BareFrame, OthersKeep DEF Kept
  <2>5. QED
    BY <2>1, <2>2, <2>3, <2>4 DEF StagingCollectable
<1>6. QED
  BY <1>3, <1>4, <1>5 DEF Next

\* Whatever processes die: as long as no operation failed and the power stayed on, every
\* staging directory has the lease file that recovery needs to collect it.
THEOREM CollectableUnlessFaulty ==
  Spec => [](faults = 0 /\ outages = 0 => StagingCollectable)
<1>1. Init => Collectable
  BY DEF Init, Collectable, StagingCollectable, Staged, BarePc, CommitPc, PublishPc
<1>2. IInv /\ Scanning /\ Collectable /\ [Next]_vars => Collectable'
  BY CollectableStep
<1>3. Collectable => (faults = 0 /\ outages = 0 => StagingCollectable)
  BY DEF Collectable
<1>4. QED
  BY <1>1, <1>2, <1>3, ScanningInvariant, StoreInvariant, PTL DEF Spec


-----------------------------------------------------------------------------
(* What a reader sees *)

\* Somebody is between the rename of a result and the answer.
Publishing(r) == \E w \in Worker : pc[w] \in PublishPc /\ goal[w] = r

\* A publication begins with its rename and keeps its result.
LEMMA PublishFrame ==
  ASSUME TypeOK, NEW w \in Worker, pc'[w] \in PublishPc,
         Proceed(w) \/ DropLock(w) \/ Call(w) \/ Fail(w) \/ Crash(w)
  PROVE  goal'[w] = goal[w] /\ (pc[w] \in PublishPc \/ RenameToResult(w))
<1>1. pc \in [Worker -> {"idle", "drop"} \cup LockedPc]
  BY DEF TypeOK
<1> USE DEF PublishPc, Goto, Return, Abort, handle
<1>2. CASE Proceed(w)
  <2>1. ~BeginStage(w) /\ ~BeginPrefix(w) /\ ~BeginSource(w)
          /\ ~BeginRetries(w) /\ ~BeginFails(w)
    BY <1>1 DEF BeginStage, BeginPrefix, BeginSource, BeginRetries, BeginFails
  <2>2. ~ValidateOutput(w) /\ ~SyncTree(w) /\ ~WriteMetadata(w) /\ ~SyncStaging(w)
          /\ ~CheckDestination(w) /\ ~RemoveRedundantStage(w) /\ ~ReturnExisting(w)
    BY <1>1 DEF ValidateOutput, SyncTree, WriteMetadata, SyncStaging, StageStep,
                CheckDestination, RemoveRedundantStage, ReturnExisting
  <2>3. VerifyPublished(w) \/ FinishLease(w) \/ RollbackEntry(w) \/ RollbackRoot(w)
          => goal'[w] = goal[w] /\ pc[w] \in PublishPc
    BY DEF VerifyPublished, FinishLease, RollbackEntry, RollbackRoot
  <2>4. RenameToResult(w) => goal'[w] = goal[w]
    BY DEF RenameToResult
  <2>5. ~ReturnPublished(w) /\ ~RollbackSync(w) /\ ~DropRemove(w) /\ ~DropLease(w)
    BY <1>1 DEF ReturnPublished, RollbackSync, DropRemove, DropLease
  <2>6. ~RecoverEntry(w) /\ ~RecoverMissingLease(w) /\ ~RecoverRemove(w)
          /\ ~RecoverRelease(w) /\ ~RecoverNextRoot(w) /\ ~RecoverDone(w)
    BY <1>1 DEF RecoverEntry, RecoverMissingLease, RecoverRemove, RecoverRelease,
                RecoverNextRoot, RecoverDone, StopRecovery
  <2>7. QED
    BY <1>2, <2>1, <2>2, <2>3, <2>4, <2>5, <2>6 DEF Proceed
<1>3. ~DropLock(w) /\ ~Call(w) /\ ~Crash(w)
  BY <1>1 DEF DropLock, Call, Crash, BeginLease, Build, Commit, Get, DropHandle,
              RecoverStart, HasTransaction, Idle
<1>4. CASE Fail(w)
  <2>1. PublishStepFails(w) => goal'[w] = goal[w] /\ pc[w] \in PublishPc
    BY DEF PublishStepFails
  <2>2. QED
    BY <1>1, <1>4, <2>1 DEF Fail, BeginLeaseFails, BeginUndoFails, CommitLockFails,
       CommitStepFails, WriteMetadataFails, ReleaseExistingFails, RollbackFails,
       DropLockFails, RecoverFails, StopRecovery, HasTransaction, Idle
<1>5. QED
  BY <1>2, <1>3, <1>4

\* A step of w concerns no result but its own, and not even that once it is shown.
LEMMA ShownFrame ==
  ASSUME IInv, NEW w \in Worker, NEW r \in ResultId,
         Proceed(w) \/ DropLock(w) \/ Call(w) \/ Fail(w) \/ Crash(w),
         r # goal[w] \/ (results[r] # Absent /\ ~Publishing(r)),
         results' = results \/ RenameToResult(w) \/ RollbackEntry(w) \/ RollbackRoot(w)
  PROVE  results'[r] = results[r] /\ Publishing(r)' = Publishing(r)
<1> USE DEF IInv
<1>1. \A v \in Worker : v # w => pc'[v] = pc[v] /\ goal'[v] = goal[v]
  BY OthersKeep DEF Kept
<1>2. CASE r # goal[w]
  <2>1. results'[r] = results[r]
    BY <1>2 DEF RenameToResult, RollbackEntry, RollbackRoot, TypeOK
  <2>2. pc'[w] \in PublishPc => goal'[w] # r
    BY <1>2, PublishFrame
  <2>3. QED
    BY <1>1, <1>2, <2>1, <2>2 DEF Publishing
<1>3. CASE r = goal[w] /\ results[r] # Absent /\ ~Publishing(r)
  <2>1. ~RenameToResult(w) /\ pc[w] \notin PublishPc
    BY <1>3 DEF RenameToResult, Publication, RenameOntoNothing, Publishing
  <2>2. ~RollbackEntry(w) /\ ~RollbackRoot(w)
    BY <2>1 DEF RollbackEntry, RollbackRoot, PublishPc
  <2>3. pc'[w] \notin PublishPc
    BY <2>1, PublishFrame
  <2>4. QED
    BY <1>1, <1>3, <2>1, <2>2, <2>3 DEF Publishing
<1>4. QED
  BY <1>2, <1>3

-----------------------------------------------------------------------------
(* Incomplete results *)

\* A call comes to hold a staged directory by making it, and to publish a result by
\* renaming to it.
LEMMA HeldFrame ==
  ASSUME TypeOK, NEW w \in Worker,
         Proceed(w) \/ DropLock(w) \/ Call(w) \/ Fail(w) \/ Crash(w)
  PROVE  /\ pc'[w] \in StagedPc /\ txn'[w] # NoTxn =>
              /\ txn'[w] = txn[w]
              /\ pc[w] \in StagedPc \/ BeginStage(w) \/ BeginSource(w)
         /\ pc'[w] \in PublishPc \ RollingPc =>
              /\ goal'[w] = goal[w]
              /\ pc[w] \in PublishPc \ RollingPc \/ RenameToResult(w)
<1> DEFINE Held == pc'[w] \in StagedPc /\ txn'[w] # NoTxn =>
                     /\ txn'[w] = txn[w]
                     /\ pc[w] \in StagedPc \/ BeginStage(w) \/ BeginSource(w)
           Published == pc'[w] \in PublishPc \ RollingPc =>
                     /\ goal'[w] = goal[w]
                     /\ pc[w] \in PublishPc \ RollingPc \/ RenameToResult(w)
           Goal == Held /\ Published
<1>1. /\ pc \in [Worker -> {"idle", "drop"} \cup LockedPc]
      /\ txn \in [Worker -> TxnId \cup {NoTxn}]
      /\ goal \in [Worker -> ResultId \cup {NoResult}]
  BY DEF TypeOK
<1> USE DEF StagedPc, DirPc, RecoverPc, PublishPc, RollingPc, Goto, Return, Abort,
            CloseHandle, handle
<1>2. CASE Proceed(w)
  <2>1. BeginStage(w) \/ BeginPrefix(w) \/ BeginSource(w) => Goal
    BY <1>1 DEF BeginStage, BeginPrefix, BeginSource
  <2>2. BeginRetries(w) \/ BeginFails(w) => Goal
    BY <1>1 DEF BeginRetries, BeginFails
  <2>3. ValidateOutput(w) \/ SyncTree(w) \/ WriteMetadata(w) \/ SyncStaging(w)
          \/ CheckDestination(w) \/ RenameToResult(w) => Goal
    BY <1>1 DEF ValidateOutput, SyncTree, WriteMetadata, SyncStaging, StageStep,
                CheckDestination, RenameToResult
  <2>4. RemoveRedundantStage(w) \/ ReturnExisting(w) \/ VerifyPublished(w)
          \/ FinishLease(w) => Goal
    BY <1>1 DEF RemoveRedundantStage, ReturnExisting, VerifyPublished, FinishLease
  <2>5. ReturnPublished(w) \/ RollbackEntry(w) \/ RollbackRoot(w) \/ RollbackSync(w)
          => Goal
    BY <1>1 DEF ReturnPublished, RollbackEntry, RollbackRoot, RollbackSync
  <2>6. DropRemove(w) \/ DropLease(w) => Goal
    BY <1>1 DEF DropRemove, DropLease
  <2>7. RecoverEntry(w) \/ RecoverMissingLease(w) \/ RecoverRemove(w) \/ RecoverRelease(w)
          \/ RecoverNextRoot(w) \/ RecoverDone(w) => Goal
    BY <1>1 DEF RecoverEntry, RecoverMissingLease, RecoverRemove, RecoverRelease,
                RecoverNextRoot, RecoverDone, StopRecovery
  <2>8. QED
    BY <1>2, <2>1, <2>2, <2>3, <2>4, <2>5, <2>6, <2>7 DEF Proceed
<1>3. CASE DropLock(w) \/ Call(w)
  BY <1>1, <1>3 DEF DropLock, Call, BeginLease, Build, Commit, Get, DropHandle,
                    RecoverStart, HasTransaction, Idle
<1>4. CASE Fail(w)
  <2>1. BeginLeaseFails(w) \/ BeginUndoFails(w) \/ CommitLockFails(w)
          \/ CommitStepFails(w) \/ WriteMetadataFails(w) => Goal
    BY <1>1 DEF BeginLeaseFails, BeginUndoFails, CommitLockFails, CommitStepFails,
                WriteMetadataFails, HasTransaction, Idle
  <2>2. ReleaseExistingFails(w) \/ PublishStepFails(w) \/ RollbackFails(w)
          \/ DropLockFails(w) \/ RecoverFails(w) => Goal
    BY <1>1 DEF ReleaseExistingFails, PublishStepFails, RollbackFails, DropLockFails,
                RecoverFails, StopRecovery
  <2>3. QED
    BY <1>4, <2>1, <2>2 DEF Fail
<1>5. CASE Crash(w)
  BY <1>1, <1>5 DEF Crash
<1>6. QED
  BY <1>2, <1>3, <1>4, <1>5

\* Every step keeps open transactions, and results no rollback has begun on, whole.
LEMMA WholenessStep ==
  ASSUME IInv, Wholeness, [Next]_vars
  PROVE  Wholeness'
<1> USE DEF IInv
<1>1. CASE PowerLoss
  BY <1>1 DEF PowerLoss, Wholeness, PublishPc
<1>2. CASE UNCHANGED vars
  BY <1>2 DEF vars, stages, public, handle, Wholeness, Whole, Complete
<1>3. ASSUME NEW w \in Worker, ~PowerLoss,
             Proceed(w) \/ DropLock(w) \/ Call(w) \/ Fail(w) \/ Crash(w)
      PROVE  Wholeness'
  <2>1. \A v \in Worker : v # w => Kept(v)
    BY <1>3, OthersKeep
  <2>2. ASSUME NEW v \in Worker, pc'[v] \in StagedPc, txn'[v] # NoTxn
        PROVE  Whole(staging'[txn'[v]])
    <3>1. CASE pc[v] \in StagedPc /\ txn'[v] = txn[v]
      <4>1. txn[v] \in TxnId /\ Whole(staging[txn[v]])
        BY <2>2, <3>1 DEF Wholeness, TypeOK
      <4>2. QED
        BY <1>3, <3>1, <4>1, StagingStaysWhole
    <3>2. CASE BeginStage(v) /\ txn'[v] = txn[v]
      BY <2>2, <3>2 DEF BeginStage, TypeOK, Whole, Complete, EmptyDir
    <3>3. CASE BeginSource(v) /\ txn'[v] = txn[v]
      BY <2>2, <3>3 DEF BeginSource, Staged, Whole
    <3>4. QED
      BY <1>3, <2>1, <2>2, <3>1, <3>2, <3>3, HeldFrame DEF Kept
  <2>3. ASSUME NEW v \in Worker, pc'[v] \in PublishPc \ RollingPc
        PROVE  Whole(results'[goal'[v]])
    <3>1. CASE RenameToResult(v)
      <4>1. /\ pc[v] = "c_rename" /\ txn[v] # NoTxn /\ goal[v] \in ResultId
            /\ goal'[v] = goal[v] /\ results'[goal[v]] = staging[txn[v]]
        BY <3>1, SentinelAssumption
        DEF RenameToResult, Ownership, TxnPc, CommitPc, TypeOK, handle
      <4>2. QED
        BY <4>1 DEF Wholeness, StagedPc, DirPc
    <3>2. CASE pc[v] \in PublishPc \ RollingPc /\ goal'[v] = goal[v]
      <4>1. storeLock = v
        BY <3>2 DEF StoreLockProtects, LockedPc, CommitPc
      <4>2. ASSUME NEW u \in Worker,
                   RenameToResult(u) \/ RollbackEntry(u) \/ RollbackRoot(u)
            PROVE  FALSE
        <5>1. pc[u] \in {"c_rename", "rb_rm"}
          BY <4>2 DEF RenameToResult, RollbackEntry, RollbackRoot
        <5>2. QED
          BY <3>2, <4>1, <5>1 DEF StoreLockProtects, LockedPc, CommitPc, PublishPc, RollingPc
      <4>3. results' = results
        BY <1>3, <4>2, ResultsFrame
      <4>4. QED
        BY <3>2, <4>3 DEF Wholeness, Whole, Complete
    <3>3. QED
      BY <1>3, <2>1, <2>3, <3>1, <3>2, HeldFrame DEF Kept
  <2>4. QED
    BY <2>2, <2>3 DEF Wholeness
<1>4. QED
  BY <1>1, <1>2, <1>3 DEF Next

LEMMA WholenessInvariant == Spec => []Wholeness
<1>1. Init => Wholeness
  BY DEF Init, Wholeness, PublishPc
<1>2. IInv /\ Wholeness /\ [Next]_vars => Wholeness'
  BY WholenessStep
<1>3. QED
  BY <1>1, <1>2, StoreInvariant, PTL DEF Spec

\* A step of one worker shows an incomplete result only by cutting its rollback short.
LEMMA TornByWorker ==
  ASSUME IInv, Aftermath, Wholeness, [Next]_vars, ~PowerLoss, NEW w \in Worker,
         Proceed(w) \/ DropLock(w) \/ Call(w) \/ Fail(w) \/ Crash(w),
         results' = results \/ RenameToResult(w) \/ RollbackEntry(w) \/ RollbackRoot(w),
         NEW r \in ResultId, Shown(r)' = "damaged", Shown(r) # "damaged"
  PROVE  pc[w] = "rb_rm" /\ goal[w] = r /\ pc'[w] = "idle"
<1> USE DEF IInv
<1>1. Valid(results'[r], r) /\ ~Publishing(r)' /\ ~Whole(results'[r])
  BY DEF Shown, Publishing, Valid, Whole
<1>2. r = goal[w] /\ (results[r] = Absent \/ Publishing(r))
  <2>1. ASSUME results'[r] = results[r], Publishing(r)' = Publishing(r) PROVE FALSE
    BY <1>1, <2>1 DEF Shown, Publishing, Valid, Whole
  <2>2. QED
    BY <2>1, ShownFrame
<1>3. \A v \in Worker : v # w => Kept(v)
  BY OthersKeep
<1>4. ~RenameToResult(w) /\ ~RollbackRoot(w) /\ ~RollbackEntry(w)
  <2>1. ASSUME pc'[w] \in PublishPc, goal'[w] = goal[w] PROVE FALSE
    BY <1>1, <1>2, <2>1 DEF Publishing
  <2>2. QED
    BY <2>1 DEF RenameToResult, RollbackRoot, RollbackEntry, PublishPc, Goto, handle,
                TypeOK
<1>5. results' = results /\ pc[w] \in PublishPc
  BY <1>1, <1>2, <1>3, <1>4 DEF Valid, Publishing, Kept
<1>6. pc[w] = "rb_rm"
  BY <1>1, <1>2, <1>5 DEF Wholeness, Aftermath, RollingPc, Whole
<1>7. pc'[w] # "rb_rm"
  BY <1>1, <1>2, <1>6, RollingFrame, <1>4 DEF Publishing, PublishPc, RollbackFails, Crash, Return, Goto, TypeOK
<1>8. QED
  BY <1>2, <1>4, <1>6, <1>7, RollingFrame DEF RollbackFails, Crash, Return, Goto, TypeOK

\* So does an outage: what was renamed has been synced, and is left as it was.
LEMMA TornByOutage ==
  ASSUME IInv, Aftermath, Wholeness, PowerLoss,
         NEW r \in ResultId, Shown(r)' = "damaged", Shown(r) # "damaged"
  PROVE  \E w \in Worker : pc[w] = "rb_rm" /\ goal[w] = r /\ pc'[w] = "idle"
<1> USE DEF IInv
<1>1. PICK undone \in SUBSET {q \in ResultId : unsynced[q] # NoTxn}, lost \in SUBSET File :
          results' = [q \in ResultId |->
                IF q \in undone THEN Absent ELSE AfterOutage(results[q], lost)]
  BY DEF PowerLoss
<1>2. AfterOutage(results[r], lost) = results[r]
  BY OutageDir, OutageAbsent DEF Publication, TypeOK, AllSynced
<1>3. results'[r] = Absent \/ results'[r] = results[r]
  BY <1>1, <1>2
<1>4. Valid(results[r], r) /\ ~Whole(results[r])
  BY <1>3 DEF Shown, Valid, Whole
<1>5. PICK w \in Worker : pc[w] \in PublishPc /\ goal[w] = r
  BY <1>4 DEF Shown, Valid, Whole
<1>6. pc[w] = "rb_rm"
  BY <1>4, <1>5 DEF Wholeness, Aftermath, RollingPc, Whole
<1>7. pc'[w] = "idle"
  BY DEF PowerLoss
<1>8. QED
  BY <1>5, <1>6, <1>7

\* What get accepts holds all the builder wrote, unless a rollback of that very result was
\* cut short while it removed the tree: nothing else, in any number and order, tears one.
THEOREM TornByRollback == Spec => TornOnlyByRollbackProp
<1>1. IInv /\ Aftermath /\ Wholeness /\ [Next]_vars => [TornOnlyByRollback]_vars
  <2> SUFFICES ASSUME IInv, Aftermath, Wholeness, [Next]_vars, ~UNCHANGED vars,
                      NEW r \in ResultId, Shown(r)' = "damaged", Shown(r) # "damaged"
               PROVE  \E w \in Worker : pc[w] = "rb_rm" /\ goal[w] = r /\ pc'[w] = "idle"
    BY DEF TornOnlyByRollback
  <2>1. CASE PowerLoss
    BY <2>1, TornByOutage
  <2>2. CASE ~PowerLoss /\ results' = results
    BY <2>2, TornByWorker DEF Next
  <2>3. CASE ~PowerLoss /\ \E w \in Worker :
               RenameToResult(w) \/ RollbackEntry(w) \/ RollbackRoot(w)
    BY <2>3, TornByWorker DEF Proceed
  <2>4. QED
    BY <2>1, <2>2, <2>3, ResultsFrame
<1>2. QED
  BY <1>1, AftermathInvariant, WholenessInvariant, StoreInvariant, PTL
  DEF Spec, TornOnlyByRollbackProp

-----------------------------------------------------------------------------
(* The refinement of ResultStore *)

\* What a caller is shown is nothing, or a complete tree without forbidden entries.
Acceptable ==
    \A r \in ResultId :
      \/ ShownTree[r] = [state |-> "nothing", tree |-> {}]
      \/ /\ results[r] # Absent /\ ~Publishing(r)
         /\ \E tree \in SUBSET (File \ Forbidden) :
              ShownTree[r] = [state |-> "tree", tree |-> tree]

\* With one mishap at most everything shown is acceptable.
LEMMA ShownAcceptable == TypeOK /\ Aftermath /\ ~TwoMishaps => Acceptable
<1> SUFFICES ASSUME TypeOK, Aftermath, ~TwoMishaps, NEW r \in ResultId
             PROVE  \/ ShownTree[r] = [state |-> "nothing", tree |-> {}]
                    \/ /\ results[r] # Absent /\ ~Publishing(r)
                       /\ \E tree \in SUBSET (File \ Forbidden) :
                            ShownTree[r] = [state |-> "tree", tree |-> tree]
  BY DEF Acceptable
<1>1. CASE ~Valid(results[r], r) \/ Publishing(r)
  BY <1>1 DEF ShownTree, Shown, Publishing
<1>2. CASE Valid(results[r], r) /\ ~Publishing(r)
  <2>1. results[r] # Absent /\ results[r] \in Dir
    BY <1>2 DEF Valid, TypeOK
  <2>2. Complete(results[r])
    BY <1>2, <2>1 DEF Aftermath, Whole, Publishing, PublishPc
  <2>3. results[r].prefix \in SUBSET (File \ Forbidden)
    BY <1>2, <2>1 DEF Valid, Dir
  <2>4. ShownTree[r] = [state |-> "tree", tree |-> results[r].prefix]
    BY <1>2, <2>2 DEF ShownTree, Shown, Publishing
  <2>5. QED
    BY <1>2, <2>1, <2>3, <2>4
<1>3. QED
  BY <1>1, <1>2

\* A step of one worker is a step of the abstract store or none.
LEMMA StepRefines ==
  ASSUME IInv, Acceptable, Acceptable', NEW w \in Worker,
         Proceed(w) \/ DropLock(w) \/ Call(w) \/ Fail(w) \/ Crash(w),
         results' = results \/ RenameToResult(w) \/ RollbackEntry(w) \/ RollbackRoot(w)
  PROVE  Abstract!Next \/ UNCHANGED ShownTree
<1>1. \A r \in ResultId :
        r # goal[w] \/ (results[r] # Absent /\ ~Publishing(r))
          => results'[r] = results[r] /\ Publishing(r)' = Publishing(r)
  BY ShownFrame
<1>2. \A r \in ResultId :
        results'[r] = results[r] /\ Publishing(r)' = Publishing(r)
          => ShownTree'[r] = ShownTree[r]
  BY DEF ShownTree, Shown, Publishing
<1>3. /\ ShownTree' = [r \in ResultId |-> ShownTree'[r]]
      /\ ShownTree = [r \in ResultId |-> ShownTree[r]]
  BY DEF ShownTree
<1>4. CASE \A r \in ResultId : ShownTree'[r] = ShownTree[r]
  BY <1>3, <1>4
<1>5. ASSUME NEW q \in ResultId, ShownTree'[q] # ShownTree[q]
      PROVE  Abstract!Publish(q)
  <2>1. q = goal[w] /\ ~(results[q] # Absent /\ ~Publishing(q))
    BY <1>1, <1>2, <1>5
  <2>2. \A r \in ResultId : r # q => ShownTree'[r] = ShownTree[r]
    BY <1>1, <1>2, <2>1
  <2>3. ShownTree[q] = [state |-> "nothing", tree |-> {}]
    BY <2>1 DEF Acceptable
  <2>4. PICK tree \in SUBSET (File \ Forbidden) :
          ShownTree'[q] = [state |-> "tree", tree |-> tree]
    BY <1>5, <2>3 DEF Acceptable
  <2>5. ShownTree' = [ShownTree EXCEPT ![q] = [state |-> "tree", tree |-> tree]]
    BY <1>3, <2>2, <2>4
  <2>6. QED
    BY <2>3, <2>5 DEF Abstract!Publish, Abstract!Nothing
<1>6. QED
  BY <1>4, <1>5 DEF Abstract!Next

\* The store implements the one its callers see, for any number of processes, results and
\* deaths, when no operation fails and the power stays on; or when one operation fails
\* and no process dies.
THEOREM StoreRefines ==
  ASSUME MaxOutages = 0, MaxFaults = 0 \/ MaxFaults + MaxCrashes <= 1
  PROVE  Spec => ImplementsResultStore
<1>1. TypeOK => ~TwoMishaps /\ ~PowerLoss
  BY BoundAssumption DEF TypeOK, TwoMishaps, PowerLoss
<1>2. Spec => []Acceptable
  <2>1. IInv /\ Aftermath => Acceptable
    BY <1>1, ShownAcceptable DEF IInv
  <2>2. QED
    BY <2>1, AftermathInvariant, StoreInvariant, PTL
<1>3. Init => Abstract!Init
  BY DEF Init, Abstract!Init, Abstract!Nothing, ShownTree, Shown, Valid
<1>4. IInv /\ Acceptable /\ Acceptable' /\ [Next]_vars => [Abstract!Next]_ShownTree
  <2> SUFFICES ASSUME IInv, Acceptable, Acceptable', [Next]_vars
               PROVE  Abstract!Next \/ UNCHANGED ShownTree
    OBVIOUS
  <2>1. ~PowerLoss
    BY <1>1 DEF IInv
  <2>2. CASE UNCHANGED vars
    BY <2>2 DEF vars, public, handle, ShownTree, Shown
  <2>3. CASE results' = results /\ \E w \in Worker :
               Proceed(w) \/ DropLock(w) \/ Call(w) \/ Fail(w) \/ Crash(w)
    BY <2>3, StepRefines
  <2>4. CASE \E w \in Worker : RenameToResult(w) \/ RollbackEntry(w) \/ RollbackRoot(w)
    BY <2>4, StepRefines DEF Proceed
  <2>5. QED
    BY <2>1, <2>2, <2>3, <2>4, ResultsFrame DEF Next
<1>5. QED
  BY <1>2, <1>3, <1>4, StoreInvariant, PTL DEF Spec, ImplementsResultStore, Abstract!Spec

==============================================================================
