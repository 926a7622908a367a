------------------------------ MODULE PrepStore ------------------------------
(***************************************************************************)
(* The transactional result store of crates/prep-store.  Processes share a  *)
(* store root; each opens a transaction, lets a builder fill its staging    *)
(* prefix and commits the tree under an immutable result identity.  Every   *)
(* operation holds the store lock (flock on .store.lock); between           *)
(* operations a transaction is protected by its lease alone, a flock on     *)
(* .locks/<id>.lock.                                                        *)
(*                                                                          *)
(* A step is a file-system operation: a process can die, or an operation    *)
(* can fail, between any two.  Operators named Broken... are deliberately   *)
(* wrong variants of the definition below them, used by no specification:   *)
(* they show that the properties notice the bug they describe.              *)
(***************************************************************************)
EXTENDS Naturals

CONSTANTS
    Worker,      \* processes that use the store
    TxnId,       \* transaction identifiers (names of staging directories)
    ResultId,    \* result identities (names of published results)
    File,        \* entries a builder may leave in a prefix
    Forbidden,   \* those validate_output_tree rejects
    MaxFaults, MaxCrashes, MaxOutages,  \* bounds on failed operations, on process deaths
                                        \* and power losses together, on power losses
    NoWorker, NoTxn, NoResult, NoMeta, Torn, Absent  \* model values

ASSUME SentinelAssumption ==
    /\ NoWorker \notin Worker /\ NoTxn \notin TxnId /\ NoResult \notin ResultId
    /\ NoMeta \notin ResultId /\ Torn \notin ResultId /\ NoMeta # Torn

ASSUME ForbiddenAssumption == Forbidden \subseteq File

ASSUME BoundAssumption ==
    MaxFaults \in Nat /\ MaxCrashes \in Nat /\ MaxOutages \in Nat

(***************************************************************************)
(* A staging or result directory: whether prefix/ exists, its entries, the  *)
(* result named by result.toml, and what was synced.  built records what    *)
(* the builder wrote, to tell a complete tree from one that lost entries.   *)
(***************************************************************************)
Dir == [ made   : BOOLEAN,
         prefix : SUBSET File,
         meta   : ResultId \cup {NoMeta, Torn},
         built  : SUBSET File,
         synced : SUBSET {"tree", "meta"} ]

ASSUME AbsentAssumption == Absent \notin Dir

EmptyDir ==
    [made |-> FALSE, prefix |-> {}, meta |-> NoMeta, built |-> {}, synced |-> {}]

VARIABLES
    lockFile,     \* transactions whose .locks/<id>.lock exists
    lease,        \* holder of the flock on a transaction's lock file
    storeLock,    \* holder of the flock on .store.lock
    staging,      \* .staging/<id>
    sourceStage,  \* transactions with a directory in .source-staging
    results,      \* results/sha256/<id>
    unsynced,     \* the transaction whose rename to a result is not yet synced
    pc,           \* where a worker is; "idle" between operations
    txn, goal,    \* the transaction handle a worker owns, the result it commits
    reply,        \* how a worker's last operation ended
    scan, todo, cur,   \* recover_abandoned: root being read, entries left, entry
    doomed,       \* history: what was abandoned when a recovery began
    returned,     \* history: results handed to a caller, and how
    faults, crashes, outages

leases  == <<lockFile, lease>>
stages  == <<staging, sourceStage>>
public  == <<results, unsynced>>
handle  == <<txn, goal>>
scanner == <<scan, todo, cur, doomed>>
mishaps == <<faults, crashes, outages>>
calm    == <<scanner, returned, mishaps>>
vars    == <<leases, storeLock, stages, public, pc, handle, reply, calm>>

\* Program counters inside calls that hold the store lock.
PublishPc == {"c_verify", "c_release", "c_syncroot", "rb_rm", "rb_sync"}
CommitPc  == {"c_validate", "c_sync", "c_meta", "c_syncdir", "c_check", "c_rename",
              "c_rmstage", "c_relx"} \cup PublishPc
RecoverPc == {"r_scan", "r_rm", "r_rel"}
LockedPc  == {"b_stage", "s_stage", "b_prefix", "d_rm", "d_rel"}
             \cup CommitPc \cup RecoverPc

TypeOK ==
    /\ lockFile \subseteq TxnId
    /\ lease \in [TxnId -> Worker \cup {NoWorker}]
    /\ storeLock \in Worker \cup {NoWorker}
    /\ staging \in [TxnId -> Dir \cup {Absent}]
    /\ sourceStage \subseteq TxnId
    /\ results \in [ResultId -> Dir \cup {Absent}]
    /\ unsynced \in [ResultId -> TxnId \cup {NoTxn}]
    /\ pc \in [Worker -> {"idle", "drop"} \cup LockedPc]
    /\ txn \in [Worker -> TxnId \cup {NoTxn}]
    /\ goal \in [Worker -> ResultId \cup {NoResult}]
    /\ reply \in [Worker -> {"none", "published", "existing", "error", "corrupt", "recovered"}]
    /\ scan \in [Worker -> {"results", "sources", "leases"}]
    /\ todo \in [Worker -> SUBSET TxnId]
    /\ cur \in [Worker -> TxnId \cup {NoTxn}]
    /\ doomed \in [Worker -> SUBSET TxnId]
    /\ returned \in [ResultId -> {"no", "seen", "published"}]
    /\ faults \in 0..MaxFaults
    /\ crashes \in 0..MaxCrashes
    /\ outages \in 0..MaxOutages

Init ==
    /\ lockFile = {}
    /\ lease = [t \in TxnId |-> NoWorker]
    /\ storeLock = NoWorker
    /\ staging = [t \in TxnId |-> Absent]
    /\ sourceStage = {}
    /\ results = [r \in ResultId |-> Absent]
    /\ unsynced = [r \in ResultId |-> NoTxn]
    /\ pc = [w \in Worker |-> "idle"]
    /\ txn = [w \in Worker |-> NoTxn]
    /\ goal = [w \in Worker |-> NoResult]
    /\ reply = [w \in Worker |-> "none"]
    /\ scan = [w \in Worker |-> "results"]
    /\ todo = [w \in Worker |-> {}]
    /\ cur = [w \in Worker |-> NoTxn]
    /\ doomed = [w \in Worker |-> {}]
    /\ returned = [r \in ResultId |-> "no"]
    /\ faults = 0 /\ crashes = 0 /\ outages = 0

-----------------------------------------------------------------------------
(* Helpers *)

\* A directory of transaction t exists in one of the two staging roots.
Staged(t) == staging[t] # Absent \/ t \in sourceStage

\* validate_existing_result: metadata names r as complete, prefix is acceptable.
Valid(d, r) ==
    d # Absent /\ d.meta = r /\ d.made /\ d.prefix \cap Forbidden = {}

\* Nothing the builder wrote is missing.
Complete(d) == d.prefix = d.built

Goto(w, label) == pc' = [pc EXCEPT ![w] = label]

Fault == faults < MaxFaults /\ faults' = faults + 1 /\ UNCHANGED <<crashes, outages>>

\* lock_store: flock blocks until nobody holds the store lock.
BrokenLockStore(w) == storeLock' = w
LockStore(w) == storeLock = NoWorker /\ storeLock' = w

\* try_lock of a lease.
BrokenUnlocked(t) == TRUE
Unlocked(t) == lease[t] = NoWorker

\* remove_dir_all on a staging directory; its partial states are never read.
RemoveStage(t) ==
    /\ staging' = [staging EXCEPT ![t] = Absent]
    /\ sourceStage' = sourceStage \ {t}

\* release_and_remove_lock_file: unlink the lock file, then unlock and close it.
\* A failure before or after the unlink closes the descriptor just the same.
Release(t) ==
    /\ lockFile' = lockFile \ {t}
    /\ lease' = [lease EXCEPT ![t] = NoWorker]
FailedRelease(t) ==
    /\ lockFile' \in {lockFile, lockFile \ {t}}
    /\ lease' = [lease EXCEPT ![t] = NoWorker]
    /\ Fault

\* The leases a process held are closed with its descriptors.
CloseLeases(w) ==
    lease' = [t \in TxnId |-> IF lease[t] = w THEN NoWorker ELSE lease[t]]

\* A call returns, and its guard of the store lock is dropped.
Return(w, outcome) ==
    /\ Goto(w, "idle")
    /\ storeLock' = NoWorker
    /\ reply' = [reply EXCEPT ![w] = outcome]

\* commit returns early: its guard is dropped before the transaction, whose Drop
\* takes the store lock again.
BrokenAbort(w) ==
    Goto(w, "drop") /\ UNCHANGED storeLock /\ reply' = [reply EXCEPT ![w] = "error"]
Abort(w) ==
    /\ Goto(w, "drop")
    /\ storeLock' = NoWorker
    /\ reply' = [reply EXCEPT ![w] = "error"]

CloseHandle(w) ==
    /\ txn' = [txn EXCEPT ![w] = NoTxn]
    /\ goal' = [goal EXCEPT ![w] = NoResult]

Idle(w) == pc[w] = "idle"
HasTransaction(w) == Idle(w) /\ txn[w] # NoTxn /\ txn[w] \notin sourceStage

-----------------------------------------------------------------------------
(* Store::begin and Store::begin_unverified_source *)

\* transaction_id(): process id, time and counter never repeat the id of a live
\* handle, and create_new refuses one whose lock file exists.
NewTxnId == {t \in TxnId \ lockFile : \A w \in Worker : txn[w] # t}

\* lock_store, create_new_lock_file and flock of the lease.
BeginLease(w, kind) ==
    /\ Idle(w) /\ txn[w] = NoTxn /\ LockStore(w)
    /\ \E t \in NewTxnId :
         /\ lockFile' = lockFile \cup {t}
         /\ lease' = [lease EXCEPT ![t] = w]
         /\ txn' = [txn EXCEPT ![w] = t]
    /\ Goto(w, kind)
    /\ reply' = [reply EXCEPT ![w] = "none"]
    /\ UNCHANGED <<stages, public, goal, calm>>

\* Opening or locking the new lease file fails: `?` closes it where it lies.
BeginLeaseFails(w) ==
    /\ Idle(w) /\ txn[w] = NoTxn /\ storeLock = NoWorker
    /\ \E t \in NewTxnId : lockFile' = lockFile \cup {t}
    /\ reply' = [reply EXCEPT ![w] = "error"]
    /\ Fault
    /\ UNCHANGED <<lease, storeLock, stages, public, pc, handle, scanner, returned>>

BeginStage(w) ==
    /\ pc[w] = "b_stage" /\ ~Staged(txn[w])
    /\ staging' = [staging EXCEPT ![txn[w]] = EmptyDir]
    /\ Goto(w, "b_prefix")
    /\ UNCHANGED <<leases, storeLock, sourceStage, public, handle, reply, calm>>

BeginPrefix(w) ==
    /\ pc[w] = "b_prefix"
    /\ staging' = [staging EXCEPT ![txn[w]].made = TRUE]
    /\ Return(w, "none")
    /\ UNCHANGED <<leases, sourceStage, public, handle, calm>>

BeginSource(w) ==
    /\ pc[w] = "s_stage" /\ ~Staged(txn[w])
    /\ sourceStage' = sourceStage \cup {txn[w]}
    /\ Return(w, "none")
    /\ UNCHANGED <<leases, staging, public, handle, calm>>

\* No identifier a begin may still try is free.
NoFreeId(w) == \A t \in NewTxnId \cup {txn[w]} : Staged(t)

\* AlreadyExists: the directory has outlived its lease file.  The loop gives the new
\* lease back and goes on to an identifier that is free; Store::begin does so even if
\* the lease file cannot be removed.
BeginRetries(w) ==
    /\ pc[w] \in {"b_stage", "s_stage"} /\ Staged(txn[w])
    /\ \E t \in NewTxnId :
         /\ ~Staged(t)
         /\ \/ lockFile' = (lockFile \ {txn[w]}) \cup {t} /\ UNCHANGED mishaps
            \/ pc[w] = "b_stage" /\ lockFile' = lockFile \cup {t} /\ Fault
         /\ lease' = [lease EXCEPT ![txn[w]] = NoWorker, ![t] = w]
         /\ txn' = [txn EXCEPT ![w] = t]
    /\ UNCHANGED <<storeLock, stages, public, pc, goal, reply, scanner, returned>>

\* No identifier is free, or a directory cannot be created: what was made is undone,
\* directory first and then lease.
BeginFails(w) ==
    /\ pc[w] \in {"b_stage", "s_stage", "b_prefix"}
    /\ \/ pc[w] # "b_prefix" /\ NoFreeId(w) /\ UNCHANGED <<stages, mishaps>>
       \/ pc[w] # "b_prefix" /\ UNCHANGED stages /\ Fault
       \/ pc[w] = "b_prefix" /\ RemoveStage(txn[w]) /\ Fault
    /\ Release(txn[w])
    /\ CloseHandle(w)
    /\ Return(w, "error")
    /\ UNCHANGED <<public, scanner, returned>>

\* What n failing operations leave of the directories when a begin cannot be undone:
\* the release alone fails after AlreadyExists, which ends a begin_unverified_source at
\* once and a begin that has no identifier left; or it fails after the create_dir; or
\* the staging directory stays, and with n = 3 its lease file too.
HalfUndone(w, n) ==
    \/ /\ n = 1 /\ Staged(txn[w])
       /\ pc[w] = "s_stage" \/ (pc[w] = "b_stage" /\ NoFreeId(w))
       /\ UNCHANGED stages
    \/ n = 2 /\ pc[w] # "b_prefix" /\ UNCHANGED stages
    \/ n = 2 /\ pc[w] = "b_prefix" /\ RemoveStage(txn[w])
    \/ /\ n >= 2 /\ pc[w] = "b_prefix" /\ UNCHANGED stages
       /\ n = 3 \/ lockFile' = lockFile \ {txn[w]}

\* `let _ =` ignores that undoing a failed begin fails too; the lease closes even so.
BeginUndoFails(w) ==
    /\ pc[w] \in {"b_stage", "s_stage", "b_prefix"}
    /\ \E n \in 1..3 :
         faults + n <= MaxFaults /\ faults' = faults + n /\ HalfUndone(w, n)
    /\ lockFile' \in {lockFile, lockFile \ {txn[w]}}
    /\ lease' = [lease EXCEPT ![txn[w]] = NoWorker]
    /\ CloseHandle(w)
    /\ Return(w, "error")
    /\ UNCHANGED <<public, scanner, returned, crashes, outages>>

\* The builder writes one entry into the prefix of an open transaction.
Build(w, f) ==
    /\ HasTransaction(w) /\ f \notin staging[txn[w]].built
    /\ staging' = [staging EXCEPT ![txn[w]].prefix = @ \cup {f},
                                  ![txn[w]].built = @ \cup {f}]
    /\ UNCHANGED <<leases, storeLock, sourceStage, public, pc, handle, reply, calm>>

-----------------------------------------------------------------------------
(* StoreTransaction::commit up to the rename *)

Commit(w, r) ==
    /\ HasTransaction(w) /\ LockStore(w)
    /\ goal' = [goal EXCEPT ![w] = r]
    /\ reply' = [reply EXCEPT ![w] = "none"]
    /\ Goto(w, "c_validate")
    /\ UNCHANGED <<leases, stages, public, txn, calm>>

\* lock_store fails: commit returns and its transaction is dropped.
CommitLockFails(w) ==
    /\ HasTransaction(w)
    /\ Goto(w, "drop")
    /\ reply' = [reply EXCEPT ![w] = "error"]
    /\ Fault
    /\ UNCHANGED <<leases, storeLock, stages, public, handle, scanner, returned>>

\* validate_output_tree
ValidateOutput(w) ==
    /\ pc[w] = "c_validate"
    /\ IF staging[txn[w]].prefix \cap Forbidden = {}
       THEN Goto(w, "c_sync") /\ UNCHANGED <<storeLock, reply>>
       ELSE Abort(w)
    /\ UNCHANGED <<leases, stages, public, handle, calm>>

\* One operation of commit on its own staging directory, which becomes d.
StageStep(w, from, to, d) ==
    /\ pc[w] = from
    /\ staging' = [staging EXCEPT ![txn[w]] = d]
    /\ Goto(w, to)
    /\ UNCHANGED <<leases, storeLock, sourceStage, public, handle, reply, calm>>

BrokenSyncTree(w) == StageStep(w, "c_sync", "c_meta", staging[txn[w]])
SyncTree(w) ==
    StageStep(w, "c_sync", "c_meta", [staging[txn[w]] EXCEPT !.synced = @ \cup {"tree"}])

WriteMetadata(w) ==
    StageStep(w, "c_meta", "c_syncdir", [staging[txn[w]] EXCEPT !.meta = goal[w]])

SyncStaging(w) ==
    StageStep(w, "c_syncdir", "c_check",
              [staging[txn[w]] EXCEPT !.synced = @ \cup {"meta"}])

WriteMetadataFails(w) ==
    /\ pc[w] = "c_meta"
    /\ \E m \in {NoMeta, Torn} : staging' = [staging EXCEPT ![txn[w]].meta = m]
    /\ Abort(w)
    /\ Fault
    /\ UNCHANGED <<leases, sourceStage, public, handle, scanner, returned>>

\* node_exists(destination), and validate_existing_result if it does: an existing
\* result is never overwritten.
CheckDestination(w) ==
    /\ pc[w] = "c_check"
    /\ \/ results[goal[w]] = Absent /\ Goto(w, "c_rename")
          /\ UNCHANGED <<storeLock, reply>>
       \/ Valid(results[goal[w]], goal[w]) /\ Goto(w, "c_rmstage")
          /\ UNCHANGED <<storeLock, reply>>
       \/ results[goal[w]] # Absent /\ ~Valid(results[goal[w]], goal[w]) /\ Abort(w)
    /\ UNCHANGED <<leases, stages, public, handle, calm>>

\* Copying entry by entry instead of renaming the directory.
BrokenRenameToResult(w) ==
    /\ pc[w] = "c_rename"
    /\ \E copied \in SUBSET staging[txn[w]].prefix :
         /\ results' = [results EXCEPT
                ![goal[w]] = [staging[txn[w]] EXCEPT !.prefix = copied]]
         /\ copied = staging[txn[w]].prefix => Goto(w, "c_verify") /\ RemoveStage(txn[w])
         /\ copied # staging[txn[w]].prefix => UNCHANGED <<pc, stages>>
    /\ UNCHANGED <<leases, storeLock, unsynced, handle, reply, calm>>

\* fs::rename of the whole staging directory: the commit point.
RenameToResult(w) ==
    /\ pc[w] = "c_rename"
    /\ results' = [results EXCEPT ![goal[w]] = staging[txn[w]]]
    /\ staging' = [staging EXCEPT ![txn[w]] = Absent]
    /\ unsynced' = [unsynced EXCEPT ![goal[w]] = txn[w]]
    /\ Goto(w, "c_verify")
    /\ UNCHANGED <<leases, storeLock, sourceStage, handle, reply, calm>>

\* Any operation fails that leaves the disk as it was.
CommitStepFails(w) ==
    /\ pc[w] \in {"c_validate", "c_sync", "c_syncdir", "c_check", "c_rename", "c_rmstage"}
    /\ Abort(w)
    /\ Fault
    /\ UNCHANGED <<leases, stages, public, handle, scanner, returned>>

\* The result exists already: the staging directory is redundant.
RemoveRedundantStage(w) ==
    /\ pc[w] = "c_rmstage"
    /\ RemoveStage(txn[w])
    /\ Goto(w, "c_relx")
    /\ UNCHANGED <<leases, storeLock, public, handle, reply, calm>>

\* finish_lease, then Ok(Existing).
ReturnExisting(w) ==
    /\ pc[w] = "c_relx"
    /\ Release(txn[w])
    /\ returned' = [returned EXCEPT ![goal[w]] = IF @ = "no" THEN "seen" ELSE @]
    /\ CloseHandle(w)
    /\ Return(w, "existing")
    /\ UNCHANGED <<stages, public, scanner, mishaps>>

\* finish_lease fails after it took the lease: Drop will find none to release.
ReleaseExistingFails(w) ==
    /\ pc[w] = "c_relx"
    /\ FailedRelease(txn[w])
    /\ Abort(w)
    /\ UNCHANGED <<stages, public, handle, scanner, returned>>

-----------------------------------------------------------------------------
(* StoreTransaction::commit after the rename, and fail_after_publish *)

VerifyPublished(w) ==
    /\ pc[w] = "c_verify" /\ Valid(results[goal[w]], goal[w])
    /\ Goto(w, "c_release")
    /\ UNCHANGED <<leases, storeLock, stages, public, handle, reply, calm>>

FinishLease(w) ==
    /\ pc[w] = "c_release"
    /\ Release(txn[w])
    /\ Goto(w, "c_syncroot")
    /\ UNCHANGED <<storeLock, stages, public, handle, reply, calm>>

\* sync_directory(results)
BrokenSyncResults(w) == UNCHANGED unsynced
SyncResults(w) == unsynced' = [unsynced EXCEPT ![goal[w]] = NoTxn]

ReturnPublished(w) ==
    /\ pc[w] = "c_syncroot"
    /\ SyncResults(w)
    /\ returned' = [returned EXCEPT ![goal[w]] = "published"]
    /\ CloseHandle(w)
    /\ Return(w, "published")
    /\ UNCHANGED <<leases, stages, results, scanner, mishaps>>

\* Each of the three failures leads to rollback_published_result.
BrokenPublishStepFails(w) ==
    /\ pc[w] \in {"c_verify", "c_syncroot"} /\ Fault /\ Goto(w, "rb_sync")
    /\ UNCHANGED <<leases, storeLock, stages, public, handle, reply, scanner, returned>>
PublishStepFails(w) ==
    /\ \/ pc[w] \in {"c_verify", "c_syncroot"} /\ Fault /\ UNCHANGED leases
       \/ pc[w] = "c_release" /\ FailedRelease(txn[w])
    /\ Goto(w, "rb_rm")
    /\ UNCHANGED <<storeLock, stages, public, handle, reply, scanner, returned>>

\* d after remove_dir_all deleted one more of its entries, in any order.
Shrunk(d) ==
    {[d EXCEPT !.prefix = @ \ {f}] : f \in d.prefix}
    \cup (IF d.prefix = {} THEN {[d EXCEPT !.made = FALSE]} ELSE {})
    \cup {[d EXCEPT !.meta = NoMeta]}

\* Nothing is left in the directory but itself.
Emptied(d) == ~d.made /\ d.meta = NoMeta

\* remove_dir_all on the published result: entry by entry, then the directory.
RollbackEntry(w) ==
    /\ pc[w] = "rb_rm" /\ ~Emptied(results[goal[w]])
    /\ \E d \in Shrunk(results[goal[w]]) : results' = [results EXCEPT ![goal[w]] = d]
    /\ UNCHANGED <<leases, storeLock, stages, unsynced, pc, handle, reply, calm>>

\* remove_dir_all succeeds: the directory itself is gone.  A failure ends the rollback,
\* see RollbackFails.
RollbackRoot(w) ==
    /\ pc[w] = "rb_rm" /\ Emptied(results[goal[w]])
    /\ results' = [results EXCEPT ![goal[w]] = Absent]
    /\ unsynced' = [unsynced EXCEPT ![goal[w]] = NoTxn]
    /\ Goto(w, "rb_sync")
    /\ UNCHANGED <<leases, storeLock, stages, handle, reply, calm>>

\* The removal is synced; cleanup_lease is TRUE while the transaction has its lease.
\* A lease that cannot be cleaned up turns the answer into CorruptResult.
RollbackSync(w) ==
    /\ pc[w] = "rb_sync"
    /\ \/ lease[txn[w]] # w /\ UNCHANGED <<leases, mishaps>> /\ Return(w, "error")
       \/ lease[txn[w]] = w /\ Release(txn[w]) /\ UNCHANGED mishaps /\ Return(w, "error")
       \/ lease[txn[w]] = w /\ FailedRelease(txn[w]) /\ Return(w, "corrupt")
    /\ CloseHandle(w)
    /\ UNCHANGED <<stages, public, scanner, returned>>

\* The rollback fails: the call reports CorruptResult, sets finished and leaves the
\* result as it is; a lease still held is closed, its lock file stays.
RollbackFails(w) ==
    /\ pc[w] \in {"rb_rm", "rb_sync"}
    /\ lease' = [lease EXCEPT ![txn[w]] = NoWorker]
    /\ CloseHandle(w)
    /\ Return(w, "corrupt")
    /\ Fault
    /\ UNCHANGED <<lockFile, stages, public, scanner, returned>>

-----------------------------------------------------------------------------
(* Drop of a StoreTransaction or an UnverifiedSourceStage *)

DropHandle(w) ==
    /\ Idle(w) /\ txn[w] # NoTxn
    /\ Goto(w, "drop")
    /\ reply' = [reply EXCEPT ![w] = "none"]
    /\ UNCHANGED <<leases, storeLock, stages, public, handle, calm>>

DropLock(w) ==
    /\ pc[w] = "drop" /\ LockStore(w)
    /\ Goto(w, "d_rm")
    /\ UNCHANGED <<leases, stages, public, handle, reply, calm>>

\* Without the store lock nothing is removed; the lease descriptor still closes.
DropLockFails(w) ==
    /\ pc[w] = "drop"
    /\ CloseLeases(w)
    /\ CloseHandle(w)
    /\ Goto(w, "idle")
    /\ Fault
    /\ UNCHANGED <<lockFile, storeLock, stages, public, reply, scanner, returned>>

\* `let _ = remove_dir_all`: a failure does not keep the lease file.
DropRemove(w) ==
    /\ pc[w] = "d_rm"
    /\ \/ RemoveStage(txn[w]) /\ UNCHANGED mishaps
       \/ UNCHANGED stages /\ Fault
    /\ Goto(w, "d_rel")
    /\ UNCHANGED <<leases, storeLock, public, handle, reply, scanner, returned>>

DropLease(w) ==
    /\ pc[w] = "d_rel"
    /\ \/ lease[txn[w]] # w /\ UNCHANGED <<leases, mishaps>>
       \/ lease[txn[w]] = w /\ Release(txn[w]) /\ UNCHANGED mishaps
       \/ lease[txn[w]] = w /\ FailedRelease(txn[w])
    /\ CloseHandle(w)
    /\ Return(w, reply[w])
    /\ UNCHANGED <<stages, public, scanner, returned>>

-----------------------------------------------------------------------------
(* Store::get and Store::recover_abandoned *)

\* The answers None and Err, and a second look, change nothing.
BrokenGet(w, r) ==
    /\ Idle(w) /\ Valid(results[r], r) /\ returned[r] = "no"
    /\ returned' = [returned EXCEPT ![r] = "seen"]
    /\ UNCHANGED <<leases, storeLock, stages, public, pc, handle, reply, scanner, mishaps>>
Get(w, r) ==
    /\ Idle(w) /\ storeLock = NoWorker
    /\ Valid(results[r], r) /\ returned[r] = "no"
    /\ returned' = [returned EXCEPT ![r] = "seen"]
    /\ UNCHANGED <<leases, storeLock, stages, public, pc, handle, reply, scanner, mishaps>>

\* The entries read_dir lists in a root.  A lease file is of interest only if its
\* transaction has no directory in either staging root.
BrokenEntries(root) ==
    IF root = "leases" THEN {t \in lockFile : ~Staged(t)}
    ELSE {t \in TxnId : staging[t] # Absent}
Entries(root) ==
    CASE root = "results" -> {t \in TxnId : staging[t] # Absent}
      [] root = "sources" -> sourceStage
      [] root = "leases"  -> {t \in lockFile : ~Staged(t)}

\* An entry whose name is no transaction identifier is taken for one.
ReadRoot(w, root) ==
    /\ scan' = [scan EXCEPT ![w] = root]
    /\ todo' = [todo EXCEPT ![w] = Entries(root)]

RecoverStart(w) ==
    /\ Idle(w) /\ LockStore(w)
    /\ ReadRoot(w, "results")
    /\ doomed' = [doomed EXCEPT ![w] =
                    {t \in TxnId : (Staged(t) \/ t \in lockFile) /\ lease[t] = NoWorker}]
    /\ Goto(w, "r_scan")
    /\ reply' = [reply EXCEPT ![w] = "none"]
    /\ UNCHANGED <<leases, stages, public, handle, cur, returned, mishaps>>

\* open_existing_lock_file and try_lock: a lease somebody holds is skipped.  A lease
\* file without a directory goes straight to its removal.
RecoverEntry(w) ==
    /\ pc[w] = "r_scan"
    /\ \E t \in todo[w] \cap lockFile :
         /\ todo' = [todo EXCEPT ![w] = @ \ {t}]
         /\ \/ ~Unlocked(t) /\ UNCHANGED <<lease, cur, pc>>
            \/ /\ Unlocked(t)
               /\ lease' = [lease EXCEPT ![t] = w]
               /\ cur' = [cur EXCEPT ![w] = t]
               /\ Goto(w, IF scan[w] = "leases" THEN "r_rel" ELSE "r_rm")
    /\ UNCHANGED <<lockFile, storeLock, stages, public, handle, reply, scan, doomed,
                   returned, mishaps>>

\* Recovery returns, closing the lease it may have locked.
StopRecovery(w, outcome) ==
    /\ lease' = [t \in TxnId |-> IF t = cur[w] THEN NoWorker ELSE lease[t]]
    /\ scan' = [scan EXCEPT ![w] = "results"]
    /\ todo' = [todo EXCEPT ![w] = {}]
    /\ cur' = [cur EXCEPT ![w] = NoTxn]
    /\ doomed' = [doomed EXCEPT ![w] = {}]
    /\ Return(w, outcome)

\* A staging directory whose lease file is gone stops the whole recovery.
RecoverMissingLease(w) ==
    /\ pc[w] = "r_scan" /\ todo[w] \ lockFile # {}
    /\ StopRecovery(w, "error")
    /\ UNCHANGED <<lockFile, stages, public, handle, returned, mishaps>>

\* Removing the lease file before the directory it stands for.
BrokenRecoverRemove(w) ==
    /\ pc[w] = "r_rm" /\ Goto(w, "r_rel") /\ lockFile' = lockFile \ {cur[w]}
    /\ UNCHANGED <<lease, storeLock, stages, public, handle, reply, calm>>
RecoverRemove(w) ==
    /\ pc[w] = "r_rm"
    /\ RemoveStage(cur[w])
    /\ Goto(w, "r_rel")
    /\ UNCHANGED <<leases, storeLock, public, handle, reply, calm>>

RecoverRelease(w) ==
    /\ pc[w] = "r_rel"
    /\ Release(cur[w])
    /\ cur' = [cur EXCEPT ![w] = NoTxn]
    /\ Goto(w, "r_scan")
    /\ UNCHANGED <<storeLock, stages, public, handle, reply, scan, todo, doomed,
                   returned, mishaps>>

RecoverFails(w) ==
    /\ \/ pc[w] \in {"r_scan", "r_rm"} /\ UNCHANGED lockFile
       \/ pc[w] = "r_rel" /\ lockFile' \in {lockFile, lockFile \ {cur[w]}}
    /\ StopRecovery(w, "error")
    /\ Fault
    /\ UNCHANGED <<stages, public, handle, returned>>

\* From .staging to .source-staging, and then to the lease files left over.
RecoverNextRoot(w) ==
    /\ pc[w] = "r_scan" /\ todo[w] = {}
    /\ \/ scan[w] = "results" /\ ReadRoot(w, "sources")
       \/ scan[w] = "sources" /\ ReadRoot(w, "leases")
    /\ UNCHANGED <<leases, storeLock, stages, public, pc, handle, reply, cur, doomed,
                   returned, mishaps>>

RecoverDone(w) ==
    /\ pc[w] = "r_scan" /\ todo[w] = {} /\ scan[w] = "leases"
    /\ StopRecovery(w, "recovered")
    /\ UNCHANGED <<lockFile, stages, public, handle, returned, mishaps>>

-----------------------------------------------------------------------------
(* The environment *)

\* A process dies: its locks are released, the files stay.
Crash(w) ==
    /\ pc[w] # "idle" \/ txn[w] # NoTxn
    /\ crashes + outages < MaxCrashes
    /\ crashes' = crashes + 1
    /\ storeLock' = IF storeLock = w THEN NoWorker ELSE storeLock
    /\ CloseLeases(w)
    /\ CloseHandle(w)
    /\ Goto(w, "idle")
    /\ reply' = [reply EXCEPT ![w] = "none"]
    /\ scan' = [scan EXCEPT ![w] = "results"]
    /\ todo' = [todo EXCEPT ![w] = {}]
    /\ cur' = [cur EXCEPT ![w] = NoTxn]
    /\ doomed' = [doomed EXCEPT ![w] = {}]
    /\ UNCHANGED <<lockFile, stages, public, returned, faults, outages>>

\* What an outage leaves of a directory whose contents were not all synced.
AfterOutage(d, lost) ==
    IF d = Absent THEN d
    ELSE [d EXCEPT !.prefix = IF "tree" \in d.synced THEN @ ELSE @ \ lost,
                   !.meta = IF "meta" \in d.synced THEN @ ELSE NoMeta]

\* The machine loses power: every process dies, and a rename that was not synced
\* may be undone, which brings the staging directory back.
PowerLoss ==
    /\ outages < MaxOutages /\ crashes + outages < MaxCrashes
    /\ outages' = outages + 1
    /\ \E undone \in SUBSET {r \in ResultId : unsynced[r] # NoTxn}, lost \in SUBSET File :
         /\ results' = [r \in ResultId |->
                IF r \in undone THEN Absent ELSE AfterOutage(results[r], lost)]
         /\ staging' = [t \in TxnId |->
                IF \E r \in undone : unsynced[r] = t
                THEN results[CHOOSE r \in undone : unsynced[r] = t]
                ELSE staging[t]]
         /\ returned' = [r \in ResultId |->
                IF r \in undone /\ returned[r] = "seen" THEN "no" ELSE returned[r]]
    /\ unsynced' = [r \in ResultId |-> NoTxn]
    /\ storeLock' = NoWorker
    /\ lease' = [t \in TxnId |-> NoWorker]
    /\ pc' = [w \in Worker |-> "idle"]
    /\ txn' = [w \in Worker |-> NoTxn]
    /\ goal' = [w \in Worker |-> NoResult]
    /\ reply' = [w \in Worker |-> "none"]
    /\ scan' = [w \in Worker |-> "results"]
    /\ todo' = [w \in Worker |-> {}]
    /\ cur' = [w \in Worker |-> NoTxn]
    /\ doomed' = [w \in Worker |-> {}]
    /\ UNCHANGED <<lockFile, sourceStage, faults, crashes>>

-----------------------------------------------------------------------------
\* What the code does next inside a call.
Proceed(w) ==
    \/ BeginStage(w) \/ BeginPrefix(w) \/ BeginSource(w)
    \/ BeginRetries(w) \/ BeginFails(w)
    \/ ValidateOutput(w) \/ SyncTree(w) \/ WriteMetadata(w) \/ SyncStaging(w)
    \/ CheckDestination(w) \/ RenameToResult(w)
    \/ RemoveRedundantStage(w) \/ ReturnExisting(w)
    \/ VerifyPublished(w) \/ FinishLease(w) \/ ReturnPublished(w)
    \/ RollbackEntry(w) \/ RollbackRoot(w) \/ RollbackSync(w)
    \/ DropRemove(w) \/ DropLease(w)
    \/ RecoverEntry(w) \/ RecoverMissingLease(w) \/ RecoverRemove(w)
    \/ RecoverRelease(w) \/ RecoverNextRoot(w) \/ RecoverDone(w)

\* What a caller may ask for.
Call(w) ==
    \/ BeginLease(w, "b_stage") \/ BeginLease(w, "s_stage")
    \/ \E f \in File : Build(w, f)
    \/ \E r \in ResultId : Commit(w, r) \/ Get(w, r)
    \/ DropHandle(w)
    \/ RecoverStart(w)

\* A file-system operation fails.
Fail(w) ==
    \/ BeginLeaseFails(w) \/ BeginUndoFails(w)
    \/ CommitLockFails(w) \/ CommitStepFails(w)
    \/ WriteMetadataFails(w) \/ ReleaseExistingFails(w) \/ PublishStepFails(w)
    \/ RollbackFails(w) \/ DropLockFails(w) \/ RecoverFails(w)

Next ==
    \/ \E w \in Worker : Proceed(w) \/ DropLock(w) \/ Call(w) \/ Fail(w) \/ Crash(w)
    \/ PowerLoss

Spec == Init /\ [][Next]_vars

\* A call that holds the store lock runs on, and a blocked flock is granted if the
\* lock is free again and again: each release wakes the waiters.
Fairness == \A w \in Worker : WF_vars(Proceed(w)) /\ SF_vars(DropLock(w))

FairSpec == Spec /\ Fairness

-----------------------------------------------------------------------------
(* Safety *)

\* A transaction or source stage a caller holds keeps its staging directory and its
\* lease, whatever other processes begin, drop, commit or recover meanwhile: the
\* leased entry is the one recover_staging_root skips.
LiveTransactionKept ==
    \A w \in Worker : pc[w] = "idle" /\ txn[w] # NoTxn =>
        Staged(txn[w]) /\ lease[txn[w]] = w /\ txn[w] \in lockFile

\* Only the holder of the store lock is between two steps of a locked operation,
\* so a result that is being published or rolled back is seen by nobody.
StoreLockProtects ==
    \A w \in Worker : pc[w] \in LockedPc => storeLock = w

\* Under the store lock the destination that node_exists found absent is still
\* absent at the rename: a committed result is never overwritten, and the branch
\* for a raced rename has nothing to find.
RenameOntoNothing ==
    \A w \in Worker : pc[w] = "c_rename" => results[goal[w]] = Absent

\* A result that get or commit accepts once the store lock is free holds
\* everything the builder wrote.
AcceptedResultComplete ==
    storeLock = NoWorker =>
        \A r \in ResultId : Valid(results[r], r) => Complete(results[r])

\* Every staging directory has the lease file recovery needs to collect it.
StagingCollectable ==
    \A t \in TxnId : Staged(t) => t \in lockFile

\* A result handed to a caller, by get or as the outcome of commit, is never
\* removed, replaced or changed by any later step; only an outage is excepted.
ReturnedResultKept ==
    \A r \in ResultId : returned[r] # "no" =>
        results'[r] = results[r] \/ outages' # outages

\* A result whose commit answered Published survives even an outage unchanged:
\* content, metadata and directory entry were synced before the answer.
PublishedSurvivesOutage ==
    \A r \in ResultId : returned[r] = "published" => results'[r] = results[r]

\* A recovery that succeeds has collected whatever was abandoned when it began.
RecoveryCollects ==
    \A w \in Worker : pc[w] \in RecoverPc /\ reply'[w] = "recovered" =>
        \A t \in doomed[w] : ~Staged(t) /\ t \notin lockFile

\* A commit that took the rollback path and reports the error that led there leaves no
\* result that get would accept; a rollback that failed as well answers CorruptResult.
FailedCommitLeavesNoResult ==
    \A w \in Worker : pc[w] \in PublishPc /\ pc'[w] = "idle" /\ reply'[w] = "error" =>
        ~Valid(results'[goal[w]], goal[w])

ReturnedResultKeptProp == [][ReturnedResultKept]_vars
PublishedSurvivesOutageProp == [][PublishedSurvivesOutage]_vars
RecoveryCollectsProp == [][RecoveryCollects]_vars
FailedCommitLeavesNoResultProp == [][FailedCommitLeavesNoResult]_vars

(* Liveness *)

\* Every call returns: in particular a commit that fails early can take the store
\* lock again in Drop, which it could not while its own guard is alive.
EveryCallReturns == \A w \in Worker : pc[w] # "idle" ~> pc[w] = "idle"

-----------------------------------------------------------------------------
(* Refinement of ResultStore, the store a caller sees *)

\* What a reader makes of a result directory.  While its publisher still holds the
\* store lock nobody can look, so the result is not there yet.
Shown(r) ==
    IF ~Valid(results[r], r) \/ \E w \in Worker : pc[w] \in PublishPc /\ goal[w] = r
    THEN "nothing"
    ELSE IF Complete(results[r]) THEN "tree" ELSE "damaged"

\* What becomes visible of a result lacks entries of the builder's tree only at the step
\* that cuts rollback_published_result short in the middle of removing that very result:
\* a death of its process, an outage, or a removal that fails.  No other failure, death,
\* outage or interleaving makes an incomplete tree acceptable.
TornOnlyByRollback ==
    \A r \in ResultId : Shown(r)' = "damaged" /\ Shown(r) # "damaged" =>
        \E w \in Worker : pc[w] = "rb_rm" /\ goal[w] = r /\ pc'[w] = "idle"

TornOnlyByRollbackProp == [][TornOnlyByRollback]_vars

ShownTree == [r \in ResultId |->
    [state |-> Shown(r), tree |-> IF Shown(r) = "nothing" THEN {} ELSE results[r].prefix]]

Abstract == INSTANCE ResultStore WITH
    Tree <- SUBSET (File \ Forbidden), shown <- ShownTree

\* The transactional store implements the abstract one.
ImplementsResultStore == Abstract!Spec

=============================================================================
