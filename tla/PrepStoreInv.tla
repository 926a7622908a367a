---------------------------- MODULE PrepStoreInv ----------------------------
(* The inductive invariant of PrepStore, checked by TLC and used by the proofs. *)
EXTENDS PrepStore

\* Program counters of a call that works on the caller's own transaction.
TxnPc == {"b_stage", "s_stage", "b_prefix", "drop", "d_rm", "d_rel"} \cup CommitPc

\* Up to the rename, commit works on a staging directory.
DirPc == {"b_prefix", "c_validate", "c_sync", "c_meta", "c_syncdir", "c_check",
          "c_rename"}

StagedPc == {"idle", "c_rmstage"} \cup RecoverPc \cup DirPc

LeasePc == {"b_stage", "s_stage"} \cup StagedPc

\* Who holds which transaction, directory and lease.  The lease is held until the
\* staging directory is gone, and a recovery holds the lease of what it removes.
Ownership ==
    /\ \A w \in Worker : pc[w] \in TxnPc => txn[w] \in TxnId
    /\ \A w \in Worker : pc[w] \in CommitPc => goal[w] \in ResultId
    /\ \A w, v \in Worker : w # v /\ txn[w] # NoTxn => txn[w] # txn[v]
    /\ \A w \in Worker : pc[w] \in LeasePc /\ txn[w] # NoTxn =>
         lease[txn[w]] = w /\ txn[w] \in lockFile
    /\ \A w \in Worker : pc[w] \in StagedPc /\ txn[w] # NoTxn => Staged(txn[w])
    /\ \A w \in Worker : pc[w] \in DirPc => staging[txn[w]] # Absent
    /\ \A w \in Worker :
         IF pc[w] \in {"r_rm", "r_rel"}
         THEN cur[w] \in TxnId /\ lease[cur[w]] = w /\ cur[w] # txn[w]
         ELSE cur[w] = NoTxn

AllSynced == {"tree", "meta"}

\* What is known of results that were returned, are being published or are about to
\* be renamed.
Publication ==
    /\ \A r \in ResultId : returned[r] # "no" => results[r] # Absent
    /\ \A r \in ResultId : returned[r] = "published" => unsynced[r] = NoTxn
    /\ \A r \in ResultId : results[r] # Absent => results[r].synced = AllSynced
    /\ \A w \in Worker : pc[w] \in PublishPc => returned[goal[w]] = "no"
    /\ \A w \in Worker :
         pc[w] \in {"c_rmstage", "c_relx"} \cup (PublishPc \ {"rb_sync"}) =>
            results[goal[w]] # Absent
    /\ \A w \in Worker : pc[w] \in {"c_meta", "c_syncdir"} =>
         "tree" \in staging[txn[w]].synced
    /\ \A w \in Worker : pc[w] \in {"c_check", "c_rename"} =>
         staging[txn[w]].synced = AllSynced
    /\ RenameOntoNothing

\* The inductive invariant: types, the store lock, who owns which directory and lease,
\* and what publication has established.
IInv == TypeOK /\ StoreLockProtects /\ Ownership /\ Publication

RollingPc == {"rb_rm", "rb_sync"}

\* A failed operation, and one more mishap of any kind.
TwoMishaps == faults > 0 /\ faults + crashes + outages > 1

Whole(d) == d = Absent \/ Complete(d)

\* Only a rollback takes entries out of a directory, and only a failed operation starts
\* one.  While it runs nobody can look, so that it takes a second mishap for a result
\* with less than its builder wrote to stay behind.
Aftermath ==
    /\ \A w \in Worker : pc[w] \in RollingPc => faults > 0
    /\ \A w \in Worker : pc[w] = "rb_sync" => results[goal[w]] = Absent
    /\ \A t \in TxnId : Whole(staging[t]) \/ TwoMishaps
    /\ \A r \in ResultId : \/ Whole(results[r]) \/ TwoMishaps
                           \/ \E w \in Worker : pc[w] = "rb_rm" /\ goal[w] = r

\* Whatever mishaps there are, the directory of an open transaction lacks nothing, nor
\* does the result it becomes until a rollback of that result begins.
Wholeness ==
    /\ \A w \in Worker : pc[w] \in StagedPc /\ txn[w] # NoTxn => Whole(staging[txn[w]])
    /\ \A w \in Worker : pc[w] \in PublishPc \ RollingPc => Whole(results[goal[w]])

\* Entries a recovery has listed and not yet dealt with.
Pending(w) == todo[w] \cup {cur[w]}

\* What a recovery has still to do for the abandoned transactions it began with: their
\* leases stay free for it, what earlier roots held is gone, and what the root at hand
\* holds is listed.
Scanning ==
    \A w \in Worker : pc[w] \in RecoverPc =>
      /\ reply[w] # "recovered"
      /\ pc[w] = "r_rel" => ~Staged(cur[w])
      /\ scan[w] = "leases" => \A t \in todo[w] : ~Staged(t)
      /\ \A t \in doomed[w] :
           /\ lease[t] = NoWorker \/ t = cur[w]
           /\ scan[w] = "results" => staging[t] = Absent \/ t \in Pending(w)
           /\ scan[w] = "sources" => staging[t] = Absent
           /\ scan[w] = "sources" => t \notin sourceStage \/ t \in Pending(w)
           /\ scan[w] = "leases" => ~Staged(t)
           /\ scan[w] = "leases" => t \notin lockFile \/ t \in Pending(w)

BarePc == {"b_stage", "s_stage", "d_rel", "c_relx"} \cup PublishPc

\* While nothing but processes has failed, a lease file goes after the directory it stands
\* for: the calls that are about to remove one have no directory left.
Collectable ==
    faults = 0 /\ outages = 0 =>
      /\ StagingCollectable
      /\ \A w \in Worker : pc[w] \in BarePc => ~Staged(txn[w])
      /\ \A w \in Worker : pc[w] \in CommitPc => txn[w] \notin sourceStage
==============================================================================
