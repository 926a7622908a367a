----------------------------- MODULE SourceCache -----------------------------
(***************************************************************************)
(* Source archives in crates/prep-store.  A process leases a stage, spools  *)
(* an archive into it, and copies it under its digest into the cache all    *)
(* processes share.  Threads of the process may use one stage at a time     *)
(* together.  Leases are those of PrepStore: here a stage has an owner, or  *)
(* none once its process died.                                              *)
(***************************************************************************)
EXTENDS Naturals

CONSTANTS
    Thread, Process, Home,   \* threads, processes, the process of a thread
    Stage,                   \* directories under .source-staging
    Digest,                  \* archives and, one to one, their digests
    MaxFaults, MaxCrashes, MaxOutages, MaxScribbles,  \* bounds on failed
                             \* operations, process deaths, power losses and
                             \* changes others make to a staged archive
    NoThread, NoProcess, NoStage, NoDigest, Absent    \* model values

ASSUME HomeAssumption == Home \in [Thread -> Process]

ASSUME NoneAssumption ==
    /\ NoThread \notin Thread /\ NoProcess \notin Process
    /\ NoStage \notin Stage /\ NoDigest \notin Digest

ASSUME CountAssumption ==
    {MaxFaults, MaxCrashes, MaxOutages, MaxScribbles} \subseteq Nat

\* A file: the archive it is from, whether it is all of it, whether it was synced.
Content == [data : Digest, whole : BOOLEAN, synced : BOOLEAN]

ASSUME ContentAssumption == Absent \notin Content

VARIABLES
    owner,      \* the process that leases a stage
    leaseFile,  \* stages whose .locks/<id>.lock exists
    staged,     \* stages whose directory exists
    part, blob, \* archive.part and archive.blob of a stage
    tree,       \* stages that have their tree directory
    cachePart,  \* cache.part of a stage
    linkOf,     \* the cached blob that is a second link to cache.part
    cached,     \* sources/sha256/<digest>
    storeLock,  \* holder of the flock on .store.lock
    pc,         \* where a thread is; "idle" between calls
    use, want,  \* stage and digest its call is about
    bytes,      \* what the call has read
    reply,      \* whether its last cache_source_blob answered Ok
    faults, crashes, outages, scribbles

stages == <<owner, leaseFile, staged, part, blob, tree, cachePart, linkOf>>
call   == <<pc, use, want, bytes, reply>>
counts == <<faults, crashes, outages, scribbles>>
vars   == <<stages, cached, storeLock, call, counts>>

\* Between two steps of these the store lock is held.
HeldPc == {"ca_look", "ca_part", "ca_write", "ca_link", "ca_clean"}

Init ==
    /\ owner = [s \in Stage |-> NoProcess]
    /\ leaseFile = {} /\ staged = {} /\ tree = {}
    /\ part = [s \in Stage |-> Absent]
    /\ blob = [s \in Stage |-> Absent]
    /\ cachePart = [s \in Stage |-> Absent]
    /\ linkOf = [s \in Stage |-> NoDigest]
    /\ cached = [d \in Digest |-> Absent]
    /\ storeLock = NoThread
    /\ pc = [w \in Thread |-> "idle"]
    /\ use = [w \in Thread |-> NoStage]
    /\ want = [w \in Thread |-> NoDigest]
    /\ bytes = [w \in Thread |-> Absent]
    /\ reply = [w \in Thread |-> "no"]
    /\ faults = 0 /\ crashes = 0 /\ outages = 0 /\ scribbles = 0

-----------------------------------------------------------------------------
(* Helpers *)

Partial(d)  == [data |-> d, whole |-> FALSE, synced |-> FALSE]
Archive(d)  == [data |-> d, whole |-> TRUE, synced |-> FALSE]

\* The bytes of c have the digest d.
Matches(c, d) == c # Absent /\ c.whole /\ c.data = d

\* read_cached_source_blob finds the blob: one link (verify_open_file_identity) and
\* the right digest.  A lookup changes nothing and is no action.
Readable(d) == Matches(cached[d], d) /\ \A s \in Stage : linkOf[s] # d

Goto(w, label) == pc' = [pc EXCEPT ![w] = label]

Fault == faults < MaxFaults /\ faults' = faults + 1
         /\ UNCHANGED <<crashes, outages, scribbles>>

Idle(w) == pc[w] = "idle"
Leased(w, s) == s \in staged /\ owner[s] = Home[w]

Return(w, outcome) ==
    /\ Goto(w, "idle")
    /\ use' = [use EXCEPT ![w] = NoStage]
    /\ want' = [want EXCEPT ![w] = NoDigest]
    /\ bytes' = [bytes EXCEPT ![w] = Absent]
    /\ reply' = [reply EXCEPT ![w] = outcome]

RemoveEntries(s) ==
    /\ tree' = tree \ {s}
    /\ part' = [part EXCEPT ![s] = Absent]
    /\ blob' = [blob EXCEPT ![s] = Absent]
    /\ cachePart' = [cachePart EXCEPT ![s] = Absent]
    /\ linkOf' = [linkOf EXCEPT ![s] = NoDigest]

\* remove_dir_all
RemoveStage(s) == staged' = staged \ {s} /\ RemoveEntries(s)

-----------------------------------------------------------------------------
(* Leasing, dropping and recovering a stage *)

Begin(w, s) ==
    /\ Idle(w) /\ storeLock = NoThread /\ s \notin staged
    /\ staged' = staged \cup {s}
    /\ leaseFile' = leaseFile \cup {s}
    /\ owner' = [owner EXCEPT ![s] = Home[w]]
    /\ UNCHANGED <<part, blob, tree, cachePart, linkOf, cached, storeLock, call, counts>>

\* The owner drops the stage: nobody borrows it any more.
Dropping(w, s) ==
    /\ Idle(w) /\ Leased(w, s) /\ \A v \in Thread : use[v] # s
    /\ owner' = [owner EXCEPT ![s] = NoProcess]

Drop(w, s) ==
    /\ Dropping(w, s) /\ storeLock = NoThread
    /\ RemoveStage(s)
    /\ leaseFile' = leaseFile \ {s}
    /\ UNCHANGED <<cached, storeLock, call, counts>>

\* Without the store lock nothing is removed, and the lease is merely closed.  With it,
\* `let _ =` ignores a remove_dir_all that fails: the lease file goes, the directory
\* stays, and no recovery will collect it.  Of what is left in it only cache.part still
\* matters, so that all entries or none stand for any remainder.
DropFails(w, s) ==
    /\ Dropping(w, s) /\ Fault
    /\ \/ UNCHANGED <<leaseFile, part, blob, tree, cachePart, linkOf>>
       \/ /\ storeLock = NoThread
          /\ leaseFile' = leaseFile \ {s}
          /\ RemoveEntries(s) \/ UNCHANGED <<part, blob, tree, cachePart, linkOf>>
    /\ UNCHANGED <<staged, cached, storeLock, call>>

\* recover_abandoned removes a stage that has a lease file nobody locks.
Recover(w, s) ==
    /\ Idle(w) /\ storeLock = NoThread
    /\ s \in staged \cap leaseFile /\ owner[s] = NoProcess
    /\ RemoveStage(s)
    /\ leaseFile' = leaseFile \ {s}
    /\ UNCHANGED <<owner, cached, storeLock, call, counts>>

\* Exactly one tree is created under a stage; mkdirat refuses a second.
BeginTree(w, s) ==
    /\ Idle(w) /\ storeLock = NoThread /\ Leased(w, s) /\ s \notin tree
    /\ tree' = tree \cup {s}
    /\ UNCHANGED <<owner, leaseFile, staged, part, blob, cachePart, linkOf, cached, storeLock,
                   call, counts>>

-----------------------------------------------------------------------------
(* spool_unverified_archive *)

\* create_new of archive.part, unless an archive is staged already; a call that is
\* refused changes nothing.  The store lock is dropped before the transfer.
BrokenPartIsFree(s) == blob[s] = Absent
PartIsFree(s) == blob[s] = Absent /\ part[s] = Absent

SpoolStart(w, s, d) ==
    /\ Idle(w) /\ storeLock = NoThread /\ Leased(w, s) /\ PartIsFree(s)
    /\ part' = [part EXCEPT ![s] = Partial(d)]
    /\ Goto(w, "sp_copy")
    /\ use' = [use EXCEPT ![w] = s]
    /\ reply' = [reply EXCEPT ![w] = "no"]
    /\ UNCHANGED <<owner, leaseFile, staged, blob, tree, cachePart, linkOf, cached, storeLock,
                   want, bytes, counts>>

\* The stream ends within the maximum; sync_all.
SpoolCopy(w) ==
    /\ pc[w] = "sp_copy"
    /\ part' = [part EXCEPT ![use[w]] = [@ EXCEPT !.whole = TRUE, !.synced = TRUE]]
    /\ Goto(w, "sp_done")
    /\ UNCHANGED <<owner, leaseFile, staged, blob, tree, cachePart, linkOf, cached, storeLock,
                   use, want, bytes, reply, counts>>

\* The stream breaks off or exceeds the maximum, or an operation fails later.
SpoolBreaks(w) ==
    /\ \/ pc[w] = "sp_copy" /\ UNCHANGED counts
       \/ pc[w] = "sp_done" /\ Fault
    /\ Goto(w, "sp_undo")
    /\ UNCHANGED <<stages, cached, storeLock, use, want, bytes, reply>>

\* `let _ = remove_file`: without the store lock, and a failure is ignored.
SpoolUndo(w) ==
    /\ pc[w] = "sp_undo"
    /\ \/ part' = [part EXCEPT ![use[w]] = Absent] /\ UNCHANGED counts
       \/ UNCHANGED part /\ Fault
    /\ Return(w, "no")
    /\ UNCHANGED <<owner, leaseFile, staged, blob, tree, cachePart, linkOf, cached, storeLock>>

\* The lock again, a second look for archive.blob, and the rename.  The look finds
\* none: archive.part has been this call's alone since create_new.
SpoolComplete(w) ==
    /\ pc[w] = "sp_done" /\ storeLock = NoThread /\ blob[use[w]] = Absent
    /\ blob' = [blob EXCEPT ![use[w]] = part[use[w]]]
    /\ part' = [part EXCEPT ![use[w]] = Absent]
    /\ Return(w, "no")
    /\ UNCHANGED <<owner, leaseFile, staged, tree, cachePart, linkOf, cached, storeLock,
                   counts>>

-----------------------------------------------------------------------------
(* cache_source_blob and read_cached_source_blob *)

\* open_unverified_archive takes the lock and gives it back; the bytes are read from
\* the descriptor and compared with the digest; if they differ the call is refused.
BrokenCacheRead(w, s, d) ==
    /\ Idle(w) /\ storeLock = NoThread /\ Leased(w, s) /\ Matches(blob[s], d)
    /\ storeLock' = w
    /\ Goto(w, "ca_lock")
    /\ use' = [use EXCEPT ![w] = s]
    /\ want' = [want EXCEPT ![w] = d]
    /\ bytes' = [bytes EXCEPT ![w] = Archive(d)]
    /\ UNCHANGED <<stages, cached, reply, counts>>
CacheRead(w, s, d) ==
    /\ Idle(w) /\ storeLock = NoThread /\ Leased(w, s) /\ Matches(blob[s], d)
    /\ Goto(w, "ca_lock")
    /\ use' = [use EXCEPT ![w] = s]
    /\ want' = [want EXCEPT ![w] = d]
    /\ bytes' = [bytes EXCEPT ![w] = Archive(d)]
    /\ reply' = [reply EXCEPT ![w] = "no"]
    /\ UNCHANGED <<stages, cached, storeLock, counts>>

CacheLock(w) ==
    /\ pc[w] = "ca_lock" /\ storeLock = NoThread
    /\ storeLock' = w
    /\ Goto(w, "ca_look")
    /\ UNCHANGED <<stages, cached, use, want, bytes, reply, counts>>

\* Cached already: nothing to do.  A blob that cannot be read, or is not what its
\* name says, is an error and is never replaced.
BrokenCacheLook(w) ==
    /\ pc[w] = "ca_look"
    /\ cached' = [cached EXCEPT ![want[w]] = Absent]
    /\ linkOf' = [s \in Stage |-> IF linkOf[s] = want[w] THEN NoDigest ELSE linkOf[s]]
    /\ Goto(w, "ca_part")
    /\ UNCHANGED <<owner, leaseFile, staged, part, blob, tree, cachePart, storeLock,
                   use, want, bytes, reply, counts>>
CacheLook(w) ==
    LET d == want[w] IN
    /\ pc[w] = "ca_look"
    /\ \/ /\ cached[d] = Absent
          /\ Goto(w, "ca_part")
          /\ UNCHANGED <<storeLock, use, want, bytes, reply>>
       \/ /\ cached[d] # Absent
          /\ Return(w, IF Readable(d) THEN "ok" ELSE "no")
          /\ storeLock' = NoThread
    /\ UNCHANGED <<stages, cached, counts>>

\* create_new: a cache.part left by an earlier call is an error, and stays.
CachePart(w) ==
    /\ pc[w] = "ca_part"
    /\ \/ /\ cachePart[use[w]] = Absent
          /\ cachePart' = [cachePart EXCEPT ![use[w]] = Partial(want[w])]
          /\ Goto(w, "ca_write")
          /\ UNCHANGED <<storeLock, use, want, bytes, reply>>
       \/ /\ cachePart[use[w]] # Absent
          /\ UNCHANGED cachePart
          /\ Return(w, "no")
          /\ storeLock' = NoThread
    /\ UNCHANGED <<owner, leaseFile, staged, part, blob, tree, linkOf, cached, counts>>

\* What the call read is written, not what the stage holds now; then sync_all.
BrokenWritten(w) == [blob[use[w]] EXCEPT !.synced = TRUE]
Written(w) == [bytes[w] EXCEPT !.synced = TRUE]

CacheWrite(w) ==
    /\ pc[w] = "ca_write"
    /\ cachePart' = [cachePart EXCEPT ![use[w]] = Written(w)]
    /\ Goto(w, "ca_link")
    /\ UNCHANGED <<owner, leaseFile, staged, part, blob, tree, linkOf, cached, storeLock,
                   use, want, bytes, reply, counts>>

\* hard_link publishes the file, and never replaces one: at AlreadyExists the blob that
\* is there is read, and what it is decides the answer.  The store lock has been held
\* since CacheLook found none, so this does not happen.
CacheLink(w) ==
    LET d == want[w]
        free == cached[d] = Absent
    IN
    /\ pc[w] = "ca_link"
    /\ cached' = [cached EXCEPT ![d] = IF free THEN cachePart[use[w]] ELSE @]
    /\ linkOf' = [linkOf EXCEPT ![use[w]] = IF free THEN d ELSE @]
    /\ reply' = [reply EXCEPT ![w] = IF free \/ Readable(d) THEN "ok" ELSE "no"]
    /\ Goto(w, "ca_clean")
    /\ UNCHANGED <<owner, leaseFile, staged, part, blob, tree, cachePart, storeLock,
                   use, want, bytes, counts>>

\* Writing or linking fails: write_result is an error, cache.part is removed next.
CacheStepFails(w) ==
    /\ pc[w] \in {"ca_write", "ca_link"}
    /\ reply' = [reply EXCEPT ![w] = "no"]
    /\ Goto(w, "ca_clean")
    /\ Fault
    /\ UNCHANGED <<stages, cached, storeLock, use, want, bytes>>

\* remove_file(cache.part); its own failure is reported too.
BrokenCleanupAnswer(w) == reply[w]
CleanupAnswer(w) == "no"

BrokenCacheClean(w) ==
    /\ pc[w] = "ca_clean"
    /\ Return(w, reply[w])
    /\ storeLock' = NoThread
    /\ UNCHANGED <<stages, cached, counts>>
CacheClean(w) ==
    /\ pc[w] = "ca_clean"
    /\ \/ /\ cachePart' = [cachePart EXCEPT ![use[w]] = Absent]
          /\ linkOf' = [linkOf EXCEPT ![use[w]] = NoDigest]
          /\ Return(w, reply[w])
          /\ UNCHANGED counts
       \/ /\ UNCHANGED <<cachePart, linkOf>>
          /\ Return(w, CleanupAnswer(w))
          /\ Fault
    /\ storeLock' = NoThread
    /\ UNCHANGED <<owner, leaseFile, staged, part, blob, tree, cached>>

-----------------------------------------------------------------------------
(* The environment *)

\* The staged archive is an untrusted file: others may exchange it at any time.
Scribble(s, d) ==
    /\ blob[s] # Absent /\ scribbles < MaxScribbles
    /\ scribbles' = scribbles + 1
    /\ blob' = [blob EXCEPT ![s] = Archive(d)]
    /\ UNCHANGED <<owner, leaseFile, staged, part, tree, cachePart, linkOf, cached, storeLock,
                   call, faults, crashes, outages>>

\* The threads of the processes in dead stop where they are; locks and leases go.
Die(dead) ==
    LET gone == {w \in Thread : Home[w] \in dead} IN
    /\ owner' = [s \in Stage |-> IF owner[s] \in dead THEN NoProcess ELSE owner[s]]
    /\ storeLock' = IF storeLock \in gone THEN NoThread ELSE storeLock
    /\ pc' = [w \in Thread |-> IF w \in gone THEN "idle" ELSE pc[w]]
    /\ use' = [w \in Thread |-> IF w \in gone THEN NoStage ELSE use[w]]
    /\ want' = [w \in Thread |-> IF w \in gone THEN NoDigest ELSE want[w]]
    /\ bytes' = [w \in Thread |-> IF w \in gone THEN Absent ELSE bytes[w]]
    /\ reply' = [w \in Thread |-> IF w \in gone THEN "no" ELSE reply[w]]

Crash(p) ==
    /\ crashes < MaxCrashes /\ crashes' = crashes + 1
    /\ \E s \in Stage : owner[s] = p
    /\ Die({p})
    /\ UNCHANGED <<leaseFile, staged, part, blob, tree, cachePart, linkOf, cached,
                   faults, outages, scribbles>>

\* A blob that was not synced may lose content.  The cache directory is never synced,
\* so a link made to it may be lost.
PowerLoss ==
    /\ outages < MaxOutages /\ outages' = outages + 1
    /\ Die(Process)
    /\ \E lost \in SUBSET Digest, torn \in BOOLEAN :
         /\ cached' = [d \in Digest |->
                IF d \in lost \/ cached[d] = Absent THEN Absent
                ELSE IF torn /\ ~cached[d].synced THEN [cached[d] EXCEPT !.whole = FALSE]
                ELSE cached[d]]
         /\ linkOf' = [s \in Stage |-> IF linkOf[s] \in lost THEN NoDigest ELSE linkOf[s]]
    /\ UNCHANGED <<leaseFile, staged, part, blob, tree, cachePart, faults, crashes,
                   scribbles>>

-----------------------------------------------------------------------------
\* A call that needs the store lock in the middle of its work.
Relock(w) == SpoolComplete(w) \/ CacheLock(w)

Proceed(w) ==
    \/ SpoolCopy(w) \/ SpoolBreaks(w) \/ SpoolUndo(w)
    \/ CacheLook(w) \/ CachePart(w) \/ CacheWrite(w) \/ CacheLink(w) \/ CacheClean(w)

Call(w) ==
    \/ \E s \in Stage : Begin(w, s) \/ Drop(w, s) \/ DropFails(w, s)
                         \/ Recover(w, s) \/ BeginTree(w, s)
    \/ \E s \in Stage, d \in Digest :
         SpoolStart(w, s, d) \/ CacheRead(w, s, d)

Next ==
    \/ \E w \in Thread : Proceed(w) \/ Relock(w) \/ Call(w) \/ CacheStepFails(w)
    \/ \E s \in Stage, d \in Digest : Scribble(s, d)
    \/ \E p \in Process : Crash(p)
    \/ PowerLoss

Spec == Init /\ [][Next]_vars

-----------------------------------------------------------------------------
(* Properties *)

\* The cache is content-addressed: whatever is stored under a digest is the whole
\* archive with that digest, even if the staged file is exchanged while it is being
\* copied, the process dies, or the machine loses power.  A wrong blob would block
\* its digest for good, since cache_source_blob never replaces one.
CachedBlobMatches == \A d \in Digest : cached[d] # Absent => Matches(cached[d], d)

\* No call waits for a stream, or for the store lock once more, while it holds the
\* lock: a slow transfer delays nobody, and cache_source_blob, which takes the lock
\* twice on two descriptors, does not wait for itself.
LockFreeWhileWaiting ==
    \A w \in Thread : pc[w] \in {"sp_copy", "sp_done", "sp_undo", "ca_lock"} =>
        storeLock # w

\* A staged archive is a whole stream of one transfer: two transfers into one stage
\* never mix, and an interrupted one never becomes archive.blob.
SpooledArchiveWhole == \A s \in Stage : blob[s] # Absent => blob[s].whole

\* When cache_source_blob answers Ok, the blob can be read: it has one link again.
CachedAnswerHolds ==
    \A w \in Thread : pc[w] \in HeldPc /\ pc'[w] = "idle" /\ reply'[w] = "ok" =>
        Matches(cached'[want[w]], want[w]) /\ \A s \in Stage : linkOf'[s] # want[w]

\* A cached blob that read_cached_source_blob refuses for its second link owes it to
\* a stage that a dead process, a failed cleanup or a failed Drop left behind.
UnreadableOnlyByLeftover ==
    storeLock = NoThread => \A s \in Stage : linkOf[s] # NoDigest =>
        s \in staged /\ (owner[s] = NoProcess \/ faults > 0)

CachedAnswerHoldsProp == [][CachedAnswerHolds]_vars

Held == {d \in Digest : Readable(d)}

\* An archive that could be read once can be read until the power fails: two calls that
\* cache one archive do not hide it from readers by a second link, nor does any other
\* call, death or failing operation, and a stage that goes shows one archive at most.
Abstract == INSTANCE ArchiveCache WITH held <- Held
ImplementsArchiveCache == Abstract!Spec

=============================================================================
