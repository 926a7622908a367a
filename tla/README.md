# A verification project for Prep 2

Prep 2 resolves a project's locked dependencies, builds each with a plugin, and keeps the
results in a content-addressed store.  This directory holds TLA+ models of the parts that are
hard to test: several processes on one store, crashes and power loss, uncooperative child
processes, archives from strangers, the search that orders a build, and the checks that decide
what may be built and believed.  TLC checks them on small instances and TLAPS proves every safety
property for every instance; what must eventually happen stays with TLC.

    tlc -workers 2 -config StoreMixed.cfg MCPrepStore
    tlapm PrepStoreProofs.tla

`PROJECT.json` lists the runs, the source lines each definition stands for, the hazards, and
for each property a mutation of the model that the property notices.

## 1. Inventory

Paths are below `src/crates`.

| component | state | operations | interacts with |
|---|---|---|---|
| result store, `prep-store/src/lib.rs` | `.staging/<id>`, `.locks/<id>.lock`, `.store.lock`, `results/sha256/<id>`; locks are flocks | `begin`, `commit`, `get`, `recover_abandoned`, Drop | other processes through the file system; the builder that fills a staging prefix |
| source stages and cache, same file | `.source-staging/<id>` with `archive.part`, `archive.blob`, `cache.part`, `tree`; `sources/sha256/<digest>` | `begin_unverified_source(_tree)`, `spool_unverified_archive`, `cache_source_blob`, `read_cached_source_blob`, Drop | shares leases, store lock and recovery with the result store |
| process groups, `prep-core/src/plugin.rs` | a child process, its group, grace period | `terminate_and_reap`, `cleanup_remaining_process_group` | used by the probe and by Git capture |
| plugin probe, same file | child with three pipes, two reader threads, a channel of two, a deadline | `probe_build_system_with_policies` | process groups; frames of `prep-protocol`; admission policy |
| Git capture, `prep-core/src/git_run.rs` | child, one reader thread, a deadline | `capture_bounded` | process groups; `git_command.rs`, `git_tree.rs` |
| dependency graph, `prep-core/src/graph.rs` | `permanent`, `temporary`, `stack`, `order` | `from_lockfile`, `build_order`, `visit` | `prep-manifest` lockfiles |
| manifest and lockfile, `prep-manifest` | none (values) | `validate`, `validate_against`, `to_toml` | graph, identity |
| result identity, `prep-core/src/identity.rs` | none | `result_identity` | names results in the store |
| plugin input and planning, `plugin_input.rs`, `plugin.rs` | none | authorisation, sanitised environment, request and response checks | probe, protocol |
| archive policy and ustar, `archive_policy.rs`, `archive_tar.rs`, `verified_ustar.rs` | the snapshot in memory | inventory validation, block walk, index | source extraction |
| source verification, loading, extraction, `source*.rs` | a staged tree | digest check, load, extract | source stages, ustar |
| Git commands and output, `git_command.rs`, `git_run.rs`, `git_tree.rs` | none | ref, object kind, tree listing, HEAD | Git capture, archive paths |
| activation plan, `prep-store` | none | `from_results`, `environment_overrides` | published results |
| protocol frames, `prep-protocol` | none | encode and decode | probe, planning |
| command line, test support, fuzz | none | dispatch | probe |

**What is hard.**
*Concurrency*: processes meet in one directory tree.  Every operation holds `.store.lock`, but
a transaction lives across operations and is protected by its lease alone, and source transfers
run with no lock at all.
*Failure*: any file operation can fail; the code has a rollback after the publishing rename,
and errors inside the error paths are partly ignored.
*Crash and restart*: a process or machine stops between two file operations; what is left is
found by `recover_abandoned`.
*Child processes*: they fork, leave their group, ignore signals, hold pipes open, and may hang;
deadlines and grace periods race with their answers.
*Untrusted input*: a staged archive may be exchanged while it is read, its headers may say
anything, and a tree may hold entries of others; a plugin's answers may be late or foreign.
*Algorithms*: the depth-first search must give one order and a true account of a cycle; an
identity must tell builds apart whatever text is in them.

**What makes each correct.**
Store: a live transaction is left alone; a published result is complete, never replaced, never
lost once its commit answered `Published`; a failed commit leaves nothing; what was abandoned
can be collected; every call returns.
Cache: what is stored under a digest has that digest; transfers never mix; a slow transfer
delays nobody.
Probe and Git: ok means the whole exchange and the exit went well; nobody is left in the
process group; every call returns; diagnostics and output are whole.
Graph: dependencies first, exactly what the roots need, real cycles, termination.
Archives: exactly the well-formed, portable and small ones are accepted, and what is accepted
extracts on every host to the tree it means, never into an entry of somebody else.
Decisions: a lockfile fits one manifest, an identity one build, an answer one request, a plan's
search path one order of results; a locked commit is what its ref names; what was not granted
has no influence.

## 2. Plan

Done, in this order:

1. `ResultStore` (abstract), `PrepStore` (detailed), `PrepStoreInv`, and `PrepStoreProofs`, about
   mishaps, recovery and the refinement as well.
2. `ArchiveCache` (abstract), `SourceCache` (detailed), `SourceCacheProofs`, with the refinement.
3. `ProcessGroup`, which `PluginProbe` and `GitCapture` extend; a proof module for each.
4. `BuildGraph`.
5. `ArchiveInventory` and `UstarWalk`, which `SourceLoad` extends; `SourceLoadProofs`.
6. `LockMatches`, `ResultIdentity`, `Frames`, `Planning`, `Activation` and `GitAnswers`, which
   `Decisions` composes with `BuildGraph`; `DecisionsProofs`, for the graph as well.
7. `FoldsOver`: what a fold from the left computes, element by element, for any operator.
   `SourceLoadProofs` and `DecisionsProofs` take its theorems with INSTANCE.

Next: what `StepsLeft` is for the search, for the loops of the other components (the walk over
an archive, the entries of a recovery), so that they too are known to be bounded for every input.

## 3. Modules and the code

**`PrepStore`.**  A worker is a process of its own; a step is one file-system operation, so a
death, a fault or another process comes between any two.  `storeLock` is the flock on
`.store.lock`, `lease[t]` that on `.locks/<t>.lock`, `lockFile` tells which of those files
exist.  A directory is a record: whether `prefix` exists, its entries, the identity in
`result.toml` (`Torn` while it is being written), what was synced, and, as history, what the
builder wrote.  `begin` is `BeginLease`, `BeginStage`, `BeginPrefix`; a source stage takes the
path through `s_stage`.  `commit` goes through the labels `c_validate` ... `c_syncroot`; `rb_rm`
and `rb_sync` are `rollback_published_result`, which loses the entries one at a time; one that
fails answers `corrupt`.  A commit that fails before the rename goes to `drop`, where the early
return has released the lock and Drop waits for it again.  Recovery reads a root (`ReadRoot`),
then takes the entries in any order.  `returned` and `doomed` are history, read by properties
only.  Every error path is an action that consumes one of `MaxFaults`; where the code ignores an
error, its operation fails all the same and the call goes on (`DropRemove`, `DropLease`, the
undoing of a `begin` in `HalfUndone`).

**`ResultStore`** says what callers see: an identity has no result or one complete tree; a tree
appears once and stays.  `PrepStore!ShownTree` maps to it; while a publisher is between rename
and release nobody can look, so its result is not there yet.

**`SourceCache`.**  Threads of a process share its stages; leases are reduced to `owner`, as
their life is that of `PrepStore`.  `Content` is which archive a file is from, whether it is all
of it, and whether it was synced.  `cache_source_blob` is `CacheRead` (the first lock, the read
and the digest), `CacheLock`, `CacheLook`, `CachePart`, `CacheWrite`, `CacheLink`, `CacheClean`.
`CacheLink` is the `hard_link`, which replaces nothing: it publishes where no blob is, and
otherwise the one that is there is verified.  `Drop` may fail in each of its operations
(`DropFails`): the lock, the removal, which leaves entries of the stage behind, or the lease file
(`leaseFile`), without which recovery does not collect the stage.
`Scribble` is somebody who changes a staged archive, which the code treats as untrusted.  The
second look for `archive.blob` in `SpoolComplete` can find nothing: `archive.part` was created
exclusively and stays with its call.

**`ArchiveCache`** says what callers of the cache see: a set `held` of digests whose archive can
be loaded.  One is added at a time, and none is lost but by an outage.  `SourceCache!Held` maps to
it.  So nothing that a thread does, a failing call or a death, takes an archive away.

**`SourceLoad`** is one stage on which `load_staged_ustar`, `load_cached_ustar` and
`extract_staged_ustar` are called one after the other; the lock on the source is chosen at
`Init`.  A call reads the file once (`ReadStaged`, or `FetchCached`), matches the digest
(`Verify`), walks the blocks (`Inspect`), computes where each member lies (`Index`) and, if it
extracts, makes the tree directory (`BeginTree`, `CheckTarget`) and each member component by
component (`EnsureSubdirectory`, `WriteFile`).  `Exchange` replaces the staged file and
`Intrude` makes a foreign entry in the tree, between any two steps; `OperationFails` is any
failing call.  `ignoreCase` says what host it is.  `UstarWalk` is `inspect_ustar`, one step for
each block; a block is a header, of which the record keeps what the checks tell apart, or bytes,
and the last one may be cut off.
`ArchiveInventory` is `validate_archive_inventory`: a component of a name has a folded form and
a spelling, and unsafe or reserved forms are given as sets.

**`ProcessGroup`.**  A leader and its children, each `unborn`, `member`, `escaped`, `zombie` or
`gone`; `doomed` are those a signal will end, `deaf` those that SIGTERM does not.  They fork,
leave, close pipes, exit or do nothing, as they like.  `TermGroup` ... `TermReap` are
`terminate_and_reap`, `Look` ... `SweepKill` are `cleanup_remaining_process_group`.  Clocks are
booleans: `late` is the deadline of the operation, `grace` the end of the grace period of the
current wait; each may become true at any time.

**`PluginProbe`** adds the host thread (`pc` follows the source from the first frame to the
answer) and the reader threads with their channel of two.  What a line says is chosen when the
host takes it, which is the same for the host and keeps the state small; a line has one of the
kinds that the two validations tell apart.  `WriteFrame` may fail at any time, as the plugin may
close its stdin.

**`GitCapture`** adds the loop of `capture_bounded` and the reader that takes `limit + 1` bytes.
The branch for a disconnected channel is unreachable (the reader always sends before it ends)
and is left out.

**`BuildGraph`** runs the recursion of `visit` as a machine, one step for each call and return.
Packages are numbers in the order of their names.  A loop over sorted dependencies continues
with the least one that is not yet permanent, since every earlier one is when its visit
returns.  A name that is not locked would be entered and left as a leaf; `Load` keeps such names
out.  The thread's stack has room for `StackRoom` calls, at least one for each package
(`RoomAssumption`); a recursion that goes deeper aborts.

**`Decisions`** asks one question of a bounded set (an action for each kind of question) of the
parts that keep no state, and its properties say what every answer must be; the question for
the order of a lockfile runs the steps of `BuildGraph`.  The parts are modules of operators:

- `LockMatches`: `Manifest::validate`, `Lockfile::validate`, `validate_against`,
  `validate_source_match`, `to_toml`'s sorting, `canonical_identity`.  Names are numbers in the
  order of their text.  What the code sorts has distinct keys, so a sorted list is the set of its
  elements, `Enumerated` in their order.
- `ResultIdentity`: the text that `result_identity` hashes.  Texts are sequences of numbers, and
  values may hold what labels hold, so that fields could be confused.
- `Frames`: which wire object reads as which frame type, with optional, unknown and tag fields.
- `Planning`: host planning requests and which answers are believed; builder requests with their
  authorisation, sanitised environment and roots.
- `Activation`: `ActivationPlan` on trees with links.
- `GitAnswers`: what is made of `ls-remote`, `cat-file -t`, `ls-tree` and `rev-parse`.  `Printed`,
  `KindPrinted` and `Listed` say what Git prints of a remote, and are external.

Operators whose names begin with `Broken` are deliberately wrong variants, used by no
specification; they document which mistake each property notices.

## 4. Runs

| run | question | bounds | result |
|---|---|---|---|
| `store_mixed` | locks, leases, returned and published results, failed commits, and how a result can come to lack entries, in every interleaving | 2 processes, 2 transactions, 1 result, 2 faults, 1 death or outage | holds |
| `store_crash` | what deaths leave behind; what recovery collects; implements `ResultStore` | 2 processes, 3 transactions, 2 deaths | holds |
| `store_live` | every call returns | 1 fault, 1 death | holds |
| `store_rollback_torn` | is a result complete if its rollback dies half way? | 1 fault, 1 death | violated |
| `store_wedged` | can every staging directory be collected after one fault? | 1 fault | violated |
| `source_cache` | content addressing, transfers, links; implements `ArchiveCache` | 3 threads in 2 processes, 2 stages, 2 archives, one each of fault (in Drop, too), death, outage, change of a staged archive | holds |
| `source_load` | which archives are accepted, what a call that answers has loaded or written | some 1700 archives of up to 3 members and two of 4, cut off between and within blocks, 2 calls, 1 fault, 2 exchanges, 1 foreign entry, both kinds of host | holds |
| `plugin_group` | answers, cleanup and escalation | 1 child, which may escape, both may be deaf; waitpid may fail, 2 lines, 1 diagnostic | holds |
| `plugin_live` | every probe returns, the stdout thread ends | 1 child, 3 lines (more than the channel holds) | holds |
| `git_capture` | accepted output is whole, cleanup, every capture returns | 1 helper, limit 1, 3 bytes, kill, waitpid and read may fail | holds |
| `decisions` | order and cycles of a lockfile, and that their search ends; fitting locks, identities, frames, answers, grants, search paths, Git sources | lockfiles of 3 packages and names that are not locked; questions of at most two of each part, right or wrong in one way | holds |
| `activation_shadowed` | are all shadowed names in `collisions`? | two results, search directories that are links or of two names | violated |

*Why the bounds are enough.*  Two processes with two transactions meet in every pair of
operations, and a third transaction lets one be abandoned while two are open.  One forbidden and
one allowed entry separate accepted from refused trees and complete from torn ones.  One fault
reaches every error path, the second the errors within rollbacks.  `MaxCrashes` bounds deaths
and outages together, `MaxOutages` the outages.  In the cache, two threads of one process are
what it takes to share a stage, and the third is the foreign process.  One child is enough for a
group that outlives its leader, a pipe held by a survivor and an escape.  A `/bin/kill` that
cannot be started is checked in `git_capture`, which runs the same two routines.  Three lines
fill the channel with one more in hand.  One byte of limit and three of output are below, at and
beyond `limit + 1`.  Blocks of two bytes make members of 0 to 3 bytes empty, padded, full and
spilling over; the limits are met exactly and passed by one; three members make every collision
of a pair with a third between.  Two exchanges put another archive in and the right one back.
Two calls are a first that fails and a second on what it left.  Three packages make self loops,
cycles off and on the roots' path, diamonds and shared tails.  Lists of two show order and
repetition; builds differ in one or two parts, which is what an ambiguous text would need.

*Deadlock* is not checked where a run ends by design: a probe, a capture, a decision and a
series of loads are over when they have answered.  A store can always be called again, so there
it is checked.

*Fairness.*  Store: weak fairness for a call that runs on, since a process that holds the lock
is scheduled; strong fairness for `DropLock`, since each release of a flock wakes its waiters and
the lock is free again and again.  No process is assumed to make a call, to succeed or to
die.  Probe and Git: weak fairness for the delivery of signals, the two clocks, the host thread
and its reader threads, all of which the kernel provides; nothing is assumed of the plugin, of
Git or of their children, which may hang for ever.  Decisions: weak fairness of the one thread
while it searches.

## 5. Proofs

Every invariant and action property that a passing run checks is a theorem, as far as it is a
safety property, for any number of processes, threads, transactions, results, entries, archives,
children, lines, packages, texts and lists of any length, and any number of mishaps unless it
says otherwise.  The assumptions are those the modules name: sentinels are no members of the sets
they stand outside of, bounds are naturals, a thread has a home process, and inputs are of the
types that the code gives them (each is described with its proof below).  TLC evaluates all of
them on the instances it checks.

**Store** (`PrepStoreProofs`).  `IInv` of `PrepStoreInv` is `TypeOK`, `StoreLockProtects`,
`Ownership` and `Publication`.  `Ownership` says that two workers never hold one transaction,
that up to the removal of its directory a transaction's lease is held by its worker, and that
recovery holds the lease of what it removes; without it `LiveTransactionKept` is not inductive,
as a recovery at `r_rm` might remove the directory of a live transaction.  `Publication` says
that the destination is absent at the rename, that what is being published was returned to
nobody, that results are synced, and that what was answered `Published` is no longer `unsynced`;
without it a rollback might take a result some caller has, and an outage one that was promised.
From `IInv` follow `StoreTypes`, `StoreLockSerialises`, `NothingOverwritten`,
`LiveTransactionsSafe`, and by one look at each step the action properties `ReturnedResultsKept`
and `PublishedSurvives`.

**Store and its mishaps** (same module).  Four more invariants, each inductive with
`IInv`:

- `Aftermath`: every directory is whole, unless a fault and one more mishap have happened, or
  its rollback is under way.  Since a rollback syncs after the last entry has gone, it gives
  `RolledBackIsGone`.
- `Wholeness`: whatever mishaps there are, the directory of an open transaction is whole, and so
  is the result it becomes until its rollback begins.  A result can therefore only come to be
  acceptable and lack entries in the step that ends a call at `rb_rm`: a death, or a failure to
  remove one more entry (`TornByWorker`).  An outage loses no entry of a synced result
  (`TornByOutage`).  Together they are `TornByRollback`, with no bound on faults, deaths and
  outages.
- `Scanning`: for each transaction that was abandoned when a recovery began, its lease stays
  free for that recovery, what the roots read before held of it is gone, and what the current
  one holds of it is listed.  It gives `AbandonedCollected`.
- `Collectable`: while nothing but processes has failed, a call that is about to remove a lease
  file has no directory left.  It gives `CollectableUnlessFaulty`; with a fault the property is
  false (`store_wedged`).

`StoreRefines` shows that `PrepStore` implements `ResultStore` without outages and with no
faults, or with at most one mishap altogether: then everything shown is acceptable, a step of
one worker concerns one result, and once shown a result does not change.  With a fault and a
death it is false (`store_rollback_torn`).

**Cache** (`SourceCacheProofs`).  `LockOK` says who holds the store lock, `CallOK` that a stage in
use is leased by the thread's process and that the bytes in hand have the wanted digest, `SpoolOK`
that a transfer has `archive.part` to itself, `CacheOK` that what is cached is synced and whole,
`PublishOK` that `cache.part` is that too when it is linked, and that the only second link is then
the call's own, `LinkOK` where such links come from.  All safety properties of the run follow.
`CacheRefines` shows that `SourceCache` implements `ArchiveCache`: where the second link of one
stage changes, at most one archive becomes readable and none is hidden (`OneLinkChanges`), since
a second link hides the archive it is of and no two stages share one; all other steps leave what
can be read as it is, but for an outage (`OutageStep`).

**Child processes.**  `ProcessGroupProofs` proves what the two routines achieve, whoever calls
them: `TermPromise` and `SweepPromise` say for each of their steps whether the leader is collected
and the group `Quiet`, that is, whether a signal will end all that is left in it.
`PluginProbeProofs` adds what the host has heard (`TalkOK`), which routine runs and what it
has achieved (`PhaseOK`), and that the stderr thread is done only when all was read (`NotesOK`);
Only an answer that carries the diagnostics has to have them all (`DiagnosticsWhole`): a success, a
failing exit status and a timeout; the other errors discard them.  `GitCaptureProofs` proves that a report is the whole output or too much (`ReportOK`), the phases, and
that an accepted answer had its reasons (`AcceptedOK`).  All safety properties of the two runs
follow.

**Archives** (`SourceLoadProofs`).  The argument follows a call.

- *The policy.*  `validate_archive_inventory` is a fold over the entries.  Its state after `k`
  entries is described by what the first `k` entries are, and `InventoryDecides` follows: it
  accepts exactly the lists that are acceptable as a whole, and its total is their sum.
- *The layout.*  `LayoutAssumption` says what a producer does: each member from a block of its
  own on, then the data.  The archive may be cut off anywhere, be padded with anything, and have
  unsound headers.
- *The walk* (`WalkedOK`).  After each block, what was found is the first members, and the walk
  has refused nothing that is good.  With the policy that is `GoodAccepted`: accepted is exactly
  what is well formed, portable and within the limits.
- *The places* (`HeldOK`).  The offsets that are computed a second time from the list are those
  where the producer put the data.
- *The tree* (`WalkOK`, `TreeOK`, `ProgressOK`).  No two nodes have one name; what the call made
  lies in directories it made; `created` are such nodes and those above the component at work are
  among them, which is why `mkdirat` finding an entry is harmless.  `ForeignLeftAlone` follows.
- *The answer* (`ReadOK`, `MadeOK`).  What was read is tied to the digest of the lock; what is
  made so far is what the members passed so far mean.  `LoadedExact` is that at the end.
- *Blame.*  Where an extraction of an accepted archive stops, the node in its way is not the
  call's own, since the policy has refused every pair of members that could meet.  That is
  `AcceptedExtract`.

Assumed, besides the layout, are that names have at least one component (`NameAssumption`), that
limits are naturals (`LimitAssumption`) and a block is not empty (`BlockAssumption`).

**Decisions** (`DecisionsProofs`).  For the search, `permanent` is the elements of `order`,
`temporary` those of `stack`; the stack is a path without repetition; all of it lies in every set
that the roots need.  `BuildOrderSound`, `BuildOrderComplete` and `ReportedCycleSound` follow for
every lockfile, and `OrdersAmongDecisions` carries them to the specification that is run.  The
search is bounded, too: `SearchGoesOn` says that until it has ended it has a package to enter, to
leave or to report, and that its stack has room for it, because after `Load` no name is unlocked
(`Loaded`) and the stack holds no package twice; and `SearchTerminates`
says that `StepsLeft` falls with every step, as each package is entered and left once.  For that
`PackageAssumption` says that a lockfile is finite, and `RoomAssumption` that the stack has
room for its longest path.  `SearchEndsAmongDecisions` carries both over.
The other decisions keep no state: `QuestionsAsked` says that what is asked is a question of its
topic, and a lemma for each topic says what every answer to it is.

- `LocksFit`: what the lockfile fixes is the package and its dependencies.  The targets and options
  of `[build]` are in no lockfile; `validate_against` does not compare them, `to_toml` sorts the
  systems, and a manifest that was written out asks for the same (`SameRequest`).  Two manifests that fit one lockfile have as many dependencies as its root has names,
  and the names of both are those; so each dependency has its counterpart in the other, with a
  source that matches the same package.  Writing does not matter since a sorted list has the
  elements of the list (`EnumeratedAll`, from the places that an order gives to the elements of a
  finite set).  `LockAssumption`: lockfiles and manifests are of their types, a path has no pin.
- `IdentitiesDecide`: the fields of one label are a *code*, a set of texts of which none begins
  another, because a text stands behind its length (`FieldsAreCode`).  Two codes in a row are one
  (`BothAreCode`), and so are lists behind their count (`CountedAreCode`).  A row of such texts
  can therefore be read in one way only (`RowRead`), part by part.  Lists and maps are hashed in
  the order of their bytes, which is a total order (`BeforeTotal`, `BeforeStrict`), so that they
  are equal as sets.  The canonical identity of a source has the locked object behind its last
  separator (`LastSeparator`); the object is hexadecimal and holds none.  `BuildAssumption`:
  inputs are of their types, objects hold no separator.
- `FramesRead`: each type has a field that no other may have, or lacks one that another must have
  (`Marks`), and the answers of different requests have different values.  `LineAssumption`: what
  is said to be of a type was written by its constructor; `FrameAssumption`: frames of one byte
  are not too long.
- `PlansSearchResults`: an offered name is a leaf of its result (`OfferedLeaf`), two holders of a
  leaf are a collision (`TwoHoldersCollide`), and the value of a path list has the plan's entries
  first.  `ResultAssumption`: lists are sequences and trees have paths of names.
- `RefsNameSources`: of the lines that Git prints, those of the ref and of its peeled form are at
  most one each (`PrintedLines`), so what is found is the ref's object or what its tag is of
  (`FoundIsOfRef`).  `GitAssumption`: a remote is finite, one object ID is one object, and all IDs
  are of 40 or 64 digits.
- `GrantsDecide`: a builder request is the same when everything that was not granted is taken
  away.  `BelievedAreOurs`: an answer that is believed is that to the request made, which was
  granted.

**Folds and induction** (`FoldsOver`).  The library's induction theorems take the predicate as a
parameter, which no installed prover can instantiate.  `InductionOn` is induction for a *set* of
numbers, from the fact that a nonempty set of naturals has a least element, and `FoldTrace` and
`FoldAppend` describe a fold of a constant operator; a module that folds an operator of its own
takes them with INSTANCE.  That is how the proofs above reach lists of any length.

*Only model-checked*: liveness (`EveryCallReturns`, `ProbeReturns`, `ReaderEnds`,
`CaptureReturns`, `SearchEnds`), which is beyond the prover, as `ENABLED` is.  Of the search it
is proved that it cannot stop early and takes a bounded number of steps; that it takes them is
the fairness of `SearchEnds`.  Of the other calls no theorem says that they return.  The instance of `source_load` has about five
million states; the proofs of `SourceLoadProofs`, `DecisionsProofs` and `PrepStoreProofs` take
some minutes each.

## 6. Findings

- **A torn rollback is accepted** (`store_rollback_torn`).  `rollback_published_result` removes a
  published result in place.  If the process dies half way, the rest has valid metadata and
  `get` hands it out as complete.  ADR 0006 says a committed entry is complete.  Moving the
  directory out of `results/` before removing it would restore the property.
- **Drop can leave a directory that recovery cannot collect** (`store_wedged`).  Drop ignores a
  failing removal of the staging directory and then removes its lease file; from then on
  `recover_abandoned` fails at that directory.  ADR 0006 says staging may be collected.
- **Some shadowed names are not reported** (`activation_shadowed`).  `collisions` compares
  relative paths of leaves, while the search follows links and two directory names: a result with
  `bin -> sbin`, or with its pkg-config files in `share` instead of `lib`, can shadow a name of
  another or be shadowed, and no collision is reported.  The design says that collisions become
  diagnostics.

Observed, with no run of their own:

- When the rollback itself fails, `commit` answers `CorruptResult` and the result may still be
  valid, whereas a test says that a commit that reports failure must not leave one
  (`prep-store/tests/transactional.rs:213`).  `FailedCommitLeavesNoResult` excepts that answer.
- `git ls-remote` with one exact ref (`git_command.rs:156`) prints no peeled line, so an
  annotated tag is refused by the object check that follows, although `git_command.rs:68`
  prefers the peeled commit and `docs/design/prep-2.md:221` allows tags.
- Nothing but tests calls `recover_abandoned`.

## 7. Limits of the models

- An outage loses unsynced content and unsynced renames; it never brings back a directory whose
  removal was not synced.
- Paths, permissions and link counts matter where the code decides by them; replacement of
  directories by symbolic links and other checks of `verify_real_directory_within` are a
  failing operation.  Links within a result are looked at as text there, and not followed
  through other links.
- A process id or group id is never reused.  A process that left its group is out of reach, as it
  is for the code.
- What an extraction has made is neither exchanged nor removed by others: `extract_verified_ustar`
  demands a private target (`source_extract.rs:83`).  So `mkdirat` and the `openat` that follows it
  are one step, and `Intrude` only adds.  `MaxArchive` is what a caller may read, in whole blocks
  and at most `MAX_ARCHIVE_SNAPSHOT_BYTES`; a call that asks for more is refused at once
  (`RefuseAtOnce`).
- The listing of a Git tree is checked for its form, and the HEAD for being the locked commit;
  that the listing is the one of that commit is up to the arguments Git is given, which are not
  modelled.  `RefParsed` has no byte bound, as the lines it takes are shorter than the 4096 bytes
  of the code.
- `ActivationSearchesResults` is about `PATH` and `PKG_CONFIG_PATH`; nothing is said of the order
  in which CMake uses its list.
- The byte bound of the diagnostics buffer is left out; `DiagnosticsComplete` is about pieces.
- Text is abstracted: the spelling of names, versions, URLs, refs and digests, the text of JSON
  and TOML (library code), command lines and Git's environment.  SHA-256 has no collisions.
- A header block is a record of what the checks tell apart: its checksum, magic and numbers are
  `sound` or not.
- Roots of a builder request are canonicalised when the request is made; what happens to
  them later, and that a request is not tied to the plugin it was authorised for, are the
  caller's concern and have no caller in the repository yet.
- *Not modelled*: the command line dispatches one argument list to one probe and keeps no state;
  test support is misbehaving plugins, which is what the processes of `ProcessGroup` may do;
  fuzz targets call the parsers.
