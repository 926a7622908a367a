----------------------------- MODULE SourceLoad -----------------------------
(***************************************************************************)
(* source_load.rs, verified_ustar.rs, source_extract.rs and                 *)
(* verify_archive_bytes of source.rs in crates/prep-core: load an archive    *)
(* from a stage or from the cache, match it with the lock, walk it, and      *)
(* write its members below the stage's tree directory.  Others may change    *)
(* the staged file and put entries of their own into the tree; the host's    *)
(* file system may ignore case; any file operation may fail.                 *)
(***************************************************************************)
EXTENDS UstarWalk

CONSTANTS
    Archives,      \* what a lock may name: records of members, blocks and starts
    OtherArchive,  \* what somebody may write over the staged archive
    ForeignName,   \* names somebody may take below the tree
    MaxCalls, MaxFaults, MaxExchanges, MaxForeign  \* bounds

ASSUME BoundAssumption ==
    {MaxCalls, MaxFaults, MaxExchanges, MaxForeign} \subseteq Nat

\* A name in an archive is a sequence of components and never empty: what has no text at
\* all is one component, EmptyPart.
Component == [fold : STRING, form : STRING]
Name == Seq(Component) \ {<<>>}

Member == [name : Name, kind : STRING, content : Seq(STRING)]

ASSUME NameAssumption ==
    /\ ForeignName \subseteq Name
    /\ \A a \in Archives :
         /\ a.members \in Seq(Member) /\ a.starts \in Seq(Nat \ {0})
         /\ a.blocks \in Seq(Range(a.blocks))
         /\ \A i \in DOMAIN a.blocks :
              a.blocks[i].header =>
                  /\ a.blocks[i].prefix \in Seq(Component) /\ a.blocks[i].name \in Name
                  /\ a.blocks[i].size \in Nat

\* A producer lays each member out from a block of its own on, a header and then data;
\* the last of the starts is the block after all of them.  Byte k of member i is here:
DataBlock(a, i, k) == a.starts[i] + 1 + ((k - 1) \div Block)
DataByte(a, i, k) == DataBytes(a.blocks[DataBlock(a, i, k)])[((k - 1) % Block) + 1]

\* The archive may end too early, in a header, in its data or after it, and within a block
\* or behind one; what follows the members is anything but a header.
LaidOut(a) ==
    LET ms == a.members
    IN  /\ Len(a.starts) = Len(ms) + 1 /\ a.starts[1] = 1
        /\ \A i \in DOMAIN ms :
             LET h == a.blocks[a.starts[i]]
             IN  /\ a.starts[i] \in DOMAIN a.blocks
                 /\ h.header /\ HeaderName(h) = ms[i].name
                 /\ h.kind = ms[i].kind /\ h.size = Len(ms[i].content)
                 /\ a.starts[i + 1] = a.starts[i] + 1 + Padded(h.size)
                 /\ \A k \in 1..h.size :
                      DataBlock(a, i, k) \in DOMAIN a.blocks => DataByte(a, i, k) = ms[i].content[k]
        /\ \A j \in a.starts[Len(ms) + 1]..Len(a.blocks) : ~a.blocks[j].header
        /\ \A j \in DOMAIN a.blocks : j < Len(a.blocks) => a.blocks[j].whole

ASSUME LayoutAssumption == \A a \in Archives : LaidOut(a)

\* The format is kept: sound headers, directories without data, zeros after the data of
\* a member, and at the end two whole blocks of zeros and nothing but zeros after them.
WellFormed(a) ==
    LET end == a.starts[Len(a.members) + 1]
    IN  /\ \A i \in DOMAIN a.members :
             LET h == a.blocks[a.starts[i]]
             IN  /\ h.sound /\ (h.kind = "dir" => h.size = 0)
                 /\ \A k \in (h.size + 1)..(Padded(h.size) * Block) :
                      DataBlock(a, i, k) \in DOMAIN a.blocks => DataByte(a, i, k) = "zero"
        /\ end + 1 <= Len(a.blocks)
        /\ \A j \in DOMAIN a.blocks : j <= end + 1 => a.blocks[j].whole
        /\ \A j \in end..Len(a.blocks) : IsZero(a.blocks[j])

VARIABLES
    lock,       \* the locked source: its kind and, of an archive, the one with its digest
    ignoreCase, \* whether the host's file system does
    staged,     \* blocks of archive.blob in the stage
    pc, goal,   \* where the call is; "load", "cached" or "extract"
    files,      \* the snapshot's map from names to byte offsets
    made,       \* whether the stage has its tree directory
    nodes,      \* what is in it
    created,    \* directories extract_verified_ustar has made, by relative path
    at, depth,  \* the entry and component it works on
    written,    \* bytes of file data it has written
    answer,     \* of the last call: "none" while it runs
    calls, faults, exchanges

setting == <<lock, ignoreCase>>
snapshot == <<files>>
tree == <<made, nodes>>
progress == <<created, at, depth, written>>
counts == <<calls, faults, exchanges>>
vars == <<walkVars, setting, staged, pc, goal, snapshot, tree, progress, answer, counts>>

Kinds == {"archive", "git", "path"}

Init ==
    /\ \E a \in Archives : \E k \in Kinds :
         /\ lock = [kind |-> k, archive |-> a]
         /\ staged = a.blocks
    /\ ignoreCase \in BOOLEAN
    /\ bytes = <<>> /\ pos = 0 /\ left = 0 /\ entries = <<>> /\ walk = "refused"
    /\ pc = "idle" /\ goal = "load" /\ files = <<>>
    /\ made = FALSE /\ nodes = {}
    /\ created = {} /\ at = 1 /\ depth = 1 /\ written = 0
    /\ answer = "none"
    /\ calls = 0 /\ faults = 0 /\ exchanges = 0

Answer(a) == pc' = "idle" /\ answer' = a

Fault == faults < MaxFaults /\ faults' = faults + 1 /\ UNCHANGED <<calls, exchanges>>

-----------------------------------------------------------------------------
(* load_staged_ustar, load_cached_ustar, read_verified_ustar_snapshot *)

\* load_cached_ustar asks the cache by digest, so a source of another kind is
\* refused at once; load_staged_ustar opens the stage's archive first.
Call(g) ==
    /\ pc = "idle" /\ calls < MaxCalls
    /\ goal' = g /\ calls' = calls + 1 /\ answer' = "none"
    /\ pc' = IF g = "cached" THEN "fetch" ELSE "open"
    /\ UNCHANGED <<walkVars, setting, staged, snapshot, tree, progress, faults, exchanges>>

\* Before a byte is read: a source that is no archive, or an unlocked kind; or the caller
\* allows more than MAX_ARCHIVE_SNAPSHOT_BYTES, which MaxArchive does not exceed.
RefuseAtOnce ==
    /\ pc \in {"fetch", "open"}
    /\ \/ lock.kind # "archive" /\ Answer("refused")
       \/ lock.kind = "archive" /\ Answer("excess")
    /\ UNCHANGED <<walkVars, setting, staged, goal, snapshot, tree, progress, counts>>

\* read_cached_source_blob: it rehashes what it returns, or has nothing.
FetchCached ==
    /\ pc = "fetch" /\ lock.kind = "archive"
    /\ \/ StartWalk(lock.archive.blocks) /\ pc' = "verify" /\ UNCHANGED answer
       \/ Answer("absent") /\ UNCHANGED walkVars
    /\ UNCHANGED <<setting, staged, goal, snapshot, tree, progress, counts>>

\* The whole file is read into memory once; one byte over the limit is too much.
ReadStaged ==
    /\ pc = "open" /\ lock.kind = "archive"
    /\ IF Len(staged) * Block > MaxArchive
       THEN Answer("refused") /\ UNCHANGED walkVars
       ELSE StartWalk(staged) /\ pc' = "verify" /\ UNCHANGED answer
    /\ UNCHANGED <<setting, staged, goal, snapshot, tree, progress, counts>>

\* verify_archive_bytes: the digest of what was read is that of the lock.
BrokenDigestMatches == staged = lock.archive.blocks
DigestMatches == bytes = lock.archive.blocks

Verify ==
    /\ pc = "verify"
    /\ IF DigestMatches THEN pc' = "walk" /\ UNCHANGED answer ELSE Answer("refused")
    /\ UNCHANGED <<walkVars, setting, staged, goal, snapshot, tree, progress, counts>>

Inspect ==
    /\ pc = "walk" /\ WalkStep
    /\ UNCHANGED <<setting, staged, pc, goal, snapshot, tree, progress, answer, counts>>

InspectRefused ==
    /\ pc = "walk" /\ walk = "refused" /\ Answer("refused")
    /\ UNCHANGED <<walkVars, setting, staged, goal, snapshot, tree, progress, counts>>

\* The offsets are recomputed from the entries, as the walk does not report them.
AfterData(start, size) == start + Padded(size) * Block

Place(placed, e) ==
    LET start == placed.offset + Block
    IN  [offset |-> AfterData(start, e.bytes),
         files |-> IF e.kind = "file"
                   THEN Inserted(placed.files, e.name, <<start, start + e.bytes>>)
                   ELSE placed.files]

Index ==
    /\ pc = "walk" /\ walk = "accepted"
    /\ LET placed == FoldLeft(Place, [offset |-> 0, files |-> <<>>], entries)
       IN  IF placed.offset <= Len(bytes) * Block
           THEN /\ files' = placed.files
                /\ IF goal = "extract" THEN pc' = "tree" /\ UNCHANGED answer
                   ELSE Answer("loaded")
           ELSE Answer("refused") /\ UNCHANGED files
    /\ UNCHANGED <<walkVars, setting, staged, goal, tree, progress, counts>>

\* VerifiedUstarSnapshot::file_bytes
FileBytes(name) ==
    LET range == files[name]
    IN  [i \in 1..(range[2] - range[1]) |->
            LET o == range[1] + i - 1 IN DataBytes(bytes[(o \div Block) + 1])[(o % Block) + 1]]

-----------------------------------------------------------------------------
(* begin_unverified_source_tree, extract_verified_ustar *)

\* What the host's file system makes of a name.
OnHost(name) ==
    IF ignoreCase THEN [i \in DOMAIN name |-> [name[i] EXCEPT !.form = "any"]] ELSE name

NodeAt(name) == {n \in nodes : n.name = OnHost(name)}

Node(name, kind, own, content) ==
    [name |-> OnHost(name), kind |-> kind, own |-> own, content |-> content]

\* mkdirat: the tree is made once in the life of a stage.
BeginTree ==
    /\ pc = "tree"
    /\ IF made THEN Answer("store") /\ UNCHANGED <<made, progress>>
       ELSE /\ made' = TRUE /\ pc' = "target" /\ UNCHANGED answer
            /\ created' = {} /\ at' = 1 /\ depth' = 1 /\ written' = 0
    /\ UNCHANGED <<walkVars, setting, staged, goal, snapshot, nodes, counts>>

\* The inventory is validated once more and the target must be empty.
CheckTarget ==
    /\ pc = "target"
    /\ IF ~ValidateInventory(entries).ok THEN Answer("refused")
       ELSE IF nodes # {} THEN Answer("unsafe")
       ELSE pc' = "extract" /\ UNCHANGED answer
    /\ UNCHANGED <<walkVars, setting, staged, goal, snapshot, tree, progress, counts>>

Extracting == pc = "extract" /\ at <= Len(entries)
Here == SubSeq(entries[at].name, 1, depth)
AtLeaf == depth = Len(entries[at].name) /\ entries[at].kind = "file"

NextComponent ==
    IF depth < Len(entries[at].name) THEN depth' = depth + 1 /\ UNCHANGED at
    ELSE depth' = 1 /\ at' = at + 1

\* ensure_subdirectory: a directory that is there must be one this call made.  mkdirat and
\* openat are one step: the caller must give a private directory, so nobody exchanges or
\* removes what the call has made, and an entry put beside it is none of openat's concern.
BrokenMayEnter == {n \in NodeAt(Here) : n.kind = "dir"} # {}
MayEnter == Here \in created

EnsureSubdirectory ==
    /\ Extracting /\ ~AtLeaf
    /\ \/ /\ NodeAt(Here) = {}
          /\ nodes' = nodes \cup {Node(Here, "dir", TRUE, <<>>)}
          /\ created' = created \cup {Here}
          /\ NextComponent /\ UNCHANGED <<pc, answer>>
       \/ /\ NodeAt(Here) # {} /\ MayEnter
          /\ NextComponent /\ UNCHANGED <<pc, answer, nodes, created>>
       \/ /\ NodeAt(Here) # {} /\ ~MayEnter
          /\ Answer("unsafe") /\ UNCHANGED <<nodes, created, at, depth>>
    /\ UNCHANGED <<walkVars, setting, staged, goal, snapshot, made, written, counts>>

\* A file is created exclusively, written whole and synced.
WriteFile ==
    /\ Extracting /\ AtLeaf
    /\ LET content == FileBytes(Here)
           size == Len(content)
       IN  IF \/ size # entries[at].bytes
              \/ written + size > MaxTotal \/ size > MaxEntryBytes
           THEN Answer("refused") /\ UNCHANGED <<nodes, written, at, depth>>
           ELSE IF NodeAt(Here) # {}
           THEN Answer("io") /\ written' = written + size /\ UNCHANGED <<nodes, at, depth>>
           ELSE /\ nodes' = nodes \cup {Node(Here, "file", TRUE, content)}
                /\ written' = written + size
                /\ NextComponent /\ UNCHANGED <<pc, answer>>
    /\ UNCHANGED <<walkVars, setting, staged, goal, snapshot, made, created, counts>>

FinishExtraction ==
    /\ pc = "extract" /\ at > Len(entries)
    /\ Answer(IF written = ValidateInventory(entries).total THEN "extracted" ELSE "refused")
    /\ UNCHANGED <<walkVars, setting, staged, goal, snapshot, tree, progress, counts>>

-----------------------------------------------------------------------------
(* What goes wrong, and what others do *)

\* Any file operation fails: the call returns its error and leaves what it has made,
\* also a directory it could not open or a file it could not write or sync.
OperationFails ==
    /\ pc \in {"fetch", "open", "tree", "target", "extract"} /\ Fault
    /\ Answer(IF pc \in {"fetch", "open", "tree"} THEN "store" ELSE "io")
    /\ \/ UNCHANGED nodes
       \/ /\ Extracting /\ NodeAt(Here) = {}
          /\ nodes' = nodes \cup
                {IF AtLeaf THEN Node(Here, "file", TRUE, <<"cut">>)
                 ELSE Node(Here, "dir", TRUE, <<>>)}
    /\ UNCHANGED <<walkVars, setting, staged, goal, snapshot, made, progress>>

\* The staged archive is written over, or put back.
Exchange ==
    /\ exchanges < MaxExchanges /\ exchanges' = exchanges + 1
    /\ staged' = IF staged = lock.archive.blocks THEN OtherArchive ELSE lock.archive.blocks
    /\ UNCHANGED <<walkVars, setting, pc, goal, snapshot, tree, progress, answer, calls, faults>>

Foreign == {n \in nodes : ~n.own}

\* Somebody else makes a directory or a file below the tree; what the call has made they
\* neither replace nor remove.
Intrude ==
    /\ pc \in {"target", "extract"} /\ made
    /\ Len(SetToSeq(Foreign)) < MaxForeign
    /\ \E name \in ForeignName, kind \in {"file", "dir"} :
         /\ NodeAt(name) = {}
         /\ \A p \in Ancestors(name) : \E n \in NodeAt(p) : n.kind = "dir"
         /\ nodes' = nodes \cup {Node(name, kind, FALSE, <<>>)}
    /\ UNCHANGED <<walkVars, setting, staged, pc, goal, snapshot, made, progress, answer, counts>>

Next ==
    \/ \E g \in {"load", "cached", "extract"} : Call(g)
    \/ RefuseAtOnce \/ FetchCached \/ ReadStaged \/ Verify
    \/ Inspect \/ InspectRefused \/ Index
    \/ BeginTree \/ CheckTarget \/ EnsureSubdirectory \/ WriteFile \/ FinishExtraction
    \/ OperationFails \/ Exchange \/ Intrude

Spec == Init /\ [][Next]_vars

-----------------------------------------------------------------------------
(* What an archive means, told from the members its producer put in *)

\* Lists that come out the same on every host: safe names, no two the same but for
\* case, no ancestor or name in two spellings, nothing below a file.
Portable(ms) ==
    /\ \A i \in DOMAIN ms : \A k \in DOMAIN ms[i].name :
         ms[i].name[k].fold \notin UnsafePart \cup ReservedPart
    /\ \A i \in DOMAIN ms : ms[i].kind \in {"file", "dir"}
    /\ \A i, j \in DOMAIN ms :
         /\ i # j => Folded(ms[i].name) # Folded(ms[j].name)
         /\ \A p \in Ancestors(ms[i].name) \cup {ms[i].name} :
            \A q \in Ancestors(ms[j].name) \cup {ms[j].name} :
                Folded(p) = Folded(q) => p = q
         /\ ms[i].kind = "file" => ms[i].name \notin Ancestors(ms[j].name)

\* What the members are listed as.
Listing(ms) ==
    [i \in DOMAIN ms |-> [name |-> ms[i].name, kind |-> ms[i].kind, bytes |-> Len(ms[i].content)]]

WithinLimits(ms) ==
    /\ Len(ms) <= MaxEntries
    /\ \A i \in DOMAIN ms : /\ PathBytes(ms[i].name) <= MaxPath /\ Len(ms[i].name) <= MaxDepth
                            /\ Len(ms[i].content) <= MaxEntryBytes
    /\ Total(Listing(ms)) <= MaxTotal

Members == lock.archive.members

\* The tree those members are.
Meant ==
    LET names == {Members[i].name : i \in DOMAIN Members}
    IN  {Node(Members[i].name, Members[i].kind, TRUE, Members[i].content) :
            i \in DOMAIN Members}
        \cup {Node(p, "dir", TRUE, <<>>) : p \in UNION {Ancestors(n) : n \in names}}

(* Properties *)

\* The block walk and the inventory policy together accept exactly the archives that are
\* well formed, portable and within the limits, whatever form their headers take.
AcceptsExactly ==
    pc = "walk" /\ walk \in {"accepted", "refused"} =>
        (walk = "accepted" <=>
            /\ WellFormed(lock.archive) /\ Len(bytes) * Block <= MaxArchive
            /\ Portable(Members) /\ WithinLimits(Members))

\* A snapshot that was loaded holds the bytes its producer put into each member,
\* although the staged file may have been another before, between or after: it
\* was read once, and what was read was matched with the lock.  An extraction that
\* answers Ok has made the whole tree the archive means and nothing else, also after
\* an earlier call on the same stage failed half way.
OutcomeExact ==
    /\ answer = "loaded" =>
         /\ lock.kind = "archive"
         /\ DOMAIN files = {Members[i].name : i \in {j \in DOMAIN Members : Members[j].kind = "file"}}
         /\ \A i \in DOMAIN Members :
              Members[i].kind = "file" => FileBytes(Members[i].name) = Members[i].content
    /\ answer = "extracted" => {n \in nodes : n.own} = Meant

\* An accepted archive extracts on every host, whether its file system ignores case or
\* not: no two of its members get into each other's way.
AcceptedExtracts ==
    answer \in {"unsafe", "io"} \/ (answer = "refused" /\ pc = "idle" /\ nodes # {}) =>
        faults > 0 \/ Foreign # {} \/ exchanges > 0

\* Nothing is written below an entry somebody else made in the tree, even one whose
\* name an archive member has, which would look like a directory made before.
ForeignUntouched ==
    \A f \in Foreign, n \in nodes :
        n.own /\ Len(n.name) > Len(f.name) => SubSeq(n.name, 1, Len(f.name)) # f.name
=============================================================================
