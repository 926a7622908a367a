-------------------------- MODULE ArchiveInventory --------------------------
(***************************************************************************)
(* archive_policy.rs and validate_archive_entry_path of source.rs in         *)
(* crates/prep-core: which lists of archive members may be extracted.  A     *)
(* name is the sequence of its components; a component has a folded form,    *)
(* shared by its spellings in upper and lower case, and a spelling.          *)
(* Separators count as one byte, as does a component.                        *)
(***************************************************************************)
EXTENDS Naturals, SequencesExt

CONSTANTS
    UnsafePart,     \* folded forms no path may have: "", ".", "..", with \ : or a control
    ReservedPart,   \* those not portable: Windows devices, a final dot or space, not ASCII
    MaxEntries, MaxTotal, MaxEntryBytes, MaxPath,  \* ArchiveLimits
    MaxDepth        \* components a name may have, 128 in the code

ASSUME LimitAssumption ==
    {MaxEntries, MaxTotal, MaxEntryBytes, MaxPath, MaxDepth} \subseteq Nat

\* The same name as a file system that ignores case sees it.
Folded(name) == [i \in DOMAIN name |-> name[i].fold]

Ancestors(name) == {SubSeq(name, 1, k) : k \in 1..(Len(name) - 1)}

PathBytes(name) == 2 * Len(name) - 1

SafePath(name) ==
    /\ PathBytes(name) <= MaxPath
    /\ \A i \in DOMAIN name : name[i].fold \notin UnsafePart

PortablePath(name) ==
    \A i \in DOMAIN name : name[i].fold \notin ReservedPart

\* The bytes that a list of entries takes when it is extracted.
AddBytes(sum, e) == sum + e.bytes
Total(entries) == FoldLeft(AddBytes, 0, entries)

\* A map with one more key.
Inserted(map, key, value) ==
    [k \in DOMAIN map \cup {key} |-> IF k = key THEN value ELSE map[k]]

-----------------------------------------------------------------------------
(* validate_archive_inventory: a walk over the entries that remembers the kind of *)
(* every folded name and the spelling of every folded prefix *)

NothingSeen == [ok |-> TRUE, kinds |-> <<>>, spelled |-> <<>>, total |-> 0]

\* The loop over the components: an ancestor or name met before is spelled as before.
BrokenSpellingKept(spelled, name) == TRUE
SpellingKept(spelled, name) ==
    \A k \in DOMAIN name :
        LET prefix == SubSeq(Folded(name), 1, k)
        IN  prefix \in DOMAIN spelled => spelled[prefix] = name[k].form

Spell(spelled, name) ==
    [prefix \in DOMAIN spelled \cup {SubSeq(Folded(name), 1, k) : k \in DOMAIN name} |->
        IF prefix \in DOMAIN spelled THEN spelled[prefix] ELSE name[Len(prefix)].form]

EntryAdmitted(seen, e) ==
    /\ SafePath(e.name)
    /\ PortablePath(e.name)
    /\ e.kind \in {"file", "dir"}
    /\ Len(e.name) <= MaxDepth
    /\ SpellingKept(seen.spelled, e.name)
    /\ Folded(e.name) \notin DOMAIN seen.kinds
    /\ e.kind = "dir" => e.bytes = 0
    /\ e.bytes <= MaxEntryBytes
    /\ seen.total + e.bytes <= MaxTotal

See(seen, e) ==
    IF seen.ok /\ EntryAdmitted(seen, e)
    THEN [ok |-> TRUE,
          kinds |-> Inserted(seen.kinds, Folded(e.name), e.kind),
          spelled |-> Spell(seen.spelled, e.name),
          total |-> seen.total + e.bytes]
    ELSE [seen EXCEPT !.ok = FALSE]

\* The last loop: what is a file is no ancestor of anything.
BrokenFilesAreLeaves(kinds) == TRUE
FilesAreLeaves(kinds) ==
    \A path \in DOMAIN kinds : \A p \in Ancestors(path) :
        p \in DOMAIN kinds => kinds[p] = "dir"

\* [ok, ..., total]; the total means nothing unless ok.
ValidateInventory(entries) ==
    LET seen == FoldLeft(See, NothingSeen, entries)
    IN  [seen EXCEPT !.ok = @ /\ Len(entries) <= MaxEntries /\ FilesAreLeaves(seen.kinds)]
=============================================================================
