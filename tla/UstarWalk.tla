------------------------------ MODULE UstarWalk ------------------------------
(***************************************************************************)
(* inspect_ustar of crates/prep-core/src/archive_tar.rs: walk the blocks of  *)
(* an archive held in memory and list its members, or refuse it.  A block is *)
(* a header or Block bytes of data; a header read as data is no zero byte.   *)
(* A block that is not whole is one the archive was cut off in.              *)
(***************************************************************************)
EXTENDS ArchiveInventory

CONSTANTS
    Block,       \* bytes in a block, 512 in the code
    MaxArchive,  \* max_archive_bytes, a multiple of Block
    EmptyPart    \* the component before or after a lone separator

ASSUME BlockAssumption ==
    Block \in Nat \ {0} /\ MaxArchive \in Nat /\ EmptyPart \in UnsafePart

VARIABLES
    bytes,    \* the blocks of the snapshot
    pos,      \* blocks consumed
    left,     \* data blocks of the current member still to come
    entries,  \* members found
    walk      \* "header", "data", "second", "padding", "accepted" or "refused"

walkVars == <<bytes, pos, left, entries, walk>>

DataBytes(b) == IF b.header THEN [i \in 1..Block |-> "head"] ELSE b.bytes

IsZero(b) == \A i \in 1..Block : DataBytes(b)[i] = "zero"

Padded(size) == (size + Block - 1) \div Block

Current == bytes[pos + 1]

\* Something is left to read, and it is within the limit.
Rest == pos < Len(bytes) /\ (pos + 1) * Block <= MaxArchive

\* read_block: there is one more block, and read_exact fills it.
More == Rest /\ Current.whole

\* Prefix and name joined; the final separator of a directory is dropped.
HeaderName(h) ==
    LET raw == h.prefix \o h.name
    IN  IF h.kind = "dir" /\ Len(raw) > 1 /\ Last(raw).fold = EmptyPart
        THEN Front(raw) ELSE raw

\* Magic, checksum and octal fields are `sound`.
HeaderAdmitted(h) ==
    /\ h.header /\ h.sound
    /\ Len(entries) < MaxEntries
    /\ h.size <= MaxEntryBytes
    /\ h.kind \in {"file", "dir"}
    /\ h.kind = "dir" => h.size = 0
    /\ SafePath(HeaderName(h))
    /\ Total(entries) + h.size <= MaxTotal

StartWalk(content) ==
    /\ bytes' = content /\ pos' = 0 /\ left' = 0 /\ entries' = <<>> /\ walk' = "header"

Consume(next) == pos' = pos + 1 /\ walk' = next /\ UNCHANGED bytes

ReadMember ==
    /\ walk = "header" /\ More /\ HeaderAdmitted(Current)
    /\ entries' = Append(entries, [name |-> HeaderName(Current), kind |-> Current.kind,
                                   bytes |-> Current.size])
    /\ left' = Padded(Current.size)
    /\ Consume(IF Current.size = 0 THEN "header" ELSE "data")

\* In the last block of a member everything beyond its size is zero.
PaddingClean ==
    LET used == Last(entries).bytes % Block
    IN  left = 1 /\ used # 0 => \A i \in (used + 1)..Block : DataBytes(Current)[i] = "zero"

ReadData ==
    /\ walk = "data" /\ More /\ PaddingClean
    /\ left' = left - 1
    /\ Consume(IF left = 1 THEN "header" ELSE "data")
    /\ UNCHANGED entries

\* Two zero blocks end the archive; only zeros may follow, in blocks or not.
ReadZero ==
    /\ \/ walk = "header" /\ More /\ IsZero(Current) /\ Consume("second")
       \/ walk = "second" /\ More /\ IsZero(Current) /\ Consume("padding")
       \/ walk = "padding" /\ Rest /\ IsZero(Current) /\ Consume("padding")
    /\ UNCHANGED <<left, entries>>

ReadEnd ==
    /\ walk = "padding" /\ pos = Len(bytes)
    /\ walk' = IF ValidateInventory(entries).ok THEN "accepted" ELSE "refused"
    /\ UNCHANGED <<bytes, pos, left, entries>>

BlockRefused ==
    \/ walk \in {"header", "data", "second"} /\ ~More
    \/ walk = "padding" /\ pos < Len(bytes) /\ ~Rest
    \/ walk = "header" /\ More /\ ~HeaderAdmitted(Current) /\ ~IsZero(Current)
    \/ walk = "data" /\ More /\ ~PaddingClean
    \/ walk = "second" /\ More /\ ~IsZero(Current)
    \/ walk = "padding" /\ Rest /\ ~IsZero(Current)

Refuse == BlockRefused /\ walk' = "refused" /\ UNCHANGED <<bytes, pos, left, entries>>

WalkStep == ReadMember \/ ReadData \/ ReadZero \/ ReadEnd \/ Refuse
=============================================================================
