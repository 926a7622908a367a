----------------------------- MODULE GitAnswers -----------------------------
(***************************************************************************)
(* What git_command.rs, git_run.rs, git_tree.rs and source.rs of             *)
(* crates/prep-core make of Git's answers: the commit a ref stands for, the   *)
(* kind of an object, the listing of a tree, the HEAD of a checkout.  The     *)
(* remote and what Git prints of it are external: an object is a commit, or   *)
(* a tag of one.                                                             *)
(***************************************************************************)
EXTENDS ArchiveInventory, FiniteSets

CONSTANTS NoObject, MaxListed   \* no commit; max_entries of a tree listing

\* A ref is in one of two spaces; what a tag is of in the end is printed as its peeled form.
Ref == [space : {"heads", "tags"}, name : STRING, form : {"ref"}]
Peeled(ref) == [ref EXCEPT !.form = "peeled"]

\* parse_exact_git_ref; a line is [object, ref], an object that is no object ID is NoObject.
\* It reads no answer of more than 4096 bytes; the one or two lines it takes, of a ref of
\* at most 256 bytes, are never as long, so the bound decides nothing.
LinesOf(lines, ref) == {i \in DOMAIN lines : lines[i].ref = ref}

RefParsed(lines, ref) ==
    LET direct == LinesOf(lines, ref)
        peeled == IF ref.space = "tags" THEN LinesOf(lines, Peeled(ref)) ELSE {}
    IN  IF /\ lines # <<>>
           /\ \A line \in Range(lines) : line.object # NoObject
           /\ Cardinality(direct) = 1 /\ Cardinality(peeled) <= 1
           /\ Cardinality(direct) + Cardinality(peeled) = Len(lines)
        THEN lines[CHOOSE i \in IF peeled # {} THEN peeled ELSE direct : TRUE].object
        ELSE NoObject

\* inspect_git_commit_type: `git cat-file -t` must print commit and nothing else.
BrokenCommitKind(printed) == printed # "nothing"
CommitKind(printed) == printed = "commit"

\* verify_git_head.
HeadVerified(source, observed) == source.kind = "git" /\ source.object = observed

\* A record of ls-tree -r -z: [path, mode, kind, idBytes], or one that is not of this form.
RecordAdmitted(record) ==
    /\ record.form = "record" /\ SafePath(record.path)
    /\ record.mode \in {"100644", "100755"} /\ record.kind = "blob"
    /\ record.idBytes \in {40, 64}

\* validate_git_tree_listing; `ended` tells whether the last record ends in NUL.
ListingAdmitted(records, ended) ==
    \/ records = <<>>
    \/ /\ ended
       /\ Len(records) <= MaxListed
       /\ \A r \in Range(records) : RecordAdmitted(r)
       /\ IsInjective([i \in DOMAIN records |-> records[i].path])
       /\ \A r, q \in Range(records) : r.idBytes = q.idBytes

-----------------------------------------------------------------------------
(* Git, as the code expects it *)

\* A remote is a function from refs to objects [id, target, kind]: what a tag is of, in
\* the end, is its target; anything else is its own.  Its refs are those that ls-remote
\* takes for the ref asked for, which need only end in it; the target of a tag is printed
\* after it or not.
Printed(remote, peel) ==
    LET refs == SetToSeq(DOMAIN remote)
        print(ref) ==
            <<[object |-> remote[ref].id, ref |-> ref]>> \o
            (IF peel /\ remote[ref].id # remote[ref].target
             THEN <<[object |-> remote[ref].target, ref |-> Peeled(ref)]>> ELSE <<>>)
    IN  FlattenSeq([i \in DOMAIN refs |-> print(refs[i])])

\* What cat-file -t prints of an object of the remote.
KindPrinted(remote, id) ==
    LET objects == {remote[ref] : ref \in DOMAIN remote}
    IN  IF \E o \in objects : o.id = id /\ o.id # o.target THEN "tag"
        ELSE IF \E o \in objects : o.target = id
        THEN (CHOOSE o \in objects : o.target = id).kind ELSE "nothing"

\* What ls-tree prints of a tree, a function from paths to [mode, idBytes].
KindOf(mode) == IF mode = "160000" THEN "commit" ELSE "blob"

Listed(tree) ==
    LET paths == SetToSeq(DOMAIN tree)
    IN  [i \in DOMAIN paths |->
            [form |-> "record", path |-> paths[i], mode |-> tree[paths[i]].mode,
             kind |-> KindOf(tree[paths[i]].mode), idBytes |-> tree[paths[i]].idBytes]]
=============================================================================
