----------------------------- MODULE Activation -----------------------------
(***************************************************************************)
(* ActivationPlan of crates/prep-store/src/lib.rs: what of a list of results *)
(* goes into PATH, CMAKE_PREFIX_PATH and PKG_CONFIG_PATH, and which paths    *)
(* more than one of them has.  A result is [id, tree]; a tree is a function   *)
(* from relative paths, sequences of names, to nodes [kind, to].  A "link"    *)
(* leads to a path of its tree that is no link; "special" stands for every    *)
(* node that validate_output_tree refuses.                                    *)
(***************************************************************************)
EXTENDS Naturals, FiniteSets, SequencesExt

Nowhere == <<"nowhere">>

\* The path that the file system comes to, following links on the way.
Real(tree, path) ==
    LET step(from, name) ==
            LET p == Append(from, name)
            IN  IF from = Nowhere \/ p \notin DOMAIN tree THEN Nowhere
                ELSE IF tree[p].kind = "link" THEN tree[p].to ELSE p
        at[n \in 0..Len(path)] == IF n = 0 THEN <<>> ELSE step(at[n - 1], path[n])
    IN  at[Len(path)]

NodeKind(tree, path) ==
    LET at == Real(tree, path)
    IN  IF at = <<>> THEN "dir" ELSE IF at \in DOMAIN tree THEN tree[at].kind ELSE "none"

\* collect_leaf_paths does not follow links: a link to a directory is a leaf.
Leaves(tree) == {path \in DOMAIN tree : tree[path].kind # "dir"}

\* Of every result the directories among `candidates`, in the order of the results.
Entries(results, candidates) ==
    LET entry(r, path) == IF NodeKind(r.tree, path) = "dir" THEN <<[id |-> r.id, path |-> path]>> ELSE <<>>
        placed(r) == FlattenSeq([i \in DOMAIN candidates |-> entry(r, candidates[i])])
    IN  FlattenSeq([i \in DOMAIN results |-> placed(results[i])])

Bin == <<"bin">>
PkgConfig == <<<<"lib", "pkgconfig">>, <<"share", "pkgconfig">>>>

HoldersOf(results, path) == {i \in DOMAIN results : path \in Leaves(results[i].tree)}

Collisions(results) ==
    LET paths == UNION {Leaves(r.tree) : r \in Range(results)}
    IN  {path \in paths : Cardinality(HoldersOf(results, path)) > 1}

NoPlan == [refused |-> TRUE]

PlanOf(results) ==
    IF /\ IsInjective([i \in DOMAIN results |-> results[i].id])
       /\ \A r \in Range(results) : \A path \in DOMAIN r.tree : r.tree[path].kind # "special"
    THEN [ refused |-> FALSE,
           path |-> Entries(results, <<Bin>>),
           cmake |-> Entries(results, << <<>> >>),
           pkgConfig |-> Entries(results, PkgConfig),
           collisions |-> Collisions(results) ]
    ELSE NoPlan

\* environment_overrides: all lists are composed or none, and one that has an entry only
\* where no path has the separator of lists in it; what was in a list before comes last.
OverridesMade(plan, composable) ==
    \A entries \in {plan.path, plan.cmake, plan.pkgConfig} : entries = <<>> \/ composable

BrokenPathValue(entries, base) == base \o entries
PathValue(entries, base) == entries \o base

-----------------------------------------------------------------------------
\* The names that occur in results.
Names(results) == UNION {UNION {Range(path) : path \in DOMAIN r.tree} : r \in Range(results)}

\* What a search for `name` along a list of entries finds first.
Offers(results, entry, name) ==
    \E r \in Range(results) :
        r.id = entry.id /\ NodeKind(r.tree, Append(entry.path, name)) = "file"

\* Two results offer the same name along one list: the later one is shadowed.
Shadowed(results, entries, name) ==
    \E e, f \in Range(entries) :
        e.id # f.id /\ Offers(results, e, name) /\ Offers(results, f, name)

\* Search directories are no links, and pkg-config files lie in lib.
PlainLayout(tree) ==
    /\ NodeKind(tree, PkgConfig[2]) # "dir"
    /\ \A path \in DOMAIN tree : tree[path].kind = "link" => Len(path) > 1 /\ path # PkgConfig[1]
=============================================================================
