---------------------------- MODULE LockMatches ----------------------------
(***************************************************************************)
(* Manifest and Lockfile of crates/prep-manifest/src/lib.rs: which lockfile  *)
(* fits a manifest, and what writing either of them changes.  Names are      *)
(* numbers in the order of their text.  A source is `at` a URL or a path; its *)
(* pin is the declared ref or digest, its object the locked commit or digest. *)
(***************************************************************************)
EXTENDS Naturals, FiniteSets, SequencesExt

CONSTANTS
    HttpsUrl,  \* the URLs that begin with https://
    NoPin      \* no ref, or no digest, is declared

\* What prep.toml and prep.lock can say; a text is a sequence of numbers, its bytes.
ByteString == Seq(Nat)
SourceKind == {"git", "archive", "path"}
DeclaredSource == [kind : SourceKind, at : ByteString, pin : ByteString \cup {NoPin}]
LockedSource ==
    [kind : SourceKind, at : ByteString, object : ByteString, requested : ByteString \cup {NoPin}]
BuildDeclaration == [systems : Seq(Nat), options : SUBSET (ByteString \X ByteString)]
Manifest ==
    [schema : STRING, name : Nat, version : Nat, build : BuildDeclaration,
     dependencies : Seq([name : Nat, version : Nat, source : DeclaredSource])]
Lockfile ==
    [schema : STRING, root : [name : Nat, version : Nat, dependencies : Seq(Nat)],
     packages : Seq([name : Nat, version : Nat, source : LockedSource, dependencies : Seq(Nat)])]

\* SourceDeclaration::validate and LockedSource::validate.
SourceAdmitted(source) == source.kind = "archive" => source.at \in HttpsUrl

NamesOf(list) == [i \in DOMAIN list |-> list[i].name]

ManifestValid(m) ==
    /\ m.schema = "v1"
    /\ \A d \in Range(m.dependencies) : SourceAdmitted(d.source)
    /\ IsInjective(NamesOf(m.dependencies))

LockValid(l) ==
    /\ l.schema = "v1"
    /\ \A p \in Range(l.packages) : SourceAdmitted(p.source) /\ IsInjective(p.dependencies)
    /\ IsInjective(NamesOf(l.packages))
    /\ IsInjective(l.root.dependencies)

\* What resolved the source is not compared, nor is the commit: no manifest names one.
SourceMatches(declared, locked) ==
    /\ declared.kind = locked.kind
    /\ declared.at = locked.at
    /\ declared.kind = "git" => declared.pin = locked.requested
    /\ declared.kind = "archive" => declared.pin \in {NoPin, locked.object}

\* Extra packages are allowed: those the dependencies need in turn.  What the manifest
\* says of the build is not locked, and not compared.
BrokenFits(l, m) ==
    /\ LockValid(l) /\ ManifestValid(m)
    /\ l.root.name = m.name /\ l.root.version = m.version
    /\ \A d \in Range(m.dependencies) : \E p \in Range(l.packages) :
         p.name = d.name /\ p.version = d.version /\ SourceMatches(d.source, p.source)
ValidateAgainst(l, m) ==
    /\ LockValid(l) /\ ManifestValid(m)
    /\ l.root.name = m.name /\ l.root.version = m.version
    /\ Range(l.root.dependencies) = Range(NamesOf(m.dependencies))
    /\ \A d \in Range(m.dependencies) : \E p \in Range(l.packages) :
         p.name = d.name /\ p.version = d.version /\ SourceMatches(d.source, p.source)

\* The elements of a finite set, each behind those that precede it.
Enumerated(S, precedes) ==
    [k \in 1..Cardinality(S) |->
        CHOOSE x \in S : Cardinality({y \in S : <<y, x>> \in precedes}) = k - 1]

\* Sorted; the names are distinct.
ByName(list) ==
    Enumerated(Range(list), {pair \in Range(list) \X Range(list) : pair[1].name < pair[2].name})
Ascending(names) ==
    Enumerated(Range(names), {pair \in Range(names) \X Range(names) : pair[1] < pair[2]})

\* Build systems may be repeated.
Sorted(systems) == SortSeq(systems, LAMBDA x, y : x < y)

\* to_toml of a valid manifest or lockfile, read again.
ManifestWritten(m) == [m EXCEPT !.dependencies = ByName(@), !.build.systems = Sorted(@)]

LockWritten(l) ==
    LET rewrite(p) == [p EXCEPT !.dependencies = Ascending(@)]
    IN  [l EXCEPT !.root.dependencies = Ascending(@),
                  !.packages = [i \in DOMAIN ByName(@) |-> rewrite(ByName(@)[i])]]

\* LockedSource::canonical_identity as text; `Tag` and the separator are what the code writes.
Tag == [git |-> <<101>>, archive |-> <<102>>, path |-> <<103>>]
Separator == [git |-> <<64>>, archive |-> <<35>>, path |-> <<>>]

CanonicalIdentity(source) ==
    Tag[source.kind] \o source.at \o Separator[source.kind] \o source.object

GloballyCacheable(source) == source.kind # "path"

-----------------------------------------------------------------------------
\* Two manifests of one package that ask for the same dependencies: order and undeclared
\* digests may differ, and so may all of [build].
SameRequest(m, n) ==
    /\ m.name = n.name /\ m.version = n.version
    /\ Len(m.dependencies) = Len(n.dependencies)
    /\ \A d \in Range(m.dependencies) : \E e \in Range(n.dependencies) :
         /\ d.name = e.name /\ d.version = e.version
         /\ d.source.kind = e.source.kind /\ d.source.at = e.source.at
         /\ \/ d.source.pin = e.source.pin
            \/ d.source.kind = "archive" /\ NoPin \in {d.source.pin, e.source.pin}
=============================================================================
