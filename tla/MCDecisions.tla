---------------------------- MODULE MCDecisions ----------------------------
(* The questions that TLC asks: every part right, and every part wrong in some way. *)
EXTENDS Decisions

MCPackage == 1..3
Lists(first, second) ==
    {<<>>} \cup {<<x>> : x \in first} \cup {<<x, y>> : x \in first, y \in second}
           \cup {<<y, x>> : x \in first, y \in second}

\* Manifests and lockfiles of at most two packages, 1 and 2, in versions 1 and 2.
Plain1 == <<5>>  Https == <<6>>
MCHttpsUrl == {Https}
MCNoPin == <<>>
Declared(k, u, p) == [kind |-> k, at |-> u, pin |-> p]
Locked(k, u, o, r) == [kind |-> k, at |-> u, object |-> o, requested |-> r]

DeclaredSources ==
    { Declared("git", Plain1, <<>>), Declared("git", Plain1, <<7>>),
      Declared("archive", Https, <<>>), Declared("archive", Https, <<1>>),
      Declared("archive", Plain1, <<>>), Declared("path", Plain1, <<>>) }
LockedSources ==
    { Locked("git", Plain1, <<1>>, <<>>), Locked("git", Plain1, <<1>>, <<7>>),
      Locked("archive", Https, <<1>>, <<>>), Locked("archive", Https, <<2>>, <<>>),
      Locked("archive", Plain1, <<1>>, <<>>), Locked("path", Plain1, <<>>, <<>>) }

Dependency(n, v, s) == [name |-> n, version |-> v, source |-> s]
MCManifests ==
    LET some == {Dependency(n, v, s) : n \in {1, 2}, v \in {1, 2}, s \in DeclaredSources}
        more == {Dependency(n, 1, Declared("git", Plain1, <<>>)) : n \in {1, 2}}
        build(ss, os) == [systems |-> ss, options |-> os]
        manifest(schema, n, v, ds) ==
            [schema |-> schema, name |-> n, version |-> v, build |-> build(<<>>, {}),
             dependencies |-> ds]
    IN  {manifest("v1", 1, 1, ds) : ds \in Lists(some, more)}
        \cup {[manifest("v1", 1, 1, <<d>>) EXCEPT !.build = build(ss, os)] :
                 d \in more, ss \in {<<1>>, <<2, 1, 2>>}, os \in {{}, {<<Plain1, Https>>}}}
        \cup {manifest("v1", 2, 1, <<>>), manifest("v1", 1, 2, <<>>), manifest("v9", 1, 1, <<>>)}

MCLocks ==
    LET locked(n, v, s, ds) == [name |-> n, version |-> v, source |-> s, dependencies |-> ds]
        some == {locked(n, v, s, <<>>) : n \in {1, 2}, v \in {1, 2}, s \in LockedSources}
        more == {locked(n, 1, Locked("git", Plain1, <<1>>, <<>>), ds) :
                    n \in {1, 2}, ds \in {<<>>, <<2, 1>>, <<1, 1>>}}
        root(n, v, ds) == [name |-> n, version |-> v, dependencies |-> ds]
    IN  {[schema |-> "v1", root |-> root(1, 1, ds), packages |-> ps] :
            ds \in {<<>>, <<1>>, <<2>>, <<1, 2>>, <<2, 1>>, <<1, 1>>}, ps \in Lists(some, more)}
        \cup {[schema |-> s, root |-> root(n, 1, <<>>), packages |-> <<>>] :
                 s \in {"v1", "v9"}, n \in {1, 2}}

\* Builds that differ in one or two parts.  Values hold what labels hold: a map's labels
\* are 18 and 19, the text <<1, 19, 1>> one that looks like the end of a key.
Odd == <<1, 1, 19, 1, 1>>
ToolOf(r, v) == [role |-> r, executable |-> <<1>>, version |-> v]
Base ==
    [ source |-> Locked("git", <<5>>, <<1>>, <<>>), target |-> <<1>>, toolchain |-> ToolOf(<<1>>, <<1>>),
      dependencies |-> <<>>, tools |-> <<>>,
      plugin |-> [name |-> <<1>>, version |-> <<1>>, digest |-> <<1>>, protocol |-> <<1>>],
      configuration |-> <<>>, environment |-> <<>> ]
Maps == UNION {[keys -> {<<1>>, <<1, 19, 1>>, Odd}] : keys \in {{}, {<<1>>}, {<<1, 19, 1>>}, {<<1>>, Odd}}}
MCBuilds ==
    LET dep(p, r) == [package |-> p, result |-> r]
        needs == Lists({dep(p, r) : p \in {<<1>>, <<2>>}, r \in {<<1>>, <<2>>}}, {dep(<<1>>, <<1>>)})
        tools == Lists({ToolOf(r, v) : r \in {<<1>>, <<2>>}, v \in {<<1>>, <<>>}}, {ToolOf(<<1>>, <<1>>)})
    IN  {[Base EXCEPT !.source = s] :
            s \in LockedSources \cup {Locked("git", <<5, 64, 1>>, <<1>>, <<>>),
                                      Locked("archive", <<6, 35, 1>>, <<1>>, <<>>)}}
        \cup {[Base EXCEPT !.target = t, !.plugin.protocol = p] :
                 t \in {<<>>, <<1>>, <<1, 14>>}, p \in {<<1>>, <<2>>}}
        \cup {[Base EXCEPT !.dependencies = d] : d \in needs}
        \cup {[Base EXCEPT !.tools = t] : t \in tools}
        \cup {[Base EXCEPT !.configuration = m] : m \in Maps}
        \cup {[Base EXCEPT !.environment = m] : m \in Maps}

\* Every frame the constructors write, and each with one field dropped, added or changed.
MCLines ==
    LET written == UNION {{[wire |-> w, of |-> type] : w \in Written(type)} : type \in FrameType}
        fields == UNION {DOMAIN line.wire : line \in written}
        values == {"text", "configure", "plan_host_change", "package", "execution context",
                   "host probe", "error", "null", "0", "1"}
        without(w, f) == [g \in DOMAIN w \ {f} |-> w[g]]
    IN  written
        \cup {[wire |-> without(line.wire, f), of |-> "nobody"] : line \in written, f \in fields}
        \cup {[wire |-> (f :> v) @@ line.wire, of |-> "nobody"] :
                 line \in written, f \in fields, v \in values}

MCPlugins ==
    [operations : {{}, {"build", "test", "plan_host_change"}, PluginOperation},
     capabilities : { {}, {"process.spawn"}, {"host.package_manager"},
                      {"process.spawn", "filesystem.read.source", "host.package_manager"},
                      {"process.spawn", "filesystem.write.staging"} }]
MCPolicies ==
    { {}, {"host.package_manager"}, {"process.spawn"},
      {"process.spawn", "filesystem.read.source"}, Capability }

MCDependencies ==
    { [manager |-> "apt", package |-> <<"a", ":", "a">>, version |-> <<>>],
      [manager |-> "brew", package |-> <<"a", "/", "a">>, version |-> <<<<"a", ".", ".">>>>],
      [manager |-> "brew", package |-> <<"a", ".", ".">>, version |-> <<>>],
      [manager |-> "other", package |-> <<"-", "a">>, version |-> <<>>],
      [manager |-> "other", package |-> <<"a">>, version |-> <<<<>>>>] }

Directory(r) == [absolute |-> TRUE, node |-> "directory", real |-> r, utf8 |-> TRUE]
MCBuilderInputs ==
    LET paths == {Directory("x"), [Directory("x") EXCEPT !.node = "link"],
                  [Directory("x") EXCEPT !.absolute = FALSE], [Directory("x") EXCEPT !.utf8 = FALSE]}
    IN  [ op : BuilderOperation, allowedKeys : {{}, {"K"}, {"K", "L"}},
          candidates : {<<>>, [K |-> "v"], [K |-> "v", L |-> "nul"]},
          roots : {<<Directory("s"), Directory("b"), p>> : p \in paths},
          prefixes : {<<>>, <<Directory("p"), [Directory("q") EXCEPT !.node = "file"]>>},
          arguments : {<<"arg">>, <<"nul">>} ]

\* Trees of results: a file in bin and lib, links, something special.
Node(k) == [kind |-> k, to |-> <<>>]
Link(p) == [kind |-> "link", to |-> p]
Dir(path) == path :> Node("dir")
File(path) == path :> Node("file")
PlainTrees ==
    { <<>>, Dir(Bin) @@ File(<<"bin", "cc">>), Dir(Bin) @@ File(<<"bin", "ld">>),
      Dir(Bin) @@ File(<<"bin", "ld">>) @@ (<<"bin", "cc">> :> Link(<<"bin", "ld">>)),
      Dir(<<"lib">>) @@ Dir(PkgConfig[1]) @@ File(<<"lib", "pkgconfig", "z">>),
      File(Bin), Dir(Bin) @@ (<<"bin", "null">> :> Node("special")) }
OddTrees ==
    { Dir(<<"sbin">>) @@ File(<<"sbin", "cc">>) @@ (Bin :> Link(<<"sbin">>)),
      Dir(<<"share">>) @@ Dir(PkgConfig[2]) @@ File(<<"share", "pkgconfig", "z">>) }
MCResultLists ==
    Lists([id : {1}, tree : PlainTrees \cup OddTrees],
          [id : {1, 2}, tree : PlainTrees \cup OddTrees])
MCBases == {<<>>, <<[id |-> 0, path |-> <<"usr", "bin">>]>>}

\* Remotes with the ref asked for, a branch or a tag, and one whose name ends in it.
RefTo(s, n) == [space |-> s, name |-> n, form |-> "ref"]
MCRefsAsked == {RefTo("tags", "v1"), RefTo("heads", "v1")}
Object(i, t, k) == [id |-> i, target |-> t, kind |-> k]
MCRemotes ==
    LET objects == { Object("c1", "c1", "commit"), Object("t1", "c1", "commit"),
                     Object("t1", "b1", "tree"), Object("b1", "b1", "blob") }
        longer == RefTo("tags", "refs/tags/v1") :> Object("c2", "c2", "commit")
    IN  {<<>>, longer} \cup {ref :> o : ref \in MCRefsAsked, o \in objects}
        \cup {(ref :> o) @@ longer : ref \in MCRefsAsked, o \in objects}

Part(f) == [fold |-> f, form |-> "lower"]
Entry(m, n) == [mode |-> m, idBytes |-> n]
MCTrees ==
    LET a == <<Part("a")>>  b == <<Part("a"), Part("b")>>  up == <<Part("up"), Part("a")>>
    IN  {<<>>} \cup {a :> Entry(m, 40) : m \in {"100644", "100755", "120000", "160000"}}
        \cup {(a :> Entry("100644", 40)) @@ (b :> Entry("100755", n)) : n \in {40, 64}}
        \cup {up :> Entry("100644", 64)}
        \cup {(a :> Entry("100644", 40)) @@ (b :> Entry("100644", 40)) @@
              (<<Part("b")>> :> Entry("100644", 40))}
=============================================================================
