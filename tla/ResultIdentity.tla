--------------------------- MODULE ResultIdentity ---------------------------
(***************************************************************************)
(* BuildInput::result_identity of crates/prep-core/src/identity.rs.  A text  *)
(* is a sequence of numbers, its bytes; labels are bytes as values are, so a  *)
(* value may hold what another field is labelled with.  The digest is taken  *)
(* to have no collisions: an identity is the text that is hashed.            *)
(***************************************************************************)
EXTENDS LockMatches

Refused == <<>>

\* What is hashed.  A map is a function from its keys.
IsMap(map) ==
    /\ IsFiniteSet(DOMAIN map) /\ DOMAIN map \subseteq ByteString
    /\ map \in [DOMAIN map -> ByteString]
Tool == [role : ByteString, executable : ByteString, version : ByteString]
BuildInput(maps) ==
    [source : LockedSource, target : ByteString, toolchain : Tool,
     dependencies : Seq([package : ByteString, result : ByteString]), tools : Seq(Tool),
     plugin : [name : ByteString, version : ByteString, digest : ByteString, protocol : ByteString],
     configuration : maps, environment : maps]

\* Order of bytes, in which every list and map is hashed.
Before(s, t) ==
    \E i \in DOMAIN t :
        /\ \A j \in 1..(i - 1) : j \in DOMAIN s /\ s[j] = t[j]
        /\ i \notin DOMAIN s \/ s[i] < t[i]

InOrder(texts) ==
    Enumerated(texts, {pair \in texts \X texts : Before(pair[1], pair[2])})

\* IdentityHasher: a text is preceded by its length, a field is a label and a value.
BrokenBytes(value) == value
Bytes(value) == <<Len(value)>> \o value

Field(label, value) == Bytes(<<label>>) \o Bytes(value)
Count(label, n) == Field(label, <<n>>)

HashTool(label, tool) ==
    Field(label, tool.role) \o Field(label + 1, tool.executable) \o Field(label + 2, tool.version)

HashMap(label, map) ==
    LET pair(key) == Field(label + 1, key) \o Field(label + 2, map[key])
        keys == InOrder(DOMAIN map)
    IN  Count(label, Cardinality(DOMAIN map)) \o FlattenSeq([i \in DOMAIN keys |-> pair(keys[i])])

\* Sorted by a field that no two share.
ByKey(list, key) ==
    Enumerated(Range(list),
        {pair \in Range(list) \X Range(list) : Before(pair[1][key], pair[2][key])})

HashDependencies(list) ==
    LET sorted == ByKey(list, "package")
    IN  Count(6, Len(list))
        \o FlattenSeq([i \in DOMAIN sorted |->
                      Field(7, sorted[i].package) \o Field(8, sorted[i].result)])

HashTools(list) ==
    LET sorted == ByKey(list, "role")
    IN  Count(9, Len(list)) \o FlattenSeq([i \in DOMAIN sorted |-> HashTool(10, sorted[i])])

Scalar(text) == text # <<>>

ToolValid(tool) == Scalar(tool.role) /\ Scalar(tool.executable) /\ Scalar(tool.version)

Cacheable(input) ==
    /\ GloballyCacheable(input.source)
    /\ Scalar(input.target) /\ Scalar(input.plugin.protocol)
    /\ \A tool \in Range(input.tools) \cup {input.toolchain} : ToolValid(tool)
    /\ IsInjective([i \in DOMAIN input.dependencies |-> input.dependencies[i].package])
    /\ IsInjective([i \in DOMAIN input.tools |-> input.tools[i].role])
    /\ \A map \in {input.configuration, input.environment} : \A key \in DOMAIN map :
         Scalar(key) /\ Scalar(map[key])

ResultIdentityOf(input) ==
    IF ~Cacheable(input) THEN Refused
    ELSE FlattenSeq(<<
        Field(1, CanonicalIdentity(input.source)),
        Field(2, input.target),
        HashTool(3, input.toolchain),
        HashDependencies(input.dependencies),
        HashTools(input.tools),
        Field(13, input.plugin.name), Field(14, input.plugin.version),
        Field(15, input.plugin.digest), Field(16, input.plugin.protocol),
        HashMap(17, input.configuration),
        HashMap(20, input.environment) >>)

-----------------------------------------------------------------------------
\* Inputs of one and the same build.  How a source was asked for, and the order in which
\* dependencies and tools are given, do not count.
SameBuild(x, y) ==
    /\ x.source.kind = y.source.kind /\ x.source.at = y.source.at
    /\ x.source.object = y.source.object
    /\ \A part \in {"dependencies", "tools"} :
         Len(x[part]) = Len(y[part]) /\ Range(x[part]) = Range(y[part])
    /\ \A part \in DOMAIN x \ {"source", "dependencies", "tools"} : x[part] = y[part]
=============================================================================
