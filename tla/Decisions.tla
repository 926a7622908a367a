------------------------------ MODULE Decisions ------------------------------
(***************************************************************************)
(* The parts of prep that decide something from their arguments alone, each  *)
(* asked any one question of a bounded set: does this lockfile fit, which     *)
(* identity has this build, what does this line say, and so on.  The build    *)
(* order of a lockfile, the one decision that is a search, is found by the    *)
(* steps of BuildGraph.                                                       *)
(***************************************************************************)
EXTENDS BuildGraph, ResultIdentity, Planning, Activation, GitAnswers

CONSTANTS
    Locks, Manifests,          \* lockfiles and manifests
    Builds,                    \* inputs of result_identity
    Lines,                     \* protocol frames, [wire, of]: the type written, or "nobody"
    Plugins, Policies,         \* descriptors; sets of allowed capabilities
    Dependencies, Providers,   \* host dependencies; names of host providers
    BuilderInputs,             \* what becomes a builder request
    ResultLists, Bases,        \* published results to activate; what a path list held before
    Remotes, Trees, RefsAsked  \* Git remotes, commits' trees, refs

\* What a manifest and a lockfile can say.  A path has no pin.
ASSUME LockAssumption ==
    /\ HttpsUrl \subseteq ByteString
    /\ Locks \subseteq Lockfile /\ Manifests \subseteq Manifest
    /\ \A m \in Manifests : \A d \in Range(m.dependencies) :
         d.source.kind = "path" => d.source.pin = NoPin

\* Every input of a build is a text, the object of a source hexadecimal.
ASSUME BuildAssumption ==
    /\ Builds \subseteq BuildInput(UNION {{b.configuration, b.environment} : b \in Builds})
    /\ \A b \in Builds :
         /\ IsMap(b.configuration) /\ IsMap(b.environment)
         /\ Range(b.source.object) \cap {Separator["git"][1], Separator["archive"][1]} = {}

\* A line that is of a frame type was written by its constructor.
ASSUME LineAssumption ==
    \A line \in Lines : line.of # "nobody" => line.of \in FrameType /\ line.wire \in Written(line.of)

\* Descriptors and inputs are records, roots and prefixes lists of paths.
ASSUME BuilderAssumption ==
    /\ Plugins \subseteq [operations : SUBSET PluginOperation, capabilities : SUBSET Capability]
    /\ BuilderInputs \subseteq
         [op : BuilderOperation, allowedKeys : {i.allowedKeys : i \in BuilderInputs},
          candidates : {i.candidates : i \in BuilderInputs},
          roots : {i.roots : i \in BuilderInputs},
          prefixes : {i.prefixes : i \in BuilderInputs},
          arguments : {i.arguments : i \in BuilderInputs}]
    /\ \A i \in BuilderInputs :
         i.roots \in Seq(Range(i.roots)) /\ i.prefixes \in Seq(Range(i.prefixes))

\* Paths are sequences of names, none of them that of Nowhere.
ASSUME ResultAssumption ==
    /\ \A results \in ResultLists :
         /\ results \in Seq(Range(results))
         /\ \A r \in Range(results) : Nowhere \notin DOMAIN r.tree /\ <<>> \notin DOMAIN r.tree
    /\ \A base \in Bases : base \in Seq(Range(base))

\* Refs and objects exist, an object ID is of one object, and Git prints all of 40 or all of 64 digits.
ASSUME GitAssumption ==
    /\ RefsAsked \subseteq Ref /\ MaxListed \in Nat
    /\ \A remote \in Remotes :
         /\ IsFiniteSet(DOMAIN remote) /\ DOMAIN remote \subseteq Ref
         /\ \A r, q \in DOMAIN remote :
              /\ remote[r].id # NoObject /\ remote[r].target # NoObject
              /\ remote[r].target = remote[q].target => remote[r].kind = remote[q].kind
    /\ \A tree \in Trees :
         /\ IsFiniteSet(DOMAIN tree) /\ tree = [path \in DOMAIN tree |-> tree[path]]
         /\ \A path \in DOMAIN tree : tree[path].idBytes \in {40, 64}

VARIABLE asked

allVars == <<vars, asked>>

NoLockfile ==
    /\ roots = {} /\ deps = [p \in Package |-> {}] /\ outcome = "ok"
    /\ permanent = {} /\ temporary = {} /\ stack = <<>> /\ order = <<>> /\ cycle = <<>>

DInit ==
    \/ Init /\ asked = [topic |-> "order"]
    \/ NoLockfile /\ asked = [topic |-> "nothing"]

\* One question, of the questions of a topic.
Ask(questions) == asked.topic = "nothing" /\ asked' \in questions /\ UNCHANGED vars

CheckLock == Ask([topic : {"lock"}, lock : Locks])

IdentifyBuilds == Ask([topic : {"identity"}, one : Builds, other : Builds])

ReadLine == Ask([topic : {"frame"}, line : Lines])

PlanForHost ==
    Ask([topic : {"host"}, plugin : Plugins, allowed : Policies, op : HostOperation,
         dependency : Dependencies, answeredOp : HostOperation, id : {"id1", "id2"},
         named : Dependencies, by : Providers, present : BOOLEAN])

RequestBuilder ==
    Ask([topic : {"builder"}, input : BuilderInputs, plugin : Plugins, allowed : Policies])

Activate ==
    Ask([topic : {"activate"}, results : ResultLists, base : Bases, composable : BOOLEAN])

LockGitSource ==
    Ask([topic : {"git"}, remote : Remotes, ref : RefsAsked, peel : BOOLEAN, tree : Trees,
         ended : BOOLEAN, checkedOut : BOOLEAN])

FindOrder == asked.topic = "order" /\ Next /\ UNCHANGED asked

DNext ==
    \/ CheckLock \/ IdentifyBuilds \/ ReadLine \/ PlanForHost
    \/ RequestBuilder \/ Activate \/ LockGitSource \/ FindOrder

DSpec == DInit /\ [][DNext]_allVars /\ WF_allVars(FindOrder)

-----------------------------------------------------------------------------
(* Properties *)

\* The manifests that a lockfile fits are of one package and ask for the same dependencies,
\* so an edit of those is noticed; [build] is no part of what is locked.  A manifest that is
\* written out, its lists sorted, asks for the same, and whether a lockfile fits it is the
\* same for what is written of both.
LockFitsOneManifest ==
    asked.topic = "lock" =>
        LET fitting == {m \in Manifests : ValidateAgainst(asked.lock, m)}
        IN  /\ \A m, n \in fitting : SameRequest(m, n)
            /\ \A m \in fitting : SameRequest(m, ManifestWritten(m))
            /\ LockValid(asked.lock) =>
                 \A m \in {m \in Manifests : ManifestValid(m)} :
                     m \in fitting
                     <=> ValidateAgainst(LockWritten(asked.lock), ManifestWritten(m))

\* Two builds share an identity, and so a stored result, exactly if they are the same
\* build: no value passes for another field, and no order counts.
IdentityDecides ==
    asked.topic = "identity" =>
        LET x == asked.one  y == asked.other
        IN  ResultIdentityOf(x) # Refused /\ ResultIdentityOf(y) # Refused =>
                (ResultIdentityOf(x) = ResultIdentityOf(y) <=> SameBuild(x, y))

\* A frame reads as the type it was written as, and no line, however it came about,
\* reads as two types, but for a refusal, which answers any request.
FramesReadAsSent ==
    asked.topic = "frame" =>
        LET wire == asked.line.wire
            readings == {type \in FrameType : DecodeFrame([wire |-> wire, bytes |-> 1], type)}
        IN  /\ asked.line.of \in readings \cup {"nobody"}
            /\ Cardinality(readings) > 1 =>
                 readings = DOMAIN Answers /\ wire.status = "error"

\* An answer that is believed was given to the very request, about the dependency and by
\* the provider that were asked for, and the request was one that the plugin declares
\* and the policy allows.
AnswerBelievedIsOurs ==
    asked.topic = "host" =>
        LET request == [id |-> "id1", operation |-> asked.op,
                        dependency |-> asked.dependency]
            answer == [protocol |-> "v1", id |-> asked.id, status |-> "ok",
                       type |-> AnswerKind(asked.answeredOp),
                       present |-> asked.present, installed |-> TRUE,
                       provider |-> asked.by, dependency |-> asked.named, summary |-> "text"]
        IN  HostRequestMade(asked.plugin, asked.allowed, asked.op, asked.dependency)
            /\ AnswerBelieved(request, "us", answer) =>
                /\ asked.op \in asked.plugin.operations
                /\ "host.package_manager" \in asked.allowed
                /\ asked.answeredOp = asked.op /\ asked.id = "id1"
                /\ asked.op = "plan_host_change" =>
                     asked.named = asked.dependency /\ asked.by = "us"
                /\ asked.op = "probe_host_dependency" => asked.present

\* What a builder is asked and told depends on what it was granted and on nothing else:
\* further operations, capabilities or variables change nothing, and what an operation
\* needs cannot be missing.
OnlyGrantedMatters ==
    asked.topic = "builder" =>
        LET input == asked.input  plugin == asked.plugin  allowed == asked.allowed
            needed == RequiredCapabilities(input.op)
            trimmed == [plugin EXCEPT !.operations = @ \cap {input.op},
                                      !.capabilities = @ \cap needed]
            bare == [input EXCEPT !.candidates =
                        [key \in DOMAIN @ \cap input.allowedKeys |-> @[key]]]
            frame == BuilderFrame(input, plugin, allowed)
        IN  /\ frame = BuilderFrame(bare, trimmed, allowed \cap needed)
            /\ \A c \in needed :
                 BuilderFrame(input, plugin, allowed \ {c}).operation = "refused"
            /\ frame.operation # "refused" =>
                 \A i \in DOMAIN input.roots : input.roots[i].node # "link"

\* A name that two results offer along one search path is in a collision of the plan:
\* docs/design/prep-2.md:296, "Collisions become activation/planning diagnostics".
ShadowedNamesReported ==
    asked.topic = "activate" =>
        LET plan == PlanOf(asked.results)
        IN  ~plan.refused =>
                \A entries \in {plan.path, plan.pkgConfig} : \A name \in Names(asked.results) :
                    Shadowed(asked.results, entries, name) => \E e \in Range(entries) : Append(e.path, name) \in plan.collisions

\* Where no search directory is a link and pkg-config files are kept in lib, the plan
\* reports every shadowed name; and in any layout what a result offers along a list is
\* found in a result, not in what the list held before, which may have any name.
ActivationSearchesResults ==
    asked.topic = "activate" =>
        LET plan == PlanOf(asked.results)
            value(entries) == PathValue(entries, asked.base)
            offering(entries, name) ==
                {i \in DOMAIN value(entries) : \/ value(entries)[i] \in Range(asked.base)
                                               \/ Offers(asked.results, value(entries)[i], name)}
        IN  /\ (\A r \in Range(asked.results) : PlainLayout(r.tree)) => ShadowedNamesReported
            /\ ~plan.refused /\ OverridesMade(plan, asked.composable) =>
                 \A entries \in {plan.path, plan.pkgConfig} : \A e \in Range(entries) :
                     \A name \in Names(asked.results) :
                         Offers(asked.results, e, name) =>
                             value(entries)[CHOOSE i \in offering(entries, name) :
                                 \A j \in offering(entries, name) : i <= j] \in Range(entries)

\* A ref is resolved, the object inspected, its tree listed and the checkout's HEAD
\* compared: all of it succeeds only for the commit that the ref stands for, with a tree
\* of plain files, and it does succeed for a branch whose tree is such a tree.
GitSourceIsWhatRefNamed ==
    asked.topic = "git" =>
        LET remote == asked.remote  tree == asked.tree
            found == RefParsed(Printed(remote, asked.peel), asked.ref)
            head == IF asked.checkedOut THEN found ELSE NoObject
            passed ==
                /\ found # NoObject /\ CommitKind(KindPrinted(remote, found))
                /\ ListingAdmitted(Listed(tree), asked.ended)
                /\ HeadVerified([kind |-> "git", object |-> found], head)
            plain == /\ asked.ended /\ asked.checkedOut
                     /\ \A path \in DOMAIN tree :
                          /\ tree[path].mode \in {"100644", "100755"} /\ SafePath(path)
                          /\ \A other \in DOMAIN tree : tree[other].idBytes = tree[path].idBytes
            stands(object) == object.kind = "commit" /\ found = object.target
        IN  /\ passed /\ tree # <<>> =>
                 asked.ref \in DOMAIN remote /\ stands(remote[asked.ref]) /\ plain
            /\ DOMAIN remote = {asked.ref} /\ stands(remote[asked.ref]) /\ plain
                 /\ Cardinality(DOMAIN tree) <= MaxListed => passed
=============================================================================
