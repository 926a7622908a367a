------------------------------ MODULE Planning ------------------------------
(***************************************************************************)
(* Host planning and builder requests of crates/prep-core/src/plugin.rs and  *)
(* plugin_input.rs: which requests are made of a plugin, with what in them,  *)
(* and which answers to a host planning request are believed.                *)
(***************************************************************************)
EXTENDS Frames, SequencesExt

CONSTANT MaxIdentifier   \* bytes in a host identifier, 256 in the code

AdmitCapabilities(plugin, allowed) == plugin.capabilities \subseteq allowed

\* A text is a sequence of characters; "a" is any letter or digit.
ValidHostIdentifier(text, punctuation, rejectTraversal) ==
    /\ Len(text) \in 1..MaxIdentifier
    /\ text[1] = "a"
    /\ rejectTraversal => ~\E i \in 2..Len(text) : text[i] = "." /\ text[i - 1] = "."
    /\ Range(text) \subseteq punctuation \cup {"a"}

PackagePunctuation(manager) ==
    {"+", ".", "_", "-"} \cup (CASE manager = "brew" -> {"@", "/"}
                                 [] manager = "apt" -> {":"}
                                 [] OTHER -> {})

\* A manager is a name, "invalid" one that is no identifier; a version is there or not.
ValidDependency(d) ==
    /\ d.manager # "invalid"
    /\ ValidHostIdentifier(d.package, PackagePunctuation(d.manager), TRUE)
    /\ \A v \in Range(d.version) :
         ValidHostIdentifier(v, {"+", ".", "_", "-", ":", "~"}, FALSE)

\* prepare_host_planning_request makes a request or an error.
HostRequestMade(plugin, allowed, op, dependency) ==
    /\ AdmitCapabilities(plugin, allowed)
    /\ op \in plugin.operations
    /\ "host.package_manager" \in plugin.capabilities \cap allowed
    /\ ValidDependency(dependency)

\* Every answer, a refusal too, carries the protocol and the id it answers.
BrokenEnvelopeMatches(answer, id) == answer.protocol = "v1"
EnvelopeMatches(answer, id) == answer.protocol = "v1" /\ answer.id = id

AnswerKind(op) ==
    IF op = "probe_host_dependency" THEN "HostProbeResult" ELSE "HostChangePlan"

\* validate_host_planning_response; an answer that is no refusal reads as one type only.
AnswerBelieved(request, provider, answer) ==
    /\ request.id # "" /\ provider # ""
    /\ answer.status = "error" \/ answer.type = AnswerKind(request.operation)
    /\ EnvelopeMatches(answer, request.id)
    /\ answer.status = "ok" =>
         CASE answer.type = "HostProbeResult" ->
                 answer.installed => answer.present
           [] answer.type = "HostChangePlan" ->
                 /\ answer.provider = provider
                 /\ answer.dependency = request.dependency
                 /\ answer.summary # "blank"

-----------------------------------------------------------------------------
RequiredCapabilities(op) ==
    {"process.spawn"} \cup
    (CASE op \in {"configure", "build"} -> {"filesystem.read.source"}
       [] op = "test" -> {}
       [] op = "install_to_staging" -> {"filesystem.write.staging"})

AuthorizeBuilder(op, plugin, allowed) ==
    /\ op \in plugin.operations
    /\ RequiredCapabilities(op) \subseteq plugin.capabilities \cap allowed

\* PluginEnvironmentPolicy: nothing but allowed keys is looked at.  "nul" is a value with NUL.
Forwarded(allowedKeys, candidates) == allowedKeys \cap DOMAIN candidates

BrokenEnvironmentRefused(allowedKeys, candidates) ==
    \E key \in DOMAIN candidates : candidates[key] = "nul"
EnvironmentRefused(allowedKeys, candidates) ==
    \E key \in Forwarded(allowedKeys, candidates) : candidates[key] = "nul"

Sanitized(allowedKeys, candidates) ==
    [key \in Forwarded(allowedKeys, candidates) |-> candidates[key]]

\* canonical_real_directory: the path is a directory itself, its parents may be links to
\* what `real` spells out; a path that is not UTF-8 has no text.
RealDirectory(path) == path.absolute /\ path.node = "directory"
InProtocol(path) == RealDirectory(path) /\ path.utf8

\* PluginExecutionRoots::new, sanitize and into_frame, in this order; "nul" is an argument
\* with NUL.
BuilderFrame(input, plugin, allowed) ==
    IF /\ AuthorizeBuilder(input.op, plugin, allowed)
       /\ ~EnvironmentRefused(input.allowedKeys, input.candidates)
       /\ "nul" \notin Range(input.arguments)
       /\ \A path \in Range(input.roots \o input.prefixes) : InProtocol(path)
    THEN [ operation |-> input.op, arguments |-> input.arguments,
           directories |-> [i \in DOMAIN input.roots |-> input.roots[i].real],
           prefixes |-> [i \in DOMAIN input.prefixes |-> input.prefixes[i].real],
           environment |-> Sanitized(input.allowedKeys, input.candidates) ]
    ELSE [operation |-> "refused"]
=============================================================================
