------------------------------- MODULE Frames -------------------------------
(***************************************************************************)
(* The frames of crates/prep-protocol/src/lib.rs as serde reads them.  A     *)
(* frame on the wire is a function from field names to values; a value is    *)
(* one token: a word, "text" for any other string, "true" for a boolean, or  *)
(* the name of the object type (lower case) whose fields it has.             *)
(***************************************************************************)
EXTENDS FiniteSets, Naturals, TLC

CONSTANTS MaxFrame, MaxU64   \* DEFAULT_MAX_FRAME_BYTES; the greatest number of a frame

ASSUME FrameAssumption == MaxFrame \in Nat \ {0}

\* Two objects with no field in common, as one.
With(f, g) == [k \in DOMAIN f \cup DOMAIN g |-> IF k \in DOMAIN f THEN f[k] ELSE g[k]]

BuilderOperation == {"configure", "build", "test", "install_to_staging"}
HostOperation == {"probe_host_dependency", "plan_host_change"}
PluginOperation ==
    BuilderOperation \cup HostOperation \cup {"probe_build_system", "apply_host_change"}

Capability ==
    { "network", "process.spawn", "filesystem.read.source", "filesystem.write.staging",
      "host.package_manager", "privilege", "prompt", "prompt.secret" }

Words == PluginOperation \cup {"hello", "hello_result", "result", "event", "progress", "ok", "error"}
Text == Words \cup {"text"}

\* The values of the answers.
BuilderAnswers ==
    [ ProbeBuildSystemResult |-> "build system support", ConfigureResult |-> "configured",
      BuildResult |-> "built", TestResult |-> "tests passed",
      InstallToStagingResult |-> "installed" ]
HostAnswers == [HostProbeResult |-> "host probe", HostChangePlan |-> "host change plan"]
Answers == With(BuilderAnswers, HostAnswers)

Objects ==
    { "descriptor", "package", "execution context", "host dependency", "error body", "empty" }
    \cup {Answers[type] : type \in DOMAIN Answers}
Number == {ToString(n) : n \in 0..MaxU64}
Json == Text \cup Objects \cup Number \cup {"true", "null", "texts"}

\* What the fields of each type must be.
Envelope == [protocol |-> Text, id |-> Text]

HelloFields == With(Envelope, [type |-> Text, prep_version |-> Text])
HelloResultFields == With(Envelope, [type |-> Text, plugin |-> {"descriptor"}])
ProbeRequestFields == With(Envelope, [type |-> PluginOperation, context |-> Json])
BuilderRequestFields ==
    With(Envelope, [type |-> BuilderOperation, package |-> {"package"},
                    context |-> {"execution context"}, arguments |-> {"texts"}])
HostRequestFields == With(Envelope, [type |-> HostOperation, dependency |-> {"host dependency"}])
ProgressFields ==
    With(Envelope, [type |-> {"event"}, event |-> {"progress"}, message |-> Text,
                    completed |-> Number \cup {"null"}, total |-> Number \cup {"null"}])
OkFields(value) == With(Envelope, [status |-> {"ok"}, type |-> {"result"}, value |-> {value}])
ErrorFields ==
    With(Envelope, [status |-> {"error"}, type |-> {"result"}, error |-> {"error body"}])

Fields == With(
    [type \in DOMAIN Answers |-> OkFields(Answers[type])],
    [ Hello |-> HelloFields, HelloResult |-> HelloResultFields,
      ProbeBuildSystemRequest |-> ProbeRequestFields, BuilderRequest |-> BuilderRequestFields,
      HostPlanningRequest |-> HostRequestFields, ProgressEvent |-> ProgressFields ])

FrameType == DOMAIN Fields

\* Fields that may be missing.
Optional == {"arguments", "completed", "total"}

\* Every field that is there is known, and every one that must be there is.
BrokenHasFields(wire, fields) ==
    /\ DOMAIN fields \ Optional \subseteq DOMAIN wire
    /\ \A f \in DOMAIN wire \cap DOMAIN fields : wire[f] \in fields[f]
HasFields(wire, fields) ==
    /\ DOMAIN fields \ Optional \subseteq DOMAIN wire
    /\ DOMAIN wire \subseteq DOMAIN fields
    /\ \A f \in DOMAIN wire : wire[f] \in fields[f]

Given(wire, f) == f \in DOMAIN wire /\ wire[f] # "null"

NumberOf(token) == CHOOSE n \in 0..MaxU64 : ToString(n) = token

\* ProgressEventFrame::from_parts, which new and deserialize share.
ProgressAdmitted(wire) ==
    /\ Given(wire, "completed") <=> Given(wire, "total")
    /\ Given(wire, "total") =>
         /\ NumberOf(wire.total) > 0
         /\ NumberOf(wire.completed) <= NumberOf(wire.total)

\* serde_json::from_str at a type; an error answer is one for every type of answer.
ReadsAs(wire, type) ==
    \/ HasFields(wire, Fields[type]) /\ (type = "ProgressEvent" => ProgressAdmitted(wire))
    \/ type \in DOMAIN Answers /\ HasFields(wire, ErrorFields)

\* decode_frame: line ends are trimmed, then the line is neither empty nor too long.
DecodeFrame(line, type) ==
    /\ line.bytes \in 1..MaxFrame
    /\ ReadsAs(line.wire, type)

\* What the constructors write for each type, a refusal among the answers.
Written(type) ==
    LET head == [protocol |-> "text", id |-> "text"]
        event == With(head, [type |-> "event", event |-> "progress", message |-> "text"])
        result == With(head, [type |-> "result"])
    IN CASE type = "Hello" -> {With(head, [type |-> "hello", prep_version |-> "text"])}
         [] type = "HelloResult" -> {With(head, [type |-> "hello_result", plugin |-> "descriptor"])}
         [] type = "ProbeBuildSystemRequest" ->
               {With(head, [type |-> "probe_build_system", context |-> "empty"])}
         [] type = "BuilderRequest" ->
               {With(head, [type |-> op, package |-> "package", context |-> "execution context",
                           arguments |-> "texts"]) : op \in BuilderOperation}
         [] type = "HostPlanningRequest" ->
               {With(head, [type |-> op, dependency |-> "host dependency"]) : op \in HostOperation}
         [] type = "ProgressEvent" ->
               {event} \cup {With(event, done) :
                    done \in {done \in [completed : Number, total : Number] : ProgressAdmitted(done)}}
         [] OTHER -> { With(result, [status |-> "ok", value |-> Answers[type]]),
                       With(result, [status |-> "error", error |-> "error body"]) }
=============================================================================
