----------------------------- MODULE PluginProbe -----------------------------
(***************************************************************************)
(* probe_build_system_with_policies of crates/prep-core/src/plugin.rs: one  *)
(* probe of one plugin.  The host's thread talks to the plugin, a second    *)
(* thread reads its stdout line by line into a channel of two, a third its  *)
(* stderr into a bounded buffer (its bound is left out), and the plugin     *)
(* does as it likes.                                                       *)
(***************************************************************************)
EXTENDS ProcessGroup, Sequences, Naturals

CONSTANTS
    Capability, Allowed,   \* what plugins may ask for, what the policy admits
    MaxLines, MaxNotes     \* bounds on lines read of stdout, pieces written to stderr

ASSUME AllowedAssumption == Allowed \subseteq Capability

ASSUME StreamAssumption == Stream = {"out", "err"}

ASSUME BoundsAssumption == {MaxLines, MaxNotes} \subseteq Nat

VARIABLES
    reader,  \* stdout thread: "read", "line" or "last" with an item in hand, "end"
    sent,    \* items the thread has put into the channel
    seen,    \* the lines the host has taken out of it
    said,    \* pieces written to stderr
    heard,   \* pieces the stderr thread has put into the buffer
    errDone, \* the stderr thread has reported its end
    pc,      \* where the host is
    result,  \* the operation's result frame: "none", "ok", "error"
    failure, \* why the interaction failed
    kept,    \* pieces of the snapshot of the buffer that the answer carries
    answer   \* what the probe returns

probe == <<pc, result, failure, kept, answer>>
readers == <<reader, sent, said, heard, errDone>>
vars == <<groupVars, readers, seen, probe>>

\* A line of stdout: a handshake that names the plugin and this operation, with its
\* capabilities; a result for the request, ok or error; anything else that decode_frame
\* or a validation refuses.  What a line says is chosen when the host takes it.
Line == [kind : {"hello"}, caps : SUBSET Capability]
        \cup [kind : {"result", "error", "odd"}, caps : {{}}]

ChannelSize == 2

\* A failing cleanup is an error around the one it followed, a timeout here or another.
CleanupErrors == {"cleanup", "timeout_cleanup"}

Failures == {"io", "protocol", "policy", "timeout"} \cup CleanupErrors

\* The answers with a place for diagnostics; every other drops the snapshot.
Carrying == {"ok", "process_failed", "timeout", "timeout_cleanup"}

Init ==
    /\ GroupInit
    /\ reader = "read" /\ sent = 0 /\ seen = <<>>
    /\ said = 0 /\ heard = 0 /\ errDone = FALSE
    /\ pc = "hello_write"
    /\ result = "none" /\ failure = "none" /\ kept = 0 /\ answer = "none"

-----------------------------------------------------------------------------
(* The plugin and the reader threads *)

\* read_bounded_line finds a line, a line that is too long or not UTF-8, or the end.
ReadLine ==
    /\ reader = "read" /\ sent < MaxLines
    /\ reader' \in {"line", "last"}
    /\ UNCHANGED <<groupVars, sent, said, heard, errDone, seen, probe>>

ReadEnd ==
    /\ reader = "read" /\ holds["out"] = {}
    /\ reader' = "last"
    /\ UNCHANGED <<groupVars, sent, said, heard, errDone, seen, probe>>

\* send blocks while the channel is full, and fails when the receiver is gone.
BrokenSendItem ==
    /\ reader \in {"line", "last"} /\ sent - Len(seen) < ChannelSize
    /\ sent' = sent + 1
    /\ reader' = IF reader = "last" THEN "end" ELSE "read"
    /\ UNCHANGED <<groupVars, said, heard, errDone, seen, probe>>
SendItem ==
    /\ reader \in {"line", "last"}
    /\ \/ pc = "answered" /\ reader' = "end" /\ UNCHANGED sent
       \/ /\ pc # "answered" /\ sent - Len(seen) < ChannelSize
          /\ sent' = sent + 1
          /\ reader' = IF reader = "last" THEN "end" ELSE "read"
    /\ UNCHANGED <<groupVars, said, heard, errDone, seen, probe>>

WriteNote(p) ==
    /\ CanAct(p) /\ p \in holds["err"] /\ said < MaxNotes
    /\ said' = said + 1
    /\ UNCHANGED <<groupVars, reader, sent, heard, errDone, seen, probe>>

ReadNote ==
    /\ ~errDone
    /\ \/ heard < said /\ heard' = heard + 1 /\ UNCHANGED errDone
       \/ heard = said /\ holds["err"] = {} /\ errDone' = TRUE /\ UNCHANGED heard
    /\ UNCHANGED <<groupVars, reader, sent, said, seen, probe>>

-----------------------------------------------------------------------------
(* The host *)

HostGoto(label) == pc' = label /\ UNCHANGED <<groupVars, kept, answer, failure>>

Fails(reason) ==
    /\ pc' = "cleanup" /\ failure' = reason
    /\ step' = "term" /\ grace' = FALSE
    /\ UNCHANGED <<group, late, failed, kept, answer>>

\* write_protocol_frame; a plugin that reads nothing has closed its stdin.
WriteFrame(label, next) ==
    /\ pc = label
    /\ \/ (\E p \in Proc : Running(p)) /\ HostGoto(next)
       \/ Fails("io")
    /\ UNCHANGED <<readers, seen, result>>

WriteHello   == WriteFrame("hello_write", "hello_check")
WriteRequest == WriteFrame("request_write", "result_check")

\* receive_protocol_line refuses at once when no time remains.
CheckTime(label, next) ==
    /\ pc = label
    /\ IF late THEN Fails("timeout") ELSE HostGoto(next)
    /\ UNCHANGED <<readers, seen, result>>

CheckTimes == CheckTime("hello_check", "hello_recv")
              \/ CheckTime("result_check", "result_recv")

TimesOut ==
    /\ pc \in {"hello_recv", "result_recv"} /\ late
    /\ Fails("timeout")
    /\ UNCHANGED <<readers, seen, result>>

\* validate_handshake, then admit_capabilities.
Admitted(line) == line.caps \subseteq Allowed

\* The last item the reader sent is an error.
Sound == reader # "end" \/ Len(seen) + 1 < sent

Receive(label) == pc = label /\ Len(seen) < sent

ReceiveNoLine ==
    /\ Receive("hello_recv") \/ Receive("result_recv")
    /\ ~Sound /\ Fails("protocol")
    /\ UNCHANGED <<readers, seen, result>>

ReceiveHello(line) ==
    /\ Receive("hello_recv") /\ Sound
    /\ seen' = Append(seen, line)
    /\ \/ line.kind = "hello" /\ Admitted(line) /\ HostGoto("request_write")
       \/ line.kind = "hello" /\ ~Admitted(line) /\ Fails("policy")
       \/ line.kind # "hello" /\ Fails("protocol")
    /\ UNCHANGED <<readers, result>>

\* A result that the plugin wrote before it was asked is taken as well.
ReceiveResult(line) ==
    /\ Receive("result_recv") /\ Sound
    /\ seen' = Append(seen, line)
    /\ \/ line.kind = "result" /\ result' = "ok" /\ HostGoto("exit")
       \/ line.kind = "error" /\ result' = "error" /\ HostGoto("exit")
       \/ line.kind \in {"hello", "odd"} /\ Fails("protocol") /\ UNCHANGED result
    /\ UNCHANGED readers

\* wait_for_exit polls try_wait until the deadline.
WaitForExit ==
    /\ pc = "exit"
    /\ \/ /\ life[Leader] = "zombie" /\ Reap
          /\ pc' = "sweep" /\ step' = "look"
          /\ UNCHANGED <<deaf, doomed, exitOk, holds, clocks, failed, kept, answer, failure>>
       \/ life[Leader] = "member" /\ late /\ Fails("timeout")
    /\ UNCHANGED <<readers, seen, result>>

WaitForExitFails ==
    /\ pc = "exit"
    /\ Failure("wait")
    /\ pc' = "cleanup" /\ failure' = "io"
    /\ step' = "term" /\ grace' = FALSE
    /\ UNCHANGED <<group, late, kept, answer, readers, seen, result>>

\* The routine is over; DiagnosticCapture::finish waits for the end of stderr.
Finish ==
    /\ pc \in {"sweep", "cleanup"} /\ step \in {"done", "failed"}
    /\ pc' = "drain" /\ step' = "drain" /\ grace' = FALSE
    /\ failure' = IF step = "done" THEN failure
                  ELSE IF failure = "timeout" THEN "timeout_cleanup" ELSE "cleanup"
    /\ UNCHANGED <<group, late, failed, readers, seen, result, kept, answer>>

BrokenVerdict ==
    IF failure # "none" THEN failure
    ELSE IF result = "error" THEN "plugin_error" ELSE "ok"
Verdict ==
    IF failure # "none" THEN failure
    ELSE IF ~exitOk THEN "process_failed"
    ELSE IF result = "error" THEN "plugin_error" ELSE "ok"

BrokenFinish ==
    /\ pc = "drain" /\ errDone
    /\ pc' = "answered" /\ answer' = Verdict
    /\ kept' = IF Verdict \in Carrying THEN heard ELSE 0
    /\ UNCHANGED <<groupVars, readers, seen, result, failure>>
BrokenAnswer ==
    /\ pc = "drain"
    /\ pc' = "answered" /\ answer' = Verdict
    /\ kept' = IF Verdict \in Carrying THEN heard ELSE 0
    /\ UNCHANGED <<groupVars, readers, seen, result, failure>>
Answer ==
    /\ pc = "drain" /\ (errDone \/ grace)
    /\ pc' = "answered" /\ answer' = Verdict
    /\ kept' = IF Verdict \in Carrying THEN heard ELSE 0
    /\ UNCHANGED <<groupVars, readers, seen, result, failure>>

Host ==
    \/ WriteHello \/ WriteRequest \/ CheckTimes \/ TimesOut
    \/ ReceiveNoLine \/ \E line \in Line : ReceiveHello(line) \/ ReceiveResult(line)
    \/ WaitForExit \/ Finish \/ Answer

-----------------------------------------------------------------------------
\* What belongs to the group leaves the threads of the host alone.
Next ==
    \/ (Processes \/ Routine) /\ UNCHANGED <<readers, seen, probe>>
    \/ \E p \in Proc : WriteNote(p)
    \/ ReadLine \/ ReadEnd \/ SendItem \/ ReadNote
    \/ Host \/ WaitForExitFails

Spec == Init /\ [][Next]_vars

FairSpec ==
    /\ Spec /\ GroupFairness
    /\ WF_vars(Host) /\ WF_vars(ReadEnd) /\ WF_vars(SendItem) /\ WF_vars(ReadNote)

-----------------------------------------------------------------------------
(* Properties *)

\* Ok means that all of it went well: the first line of stdout was a handshake within
\* the policy, the second an ok result, and the plugin was collected with a success
\* status; a crash, a hang or a malformed answer is never a success.
OkMeansAllWentWell ==
    answer = "ok" =>
        /\ [i \in DOMAIN seen |-> seen[i].kind] = <<"hello", "result">>
        /\ seen[1].caps \subseteq Allowed
        /\ life[Leader] = "gone" /\ exitOk

\* When the probe returns, by whichever path, the plugin itself is collected unless the
\* answer says that it was not, and no ordinary child of it is left running: each is gone
\* or has been sent what ends it.  Who left the group is out of reach; so may be every
\* child when /bin/kill or waitpid fails.
NobodyLeft ==
    pc = "answered" =>
        /\ answer \notin CleanupErrors => life[Leader] = "gone"
        /\ failed = {} => /\ life[Leader] = "gone"
                          /\ \A k \in Kid : life[k] = "member" => k \in doomed

\* A process that SIGTERM does not end is killed only after its grace period, unless
\* a call failed.
EscalatesAfterGrace ==
    \A p \in deaf : p \in doomed' \ doomed => grace \/ failed' # {}

EscalatesAfterGraceProp == [][EscalatesAfterGrace]_vars

\* A success, a failing exit status and a timeout that do not run out of their grace
\* carry all that any process ever writes to stderr: the snapshot is not taken before
\* the stderr thread is done.
DiagnosticsComplete ==
    answer \in {"ok", "process_failed", "timeout", "timeout_cleanup"} /\ ~grace
        => kept = said

\* Every probe returns, whatever the plugin does or does not do.
ProbeReturns == <>(pc = "answered")

\* The stdout thread does not outlive the processes that hold the pipe, even if the
\* channel is full when the host stops to read it.
ReaderEnds == <>[](holds["out"] = {}) => <>(reader = "end")

=============================================================================
