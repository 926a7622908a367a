----------------------------- MODULE GitCapture -----------------------------
(***************************************************************************)
(* capture_bounded of crates/prep-core/src/git_run.rs: run one read-only    *)
(* Git command, take at most max_stdout_bytes of its output, and end it     *)
(* and its helpers by the deadline.  A second thread reads stdout to its    *)
(* end, or one byte beyond the limit, and reports once.  Limits that the    *)
(* policy check refuses start no process and are not modelled.              *)
(***************************************************************************)
EXTENDS ProcessGroup, Naturals

CONSTANTS
    Limit,    \* max_stdout_bytes
    MaxBytes  \* bound on what is written to stdout

ASSUME LimitAssumption == Limit \in Nat \ {0} /\ MaxBytes \in Nat

ASSUME StreamAssumption == Stream = {"out"}

VARIABLES
    wrote,    \* bytes written to stdout
    took,     \* bytes the reader has taken
    reader,   \* "read", "bytes" or "error" when it has reported
    received, \* what the host has from it: "none", "bytes", "error"
    pc,       \* where the host is
    outcome,  \* what it will answer; "none" if that is for Verdict to say
    answer    \* what capture_bounded returns

host == <<received, pc, outcome, answer>>
stdout == <<wrote, took, reader>>
vars == <<groupVars, stdout, host>>

Errors == {"timeout", "too_large", "unsuccessful", "io"}

Init ==
    /\ GroupInit
    /\ wrote = 0 /\ took = 0 /\ reader = "read"
    /\ received = "none" /\ pc = "recv" /\ outcome = "none" /\ answer = "none"

-----------------------------------------------------------------------------
(* Git and its helpers write; the reader thread *)

Write(p) ==
    /\ CanAct(p) /\ p \in holds["out"] /\ reader = "read" /\ wrote < MaxBytes
    /\ wrote' = wrote + 1
    /\ UNCHANGED <<groupVars, took, reader, host>>

\* take(maximum + 1): one byte more than allowed tells too much from just enough.
BrokenTakeBound == Limit
TakeBound == Limit + 1

Take ==
    /\ reader = "read" /\ took < wrote /\ took < TakeBound
    /\ took' = took + 1
    /\ UNCHANGED <<groupVars, wrote, reader, host>>

\* read_to_end is over; the report is sent and the pipe is closed.
Report ==
    /\ reader = "read"
    /\ took = TakeBound \/ (took = wrote /\ holds["out"] = {})
    /\ reader' = "bytes"
    /\ UNCHANGED <<groupVars, wrote, took, host>>

ReadFails ==
    /\ reader = "read"
    /\ Failure("read") /\ reader' = "error"
    /\ UNCHANGED <<group, clocks, step, wrote, took, host>>

-----------------------------------------------------------------------------
(* The host's loop *)

Reported == reader # "read"

HostGoto(label) == pc' = label /\ UNCHANGED <<groupVars, outcome, answer>>

\* fn terminate: both routines, one after the other; then the error is returned.
Terminate(error) ==
    /\ pc' = "terminate" /\ outcome' = error
    /\ step' = "term" /\ grace' = FALSE
    /\ UNCHANGED <<answer, late>>

\* try_recv, and the look at the size of what came.  The reader always reports before
\* it drops its end of the channel.
TryRecv ==
    /\ pc = "recv"
    /\ received' = IF Reported THEN reader ELSE received
    /\ IF received' = "bytes" /\ took > Limit
       THEN Terminate("too_large") /\ UNCHANGED <<group, failed>>
       ELSE HostGoto("wait")
    /\ UNCHANGED stdout

\* The leader is collected.  Without a report yet the host waits for it, else it ends
\* what is left of the group.
Collect ==
    /\ Reap
    /\ IF received = "none"
       THEN pc' = "late_recv" /\ UNCHANGED step
       ELSE pc' = "sweep" /\ step' = "look"
    /\ UNCHANGED <<deaf, doomed, exitOk, holds, clocks, failed, outcome, answer>>

TryWait ==
    /\ pc = "wait"
    /\ \/ life[Leader] = "zombie" /\ Collect
       \/ life[Leader] = "member" /\ HostGoto("clock")
    /\ UNCHANGED <<stdout, received>>

TryWaitFails ==
    /\ pc = "wait" /\ Failure("wait")
    /\ Terminate("io")
    /\ UNCHANGED <<group, stdout, received>>

\* recv_timeout until the deadline: a helper may hold stdout although Git has exited.
BrokenLateRecv ==
    /\ pc = "late_recv" /\ Reported /\ received' = reader
    /\ pc' = "sweep" /\ step' = "look"
    /\ UNCHANGED <<group, clocks, failed, stdout, outcome, answer>>
LateRecv ==
    /\ pc = "late_recv"
    /\ \/ Reported /\ received' = reader /\ UNCHANGED outcome
       \/ ~Reported /\ late /\ outcome' = "timeout" /\ UNCHANGED received
    /\ pc' = "sweep" /\ step' = "look"
    /\ UNCHANGED <<group, clocks, failed, stdout, answer>>

\* No time left: end it; otherwise sleep and look again.
CheckClock ==
    /\ pc = "clock"
    /\ IF late THEN Terminate("timeout") /\ UNCHANGED <<group, failed>>
               ELSE HostGoto("recv")
    /\ UNCHANGED <<stdout, received>>

\* `let _ = terminate_and_reap`: the second routine runs whatever became of the first.
BrokenSweepAfter ==
    /\ pc = "terminate" /\ step \in {"done", "failed"}
    /\ pc' = "answered" /\ step' = "done" /\ answer' = outcome
    /\ UNCHANGED <<group, clocks, failed, stdout, received, outcome>>
SweepAfter ==
    /\ pc = "terminate" /\ step \in {"done", "failed"}
    /\ pc' = "sweep" /\ step' = "look"
    /\ UNCHANGED <<group, clocks, failed, stdout, received, outcome, answer>>

Verdict ==
    IF outcome # "none" THEN outcome
    ELSE IF received = "error" THEN "io"
    ELSE IF took > Limit THEN "too_large"
    ELSE IF ~exitOk THEN "unsuccessful" ELSE "ok"

Answer ==
    /\ pc = "sweep" /\ step = "done"
    /\ pc' = "answered" /\ answer' = Verdict
    /\ UNCHANGED <<groupVars, stdout, received, outcome>>

Host == TryRecv \/ TryWait \/ LateRecv \/ CheckClock \/ SweepAfter \/ Answer

-----------------------------------------------------------------------------
Next ==
    \/ (Processes \/ Routine) /\ UNCHANGED <<stdout, host>>
    \/ \E p \in Proc : Write(p)
    \/ Take \/ Report \/ ReadFails
    \/ Host \/ TryWaitFails

Spec == Init /\ [][Next]_vars

FairSpec ==
    Spec /\ GroupFairness /\ WF_vars(Host) /\ WF_vars(Take) /\ WF_vars(Report)

-----------------------------------------------------------------------------
(* Properties *)

\* Output that is accepted is all of it: Git exited with success, what was read is
\* what all processes wrote, none of them can write more, and it is within the limit.
OutputWhole ==
    answer = "ok" =>
        /\ took = wrote /\ took <= Limit /\ holds["out"] = {}
        /\ life[Leader] = "gone" /\ exitOk

\* However a capture ends, Git is collected unless waitpid failed, and no helper in its
\* group is left running unless /bin/kill could not be started: terminate goes on to
\* its second routine even if waitpid failed in the first.
NobodyLeft ==
    pc = "answered" =>
        /\ "wait" \in failed \/ life[Leader] = "gone"
        /\ "kill" \in failed \/ \A k \in Kid : life[k] = "member" => k \in doomed

\* Every capture returns.
CaptureReturns == <>(pc = "answered")

=============================================================================
