---------------------------- MODULE ProcessGroup ----------------------------
(***************************************************************************)
(* A process that crates/prep-core starts in a process group of its own,   *)
(* and the two routines by which plugin.rs and git_run.rs end the group:   *)
(* terminate_and_reap and cleanup_remaining_process_group.  The processes  *)
(* do as they like: they fork, leave the group, ignore SIGTERM, close or   *)
(* keep their output, exit or hang.  Every wait of the routines ends with  *)
(* a grace period; clocks are booleans that become TRUE at any time.       *)
(***************************************************************************)
CONSTANTS
    Leader, Kid,  \* the process the host starts, and those it may start in turn
    Stream,       \* the output pipes the host reads
    Failing       \* which calls may fail: "kill" /bin/kill cannot be started,
                  \* "wait" waitpid reports an error, "read" a pipe breaks

ASSUME LeaderAssumption == Leader \notin Kid

ASSUME FailingAssumption == Failing \subseteq {"kill", "wait", "read"}

Proc == {Leader} \cup Kid

VARIABLES
    life,    \* "unborn", "member" of the group, "escaped" from it, "zombie"
             \* (the leader before it is reaped), "gone"
    deaf,    \* the processes that do not die of SIGTERM
    doomed,  \* those a signal has reached that ends them
    exitOk,  \* the leader's exit status is success
    holds,   \* the processes that hold the write end of a pipe
    late,    \* the deadline of the operation has passed
    grace,   \* the grace period of the present wait has passed
    step,    \* where a routine is; "off" before, "done" or "failed" after it
    failed   \* which calls have failed

group == <<life, deaf, doomed, exitOk, holds>>
clocks == <<late, grace>>
groupVars == <<group, clocks, step, failed>>

Waiting == {"term_wait", "sweep_wait", "drain"}

GroupInit ==
    /\ life = [p \in Proc |-> IF p = Leader THEN "member" ELSE "unborn"]
    /\ deaf \in SUBSET Proc
    /\ doomed = {}
    /\ exitOk = FALSE
    /\ holds = [s \in Stream |-> {Leader}]
    /\ late = FALSE /\ grace = FALSE
    /\ step = "off"
    /\ failed = {}

-----------------------------------------------------------------------------
(* The processes *)

Running(p) == life[p] \in {"member", "escaped"}
CanAct(p)  == Running(p) /\ p \notin doomed

\* kill -0: a group exists while it has a process, be it a zombie.
Members == {p \in Proc : life[p] \in {"member", "zombie"}}

\* A child is born into its parent's group, with some of its parent's pipes.
Fork(p, k) ==
    /\ CanAct(p) /\ life[k] = "unborn"
    /\ life' = [life EXCEPT ![k] = life[p]]
    /\ \E kept \in SUBSET {s \in Stream : p \in holds[s]} :
         holds' = [s \in Stream |-> IF s \in kept THEN holds[s] \cup {k} ELSE holds[s]]
    /\ UNCHANGED <<deaf, doomed, exitOk, clocks, step, failed>>

\* setsid or setpgid; the leader of a group stays in it.
Escape(k) ==
    /\ CanAct(k) /\ life[k] = "member"
    /\ life' = [life EXCEPT ![k] = "escaped"]
    /\ UNCHANGED <<deaf, doomed, exitOk, holds, clocks, step, failed>>

Close(p, s) ==
    /\ CanAct(p) /\ p \in holds[s]
    /\ holds' = [holds EXCEPT ![s] = @ \ {p}]
    /\ UNCHANGED <<life, deaf, doomed, exitOk, clocks, step, failed>>

End(p) ==
    /\ life' = [life EXCEPT ![p] = IF p = Leader THEN "zombie" ELSE "gone"]
    /\ holds' = [s \in Stream |-> holds[s] \ {p}]
    /\ doomed' = doomed \ {p}
    /\ UNCHANGED <<deaf, clocks, step, failed>>

Exit(p) ==
    /\ CanAct(p) /\ End(p)
    /\ IF p = Leader THEN exitOk' \in BOOLEAN ELSE UNCHANGED exitOk

\* The signal takes effect.
Die(p) == p \in doomed /\ End(p) /\ UNCHANGED exitOk

Deadline ==
    /\ ~late /\ step = "off"
    /\ late' = TRUE
    /\ UNCHANGED <<group, grace, step, failed>>

GraceEnds ==
    /\ ~grace /\ step \in Waiting
    /\ grace' = TRUE
    /\ UNCHANGED <<group, late, step, failed>>

Processes ==
    \/ \E p \in Proc, k \in Kid : Fork(p, k)
    \/ \E k \in Kid : Escape(k)
    \/ \E p \in Proc, s \in Stream : Close(p, s)
    \/ \E p \in Proc : Exit(p)
    \/ \E p \in Proc : Die(p)
    \/ Deadline \/ GraceEnds

-----------------------------------------------------------------------------
(* What the routines are made of *)

Failure(call) == call \in Failing /\ failed' = failed \cup {call}

\* A wait begins, with the whole of its grace period before it.
Await(place) == step' = place /\ grace' = FALSE
Goto(place)  == step' = place /\ UNCHANGED grace

Term == doomed' = doomed \cup {p \in Members \ deaf : Running(p)}
Kill == doomed' = doomed \cup {p \in Members : Running(p)}

\* try_wait and wait collect the leader when it has exited.
Reap ==
    life' = IF life[Leader] = "zombie" THEN [life EXCEPT ![Leader] = "gone"] ELSE life

\* try_wait; child.kill() when the leader still runs.
KillChild ==
    /\ Reap
    /\ doomed' = IF life[Leader] = "member" THEN doomed \cup {Leader} ELSE doomed

Untouched == UNCHANGED <<deaf, exitOk, holds, late>>

-----------------------------------------------------------------------------
(* terminate_and_reap *)

TermGroup ==
    /\ step = "term"
    /\ \/ Term /\ UNCHANGED <<life, failed>>
       \/ Failure("kill") /\ KillChild
    /\ Await("term_wait")
    /\ Untouched

\* The loop: try_wait, then leave it when the group is gone.
BrokenTermWait ==
    /\ step = "term_wait"
    /\ Reap /\ Goto("term_kill")
    /\ UNCHANGED <<doomed, failed>> /\ Untouched
TermWait ==
    /\ step = "term_wait"
    /\ \/ life[Leader] = "zombie" /\ Reap /\ Goto("term_wait")
       \/ (Members = {} \/ grace) /\ Goto("term_kill") /\ UNCHANGED life
    /\ UNCHANGED <<doomed, failed>> /\ Untouched

TermKill ==
    /\ step = "term_kill"
    /\ \/ Kill /\ UNCHANGED failed
       \/ Failure("kill") /\ UNCHANGED doomed
    /\ Goto("term_child")
    /\ UNCHANGED life /\ Untouched

TermChild ==
    /\ step = "term_child"
    /\ KillChild /\ Goto("term_reap")
    /\ UNCHANGED failed /\ Untouched

\* child.wait blocks until the leader has exited.
TermReap ==
    /\ step = "term_reap" /\ life[Leader] # "member"
    /\ Reap /\ Goto("done")
    /\ UNCHANGED <<doomed, failed>> /\ Untouched

\* `?` on a try_wait or on the wait; after TERM only if it could not be sent.
TermWaitFails ==
    /\ \/ step \in {"term_wait", "term_child", "term_reap"} /\ Failure("wait")
       \/ step = "term" /\ {"kill", "wait"} \subseteq Failing
          /\ failed' = failed \cup {"kill", "wait"}
    /\ Goto("failed")
    /\ UNCHANGED <<life, doomed>> /\ Untouched

-----------------------------------------------------------------------------
(* cleanup_remaining_process_group *)

\* A group that cannot be looked for is taken to be gone.
Look ==
    /\ step = "look"
    /\ \/ Goto(IF Members = {} THEN "done" ELSE "sweep_term") /\ UNCHANGED failed
       \/ Failure("kill") /\ Goto("done")
    /\ UNCHANGED <<life, doomed>> /\ Untouched

SweepTerm ==
    /\ step = "sweep_term"
    /\ \/ Term /\ UNCHANGED failed
       \/ Failure("kill") /\ UNCHANGED doomed
    /\ Await("sweep_wait")
    /\ UNCHANGED life /\ Untouched

BrokenSweepWait ==
    /\ step = "sweep_wait" /\ (Members = {} \/ grace)
    /\ Goto("done")
    /\ UNCHANGED <<life, doomed, failed>> /\ Untouched
SweepWait ==
    /\ step = "sweep_wait" /\ (Members = {} \/ grace)
    /\ Goto(IF Members = {} THEN "done" ELSE "sweep_kill")
    /\ UNCHANGED <<life, doomed, failed>> /\ Untouched

SweepKill ==
    /\ step = "sweep_kill"
    /\ \/ Kill /\ UNCHANGED failed
       \/ Failure("kill") /\ UNCHANGED doomed
    /\ Goto("done")
    /\ UNCHANGED life /\ Untouched

Routine ==
    \/ TermGroup \/ TermWait \/ TermKill \/ TermChild \/ TermReap \/ TermWaitFails
    \/ Look \/ SweepTerm \/ SweepWait \/ SweepKill

-----------------------------------------------------------------------------
\* Signals arrive, clocks run, and the host's own thread is scheduled; nothing is
\* assumed of what the processes do themselves.
GroupFairness ==
    /\ \A p \in Proc : WF_groupVars(Die(p))
    /\ WF_groupVars(Deadline) /\ WF_groupVars(GraceEnds)
    /\ WF_groupVars(Routine)

=============================================================================
