------------------------- MODULE ProcessGroupProofs -------------------------
(***************************************************************************)
(* What every step of ProcessGroup keeps, for any number of children, pipes  *)
(* and failing calls: the lemmas that PluginProbeProofs and GitCaptureProofs *)
(* share.                                                                   *)
(***************************************************************************)
EXTENDS ProcessGroup, TLAPS

\* A signal is pending for running processes only, and the leader stays in its group.
GroupOK ==
    /\ life \in [Proc -> {"unborn", "member", "escaped", "zombie", "gone"}]
    /\ life[Leader] \in {"member", "zombie", "gone"}
    /\ doomed \subseteq {p \in Proc : Running(p)}
    /\ holds \in [Stream -> SUBSET Proc]

\* What runs in the group has been sent what ends it.
Quiet == \A p \in Proc : life[p] = "member" => p \in doomed

Collected == life[Leader] = "gone"

GroupStep == Processes \/ Routine

LEMMA GroupStart == GroupInit => GroupOK
BY DEF GroupInit, GroupOK, Proc, Running

-----------------------------------------------------------------------------
\* One fact for each action; the processes first.
LEMMA ProcessStep ==
  ASSUME GroupOK, Processes
  PROVE  /\ GroupOK'
         /\ Quiet => Quiet'
         /\ Collected => Collected' /\ exitOk' = exitOk
         /\ Members = {} => Members' = {}
         /\ \A s \in Stream : holds[s] = {} => holds'[s] = {}
         /\ step' = step /\ failed' = failed /\ (grace => grace')
         /\ deaf' = deaf /\ doomed' \subseteq doomed
<1>1. CASE \E p \in Proc, k \in Kid : Fork(p, k)
  <2>1. PICK p \in Proc, k \in Kid : Fork(p, k)
    BY <1>1
  <2>2. k # Leader /\ k \in Proc /\ life[k] = "unborn" /\ p \notin doomed
    BY <2>1, LeaderAssumption DEF Fork, CanAct, Proc
  <2>3. life' = [life EXCEPT ![k] = life[p]] /\ Running(p)
    BY <2>1 DEF Fork, CanAct
  <2>4. PICK kept \in SUBSET {s \in Stream : p \in holds[s]} :
          holds' = [s \in Stream |-> IF s \in kept THEN holds[s] \cup {k} ELSE holds[s]]
    BY <2>1 DEF Fork
  <2>5. GroupOK'
    <3>1. life' \in [Proc -> {"unborn", "member", "escaped", "zombie", "gone"}]
      BY <2>3, <2>2 DEF GroupOK
    <3>2. life'[Leader] = life[Leader]
      BY <2>2, <2>3 DEF GroupOK, Proc
    <3>3. doomed' \subseteq {q \in Proc : Running(q)'}
      BY <2>1, <2>2, <2>3 DEF GroupOK, Running, Fork
    <3>4. holds' \in [Stream -> SUBSET Proc]
      BY <2>4, <2>2 DEF GroupOK
    <3> QED
      BY <3>1, <3>2, <3>3, <3>4 DEF GroupOK
  <2>6. Quiet => Quiet'
    BY <2>1, <2>2, <2>3 DEF GroupOK, Quiet, Fork, Running
  <2>7. Members = {} => Members' = {}
    BY <2>2, <2>3 DEF GroupOK, Members, Running
  <2>8. \A s \in Stream : holds[s] = {} => holds'[s] = {}
    BY <2>4
  <2> QED
    BY <2>1, <2>2, <2>3, <2>5, <2>6, <2>7, <2>8 DEF Fork, clocks, Collected, GroupOK, Proc
<1>2. CASE \E k \in Kid : Escape(k)
  <2>1. PICK k \in Kid : Escape(k)
    BY <1>2
  <2>2. k # Leader /\ k \in Proc /\ k \notin doomed
    BY <2>1, LeaderAssumption DEF Escape, CanAct, Proc
  <2>3. life' = [life EXCEPT ![k] = "escaped"]
    BY <2>1 DEF Escape
  <2>4. GroupOK'
    BY <2>1, <2>2, <2>3 DEF GroupOK, Running, Escape, Proc
  <2>5. Quiet => Quiet'
    BY <2>1, <2>3 DEF GroupOK, Quiet, Escape
  <2>6. Members = {} => Members' = {}
    BY <2>2, <2>3 DEF GroupOK, Members
  <2> QED
    BY <2>1, <2>2, <2>3, <2>4, <2>5, <2>6 DEF Escape, clocks, Collected, GroupOK, Proc
<1>3. CASE \E p \in Proc, s \in Stream : Close(p, s)
  <2>1. PICK p \in Proc, s \in Stream : Close(p, s)
    BY <1>3
  <2>2. GroupOK'
    BY <2>1 DEF GroupOK, Running, Close
  <2> QED
    BY <2>1, <2>2 DEF Close, clocks, Collected, Quiet, Members, GroupOK
<1>4. CASE \E p \in Proc : Exit(p) \/ Die(p)
  <2>1. PICK p \in Proc : Exit(p) \/ Die(p)
    BY <1>4
  <2>2. Running(p) /\ End(p)
    BY <2>1 DEF Exit, Die, CanAct, GroupOK
  <2>3. life' = [life EXCEPT ![p] = IF p = Leader THEN "zombie" ELSE "gone"]
    BY <2>2 DEF End
  <2>4. GroupOK'
    BY <2>2, <2>3 DEF GroupOK, Running, End, Proc
  <2>5. Quiet => Quiet'
    BY <2>2, <2>3 DEF GroupOK, Quiet, End
  <2>6. Members = {} => Members' = {}
    BY <2>2, <2>3 DEF GroupOK, Members, Running, Proc
  <2>7. Collected => p # Leader
    BY <2>2 DEF Collected, Running
  <2>8. p # Leader => exitOk' = exitOk /\ life'[Leader] = life[Leader]
    BY <2>1, <2>3 DEF Exit, Die, GroupOK, Proc
  <2> QED
    BY <2>2, <2>4, <2>5, <2>6, <2>7, <2>8 DEF End, clocks, Collected
<1>5. CASE Deadline \/ GraceEnds
  BY <1>5 DEF Deadline, GraceEnds, group, GroupOK, Running, Quiet, Collected, Members
<1> QED
  BY <1>1, <1>2, <1>3, <1>4, <1>5 DEF Processes

-----------------------------------------------------------------------------
\* Collecting the leader and sending signals keep the group as it has to be.
LEMMA ReapKeeps ==
  ASSUME GroupOK, Reap, doomed \subseteq doomed', holds' = holds,
         \A p \in doomed' \ doomed : p \in Proc /\ life[p] \in {"member", "escaped"}
  PROVE  /\ GroupOK'
         /\ Quiet => Quiet'
         /\ Collected => Collected'
         /\ Members = {} => Members' = {}
<1>1. life' \in [Proc -> {"unborn", "member", "escaped", "zombie", "gone"}]
  BY DEF Reap, GroupOK
<1>2. \A p \in Proc : life'[p] = life[p] \/ (p = Leader /\ life[p] = "zombie" /\ life'[p] = "gone")
  BY DEF Reap, GroupOK, Proc
<1>3. Leader \in Proc
  BY DEF Proc
<1>4. GroupOK'
  <2>1. doomed' \subseteq {p \in Proc : Running(p)'}
    BY <1>2 DEF GroupOK, Running
  <2> QED
    BY <1>1, <1>2, <1>3, <2>1 DEF GroupOK
<1>5. Quiet => Quiet'
  BY <1>2 DEF Quiet
<1>6. Collected => Collected'
  BY <1>2, <1>3 DEF Collected
<1>7. Members = {} => Members' = {}
  BY <1>2 DEF Members
<1> QED
  BY <1>4, <1>5, <1>6, <1>7

LEMMA LifeKeeps ==
  ASSUME GroupOK, UNCHANGED life, doomed \subseteq doomed', holds' = holds,
         \A p \in doomed' \ doomed : p \in Proc /\ life[p] \in {"member", "escaped"}
  PROVE  /\ GroupOK'
         /\ Quiet => Quiet'
         /\ Collected => Collected'
         /\ Members = {} => Members' = {}
BY DEF GroupOK, Running, Quiet, Collected, Members

LEMMA RoutineStep ==
  ASSUME GroupOK, Routine
  PROVE  /\ GroupOK'
         /\ Quiet => Quiet'
         /\ Collected => Collected' /\ exitOk' = exitOk
         /\ Members = {} => Members' = {}
         /\ holds' = holds /\ deaf' = deaf /\ late' = late
         /\ failed \subseteq failed'
<1>1. Untouched /\ failed \subseteq failed'
  BY DEF Routine, TermGroup, TermWait, TermKill, TermChild, TermReap, TermWaitFails,
         Look, SweepTerm, SweepWait, SweepKill, Failure
<1>2. Reap \/ UNCHANGED life
  BY DEF Routine, TermGroup, TermWait, TermKill, TermChild, TermReap, TermWaitFails,
         Look, SweepTerm, SweepWait, SweepKill, KillChild
<1>3. \/ doomed' = doomed \/ Term \/ Kill
      \/ doomed' = IF life[Leader] = "member" THEN doomed \cup {Leader} ELSE doomed
  BY DEF Routine, TermGroup, TermWait, TermKill, TermChild, TermReap, TermWaitFails,
         Look, SweepTerm, SweepWait, SweepKill, KillChild
<1>4. /\ doomed \subseteq doomed'
      /\ \A p \in doomed' \ doomed : p \in Proc /\ life[p] \in {"member", "escaped"}
  BY <1>3 DEF Term, Kill, Members, Running, Proc
<1>5. holds' = holds /\ deaf' = deaf /\ late' = late /\ exitOk' = exitOk
  BY <1>1 DEF Untouched
<1> QED
  BY <1>1, <1>2, <1>4, <1>5, ReapKeeps, LifeKeeps

-----------------------------------------------------------------------------
(* The two routines *)

TermSteps == {"term", "term_wait", "term_kill", "term_child", "term_reap"}
SweepSteps == {"look", "sweep_term", "sweep_wait", "sweep_kill"}

\* What terminate_and_reap has achieved when it is at a step.
TermPromise ==
    /\ step \in {"term_kill", "term_child"} => grace \/ Members = {}
    /\ step \in {"term_child", "term_reap", "done"} => "kill" \in failed \/ Quiet
    /\ step = "done" => Collected
    /\ step = "failed" => "wait" \in failed

\* The same of cleanup_remaining_process_group.
SweepPromise ==
    /\ step = "sweep_kill" => grace
    /\ step = "done" => "kill" \in failed \/ Quiet

LEMMA Rest == step \in {"off", "done", "failed", "drain"} => ~Routine
BY DEF Routine, TermGroup, TermWait, TermKill, TermChild, TermReap, TermWaitFails,
       Look, SweepTerm, SweepWait, SweepKill

LEMMA KillQuiets ==
  ASSUME GroupOK, Kill, UNCHANGED life
  PROVE  Quiet'
BY DEF GroupOK, Kill, Quiet, Members, Running

LEMMA TermKept ==
  ASSUME GroupOK, GroupStep, step \in TermSteps \cup {"done", "failed"}, TermPromise
  PROVE  step' \in TermSteps \cup {"done", "failed"} /\ TermPromise'
<1>1. CASE Processes
  BY <1>1, ProcessStep DEF TermPromise
<1>2. CASE Routine
  <2>1. /\ Quiet => Quiet'
        /\ Collected => Collected'
        /\ Members = {} => Members' = {}
        /\ failed \subseteq failed'
    BY <1>2, RoutineStep
  <2>2. CASE TermGroup
    BY <2>2 DEF TermGroup, Await, TermPromise, TermSteps
  <2>3. CASE TermWait
    BY <2>1, <2>3 DEF TermWait, Goto, TermPromise, TermSteps
  <2>4. CASE TermKill
    <3>1. "kill" \in failed' \/ Quiet'
      BY <2>4, KillQuiets DEF TermKill, Failure
    <3> QED
      BY <2>1, <2>4, <3>1 DEF TermKill, Goto, TermPromise, TermSteps
  <2>5. CASE TermChild
    BY <2>1, <2>5 DEF TermChild, Goto, TermPromise, TermSteps
  <2>6. CASE TermReap
    <3>1. Collected'
      BY <2>6 DEF TermReap, Reap, Collected, GroupOK, Proc
    <3> QED
      BY <2>1, <2>6, <3>1 DEF TermReap, Goto, TermPromise, TermSteps
  <2>7. CASE TermWaitFails
    BY <2>7 DEF TermWaitFails, Failure, Goto, TermPromise, TermSteps
  <2>8. ~(Look \/ SweepTerm \/ SweepWait \/ SweepKill)
    BY <1>2, Rest DEF Look, SweepTerm, SweepWait, SweepKill, TermSteps
  <2> QED
    BY <1>2, <2>2, <2>3, <2>4, <2>5, <2>6, <2>7, <2>8 DEF Routine
<1> QED
  BY <1>1, <1>2 DEF GroupStep

LEMMA SweepKept ==
  ASSUME GroupOK, GroupStep, step \in SweepSteps \cup {"done"}, SweepPromise
  PROVE  step' \in SweepSteps \cup {"done"} /\ SweepPromise'
<1>1. CASE Processes
  BY <1>1, ProcessStep DEF SweepPromise
<1>2. CASE Routine
  <2>1. ~(TermGroup \/ TermWait \/ TermKill \/ TermChild \/ TermReap)
    BY DEF TermGroup, TermWait, TermKill, TermChild, TermReap, SweepSteps
  <2>2. ~TermWaitFails
    BY DEF TermWaitFails, SweepSteps
  <2>3. CASE Look
    <3>1. Members = {} /\ UNCHANGED <<life, doomed>> => Quiet'
      BY DEF Members, Quiet
    <3> QED
      BY <2>3, <3>1 DEF Look, Failure, Goto, SweepPromise, SweepSteps
  <2>4. CASE SweepTerm
    BY <2>4 DEF SweepTerm, Await, SweepPromise, SweepSteps
  <2>5. CASE SweepWait
    <3>1. Members = {} /\ UNCHANGED <<life, doomed>> => Quiet'
      BY DEF Members, Quiet
    <3> QED
      BY <2>5, <3>1 DEF SweepWait, Goto, SweepPromise, SweepSteps
  <2>6. CASE SweepKill
    <3>1. "kill" \in failed' \/ Quiet'
      BY <2>6, KillQuiets DEF SweepKill, Failure
    <3> QED
      BY <2>6, <3>1 DEF SweepKill, Goto, SweepPromise, SweepSteps
  <2> QED
    BY <1>2, <2>1, <2>2, <2>3, <2>4, <2>5, <2>6 DEF Routine
<1> QED
  BY <1>1, <1>2 DEF GroupStep

\* Who is deaf to SIGTERM is killed after the grace period only, or when a call failed.
LEMMA KilledAfterGrace ==
  ASSUME GroupOK, GroupStep,
         step \in {"term_kill", "term_child"} => grace \/ Members = {},
         step = "sweep_kill" => grace,
         NEW p \in deaf, p \in doomed' \ doomed
  PROVE  grace \/ failed' # {}
<1>1. CASE Processes
  BY <1>1, ProcessStep
<1>2. CASE TermGroup
  BY <1>2 DEF TermGroup, Term, Failure
<1>3. CASE TermKill \/ SweepKill
  BY <1>3 DEF TermKill, SweepKill, Kill, Failure
<1>4. CASE TermChild
  BY <1>4 DEF TermChild, KillChild, Members, Proc
<1>5. CASE SweepTerm
  BY <1>5 DEF SweepTerm, Term, Failure
<1>6. CASE TermWait \/ TermReap \/ TermWaitFails \/ Look \/ SweepWait
  BY <1>6 DEF TermWait, TermReap, TermWaitFails, Look, SweepWait
<1> QED
  BY <1>1, <1>2, <1>3, <1>4, <1>5, <1>6 DEF GroupStep, Routine
=============================================================================
