-------------------------- MODULE GitCaptureProofs --------------------------
(***************************************************************************)
(* Accepted output of a Git command is whole, and nobody is left of its      *)
(* group, for any number of helpers, any limit, and failing calls.           *)
(***************************************************************************)
EXTENDS GitCapture, ProcessGroupProofs

Reading == {"recv", "wait", "clock", "late_recv"}

\* What the reader reported is all there was or too much, and the host has that report.
ReportOK ==
    /\ wrote \in Nat /\ took \in Nat /\ took <= wrote
    /\ reader \in {"read", "bytes", "error"}
    /\ received \in {"none", "bytes", "error"}
    /\ received # "none" => received = reader
    /\ reader = "bytes" => took = Limit + 1 \/ (took = wrote /\ holds["out"] = {})

\* Where the host is, which routine runs, and what that has achieved.
PhaseOK ==
    /\ pc \in Reading \cup {"terminate", "sweep", "answered"}
    /\ pc \in Reading => step = "off" /\ outcome = "none"
    /\ pc = "late_recv" => Collected
    /\ pc = "terminate" =>
         step \in TermSteps \cup {"done", "failed"} /\ TermPromise /\ outcome \in Errors
    /\ pc \in {"sweep", "answered"} =>
         /\ step \in SweepSteps \cup {"done"} /\ SweepPromise
         /\ Collected \/ "wait" \in failed
         /\ outcome \in Errors \cup {"none"}
         /\ outcome = "none" => Collected /\ received # "none"
    /\ pc = "answered" => step = "done"

\* An accepted answer was given for good reasons, which nothing takes back.
AcceptedOK ==
    answer = "ok" =>
        /\ pc = "answered" /\ Collected /\ exitOk
        /\ received = "bytes" /\ took <= Limit

IInv == GroupOK /\ ReportOK /\ PhaseOK /\ AcceptedOK

LEMMA InitIInv == Init => IInv
<1> SUFFICES ASSUME Init PROVE IInv
  OBVIOUS
<1>1. GroupOK
  BY GroupStart DEF Init
<1>2. ReportOK /\ PhaseOK /\ AcceptedOK
  BY DEF Init, GroupInit, ReportOK, PhaseOK, AcceptedOK, Reading
<1> QED
  BY <1>1, <1>2 DEF IInv

\* A step of the processes, or of the routine that the host waits for.
LEMMA GroupIInv ==
  ASSUME IInv, GroupStep, UNCHANGED <<stdout, host>>
  PROVE  IInv'
<1>1. /\ GroupOK'
      /\ Collected => Collected' /\ exitOk' = exitOk
      /\ holds["out"] = {} => holds'["out"] = {}
      /\ failed \subseteq failed'
  BY ProcessStep, RoutineStep, StreamAssumption DEF IInv, GroupStep
<1>2. ReportOK'
  BY <1>1 DEF IInv, ReportOK, stdout, host
<1>3. PhaseOK'
  <2>1. CASE pc \in Reading
    <3>1. Processes
      BY <2>1, Rest DEF IInv, PhaseOK, GroupStep
    <3>2. step' = step
      BY <3>1, ProcessStep DEF IInv
    <3> QED
      BY <1>1, <2>1, <3>2 DEF IInv, PhaseOK, host, Reading
  <2>2. CASE pc = "terminate"
    <3>1. step' \in TermSteps \cup {"done", "failed"} /\ TermPromise'
      BY <2>2, TermKept DEF IInv, PhaseOK
    <3> QED
      BY <2>2, <3>1 DEF IInv, PhaseOK, host, Reading
  <2>3. CASE pc \in {"sweep", "answered"}
    <3>1. step' \in SweepSteps \cup {"done"} /\ SweepPromise'
      BY <2>3, SweepKept DEF IInv, PhaseOK
    <3>2. pc = "answered" => step' = "done"
      BY Rest, ProcessStep DEF IInv, PhaseOK, GroupStep
    <3> QED
      BY <1>1, <2>3, <3>1, <3>2 DEF IInv, PhaseOK, host, Reading
  <2> QED
    BY <2>1, <2>2, <2>3 DEF IInv, PhaseOK
<1>4. AcceptedOK'
  BY <1>1 DEF IInv, AcceptedOK, stdout, host
<1> QED
  BY <1>1, <1>2, <1>3, <1>4 DEF IInv

\* What the group's variables say is as before when none of them changes but failed.
LEMMA GroupSame ==
  ASSUME UNCHANGED <<group, clocks, step>>, failed \subseteq failed'
  PROVE  /\ GroupOK => GroupOK'
         /\ Collected => Collected'
         /\ exitOk' = exitOk /\ holds' = holds
         /\ TermPromise => TermPromise'
         /\ SweepPromise => SweepPromise'
BY DEF group, clocks, GroupOK, Running, Collected, TermPromise, SweepPromise, Quiet, Members

\* Bytes are written and read.
LEMMA OutputIInv ==
  ASSUME IInv, (\E p \in Proc : Write(p)) \/ Take \/ Report \/ ReadFails
  PROVE  IInv'
<1>1. UNCHANGED <<group, clocks, step>> /\ failed \subseteq failed'
  BY DEF Write, Take, Report, ReadFails, groupVars, Failure
<1>2. /\ GroupOK'
      /\ Collected => Collected'
      /\ exitOk' = exitOk /\ holds' = holds
      /\ TermPromise => TermPromise'
      /\ SweepPromise => SweepPromise'
  <2>1. GroupOK
    BY DEF IInv
  <2> QED
    BY <1>1, <2>1, GroupSame
<1>3. UNCHANGED host /\ step' = step
  BY DEF Write, Take, Report, ReadFails, groupVars
<1>4. reader = "read"
  BY DEF Write, Take, Report, ReadFails
<1>5. ReportOK'
  <2>1. received = "none" /\ received' = received
    BY <1>3, <1>4 DEF IInv, ReportOK, host
  <2> QED
    BY <1>2, <1>4, <2>1, LimitAssumption
    DEF IInv, ReportOK, Write, Take, Report, ReadFails, TakeBound
<1>6. PhaseOK'
  BY <1>1, <1>2, <1>3 DEF IInv, PhaseOK, host
<1>7. AcceptedOK'
  BY <1>3, <1>4 DEF IInv, AcceptedOK, ReportOK, host
<1> QED
  BY <1>2, <1>5, <1>6, <1>7 DEF IInv

\* The host's own steps.
LEMMA HostIInv ==
  ASSUME IInv, Host \/ TryWaitFails
  PROVE  IInv'
<1>1. CASE TryRecv
  <2>1. pc = "recv" /\ UNCHANGED <<group, late, failed, stdout>>
    BY <1>1 DEF TryRecv, Terminate, HostGoto, groupVars, clocks
  <2>2. GroupOK'
    BY <2>1 DEF IInv, GroupOK, Running, group
  <2>3. ReportOK'
    BY <1>1, <2>1 DEF IInv, ReportOK, TryRecv, Reported, stdout, group
  <2>4. PhaseOK' /\ AcceptedOK'
    <3>1. CASE received' = "bytes" /\ took > Limit
      BY <1>1, <2>1, <3>1
      DEF IInv, PhaseOK, AcceptedOK, TryRecv, Terminate, Errors, Reading, TermSteps, TermPromise
    <3>2. CASE ~(received' = "bytes" /\ took > Limit)
      BY <1>1, <2>1, <3>2
      DEF IInv, PhaseOK, AcceptedOK, TryRecv, HostGoto, groupVars, Reading
    <3> QED
      BY <3>1, <3>2
  <2> QED
    BY <2>2, <2>3, <2>4 DEF IInv
<1>2. CASE TryWait
  <2>1. CASE life[Leader] = "zombie" /\ Collect
    <3>1. pc = "wait" /\ UNCHANGED <<doomed, exitOk, holds, clocks, failed, stdout, received>>
      BY <1>2, <2>1 DEF TryWait, Collect
    <3>2. GroupOK'
      BY <2>1, <3>1, ReapKeeps DEF Collect, IInv
    <3>3. Collected'
      BY <2>1 DEF Collect, Reap, Collected, IInv, GroupOK, Proc
    <3>4. ReportOK'
      BY <3>1 DEF IInv, ReportOK, stdout
    <3>5. PhaseOK' /\ AcceptedOK'
      BY <2>1, <3>1, <3>3
      DEF IInv, PhaseOK, AcceptedOK, Collect, Reading, SweepSteps, SweepPromise, Errors
    <3> QED
      BY <3>2, <3>4, <3>5 DEF IInv
  <2>2. CASE life[Leader] = "member" /\ HostGoto("clock")
    BY <1>2, <2>2
    DEF TryWait, HostGoto, IInv, GroupOK, Running, ReportOK, PhaseOK, AcceptedOK, Reading,
        groupVars, group, stdout
  <2> QED
    BY <1>2, <2>1, <2>2 DEF TryWait
<1>3. CASE TryWaitFails
  <2>1. GroupOK' /\ ReportOK'
    BY <1>3 DEF TryWaitFails, IInv, GroupOK, Running, ReportOK, group, stdout
  <2>2. PhaseOK' /\ AcceptedOK'
    BY <1>3
    DEF TryWaitFails, Terminate, IInv, PhaseOK, AcceptedOK, Errors, Reading, TermSteps,
        TermPromise
  <2> QED
    BY <2>1, <2>2 DEF IInv
<1>4. CASE LateRecv
  <2>1. /\ pc = "late_recv" /\ pc' = "sweep" /\ step' = "look"
        /\ UNCHANGED <<group, clocks, failed, stdout, answer>>
    BY <1>4 DEF LateRecv
  <2>2. GroupOK' /\ ReportOK'
    BY <1>4, <2>1 DEF LateRecv, Reported, IInv, GroupOK, Running, ReportOK, group, stdout
  <2>3. PhaseOK' /\ AcceptedOK'
    BY <1>4, <2>1
    DEF LateRecv, Reported, IInv, PhaseOK, AcceptedOK, ReportOK, Collected, Errors, Reading,
        SweepSteps, SweepPromise, group
  <2> QED
    BY <2>2, <2>3 DEF IInv
<1>5. CASE CheckClock
  <2>1. pc = "clock" /\ UNCHANGED <<group, late, failed, stdout, received>>
    BY <1>5 DEF CheckClock, Terminate, HostGoto, groupVars, clocks
  <2>2. GroupOK' /\ ReportOK'
    BY <2>1 DEF IInv, GroupOK, Running, ReportOK, group, stdout
  <2>3. PhaseOK' /\ AcceptedOK'
    <3>1. CASE late
      BY <1>5, <2>1, <3>1
      DEF IInv, PhaseOK, AcceptedOK, CheckClock, Terminate, Errors, Reading, TermSteps,
          TermPromise
    <3>2. CASE ~late
      BY <1>5, <2>1, <3>2
      DEF IInv, PhaseOK, AcceptedOK, CheckClock, HostGoto, groupVars, Reading
    <3> QED
      BY <3>1, <3>2
  <2> QED
    BY <2>2, <2>3 DEF IInv
<1>6. CASE SweepAfter
  <2>1. GroupOK' /\ ReportOK'
    BY <1>6 DEF SweepAfter, IInv, GroupOK, Running, ReportOK, group, stdout
  <2>2. PhaseOK' /\ AcceptedOK'
    BY <1>6
    DEF SweepAfter, IInv, PhaseOK, AcceptedOK, Collected, Errors, Reading, TermSteps,
        TermPromise, SweepSteps, SweepPromise, group
  <2> QED
    BY <2>1, <2>2 DEF IInv
<1>7. CASE Answer
  <2>1. GroupOK' /\ ReportOK'
    BY <1>7 DEF Answer, IInv, GroupOK, Running, ReportOK, groupVars, group, stdout
  <2>2. PhaseOK'
    BY <1>7
    DEF Answer, IInv, PhaseOK, Collected, Reading, SweepPromise, Quiet, groupVars, group
  <2>3. AcceptedOK'
    BY <1>7, LimitAssumption
    DEF Answer, Verdict, IInv, PhaseOK, ReportOK, AcceptedOK, Collected, Errors, groupVars,
        group, stdout
  <2> QED
    BY <2>1, <2>2, <2>3 DEF IInv
<1> QED
  BY <1>1, <1>2, <1>3, <1>4, <1>5, <1>6, <1>7 DEF Host

THEOREM CaptureInvariant == Spec => []IInv
<1>1. IInv /\ [Next]_vars => IInv'
  <2> SUFFICES ASSUME IInv, [Next]_vars PROVE IInv'
    OBVIOUS
  <2>1. CASE UNCHANGED vars
    <3>1. UNCHANGED <<group, clocks, step, failed>> /\ UNCHANGED <<stdout, host>>
      BY <2>1 DEF vars, groupVars
    <3>2. GroupOK'
      BY <3>1, GroupSame DEF IInv
    <3>3. ReportOK' /\ PhaseOK' /\ AcceptedOK'
      BY <3>1
      DEF IInv, ReportOK, PhaseOK, AcceptedOK, TermPromise, SweepPromise, Quiet, Members,
          Collected, group, clocks, stdout, host
    <3> QED
      BY <3>2, <3>3 DEF IInv
  <2>2. CASE (Processes \/ Routine) /\ UNCHANGED <<stdout, host>>
    BY <2>2, GroupIInv DEF GroupStep
  <2>3. CASE (\E p \in Proc : Write(p)) \/ Take \/ Report \/ ReadFails
    BY <2>3, OutputIInv
  <2>4. CASE Host \/ TryWaitFails
    BY <2>4, HostIInv
  <2> QED
    BY <2>1, <2>2, <2>3, <2>4 DEF Next
<1> QED
  BY InitIInv, <1>1, PTL DEF Spec

\* Output that capture_bounded accepts is all of it, whatever helpers, signals, deadlines
\* and failures there are.
THEOREM AcceptedOutputWhole == Spec => []OutputWhole
<1>1. IInv => OutputWhole
  BY LimitAssumption
  DEF IInv, ReportOK, AcceptedOK, OutputWhole, Collected
<1> QED
  BY <1>1, CaptureInvariant, PTL

\* When a capture has answered, Git is collected unless waitpid failed, and every helper in
\* its group is gone or being ended unless /bin/kill failed.
THEOREM CaptureLeavesNobody == Spec => []NobodyLeft
<1>1. IInv => NobodyLeft
  BY DEF IInv, PhaseOK, SweepPromise, Quiet, Collected, NobodyLeft, Proc
<1> QED
  BY <1>1, CaptureInvariant, PTL
=============================================================================
