------------------------- MODULE PluginProbeProofs -------------------------
(***************************************************************************)
(* What a probe answers is true, nobody is left of the plugin's group, and   *)
(* diagnostics are whole, for any number of children, lines and              *)
(* capabilities, whatever the plugin does and whichever calls fail.          *)
(***************************************************************************)
EXTENDS PluginProbe, ProcessGroupProofs

Greeting == {"hello_write", "hello_check", "hello_recv"}
Asking   == {"request_write", "result_check", "result_recv"}
Talking  == Greeting \cup Asking \cup {"exit"}

Greeted == seen[1].kind = "hello" /\ seen[1].caps \subseteq Allowed

Exchanged ==
    /\ Len(seen) = 2 /\ Greeted
    /\ (result = "ok" /\ seen[2].kind = "result") \/ result = "error"

\* What the host has heard, by where it is.
TalkOK ==
    /\ seen \in Seq(Line)
    /\ pc \in Greeting => seen = <<>>
    /\ pc \in Asking => Len(seen) = 1 /\ Greeted
    /\ pc = "exit" => Exchanged
    /\ pc \in {"sweep", "drain", "answered"} /\ failure = "none" => Exchanged /\ Collected

\* Which routine runs, and what that has achieved.
PhaseOK ==
    /\ pc \in Talking \cup {"cleanup", "sweep", "drain", "answered"}
    /\ pc \in Talking => step = "off" /\ failure = "none"
    /\ pc = "cleanup" =>
         /\ step \in TermSteps \cup {"done", "failed"} /\ TermPromise
         /\ failure \in {"io", "protocol", "policy", "timeout"}
    /\ pc = "sweep" =>
         /\ step \in SweepSteps \cup {"done"} /\ SweepPromise
         /\ failure = "none"
    /\ pc \in {"drain", "answered"} =>
         /\ step = "drain" /\ failure \in Failures \cup {"none"}
         /\ failure \notin CleanupErrors => Collected
         /\ failed = {} => Collected /\ Quiet
    /\ answer # "none" => pc = "answered"
    /\ answer = "ok" => failure = "none" /\ result = "ok" /\ exitOk
    /\ pc = "answered" /\ failure \in CleanupErrors => answer = failure

\* The stderr thread is done when all was read; the snapshot is taken then or too late.
NotesOK ==
    /\ errDone => heard = said /\ holds["err"] = {}
    /\ pc = "answered" => grace \/ (errDone /\ (answer \in Carrying => kept = heard))

IInv == GroupOK /\ TalkOK /\ PhaseOK /\ NotesOK

LEMMA InitIInv == Init => IInv
<1> SUFFICES ASSUME Init PROVE IInv
  OBVIOUS
<1>1. GroupOK
  BY GroupStart DEF Init
<1>2. TalkOK
  BY DEF Init, TalkOK, Greeting, Asking
<1>3. PhaseOK /\ NotesOK
  BY DEF Init, GroupInit, PhaseOK, NotesOK, Talking, Greeting
<1> QED
  BY <1>1, <1>2, <1>3 DEF IInv

\* A step of the processes, or of the routine that the host waits for.
LEMMA GroupIInv ==
  ASSUME IInv, GroupStep, UNCHANGED <<readers, seen, probe>>
  PROVE  IInv'
<1>1. /\ GroupOK'
      /\ Collected => Collected' /\ exitOk' = exitOk
      /\ Quiet => Quiet'
      /\ holds["err"] = {} => holds'["err"] = {}
  BY ProcessStep, RoutineStep, StreamAssumption DEF IInv, GroupStep
<1>2. step \in {"off", "drain"} => step' = step /\ failed' = failed /\ (grace => grace')
  BY Rest, ProcessStep DEF IInv, GroupStep
<1>3. TalkOK'
  BY <1>1 DEF IInv, TalkOK, Exchanged, Greeted, probe, readers
<1>4. PhaseOK'
  <2>1. CASE pc \in Talking
    BY <1>2, <2>1 DEF IInv, PhaseOK, probe, Talking, Greeting, Asking
  <2>2. CASE pc = "cleanup"
    <3>1. step' \in TermSteps \cup {"done", "failed"} /\ TermPromise'
      BY <2>2, TermKept DEF IInv, PhaseOK
    <3> QED
      BY <2>2, <3>1 DEF IInv, PhaseOK, probe, Talking, Greeting, Asking
  <2>3. CASE pc = "sweep"
    <3>1. step' \in SweepSteps \cup {"done"} /\ SweepPromise'
      BY <2>3, SweepKept DEF IInv, PhaseOK
    <3> QED
      BY <2>3, <3>1 DEF IInv, PhaseOK, probe, Talking, Greeting, Asking
  <2>4. CASE pc \in {"drain", "answered"}
    <3>1. answer = "ok" => exitOk' = exitOk
      BY <1>1 DEF IInv, PhaseOK, Collected
    <3> QED
      BY <1>1, <1>2, <2>4, <3>1 DEF IInv, PhaseOK, probe, Talking, Greeting, Asking
  <2> QED
    BY <2>1, <2>2, <2>3, <2>4 DEF IInv, PhaseOK
<1>5. NotesOK'
  BY <1>1, <1>2 DEF IInv, NotesOK, PhaseOK, probe, readers
<1> QED
  BY <1>1, <1>3, <1>4, <1>5 DEF IInv

\* What only reads the group's variables leaves alone what they say.
LEMMA GroupSame ==
  ASSUME UNCHANGED groupVars
  PROVE  /\ GroupOK => GroupOK'
         /\ Collected' = Collected /\ Quiet' = Quiet /\ holds' = holds
         /\ TermPromise' = TermPromise /\ SweepPromise' = SweepPromise
         /\ UNCHANGED <<exitOk, grace, step, failed>>
BY DEF groupVars, group, clocks, GroupOK, Running, Collected, TermPromise, SweepPromise,
       Quiet, Members

\* The reader threads, and what is written to stderr.
LEMMA ReadersIInv ==
  ASSUME IInv, (\E p \in Proc : WriteNote(p)) \/ ReadLine \/ ReadEnd \/ SendItem \/ ReadNote
  PROVE  IInv'
<1>1. UNCHANGED <<groupVars, seen, probe>>
  BY DEF WriteNote, ReadLine, ReadEnd, SendItem, ReadNote
<1>2. UNCHANGED groupVars /\ UNCHANGED <<seen, pc, result, failure, kept, answer>>
  BY <1>1 DEF probe
<1>3. GroupOK'
  BY <1>2, GroupSame DEF IInv
<1>4. TalkOK'
  BY <1>2, GroupSame DEF IInv, TalkOK, Exchanged, Greeted
<1>5. PhaseOK'
  BY <1>2, GroupSame DEF IInv, PhaseOK
<1>6. NotesOK'
  BY <1>2, GroupSame
  DEF IInv, NotesOK, WriteNote, ReadLine, ReadEnd, SendItem, ReadNote
<1> QED
  BY <1>3, <1>4, <1>5, <1>6 DEF IInv

\* An interaction that fails goes to the cleanup, with a reason.
LEMMA FailsIInv ==
  ASSUME IInv, pc \in Talking, UNCHANGED <<group, late, kept, answer, readers>>,
         seen' \in Seq(Line),
         pc' = "cleanup", failure' \in {"io", "protocol", "policy", "timeout"}, step' = "term"
  PROVE  IInv'
<1>1. GroupOK'
  BY DEF IInv, GroupOK, Running, group
<1>2. TalkOK'
  BY DEF IInv, TalkOK, Greeting, Asking
<1>3. PhaseOK'
  BY DEF IInv, PhaseOK, Talking, Greeting, Asking, TermSteps, TermPromise
<1>4. NotesOK'
  BY DEF IInv, NotesOK, readers, group
<1> QED
  BY <1>1, <1>2, <1>3, <1>4 DEF IInv

\* One that goes on has heard what it needs.
LEMMA GoesOnIInv ==
  ASSUME IInv, pc \in Talking, pc' \in Talking, UNCHANGED <<groupVars, kept, answer, failure>>,
         UNCHANGED readers, TalkOK'
  PROVE  IInv'
<1>1. GroupOK'
  BY GroupSame DEF IInv
<1>2. PhaseOK'
  BY GroupSame DEF IInv, PhaseOK, Talking, Greeting, Asking
<1>3. NotesOK'
  BY GroupSame DEF IInv, NotesOK, readers, Talking, Greeting, Asking
<1> QED
  BY <1>1, <1>2, <1>3 DEF IInv

LEMMA Appended ==
  ASSUME NEW S, NEW s \in Seq(S), NEW e \in S
  PROVE  /\ Append(s, e) \in Seq(S)
         /\ Len(Append(s, e)) = Len(s) + 1
         /\ \A i \in 1..Len(s) : Append(s, e)[i] = s[i]
         /\ Append(s, e)[Len(s) + 1] = e
OBVIOUS

\* The steps of the exchange.
LEMMA ExchangeIInv ==
  ASSUME IInv,
         \/ WriteHello \/ WriteRequest \/ CheckTimes \/ TimesOut \/ ReceiveNoLine
         \/ \E line \in Line : ReceiveHello(line) \/ ReceiveResult(line)
  PROVE  IInv'
<1>1. seen \in Seq(Line)
  BY DEF IInv, TalkOK
<1>2. CASE WriteHello \/ WriteRequest
  <2>1. pc \in Talking /\ UNCHANGED <<readers, seen, result>>
    BY <1>2 DEF WriteHello, WriteRequest, WriteFrame, Talking, Greeting, Asking
  <2>2. CASE Fails("io")
    BY <1>1, <2>1, <2>2, FailsIInv DEF Fails
  <2>3. CASE ~Fails("io")
    <3>1. /\ pc' \in Talking /\ UNCHANGED <<groupVars, kept, answer, failure>>
          /\ \/ pc = "hello_write" /\ pc' = "hello_check"
             \/ pc = "request_write" /\ pc' = "result_check"
      BY <1>2, <2>3
      DEF WriteHello, WriteRequest, WriteFrame, HostGoto, Talking, Greeting, Asking
    <3>2. TalkOK'
      BY <2>1, <3>1 DEF IInv, TalkOK, Greeted, Greeting, Asking
    <3> QED
      BY <2>1, <3>1, <3>2, GoesOnIInv
  <2> QED
    BY <2>2, <2>3
<1>3. CASE CheckTimes \/ TimesOut \/ ReceiveNoLine
  <2>1. pc \in Talking /\ UNCHANGED <<readers, seen, result>>
    BY <1>3
    DEF CheckTimes, CheckTime, TimesOut, ReceiveNoLine, Receive, Talking, Greeting, Asking
  <2>2. CASE Fails("timeout") \/ Fails("protocol")
    BY <1>1, <2>1, <2>2, FailsIInv DEF Fails
  <2>3. CASE ~(Fails("timeout") \/ Fails("protocol"))
    <3>1. /\ pc' \in Talking /\ UNCHANGED <<groupVars, kept, answer, failure>>
          /\ \/ pc = "hello_check" /\ pc' = "hello_recv"
             \/ pc = "result_check" /\ pc' = "result_recv"
      BY <1>3, <2>3
      DEF CheckTimes, CheckTime, TimesOut, ReceiveNoLine, HostGoto, Talking, Greeting, Asking
    <3>2. TalkOK'
      BY <2>1, <3>1 DEF IInv, TalkOK, Greeted, Greeting, Asking
    <3> QED
      BY <2>1, <3>1, <3>2, GoesOnIInv
  <2> QED
    BY <2>2, <2>3
<1>4. ASSUME NEW line \in Line, ReceiveHello(line) PROVE IInv'
  <2>1. /\ pc = "hello_recv" /\ seen = <<>> /\ seen' = Append(seen, line)
        /\ UNCHANGED <<readers, result>>
    BY <1>4 DEF ReceiveHello, Receive, IInv, TalkOK, Greeting
  <2>2. seen' = <<line>> /\ seen' \in Seq(Line) /\ Len(seen') = 1 /\ seen'[1] = line
    BY <1>4, <2>1
  <2>3. CASE Fails("policy") \/ Fails("protocol")
    BY <2>1, <2>2, <2>3, FailsIInv DEF Fails, Talking, Greeting
  <2>4. CASE ~(Fails("policy") \/ Fails("protocol"))
    <3>1. /\ pc' = "request_write" /\ UNCHANGED <<groupVars, kept, answer, failure>>
          /\ line.kind = "hello" /\ line.caps \subseteq Allowed
      BY <1>4, <2>4 DEF ReceiveHello, HostGoto, Admitted
    <3>2. TalkOK'
      BY <2>2, <3>1 DEF TalkOK, Greeted, Greeting, Asking
    <3> QED
      BY <2>1, <3>1, <3>2, GoesOnIInv DEF Talking, Greeting, Asking
  <2> QED
    BY <2>3, <2>4
<1>5. ASSUME NEW line \in Line, ReceiveResult(line) PROVE IInv'
  <2>1. /\ pc = "result_recv" /\ Len(seen) = 1 /\ Greeted /\ seen' = Append(seen, line)
        /\ UNCHANGED readers
    BY <1>5 DEF ReceiveResult, Receive, IInv, TalkOK, Asking
  <2>2. seen' \in Seq(Line) /\ Len(seen') = 2 /\ seen'[1] = seen[1] /\ seen'[2] = line
    <3>1. /\ Append(seen, line) \in Seq(Line) /\ Len(Append(seen, line)) = Len(seen) + 1
          /\ \A i \in 1..Len(seen) : Append(seen, line)[i] = seen[i]
          /\ Append(seen, line)[Len(seen) + 1] = line
      BY <1>1, Appended
    <3>2. 1 \in 1..Len(seen) /\ Len(seen) + 1 = 2 /\ seen' = Append(seen, line)
      BY <2>1
    <3> QED
      BY <3>1, <3>2
  <2>3. CASE Fails("protocol")
    BY <2>1, <2>2, <2>3, FailsIInv DEF Fails, Talking, Asking
  <2>4. CASE ~Fails("protocol")
    <3>1. /\ pc' = "exit" /\ UNCHANGED <<groupVars, kept, answer, failure>>
          /\ (line.kind = "result" /\ result' = "ok") \/ result' = "error"
      BY <1>5, <2>4 DEF ReceiveResult, HostGoto
    <3>2. TalkOK'
      BY <2>1, <2>2, <3>1 DEF TalkOK, Exchanged, Greeted, Greeting, Asking
    <3> QED
      BY <2>1, <3>1, <3>2, GoesOnIInv DEF Talking, Asking
  <2> QED
    BY <2>3, <2>4
<1> QED
  BY <1>2, <1>3, <1>4, <1>5

\* The wait for the exit, the end of the routines, the answer.
LEMMA EndIInv ==
  ASSUME IInv, WaitForExit \/ WaitForExitFails \/ Finish \/ Answer
  PROVE  IInv'
<1>1. seen \in Seq(Line)
  BY DEF IInv, TalkOK
<1>2. CASE WaitForExit
  <2>1. pc = "exit" /\ pc \in Talking /\ UNCHANGED <<readers, seen, result>>
    BY <1>2 DEF WaitForExit, Talking
  <2>2. CASE Fails("timeout")
    BY <1>1, <2>1, <2>2, FailsIInv DEF Fails
  <2>3. CASE ~Fails("timeout")
    <3>1. /\ life[Leader] = "zombie" /\ Reap /\ pc' = "sweep" /\ step' = "look"
          /\ UNCHANGED <<deaf, doomed, exitOk, holds, clocks, failed, kept, answer, failure>>
      BY <1>2, <2>3 DEF WaitForExit
    <3>2. GroupOK'
      BY <3>1, ReapKeeps DEF IInv
    <3>3. Collected'
      BY <3>1 DEF Reap, Collected, IInv, GroupOK, Proc
    <3>4. TalkOK'
      BY <2>1, <3>1, <3>3 DEF IInv, TalkOK, Exchanged, Greeted, Greeting, Asking
    <3>5. PhaseOK'
      BY <2>1, <3>1, <3>3
      DEF IInv, PhaseOK, Talking, Greeting, Asking, SweepSteps, SweepPromise
    <3>6. NotesOK'
      BY <2>1, <3>1 DEF IInv, NotesOK, readers
    <3> QED
      BY <3>2, <3>4, <3>5, <3>6 DEF IInv
  <2> QED
    BY <2>2, <2>3
<1>3. CASE WaitForExitFails
  BY <1>1, <1>3, FailsIInv DEF WaitForExitFails, Talking
<1>4. CASE Finish
  <2>1. /\ pc' = "drain" /\ step' = "drain"
        /\ UNCHANGED <<group, late, failed, readers, seen, result, kept, answer>>
        /\ failure' = IF step = "done" THEN failure
                      ELSE IF failure = "timeout" THEN "timeout_cleanup" ELSE "cleanup"
    BY <1>4 DEF Finish
  <2>2. /\ \/ pc = "sweep" /\ step = "done" /\ Collected
           \/ pc = "cleanup" /\ step = "done" /\ Collected
           \/ pc = "cleanup" /\ step = "failed"
        /\ failed = {} => Collected /\ Quiet
        /\ failure \in Failures \cup {"none"}
    BY <1>4
    DEF Finish, IInv, TalkOK, PhaseOK, TermPromise, SweepPromise, SweepSteps, TermSteps, Failures
  <2>3. GroupOK' /\ Collected' = Collected /\ Quiet' = Quiet
    BY <2>1 DEF IInv, GroupOK, Running, group, Collected, Quiet
  <2>4. TalkOK'
    BY <2>1, <2>2, <2>3
    DEF IInv, TalkOK, PhaseOK, Exchanged, Greeted, Greeting, Asking
  <2>5. PhaseOK'
    BY <2>1, <2>2, <2>3 DEF IInv, PhaseOK, Talking, Greeting, Asking, Failures, CleanupErrors, group
  <2>6. NotesOK'
    BY <2>1 DEF IInv, NotesOK, readers, group
  <2> QED
    BY <2>3, <2>4, <2>5, <2>6 DEF IInv
<1>5. CASE Answer
  <2>1. /\ pc = "drain" /\ pc' = "answered" /\ answer' = Verdict
        /\ kept' = IF Verdict \in Carrying THEN heard ELSE 0
        /\ errDone \/ grace
        /\ UNCHANGED <<groupVars, readers, seen, result, failure>>
    BY <1>5 DEF Answer
  <2>2. UNCHANGED groupVars /\ UNCHANGED <<seen, result, failure>>
    BY <2>1
  <2>3. GroupOK'
    BY <2>2, GroupSame DEF IInv
  <2>4. TalkOK'
    BY <2>1, <2>2, GroupSame DEF IInv, TalkOK, Exchanged, Greeted, Greeting, Asking
  <2>5. PhaseOK'
    <3>1. answer' = "ok" => failure = "none" /\ exitOk /\ result = "ok"
      BY <2>1 DEF IInv, PhaseOK, TalkOK, Exchanged, Verdict, Failures, CleanupErrors
    <3>2. failure \in CleanupErrors => answer' = failure
      BY <2>1 DEF Verdict, CleanupErrors
    <3> QED
      BY <2>1, <2>2, <3>1, <3>2, GroupSame DEF IInv, PhaseOK, Talking, Greeting, Asking
  <2>6. NotesOK'
    BY <2>1, <2>2, GroupSame DEF IInv, NotesOK, readers
  <2> QED
    BY <2>3, <2>4, <2>5, <2>6 DEF IInv
<1> QED
  BY <1>2, <1>3, <1>4, <1>5

LEMMA StepIInv == IInv /\ [Next]_vars => IInv'
<1> SUFFICES ASSUME IInv, [Next]_vars PROVE IInv'
  OBVIOUS
<1>1. CASE UNCHANGED vars
  <2>1. UNCHANGED groupVars /\ UNCHANGED <<readers, seen, probe>>
    BY <1>1 DEF vars
  <2>2. GroupOK'
    BY <2>1, GroupSame DEF IInv
  <2>3. TalkOK'
    BY <2>1, GroupSame DEF IInv, TalkOK, Exchanged, Greeted, probe
  <2>4. PhaseOK'
    BY <2>1, GroupSame DEF IInv, PhaseOK, probe
  <2>5. NotesOK'
    BY <2>1, GroupSame DEF IInv, NotesOK, readers, probe
  <2> QED
    BY <2>2, <2>3, <2>4, <2>5 DEF IInv
<1>2. CASE (Processes \/ Routine) /\ UNCHANGED <<readers, seen, probe>>
  BY <1>2, GroupIInv DEF GroupStep
<1>3. CASE (\E p \in Proc : WriteNote(p)) \/ ReadLine \/ ReadEnd \/ SendItem \/ ReadNote
  BY <1>3, ReadersIInv
<1>4. CASE Host \/ WaitForExitFails
  BY <1>4, ExchangeIInv, EndIInv DEF Host
<1> QED
  BY <1>1, <1>2, <1>3, <1>4 DEF Next

THEOREM ProbeInvariant == Spec => []IInv
BY InitIInv, StepIInv, PTL DEF Spec

-----------------------------------------------------------------------------
\* A probe that answers ok had a handshake within the policy, then an ok result, and
\* collected a plugin that exited with success.
THEOREM OkIsTrue == Spec => []OkMeansAllWentWell
<1>1. IInv => OkMeansAllWentWell
  <2> SUFFICES ASSUME IInv, answer = "ok" PROVE OkMeansAllWentWell
    BY DEF OkMeansAllWentWell
  <2>1. Exchanged /\ Collected /\ result = "ok" /\ exitOk /\ seen \in Seq(Line)
    BY DEF IInv, PhaseOK, TalkOK
  <2>2. [i \in DOMAIN seen |-> seen[i].kind] = <<"hello", "result">>
    BY <2>1 DEF Exchanged, Greeted
  <2> QED
    BY <2>1, <2>2 DEF OkMeansAllWentWell, Exchanged, Greeted, Collected
<1> QED
  BY <1>1, ProbeInvariant, PTL

\* When a probe has answered, nobody whom it could reach is left of the plugin's group.
THEOREM ProbeLeavesNobody == Spec => []NobodyLeft
<1>1. IInv => NobodyLeft
  BY DEF IInv, PhaseOK, NobodyLeft, Quiet, Collected, Proc
<1> QED
  BY <1>1, ProbeInvariant, PTL

\* The answers with a place for diagnostics carry, within the grace, all that was ever
\* written to stderr.
THEOREM DiagnosticsWhole == Spec => []DiagnosticsComplete
<1>1. IInv => DiagnosticsComplete
  BY DEF IInv, PhaseOK, NotesOK, DiagnosticsComplete, Carrying
<1> QED
  BY <1>1, ProbeInvariant, PTL

\* A process that SIGTERM does not end has its grace, unless a call fails.
THEOREM GraceGiven == Spec => EscalatesAfterGraceProp
<1>1. IInv /\ [Next]_vars => [EscalatesAfterGrace]_vars
  <2> SUFFICES ASSUME IInv, Next, NEW p \in deaf, p \in doomed' \ doomed
               PROVE  grace \/ failed' # {}
    BY DEF EscalatesAfterGrace
  <2>1. GroupStep
    BY DEF Next, GroupStep, WriteNote, ReadLine, ReadEnd, SendItem, ReadNote, Host,
           WriteHello, WriteRequest, WriteFrame, CheckTimes, CheckTime, TimesOut,
           ReceiveNoLine, ReceiveHello, ReceiveResult, HostGoto, Fails, WaitForExit,
           WaitForExitFails, Finish, Answer, groupVars, group
  <2>2. /\ step \in {"term_kill", "term_child"} => grace \/ Members = {}
        /\ step = "sweep_kill" => grace
    BY DEF IInv, PhaseOK, TermPromise, SweepPromise, TermSteps, SweepSteps, Talking
  <2> QED
    BY <2>1, <2>2, KilledAfterGrace DEF IInv
<1> QED
  BY <1>1, ProbeInvariant, PTL DEF Spec, EscalatesAfterGraceProp
=============================================================================
