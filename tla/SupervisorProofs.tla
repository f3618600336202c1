-------------------------- MODULE SupervisorProofs --------------------------
(***************************************************************************)
(* What is proved of module Supervisor for every set of tasks, every set   *)
(* of runs and every combination of faults: type correctness, the safety   *)
(* invariants, and that it implements module InstanceLifecycle.            *)
(***************************************************************************)
EXTENDS Supervisor, TLAPS

\* The lock is real: exactly its holder is suspended inside the locked section.
LockInv == \A t \in Tasks : pc[t] \in Critical <=> holder = t

\* The locals of whoever is inside, when nobody is, and the run behind
\* Supervisor._process.
OwnerInv ==
  /\ holder = NoTask => handle = NoRun
  /\ status \notin Active => process = NoRun
  /\ process # NoRun => status \in {"running", "stopping"} /\ proc[process] # "none"
  /\ \A t \in Tasks :
       /\ pc[t] \in Launching => status = "starting" /\ process = NoRun
       /\ pc[t] = "spawning" => handle = NoRun
       /\ pc[t] \in {"spawned", "aborting"} => handle # NoRun /\ proc[handle] # "none"
       /\ pc[t] \in Waiting => handle # NoRun /\ (process = handle \/ (process = NoRun /\ Exited(handle)))
       /\ pc[t] = "drain_idle" => Gone

\* Every live server is in somebody's hand: the supervisor's, or that of the
\* task that is launching it.
AliveInv ==
  \A r \in Alive :
    \/ process = r
    \/ handle = r /\ \E t \in Tasks : pc[t] \in {"spawned", "aborting"}

IInv == TypeOK /\ LockInv /\ OwnerInv /\ AliveInv

\* The strengthened invariant holds of the initial state.
LEMMA InitIInv == Init => IInv
  BY NoneAssumption DEF Init, IInv, TypeOK, LockInv, OwnerInv, AliveInv, Status, Active, Ops,
     Critical, Waiting, Draining, Launching, Alive, Gone, Exited

\* Every step of Supervisor keeps the types.
LEMMA TypeStep == TypeOK /\ [Next]_vars => TypeOK'
<1> SUFFICES ASSUME TypeOK, [Next]_vars PROVE TypeOK'
  OBVIOUS
<1>0. faults' = faults
  BY DEF Next, vars
<1> USE <1>0, NoneAssumption DEF TypeOK, objVars, taskVars, Status, Active, Critical, Waiting,
        Draining, Launching, Ops
<1>1. ASSUME NEW t \in Tasks, NEW o \in Ops, Call(t, o) PROVE TypeOK'
  BY <1>1 DEF Call
<1>2. ASSUME NEW t \in Tasks, TaskStep(t) PROVE TypeOK'
  <2>1. CASE StartRefused(t) \/ StartInvalid(t) \/ StartBegins(t)
    BY <2>1 DEF StartRefused, StartInvalid, StartBegins, Enter, Leave, LeaveFor, Hold
  <2>2. CASE Forked(t) \/ LaunchFails(t) \/ Launched(t) \/ Aborted(t)
    <3>1. CASE Forked(t) BY <3>1 DEF Forked
    <3>2. CASE LaunchFails(t) BY <3>2 DEF LaunchFails, Leave, LeaveFor
    <3>3. CASE Launched(t) BY <3>3 DEF Launched, Leave, LeaveFor
    <3>4. CASE Aborted(t) BY <3>4 DEF Aborted, Leave, LeaveFor
    <3> QED BY <2>2, <3>1, <3>2, <3>3, <3>4
  <2>3. CASE StopGone(t) \/ StopAsks(t) \/ StopObeyed(t)
    BY <2>3 DEF StopGone, StopAsks, StopObeyed, Enter, Hold
  <2>4. CASE GraceExpires(t)
    BY <2>4 DEF GraceExpires
  <2>5. CASE Drained(t)
    BY <2>5 DEF Drained, LeaveFor
  <2> QED BY <1>2, <2>1, <2>2, <2>3, <2>4, <2>5 DEF TaskStep
<1>3. ASSUME NEW t \in Tasks, Cancel(t) PROVE TypeOK'
  BY <1>3 DEF Cancel, CancelWaiting, CancelStart, CancelStop, Leave, LeaveFor
<1>4. ASSUME NEW r \in Runs, Exit(r) PROVE TypeOK'
  BY <1>4 DEF Exit
<1>5. ASSUME NEW r \in Runs, PumpStep(r) PROVE TypeOK'
  BY <1>5 DEF PumpStep, PumpOpens, PumpLine, PumpEnds, Reap
<1>6. CASE UNCHANGED vars
  BY <1>6 DEF vars
<1> QED
  BY <1>1, <1>2, <1>3, <1>4, <1>5, <1>6 DEF Next

\* Every variable of Supervisor keeps its type, whatever the tasks, the runs
\* and the faults of the host.
THEOREM TypeCorrect == Spec => []TypeOK
<1>1. Init => TypeOK
  BY InitIInv DEF IInv
<1> QED
  BY <1>1, TypeStep, PTL DEF Spec

-----------------------------------------------------------------------------
\* What entering, holding and leaving the locked section do to the lock.
LEMMA LockStep == TypeOK /\ LockInv /\ [Next]_vars => LockInv'
<1> SUFFICES ASSUME TypeOK, LockInv, [Next]_vars PROVE LockInv'
  OBVIOUS
<1> USE NoneAssumption DEF TypeOK, LockInv, objVars, taskVars, Critical, Waiting, Draining,
        Launching
<1>1. ASSUME NEW t \in Tasks, NEW o \in Ops, Call(t, o) PROVE LockInv'
  BY <1>1 DEF Call
<1>2. ASSUME NEW t \in Tasks, TaskStep(t) PROVE LockInv'
  <2>1. CASE StartRefused(t) \/ StartInvalid(t) \/ StartBegins(t)
    BY <2>1 DEF StartRefused, StartInvalid, StartBegins, Enter, Leave, LeaveFor, Hold
  <2>2. CASE Forked(t)
    BY <2>2 DEF Forked
  <2>3. CASE LaunchFails(t) \/ Launched(t) \/ Aborted(t)
    BY <2>3 DEF LaunchFails, Launched, Aborted, Leave, LeaveFor
  <2>4. CASE StopGone(t) \/ StopAsks(t)
    BY <2>4 DEF StopGone, StopAsks, Enter, Hold
  <2>5. CASE StopObeyed(t) \/ GraceExpires(t)
    BY <2>5 DEF StopObeyed, GraceExpires
  <2>6. CASE Drained(t)
    BY <2>6 DEF Drained, LeaveFor
  <2> QED BY <1>2, <2>1, <2>2, <2>3, <2>4, <2>5, <2>6 DEF TaskStep
<1>3. ASSUME NEW t \in Tasks, Cancel(t) PROVE LockInv'
  BY <1>3 DEF Cancel, CancelWaiting, CancelStart, CancelStop, Leave, LeaveFor
<1>4. ASSUME NEW r \in Runs, Exit(r) \/ PumpStep(r) PROVE LockInv'
  BY <1>4 DEF Exit, PumpStep, PumpOpens, PumpLine, PumpEnds, Reap
<1>5. CASE UNCHANGED vars
  BY <1>5 DEF vars
<1> QED
  BY <1>1, <1>2, <1>3, <1>4, <1>5 DEF Next

\* What each step does to the handle of the current run.
LEMMA OwnerStep == IInv /\ TypeOK' /\ LockInv' /\ [Next]_vars => OwnerInv'
<1> SUFFICES ASSUME IInv, TypeOK', LockInv', [Next]_vars PROVE OwnerInv'
  OBVIOUS
<1> USE NoneAssumption DEF IInv, TypeOK, LockInv, OwnerInv, objVars, taskVars, Active, Critical,
        Waiting, Draining, Launching, Gone, Exited
<1>1. ASSUME NEW t \in Tasks, NEW o \in Ops, Call(t, o) PROVE OwnerInv'
  BY <1>1 DEF Call
<1>2. ASSUME NEW t \in Tasks, TaskStep(t) PROVE OwnerInv'
  <2>1. CASE StartRefused(t) \/ StartInvalid(t)
    BY <2>1 DEF StartRefused, StartInvalid, Enter, Leave, LeaveFor
  <2>2. CASE StartBegins(t)
    BY <2>2 DEF StartBegins, Enter, Hold
  <2>3. CASE Forked(t)
    BY <2>3 DEF Forked
  <2>4. CASE LaunchFails(t)
    BY <2>4 DEF LaunchFails, Leave, LeaveFor
  <2>5. CASE Launched(t)
    BY <2>5 DEF Launched, Leave, LeaveFor
  <2>6. CASE Aborted(t)
    BY <2>6 DEF Aborted, Leave, LeaveFor
  <2>7. CASE StopGone(t)
    BY <2>7 DEF StopGone, Enter, Hold
  <2>8. CASE StopAsks(t)
    BY <2>8 DEF StopAsks, Enter, Hold
  <2>9. CASE StopObeyed(t) \/ GraceExpires(t)
    BY <2>9 DEF StopObeyed, GraceExpires
  <2>10. CASE Drained(t)
    BY <2>10 DEF Drained, LeaveFor, Settled
  <2> QED
    BY <1>2, <2>1, <2>2, <2>3, <2>4, <2>5, <2>6, <2>7, <2>8, <2>9, <2>10 DEF TaskStep
<1>3. ASSUME NEW t \in Tasks, Cancel(t) PROVE OwnerInv'
  BY <1>3 DEF Cancel, CancelWaiting, CancelStart, CancelStop, Leave, LeaveFor
<1>4. ASSUME NEW r \in Runs, Exit(r) PROVE OwnerInv'
  BY <1>4 DEF Exit
<1>5. ASSUME NEW r \in Runs, PumpStep(r) PROVE OwnerInv'
  <2>1. CASE PumpOpens(r) \/ PumpLine(r) \/ PumpEnds(r)
    BY <2>1 DEF PumpOpens, PumpLine, PumpEnds
  <2>2. CASE Reap(r) /\ process # r
    BY <2>2 DEF Reap
  <2>3. CASE Reap(r) /\ process = r
    BY <2>3 DEF Reap
  <2> QED BY <1>5, <2>1, <2>2, <2>3 DEF PumpStep
<1>6. CASE UNCHANGED vars
  BY <1>6 DEF vars
<1> QED
  BY <1>1, <1>2, <1>3, <1>4, <1>5, <1>6 DEF Next

\* A live server changes hands, but is never in nobody's.
LEMMA AliveStep == IInv /\ TypeOK' /\ [Next]_vars => AliveInv'
<1> SUFFICES ASSUME IInv, TypeOK', [Next]_vars PROVE AliveInv'
  OBVIOUS
<1> USE NoneAssumption DEF IInv, TypeOK, LockInv, OwnerInv, AliveInv, Alive, objVars, taskVars,
        Active, Critical, Waiting, Draining, Launching, Gone, Exited
<1>1. ASSUME NEW t \in Tasks, NEW o \in Ops, Call(t, o) PROVE AliveInv'
  BY <1>1 DEF Call
<1>2. ASSUME NEW t \in Tasks, TaskStep(t) PROVE AliveInv'
  <2>1. CASE StartRefused(t) \/ StartInvalid(t)
    BY <2>1 DEF StartRefused, StartInvalid, Enter, Leave, LeaveFor
  <2>2. CASE StartBegins(t)
    BY <2>2 DEF StartBegins, Enter, Hold
  <2>3. CASE Forked(t)
    BY <2>3 DEF Forked
  <2>4. CASE LaunchFails(t)
    BY <2>4 DEF LaunchFails, Leave, LeaveFor
  <2>5. CASE Launched(t)
    BY <2>5 DEF Launched, Leave, LeaveFor
  <2>6. CASE Aborted(t)
    BY <2>6 DEF Aborted, Leave, LeaveFor
  <2>7. CASE StopGone(t) \/ StopAsks(t)
    BY <2>7 DEF StopGone, StopAsks, Enter, Hold
  <2>8. CASE StopObeyed(t) \/ GraceExpires(t)
    BY <2>8 DEF StopObeyed, GraceExpires
  <2>9. CASE Drained(t)
    BY <2>9 DEF Drained, LeaveFor, Settled
  <2> QED
    BY <1>2, <2>1, <2>2, <2>3, <2>4, <2>5, <2>6, <2>7, <2>8, <2>9 DEF TaskStep
<1>3. ASSUME NEW t \in Tasks, Cancel(t) PROVE AliveInv'
  BY <1>3 DEF Cancel, CancelWaiting, CancelStart, CancelStop, Leave, LeaveFor
<1>4. ASSUME NEW r \in Runs, Exit(r) PROVE AliveInv'
  BY <1>4 DEF Exit
<1>5. ASSUME NEW r \in Runs, PumpStep(r) PROVE AliveInv'
  BY <1>5 DEF PumpStep, PumpOpens, PumpLine, PumpEnds, Reap
<1>6. CASE UNCHANGED vars
  BY <1>6 DEF vars
<1> QED
  BY <1>1, <1>2, <1>3, <1>4, <1>5, <1>6 DEF Next

LEMMA NextIInv == IInv /\ [Next]_vars => IInv'
  BY TypeStep, LockStep, OwnerStep, AliveStep DEF IInv

LEMMA AlwaysIInv == Spec => []IInv
  BY InitIInv, NextIInv, PTL DEF Spec

-----------------------------------------------------------------------------
\* Two servers of one instance never run at once.
THEOREM OneServerHolds == Spec => []OneServer
<1>1. IInv => OneServer
  BY NoneAssumption DEF IInv, LockInv, OwnerInv, AliveInv, OneServer, Alive, Critical, Launching
<1> QED
  BY <1>1, AlwaysIInv, PTL

\* An instance that reads "stopped" or "crashed" has no process.
THEOREM InactiveMeansGoneHolds == Spec => []InactiveMeansGone
<1>1. IInv => InactiveMeansGone
  BY NoneAssumption DEF IInv, LockInv, OwnerInv, AliveInv, InactiveMeansGone, Alive, Active,
     Critical, Launching
<1> QED
  BY <1>1, AlwaysIInv, PTL

\* The outcome on the page is the outcome of the run on the page.
THEOREM OutcomeConsistentHolds == Spec => []OutcomeConsistent
<1>1. Init => OutcomeConsistent
  BY DEF Init, OutcomeConsistent, Active
<1>2. IInv /\ IInv' /\ OutcomeConsistent /\ [Next]_vars => OutcomeConsistent'
  <2> SUFFICES ASSUME IInv, IInv', OutcomeConsistent, [Next]_vars PROVE OutcomeConsistent'
    OBVIOUS
  <2> USE NoneAssumption DEF IInv, TypeOK, OwnerInv, OutcomeConsistent, objVars, taskVars,
          Active, Exited
  <2>1. ASSUME NEW t \in Tasks, NEW o \in Ops, Call(t, o) PROVE OutcomeConsistent'
    BY <2>1 DEF Call
  <2>2. ASSUME NEW t \in Tasks, TaskStep(t) PROVE OutcomeConsistent'
    <3>1. CASE StartRefused(t) \/ StartInvalid(t) \/ StartBegins(t)
      BY <3>1 DEF StartRefused, StartInvalid, StartBegins, Enter
    <3>2. CASE Forked(t)
      BY <3>2 DEF Forked, Launching
    <3>3. CASE LaunchFails(t) \/ Launched(t) \/ Aborted(t)
      BY <3>3 DEF LaunchFails, Launched, Aborted, Launching
    <3>4. CASE StopGone(t) \/ StopAsks(t) \/ StopObeyed(t) \/ GraceExpires(t)
      BY <3>4 DEF StopGone, StopAsks, StopObeyed, GraceExpires, Enter, Gone
    <3>5. CASE Drained(t)
      BY <3>5 DEF Drained
    <3> QED BY <2>2, <3>1, <3>2, <3>3, <3>4, <3>5 DEF TaskStep
  <2>3. ASSUME NEW t \in Tasks, Cancel(t) PROVE OutcomeConsistent'
    BY <2>3 DEF Cancel, CancelWaiting, CancelStart, CancelStop
  <2>4. ASSUME NEW r \in Runs, Exit(r) PROVE OutcomeConsistent'
    BY <2>4 DEF Exit
  <2>5. ASSUME NEW r \in Runs, PumpStep(r) PROVE OutcomeConsistent'
    BY <2>5 DEF PumpStep, PumpOpens, PumpLine, PumpEnds, Reap
  <2>6. CASE UNCHANGED vars
    BY <2>6 DEF vars
  <2> QED
    BY <2>1, <2>2, <2>3, <2>4, <2>5, <2>6 DEF Next
<1> QED
  BY <1>1, <1>2, AlwaysIInv, PTL DEF Spec

\* The supervisor never lets go of a server that still runs.
THEOREM NeverForgottenHolds == Spec => NeverForgotten
<1>1. IInv /\ [Next]_vars => [\A r \in Runs : process = r /\ proc'[r] = "alive" => process' = r]_vars
  <2> SUFFICES ASSUME IInv, [Next]_vars, NEW r \in Runs, process = r, proc'[r] = "alive"
               PROVE process' = r
    OBVIOUS
  <2> USE NoneAssumption DEF IInv, TypeOK, LockInv, OwnerInv, objVars, taskVars, Active, Critical,
          Exited
  <2>1. ASSUME NEW t \in Tasks, NEW o \in Ops, Call(t, o) PROVE process' = r
    BY <2>1 DEF Call
  <2>2. ASSUME NEW t \in Tasks, TaskStep(t) PROVE process' = r
    BY <2>2 DEF TaskStep, StartRefused, StartInvalid, StartBegins, Forked, LaunchFails, Launched,
       Aborted, StopGone, StopAsks, StopObeyed, GraceExpires, Drained, Settled, Gone, Launching
  <2>3. ASSUME NEW t \in Tasks, Cancel(t) PROVE process' = r
    BY <2>3 DEF Cancel, CancelWaiting, CancelStart, CancelStop
  <2>4. ASSUME NEW s \in Runs, Exit(s) PROVE process' = r
    BY <2>4 DEF Exit
  <2>5. ASSUME NEW s \in Runs, PumpStep(s) PROVE process' = r
    BY <2>5 DEF PumpStep, PumpOpens, PumpLine, PumpEnds, Reap
  <2>6. CASE UNCHANGED vars
    BY <2>6 DEF vars
  <2> QED
    BY <2>1, <2>2, <2>3, <2>4, <2>5, <2>6 DEF Next
<1> QED
  BY <1>1, AlwaysIInv, PTL DEF Spec, NeverForgotten

-----------------------------------------------------------------------------
\* On a host whose processes die of SIGKILL, a stop that was not cancelled only
\* drains what is gone.
GoneInv == "unkillable" \notin faults => \A t \in Tasks : pc[t] \in {"drain_idle", "drain_stop"} => Gone

\* On such a host a stop that returns leaves the instance inactive.
THEOREM StopIsFinalHolds == Spec => StopIsFinal
<1>1. Init => GoneInv
  BY DEF Init, GoneInv
<1>2. IInv /\ GoneInv /\ [Next]_vars => GoneInv'
  <2> SUFFICES ASSUME IInv, GoneInv, [Next]_vars PROVE GoneInv'
    OBVIOUS
  <2>0. faults' = faults
    BY DEF Next, vars
  <2> USE <2>0, NoneAssumption DEF IInv, TypeOK, LockInv, OwnerInv, GoneInv, objVars, taskVars, Active,
          Critical, Waiting, Draining, Launching, Gone, Exited
  <2>1. ASSUME NEW t \in Tasks, NEW o \in Ops, Call(t, o) PROVE GoneInv'
    BY <2>1 DEF Call
  <2>2. ASSUME NEW t \in Tasks, TaskStep(t) PROVE GoneInv'
    <3>1. CASE StartRefused(t) \/ StartInvalid(t) \/ StartBegins(t)
      BY <3>1 DEF StartRefused, StartInvalid, StartBegins, Enter, Leave, LeaveFor, Hold
    <3>2. CASE Forked(t)
      BY <3>2 DEF Forked
    <3>3. CASE LaunchFails(t) \/ Launched(t) \/ Aborted(t)
      BY <3>3 DEF LaunchFails, Launched, Aborted, Leave, LeaveFor
    <3>4. CASE StopGone(t) \/ StopAsks(t)
      BY <3>4 DEF StopGone, StopAsks, Enter, Hold
    <3>5. CASE StopObeyed(t) \/ GraceExpires(t)
      BY <3>5 DEF StopObeyed, GraceExpires
    <3>6. CASE Drained(t)
      BY <3>6 DEF Drained, LeaveFor, Settled
    <3> QED BY <2>2, <3>1, <3>2, <3>3, <3>4, <3>5, <3>6 DEF TaskStep
  <2>3. ASSUME NEW t \in Tasks, Cancel(t) PROVE GoneInv'
    BY <2>3 DEF Cancel, CancelWaiting, CancelStart, CancelStop, Leave, LeaveFor
  <2>4. ASSUME NEW r \in Runs, Exit(r) \/ PumpStep(r) PROVE GoneInv'
    BY <2>4 DEF Exit, PumpStep, PumpOpens, PumpLine, PumpEnds, Reap
  <2>5. CASE UNCHANGED vars
    BY <2>5 DEF vars
  <2> QED
    BY <2>1, <2>2, <2>3, <2>4, <2>5 DEF Next
<1>3. GoneInv /\ [Next]_vars =>
        [\A t \in Tasks : "unkillable" \notin faults /\ pc[t] # "drain_raise" /\ Drained(t) => status' \notin Active]_vars
  BY DEF GoneInv, Drained, Draining, Settled, Gone, Active
<1> QED
  BY <1>1, <1>2, <1>3, AlwaysIInv, PTL DEF Spec, StopIsFinal

\* Where nobody holds the stdout of a dead server, a pump that still reads is
\* the pump of the current run.
ReaderInv ==
  "stdout_held" \notin faults => \A r \in Runs : reader[r] \in {"new", "reading"} => process = r /\ pump = r

\* On such a host no line of an earlier run reaches the hooks.
THEOREM NoForeignLinesHolds == Spec => NoForeignLines
<1>1. Init => ReaderInv
  BY DEF Init, ReaderInv
<1>2. IInv /\ ReaderInv /\ [Next]_vars => ReaderInv'
  <2> SUFFICES ASSUME IInv, ReaderInv, [Next]_vars PROVE ReaderInv'
    OBVIOUS
  <2>0. faults' = faults
    BY DEF Next, vars
  <2> USE <2>0, NoneAssumption DEF IInv, TypeOK, OwnerInv, ReaderInv, objVars, taskVars
  <2>1. ASSUME NEW t \in Tasks, NEW o \in Ops, Call(t, o) PROVE ReaderInv'
    BY <2>1 DEF Call
  <2>2. ASSUME NEW t \in Tasks, TaskStep(t) PROVE ReaderInv'
    <3>1. CASE StartRefused(t) \/ StartInvalid(t) \/ StartBegins(t) \/ Forked(t)
      BY <3>1 DEF StartRefused, StartInvalid, StartBegins, Forked
    <3>2. CASE LaunchFails(t) \/ Aborted(t)
      BY <3>2 DEF LaunchFails, Aborted
    <3>3. CASE Launched(t)
      BY <3>3 DEF Launched, Launching
    <3>4. CASE StopGone(t) \/ StopAsks(t) \/ StopObeyed(t) \/ GraceExpires(t)
      BY <3>4 DEF StopGone, StopAsks, StopObeyed, GraceExpires
    <3>5. CASE Drained(t)
      BY <3>5 DEF Drained, Settled, PumpDone
    <3> QED BY <2>2, <3>1, <3>2, <3>3, <3>4, <3>5 DEF TaskStep
  <2>3. ASSUME NEW t \in Tasks, Cancel(t) PROVE ReaderInv'
    BY <2>3 DEF Cancel, CancelWaiting, CancelStart, CancelStop
  <2>4. ASSUME NEW r \in Runs, Exit(r) \/ PumpStep(r) PROVE ReaderInv'
    BY <2>4 DEF Exit, PumpStep, PumpOpens, PumpLine, PumpEnds, Reap
  <2>5. CASE UNCHANGED vars
    BY <2>5 DEF vars
  <2> QED
    BY <2>1, <2>2, <2>3, <2>4, <2>5 DEF Next
<1>3. ReaderInv /\ [Next]_vars => [\A r \in Runs : "stdout_held" \notin faults /\ PumpLine(r) => process = r]_vars
  BY DEF ReaderInv, PumpLine
<1> QED
  BY <1>1, <1>2, <1>3, AlwaysIInv, PTL DEF Spec, NoForeignLines

-----------------------------------------------------------------------------
\* Every step of Supervisor is a step of the abstract lifecycle, or leaves the
\* status and the existence of a process as they are.
THEOREM Refinement == Spec => ImplementsLifecycle
<1> USE DEF Lifecycle!LifecycleNext, Lifecycle!lifecycleVars, Lifecycle!Active
<1>1. Init => Lifecycle!LifecycleInit
  BY DEF Init, Lifecycle!LifecycleInit, Alive
<1>2. IInv /\ IInv' /\ [Next]_vars => [Lifecycle!LifecycleNext]_Lifecycle!lifecycleVars
  <2> SUFFICES ASSUME IInv, IInv', [Next]_vars
               PROVE  [Lifecycle!LifecycleNext]_Lifecycle!lifecycleVars
    OBVIOUS
  <2>1. ASSUME NEW t \in Tasks, NEW o \in Ops, Call(t, o)
        PROVE  UNCHANGED Lifecycle!lifecycleVars
    BY <2>1 DEF Call, objVars, Alive
  <2>2. ASSUME NEW t \in Tasks, TaskStep(t)
        PROVE  [Lifecycle!LifecycleNext]_Lifecycle!lifecycleVars
    <3>1. CASE StartRefused(t) \/ StartInvalid(t) \/ Aborted(t) \/ StopGone(t) \/ StopObeyed(t) \/ GraceExpires(t)
      BY <3>1 DEF StartRefused, StartInvalid, Aborted, StopGone, StopObeyed, GraceExpires, objVars, Alive
    <3>2. CASE StartBegins(t)
      BY <3>2 DEF StartBegins, Lifecycle!Accept, Active, Alive
    <3>3. CASE Forked(t)
      <4>1. Alive = {} /\ status = "starting"
        BY <3>3, NoneAssumption DEF Forked, IInv, LockInv, OwnerInv, AliveInv, Alive, Critical, Launching
      <4>2. Alive' # {}
        BY <3>3 DEF Forked, Alive, IInv, TypeOK
      <4> QED BY <3>3, <4>1, <4>2 DEF Forked, objVars, Lifecycle!Spawn
    <3>4. CASE LaunchFails(t)
      <4>1. Alive = {}
        BY <3>4, NoneAssumption DEF LaunchFails, IInv, LockInv, OwnerInv, AliveInv, Alive, Critical, Launching
      <4> QED BY <3>4, <4>1 DEF LaunchFails, Lifecycle!Settle, Alive
    <3>5. CASE Launched(t)
      BY <3>5 DEF Launched, IInv, OwnerInv, Launching, Lifecycle!Up, Alive
    <3>6. CASE StopAsks(t)
      BY <3>6 DEF StopAsks, Gone, IInv, OwnerInv, Lifecycle!AskStop, Alive
    <3>7. CASE Drained(t)
      <4>1. CASE status' = status
        BY <3>7, <4>1 DEF Drained, Alive
      <4>2. CASE status' # status
        <5>1. Alive = {}
          BY <3>7, <4>2, NoneAssumption DEF Drained, Settled, Gone, IInv, TypeOK, LockInv, OwnerInv, AliveInv,
             Alive, Exited, Critical, Launching, Draining
        <5>2. status' = "stopped"
          BY <3>7, <4>2 DEF Drained
        <5> QED BY <3>7, <5>1, <5>2 DEF Drained, Alive, Lifecycle!Settle
      <4> QED BY <4>1, <4>2
    <3> QED BY <2>2, <3>1, <3>2, <3>3, <3>4, <3>5, <3>6, <3>7 DEF TaskStep
  <2>3. ASSUME NEW t \in Tasks, Cancel(t) PROVE UNCHANGED Lifecycle!lifecycleVars
    BY <2>3 DEF Cancel, CancelWaiting, CancelStart, CancelStop, objVars, Alive
  <2>4. ASSUME NEW r \in Runs, Exit(r)
        PROVE  [Lifecycle!LifecycleNext]_Lifecycle!lifecycleVars
    BY <2>4 DEF Exit, objVars, Alive, Lifecycle!Die
  <2>5. ASSUME NEW r \in Runs, PumpStep(r)
        PROVE  [Lifecycle!LifecycleNext]_Lifecycle!lifecycleVars
    <3>1. CASE PumpOpens(r) \/ PumpLine(r) \/ PumpEnds(r)
      BY <3>1 DEF PumpOpens, PumpLine, PumpEnds, objVars, Alive
    <3>2. CASE Reap(r)
      <4>1. CASE process # r
        BY <3>2, <4>1 DEF Reap, Alive
      <4>2. CASE process = r
        <5>1. Alive = {}
          BY <3>2, <4>2, NoneAssumption DEF Reap, IInv, LockInv, OwnerInv, AliveInv, Alive, Exited,
             Critical, Launching
        <5>2. Alive' = {}
          BY <3>2, <5>1 DEF Reap, Alive
        <5> QED BY <3>2, <4>2, <5>1, <5>2 DEF Reap, Lifecycle!Settle
      <4> QED BY <4>1, <4>2
    <3> QED BY <2>5, <3>1, <3>2 DEF PumpStep
  <2>6. CASE UNCHANGED vars
    BY <2>6 DEF vars, objVars, Alive
  <2> QED
    BY <2>1, <2>2, <2>3, <2>4, <2>5, <2>6 DEF Next
<1> QED
  BY <1>1, <1>2, AlwaysIInv, PTL DEF Spec, ImplementsLifecycle, Lifecycle!LifecycleSpec

=============================================================================
