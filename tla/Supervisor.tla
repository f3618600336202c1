----------------------------- MODULE Supervisor -----------------------------
(***************************************************************************)
(* vhsm/supervisor.py: the life of one dedicated-server process.           *)
(*                                                                         *)
(* Several asyncio tasks (an operation started from the UI or Discord, the *)
(* update job, a delete, the shutdown) call start, stop and restart on the *)
(* same Supervisor; the calls take turns through Supervisor._lock.  Every  *)
(* launch is a run; a run has an operating-system process and a log pump,  *)
(* the task that reads its output and reaps it.  A pump belongs to its run *)
(* and may outlive it.                                                     *)
(*                                                                         *)
(* A step is the code between two awaits: the event loop runs it           *)
(* atomically.  The lock hands over to any waiter (asyncio.Lock is FIFO;   *)
(* the model allows every order).  Timeouts are actions that may fire;     *)
(* faults names the conditions of the host under which the ones that are   *)
(* "only reached if ..." really are reached.                               *)
(***************************************************************************)
EXTENDS FiniteSets

CONSTANTS
  Tasks,    \* the asyncio tasks that call this supervisor
  Runs,     \* the launches of the bounded history: one process and pump each
  NoRun,    \* stands for None in _process, _pump, exit_code, ...
  NoTask,   \* the lock is free
  Faults    \* what may be wrong with a host, see below

(***************************************************************************)
(* stdout_held: a child of the server inherited its stdout and keeps it    *)
(*              open, so end of file does not follow the exit;             *)
(* unkillable:  the process does not go away on SIGKILL within 10 seconds; *)
(* logdir:      the directory of the transcript cannot be created.         *)
(***************************************************************************)
ASSUME FaultsAssumption == Faults \subseteq {"stdout_held", "unkillable", "logdir"}
ASSUME NoneAssumption == NoRun \notin Runs /\ NoTask \notin Tasks

VARIABLES
  status,           \* Supervisor.status
  process,          \* Supervisor._process (pid is None exactly when it is)
  pump,             \* Supervisor._pump: the run whose pump was created last
  exit_code,        \* the run whose exit Supervisor.exit_code describes
  last_error,       \* Supervisor.last_error: "none", "launch" or "exit"
  server_version,   \* the run whose console last named its version
  holder,           \* the task that holds Supervisor._lock
  pc,               \* where each task is suspended
  op,               \* the call it still has to make
  handle,           \* the lock holder's local variable `process'
  proc,             \* the process of each run, as its returncode tells it
  reader,           \* the log pump of each run
  faults            \* what is wrong with this host, all along

objVars == <<status, process, pump, exit_code, last_error, server_version>>
taskVars == <<holder, pc, op, handle>>
vars == <<objVars, taskVars, proc, reader, faults>>

\* Faulty variant: a stopping instance counts as inactive.
ActiveUntilStopping == {"starting", "running"}
Active == {"starting", "running", "stopping"}
Status == Active \cup {"stopped", "crashed"}
Ops == {"start", "stop", "restart"}

Waiting == {"int", "term", "kill"}                       \* in process.wait()
Draining == {"drain_idle", "drain_stop", "drain_raise"}  \* in _drain()
Launching == {"spawning", "spawned", "aborting"}         \* in create_subprocess_exec
Critical == Waiting \cup Draining \cup Launching         \* inside `async with self._lock'

Exited(r) == r # NoRun /\ proc[r] \in {"clean", "failed"}
Alive == {r \in Runs : proc[r] = "alive"}
Gone == process = NoRun \/ Exited(process)    \* _process is None or has a returncode

\* Faulty variant: nobody waits for the pump of the previous run.
NoDrain == TRUE
PumpDone == pump # NoRun => reader[pump] = "done"

TypeOK ==
  /\ status \in Status
  /\ process \in Runs \cup {NoRun}
  /\ pump \in Runs \cup {NoRun}
  /\ exit_code \in Runs \cup {NoRun}
  /\ last_error \in {"none", "launch", "exit"}
  /\ server_version \in Runs \cup {NoRun}
  /\ holder \in Tasks \cup {NoTask}
  /\ pc \in [Tasks -> {"idle", "want"} \cup Critical]
  /\ op \in [Tasks -> Ops \cup {"none"}]
  /\ handle \in Runs \cup {NoRun}
  /\ proc \in [Runs -> {"none", "alive", "clean", "failed"}]
  /\ reader \in [Runs -> {"none", "new", "reading", "reaping", "done"}]
  /\ faults \subseteq Faults

Init ==
  /\ status = "stopped"
  /\ process = NoRun
  /\ pump = NoRun
  /\ exit_code = NoRun
  /\ last_error = "none"
  /\ server_version = NoRun
  /\ holder = NoTask
  /\ pc = [t \in Tasks |-> "idle"]
  /\ op = [t \in Tasks |-> "none"]
  /\ handle = NoRun
  /\ proc = [r \in Runs |-> "none"]
  /\ reader = [r \in Runs |-> "none"]
  /\ faults \in SUBSET Faults

-----------------------------------------------------------------------------
(***************************************************************************)
(* Calls and the lock                                                      *)
(***************************************************************************)

Call(t, o) ==
  /\ pc[t] = "idle"
  /\ pc' = [pc EXCEPT ![t] = "want"]
  /\ op' = [op EXCEPT ![t] = o]
  /\ UNCHANGED <<objVars, holder, handle, proc, reader>>

\* Taking the lock, and being the task that now runs the locked section.
Enter(t) ==
  /\ pc[t] = "want"
  /\ holder = NoTask

\* Leaving `async with self._lock', and with it the call: the task goes on to
\* the call that is left, if any.
LeaveFor(t, rest) ==
  /\ holder' = NoTask
  /\ handle' = NoRun
  /\ pc' = [pc EXCEPT ![t] = IF rest = "none" THEN "idle" ELSE "want"]
  /\ op' = [op EXCEPT ![t] = rest]

Leave(t) == LeaveFor(t, "none")

\* Being suspended inside the locked section.
Hold(t, label) ==
  /\ holder' = t
  /\ pc' = [pc EXCEPT ![t] = label]

-----------------------------------------------------------------------------
(***************************************************************************)
(* start()                                                                 *)
(***************************************************************************)

\* start() raises before it has changed anything: the instance is active, or
\* else the binary is missing, the directories or the configuration are bad.
StartRefused(t) ==
  /\ Enter(t)
  /\ op[t] = "start"
  /\ status \in Active
  /\ Leave(t)
  /\ UNCHANGED <<objVars, proc, reader>>

StartInvalid(t) ==
  /\ Enter(t)
  /\ op[t] = "start"
  /\ status \notin Active
  /\ Leave(t)
  /\ UNCHANGED <<objVars, proc, reader>>

StartBegins(t) ==
  /\ Enter(t)
  /\ op[t] = "start"
  /\ status \notin Active
  /\ status' = "starting"
  /\ exit_code' = NoRun
  /\ last_error' = "none"
  /\ Hold(t, "spawning")
  /\ UNCHANGED <<process, pump, server_version, op, handle, proc, reader>>

\* create_subprocess_exec forked: the server runs, the await is not over.
Forked(t) ==
  /\ pc[t] = "spawning"
  /\ \E r \in Runs :
       /\ proc[r] = "none"
       /\ proc' = [proc EXCEPT ![r] = "alive"]
       /\ handle' = r
  /\ pc' = [pc EXCEPT ![t] = "spawned"]
  /\ UNCHANGED <<objVars, holder, op, reader>>

LaunchFails(t) ==
  /\ pc[t] = "spawning"
  /\ status' = "crashed"
  /\ last_error' = "launch"
  /\ Leave(t)
  /\ UNCHANGED <<process, pump, exit_code, server_version, proc, reader>>

Launched(t) ==
  /\ pc[t] = "spawned"
  /\ process' = handle
  /\ status' = "running"
  /\ pump' = handle
  /\ reader' = [reader EXCEPT ![handle] = "new"]
  /\ Leave(t)
  /\ UNCHANGED <<exit_code, last_error, server_version, proc>>

\* A cancelled create_subprocess_exec kills what it forked and waits for it
\* before it lets the cancellation out.
Aborted(t) ==
  /\ pc[t] = "aborting"
  /\ Exited(handle)
  /\ Leave(t)
  /\ UNCHANGED <<objVars, proc, reader>>

-----------------------------------------------------------------------------
(***************************************************************************)
(* stop() and the stop half of restart()                                   *)
(***************************************************************************)

StopGone(t) ==
  /\ Enter(t)
  /\ op[t] \in {"stop", "restart"}
  /\ Gone
  /\ Hold(t, "drain_idle")
  /\ UNCHANGED <<objVars, op, handle, proc, reader>>

StopAsks(t) ==
  /\ Enter(t)
  /\ op[t] \in {"stop", "restart"}
  /\ ~Gone
  /\ status' = "stopping"
  /\ handle' = process
  /\ Hold(t, "int")
  /\ UNCHANGED <<process, pump, exit_code, last_error, server_version, op, proc, reader>>

\* process.wait() returned within a grace period.
StopObeyed(t) ==
  /\ pc[t] \in Waiting
  /\ Exited(handle)
  /\ pc' = [pc EXCEPT ![t] = "drain_stop"]
  /\ UNCHANGED <<objVars, holder, op, handle, proc, reader>>

\* Faulty variant: the wait that follows SIGTERM has no timeout.
GraceEndsAtTerm(t) ==
  /\ pc[t] = "int"
  /\ pc' = [pc EXCEPT ![t] = "term"]
  /\ UNCHANGED <<objVars, holder, op, handle, proc, reader>>

\* A grace period ran out: SIGINT, then SIGTERM, then SIGKILL, then give up.
GraceExpires(t) ==
  /\ pc[t] = "kill" => "unkillable" \in faults
  /\ \/ pc[t] = "int" /\ pc' = [pc EXCEPT ![t] = "term"]
     \/ pc[t] = "term" /\ pc' = [pc EXCEPT ![t] = "kill"]
     \/ pc[t] = "kill" /\ pc' = [pc EXCEPT ![t] = "drain_stop"]
  /\ UNCHANGED <<objVars, holder, op, handle, proc, reader>>

\* Faulty variants: settling without asking whether the process is gone; and a
\* stop that returns as soon as the process exited, without draining.
SettledRegardless == status \in Active

DrainSkipped(t) ==
  /\ pc[t] \in Draining
  /\ status' = IF pc[t] = "drain_idle" THEN "stopped" ELSE status
  /\ LeaveFor(t, IF pc[t] # "drain_raise" /\ op[t] = "restart" THEN "start" ELSE "none")
  /\ UNCHANGED <<process, pump, exit_code, last_error, server_version, proc, reader>>

\* The last lines of _drain: settle what no pump is going to settle.
Settled == status \in Active /\ Gone

\* _drain is over (the pump finished, or PUMP_DRAIN ran out) and with it the
\* call of stop: it returns, re-raises a cancellation, or goes on to start().
Drained(t) ==
  /\ pc[t] \in Draining
  /\ PumpDone \/ "stdout_held" \in faults \/ ~Gone
  /\ status' = IF pc[t] = "drain_idle" \/ Settled THEN "stopped" ELSE status
  /\ process' = IF Settled THEN NoRun ELSE process
  /\ LeaveFor(t, IF pc[t] # "drain_raise" /\ op[t] = "restart" THEN "start" ELSE "none")
  /\ UNCHANGED <<pump, exit_code, last_error, server_version, proc, reader>>

-----------------------------------------------------------------------------
(***************************************************************************)
(* Cancellation: Manager._cancel_operation cancels the task of a pending   *)
(* start, stop or restart wherever it is suspended.                        *)
(***************************************************************************)

CancelWaiting(t) ==
  /\ pc[t] = "want"
  /\ pc' = [pc EXCEPT ![t] = "idle"]
  /\ op' = [op EXCEPT ![t] = "none"]
  /\ UNCHANGED <<objVars, holder, handle, proc, reader>>

\* The status is left at "starting": no except clause catches a cancellation.
CancelStart(t) ==
  /\ \/ pc[t] = "spawning" /\ Leave(t)
     \/ /\ pc[t] = "spawned"
        /\ pc' = [pc EXCEPT ![t] = "aborting"]
        /\ UNCHANGED <<holder, op, handle>>
  /\ UNCHANGED <<objVars, proc, reader>>

\* stop() still drains on its way out (finally), but a drain that is itself
\* cancelled settles nothing.
CancelStop(t) ==
  /\ \/ /\ pc[t] \in Waiting
        /\ pc' = [pc EXCEPT ![t] = "drain_raise"]
        /\ UNCHANGED <<holder, op, handle>>
     \/ pc[t] \in Draining /\ Leave(t)
  /\ UNCHANGED <<objVars, proc, reader>>

-----------------------------------------------------------------------------
(***************************************************************************)
(* The process and its log pump                                            *)
(***************************************************************************)

\* The server ends, asked to or not, with return code 0 or another.
Exit(r) ==
  /\ proc[r] = "alive"
  /\ \E how \in {"clean", "failed"} : proc' = [proc EXCEPT ![r] = how]
  /\ UNCHANGED <<objVars, taskVars, reader>>

\* The pump task runs for the first time.  A mkdir that fails is outside the
\* try: the pump ends there and nobody reaps.
PumpOpens(r) ==
  /\ reader[r] = "new"
  /\ \/ reader' = [reader EXCEPT ![r] = "reading"]
     \/ "logdir" \in faults /\ reader' = [reader EXCEPT ![r] = "done"]
  /\ UNCHANGED <<objVars, taskVars, proc>>

\* A console line: it feeds the version and every hook, kept or throttled.
PumpLine(r) ==
  /\ reader[r] = "reading"
  /\ server_version' = r
  /\ UNCHANGED <<status, process, pump, exit_code, last_error, taskVars, proc, reader>>

\* End of file after the exit, or an error while reading or writing the log.
PumpEnds(r) ==
  /\ reader[r] = "reading"
  /\ reader' = [reader EXCEPT ![r] = "reaping"]
  /\ UNCHANGED <<objVars, taskVars, proc>>

\* Faulty variant: the handle is kept after the exit.
ReapKeepsHandle(r) ==
  /\ reader[r] = "reaping"
  /\ Exited(r)
  /\ reader' = [reader EXCEPT ![r] = "done"]
  /\ status' = IF process = r THEN "crashed" ELSE status
  /\ UNCHANGED <<process, pump, exit_code, last_error, server_version, taskVars, proc>>

Reap(r) ==
  /\ reader[r] = "reaping"
  /\ Exited(r)
  /\ reader' = [reader EXCEPT ![r] = "done"]
  /\ IF process # r
       THEN UNCHANGED <<status, process, exit_code, last_error>>
       ELSE LET orderly == status = "stopping" \/ proc[r] = "clean"
            IN /\ exit_code' = r
               /\ status' = IF orderly THEN "stopped" ELSE "crashed"
               /\ last_error' = IF orderly THEN last_error ELSE "exit"
               /\ process' = NoRun
  /\ UNCHANGED <<pump, server_version, taskVars, proc>>

-----------------------------------------------------------------------------
TaskStep(t) ==
  \/ StartRefused(t) \/ StartInvalid(t) \/ StartBegins(t) \/ Forked(t) \/ LaunchFails(t)
  \/ Launched(t) \/ Aborted(t)
  \/ StopGone(t) \/ StopAsks(t) \/ StopObeyed(t) \/ GraceExpires(t) \/ Drained(t)

Cancel(t) == CancelWaiting(t) \/ CancelStart(t) \/ CancelStop(t)

PumpStep(r) == PumpOpens(r) \/ PumpLine(r) \/ PumpEnds(r) \/ Reap(r)

Next ==
  /\ UNCHANGED faults
  /\ \/ \E t \in Tasks : TaskStep(t) \/ Cancel(t) \/ \E o \in Ops : Call(t, o)
     \/ \E r \in Runs : Exit(r) \/ PumpStep(r)

Spec == Init /\ [][Next]_vars

-----------------------------------------------------------------------------
(***************************************************************************)
(* Fairness: what the event loop, the lock and the host grant.             *)
(*  - a task that can run is run; asyncio.Lock is FIFO, so a task that     *)
(*    waits for it gets it (strong fairness, other tasks may come first);  *)
(*  - SIGKILL ends a process unless the host is "unkillable";              *)
(*  - a dead server's output ends unless its stdout is held.               *)
(* A server is never obliged to exit by itself, nor a call to be made or   *)
(* cancelled.                                                              *)
(***************************************************************************)
Admitted(t) ==
  StartRefused(t) \/ StartInvalid(t) \/ StartBegins(t) \/ StopGone(t) \/ StopAsks(t)

Proceed(t) ==
  \/ Forked(t) \/ LaunchFails(t) \/ Launched(t) \/ Aborted(t)
  \/ StopObeyed(t) \/ GraceExpires(t) \/ Drained(t)

Killed(r) == \E t \in Tasks : pc[t] \in {"kill", "aborting"} /\ handle = r /\ Exit(r)

EndOfFile(r) == Exited(r) /\ PumpEnds(r)

Stays(A) == A /\ UNCHANGED faults

Fairness ==
  /\ \A t \in Tasks : SF_vars(Stays(Admitted(t))) /\ WF_vars(Stays(Proceed(t)))
  /\ \A r \in Runs :
       /\ WF_vars(Stays(PumpOpens(r))) /\ WF_vars(Stays(Reap(r)))
       /\ WF_vars(Stays("unkillable" \notin faults /\ Killed(r)))
       /\ WF_vars(Stays("stdout_held" \notin faults /\ EndOfFile(r)))

FairSpec == Spec /\ Fairness

-----------------------------------------------------------------------------
(***************************************************************************)
(* Properties                                                              *)
(***************************************************************************)

\* However starts, stops, restarts, crashes and cancellations interleave, two
\* servers of one instance never run at once (they would share a world, a
\* port and a save directory).
OneServer == \A r, s \in Alive : r = s

\* "stopped" and "crashed" are believed by everything that then touches the
\* instance's files: no process is behind them.
InactiveMeansGone == status \notin Active => Alive = {}

\* What the page says of the last exit fits the status: a crash is explained
\* by a failed launch or by a run that really failed, and a run in progress
\* shows neither the exit code nor the error of an earlier one.
OutcomeConsistent ==
  /\ status = "crashed" =>
       \/ last_error = "launch" /\ exit_code = NoRun
       \/ last_error = "exit" /\ exit_code # NoRun /\ proc[exit_code] = "failed"
  /\ status \in Active => exit_code = NoRun /\ last_error = "none"

\* The supervisor never lets go of the handle of a server that still runs: it
\* could neither signal nor reap it any more.
NeverForgotten ==
  [][\A r \in Runs : process = r /\ proc'[r] = "alive" => process' = r]_vars

\* stop() "returns only once the status is final": when its drain is over, the
\* instance is no longer active, so the start of a restart is accepted.  True
\* where processes die of SIGKILL: stop() gives up ten seconds after it, and
\* returns with the status still at stopping.
StopIsFinal ==
  [][\A t \in Tasks : "unkillable" \notin faults /\ pc[t] # "drain_raise" /\ Drained(t)
       => status' \notin Active]_vars

\* A line the hooks and the version banner are fed comes from the current run,
\* unless a child of a dead server holds its stdout past the drain.
NoForeignLines ==
  [][\A r \in Runs : "stdout_held" \notin faults /\ PumpLine(r) => process = r]_vars

\* Every start, stop and restart comes to an end, and with it the turn of
\* everyone who waits for the lock, whatever holds stdout or the log directory.
CallsReturn ==
  \A t \in Tasks : (pc[t] # "idle" /\ "unkillable" \notin faults) ~> pc[t] = "idle"

\* Where the pump can open its transcript and end of file follows the exit, a
\* server that is gone is noticed, whether or not anyone asks to stop it.
ExitNoticed ==
  \A r \in Runs :
    (process = r /\ Exited(r) /\ faults \cap {"stdout_held", "logdir"} = {}) ~> process # r

\* The supervisor keeps the promise of the abstract lifecycle.
Lifecycle == INSTANCE InstanceLifecycle WITH alive <- Alive # {}
ImplementsLifecycle == Lifecycle!LifecycleSpec

=============================================================================
