------------------------------- MODULE Updates -------------------------------
(***************************************************************************)
(* The server update over several instances (InstanceManager.run_update),  *)
(* and what may happen to it meanwhile: operations an operator submits, a  *)
(* deletion, and the manager shutting down (the end of lifespan in         *)
(* web/app.py, stop_background and shutdown_all).                          *)
(*                                                                         *)
(* One update runs at a time (JobLog).  It is a task of the web server's   *)
(* or a step of the scheduler's loop: the shutdown cancels the scheduler   *)
(* and waits for it, but nobody waits for a task of the web server's.      *)
(*                                                                         *)
(* Of a supervisor the model keeps its lock and its status; module         *)
(* Supervisor has the rest.  A step is the code between two awaits.        *)
(***************************************************************************)
EXTENDS FiniteSets

CONSTANTS
  Instances,
  NoInstance   \* the update is not at any instance

ASSUME NoInstanceAssumption == NoInstance \notin Instances

VARIABLES
  known,      \* InstanceManager._records
  server,     \* Supervisor.status: "down", "starting", "up" or "stopping"
  call,       \* how far each caller is in a supervisor's stop or start
  op,         \* InstanceRecord.operation: what it does, or "cancelled"
  job,        \* run_update, see Job
  manager,    \* how far the shutdown is, see Phases
  swallowed,  \* history: the scheduler missed that it was cancelled
  outlived,   \* history: the shutdown overtook an update of the web server's
  behind,     \* history: deleted while a start of theirs was still to come
  owed        \* history: taken down by the update and not started since

vars == <<known, server, call, op, job, manager, swallowed, outlived, behind, owed>>

Callers == {"op", "job", "delete", "shutdown"}

\* A caller waits for an operation to go, waits for the lock, or holds it.
Stages == {"none", "cancel", "stop", "start", "stopping", "starting"}

\* running (up; being deleted ...): accepts requests; background: waits for the
\* scheduler; cancelling, stopping: shutdown_all; gone: the event loop ended.
Phases == {"running", "background", "cancelling", "stopping", "gone"}

\* by: whose task the update is; step: take (the next instance of todo), await
\* (its operation to go), work (steamcmd), start (what is down, one by one).
Job == [by : {"web", "schedule"}, step : {"idle", "take", "await", "work", "start"},
        at : Instances \cup {NoInstance}, todo : SUBSET Instances, down : SUBSET Instances]

TypeOK ==
  /\ known \subseteq Instances
  /\ server \in [Instances -> {"down", "starting", "up", "stopping"}]
  /\ call \in [Instances -> [Callers -> Stages]]
  /\ op \in [Instances -> {"none", "starting", "stopping", "restarting", "cancelled"}]
  /\ job \in Job
  /\ manager \in Phases
  /\ {swallowed, outlived} \subseteq BOOLEAN
  /\ behind \subseteq Instances
  /\ owed \subseteq Instances

Init ==
  /\ known = Instances
  /\ server = [i \in Instances |-> "down"]
  /\ call = [i \in Instances |-> [a \in Callers |-> "none"]]
  /\ op = [i \in Instances |-> "none"]
  /\ job = [by |-> "web", step |-> "idle", at |-> NoInstance, todo |-> {}, down |-> {}]
  /\ manager = "running"
  /\ swallowed = FALSE /\ outlived = FALSE /\ behind = {} /\ owed = {}

-----------------------------------------------------------------------------
(***************************************************************************)
(* Supervisor.stop and Supervisor.start, as seen from here                 *)
(***************************************************************************)

Active(i) == server[i] # "down"
Locked(i) == \E a \in Callers : call[i][a] \in {"stopping", "starting"}
Free(i) == \A a \in Callers : call[i][a] = "none"
At(i, a, stage) == call' = [call EXCEPT ![i][a] = stage]

\* An operation that was cancelled takes no other step than its last.
Going(i, a) == a = "op" => op[i] # "cancelled"

\* A start has been admitted and waits for its turn: it will not look again
\* whether its instance is known.
Awaited(i) == \E a \in Callers : call[i][a] = "start"

\* A caller's stop is over.  A restart looks its instance up again.
Stopped(i, a) ==
  /\ At(i, a, IF a = "op" /\ op[i] = "restarting" /\ i \in known THEN "start" ELSE "none")
  /\ op' = IF a = "op" /\ (op[i] = "stopping" \/ i \notin known) THEN [op EXCEPT ![i] = "none"] ELSE op
  /\ job' = IF a = "job"
              THEN [job EXCEPT !.step = "take", !.at = NoInstance,
                               !.todo = @ \ {i}, !.down = @ \cup {i}]
              ELSE job
  /\ owed' = IF a = "job" THEN owed \cup {i} ELSE owed
  /\ known' = IF a = "delete" THEN known \ {i} ELSE known
  /\ behind' = IF a = "delete" /\ Awaited(i) THEN behind \cup {i} ELSE behind

Started(i, a) ==
  /\ At(i, a, "none")
  /\ op' = IF a = "op" THEN [op EXCEPT ![i] = "none"] ELSE op
  /\ job' = IF a = "job" THEN [job EXCEPT !.at = NoInstance, !.down = @ \ {i}] ELSE job
  /\ UNCHANGED <<known, behind>>

EnterStop(i, a) ==
  /\ call[i][a] = "stop" /\ Going(i, a)
  /\ ~Locked(i)
  /\ IF server[i] \in {"up", "stopping"}
       THEN /\ server' = [server EXCEPT ![i] = "stopping"]
            /\ At(i, a, "stopping")
            /\ UNCHANGED <<known, op, job, behind, owed>>
       ELSE /\ server' = [server EXCEPT ![i] = "down"]
            /\ Stopped(i, a)
  /\ UNCHANGED <<manager, swallowed, outlived>>

StopDone(i, a) ==
  /\ call[i][a] = "stopping" /\ Going(i, a)
  /\ server' = [server EXCEPT ![i] = "down"]
  /\ Stopped(i, a)
  /\ UNCHANGED <<manager, swallowed, outlived>>

\* With the lock: start() raises if the instance is active.
Entered(i, a) ==
  IF Active(i)
    THEN Started(i, a) /\ UNCHANGED <<server, owed>>
    ELSE /\ server' = [server EXCEPT ![i] = "starting"]
         /\ owed' = owed \ {i}
         /\ At(i, a, "starting")
         /\ UNCHANGED <<known, op, job, behind>>

EnterStart(i, a) ==
  /\ call[i][a] = "start" /\ Going(i, a)
  /\ ~Locked(i)
  /\ Entered(i, a)
  /\ UNCHANGED <<manager, swallowed, outlived>>

StartDone(i, a) ==
  /\ call[i][a] = "starting" /\ Going(i, a)
  /\ \E outcome \in {"up", "down"} : server' = [server EXCEPT ![i] = outcome]
  /\ Started(i, a)
  /\ UNCHANGED <<manager, swallowed, outlived, owed>>

\* A server exits: a crash, or late after a stop that was cancelled.
Exit(i) ==
  /\ server[i] \in {"up", "stopping"}
  /\ ~Locked(i)
  /\ server' = [server EXCEPT ![i] = "down"]
  /\ UNCHANGED <<known, call, op, job, manager, swallowed, outlived, behind, owed>>

-----------------------------------------------------------------------------
(***************************************************************************)
(* Operations of an operator, deletions                                    *)
(***************************************************************************)

\* submit(): the task that does the work is created, not run.
Submit(i) ==
  /\ manager = "running" /\ i \in known
  /\ op[i] = "none"
  /\ \/ ~Active(i) /\ At(i, "op", "start") /\ op' = [op EXCEPT ![i] = "starting"]
     \/ /\ At(i, "op", "stop")
        /\ \E what \in {"stopping", "restarting"} : op' = [op EXCEPT ![i] = what]
  /\ UNCHANGED <<known, server, job, manager, swallowed, outlived, behind, owed>>

\* _cancel_operation, up to its await.
Cancelled(i) == op' = IF op[i] = "none" THEN op ELSE [op EXCEPT ![i] = "cancelled"]

\* The cancelled task is over.  A stop leaves the server stopping; a start that
\* had begun to launch leaves the status at "starting", without a process.
OperationGone(i) ==
  /\ op[i] = "cancelled"
  /\ op' = [op EXCEPT ![i] = "none"]
  /\ At(i, "op", "none")
  /\ UNCHANGED <<known, server, job, manager, swallowed, outlived, behind, owed>>

\* Faulty variant: the instance is forgotten, then stopped.
DeleteForgetsFirst(i) ==
  IF Active(i)
    THEN At(i, "delete", "stop") /\ known' = known \ {i} /\ UNCHANGED <<op, job, behind, owed>>
    ELSE Stopped(i, "delete")

DeleteStops(i) ==
  IF Active(i)
    THEN At(i, "delete", "stop") /\ UNCHANGED <<known, op, job, behind, owed>>
    ELSE Stopped(i, "delete")

Delete(i) ==
  /\ manager = "running" /\ i \in known
  /\ call[i]["delete"] = "none"
  /\ IF op[i] = "none"
       THEN DeleteStops(i)
       ELSE Cancelled(i) /\ At(i, "delete", "cancel") /\ UNCHANGED <<known, job, behind, owed>>
  /\ UNCHANGED <<server, manager, swallowed, outlived>>

\* Another operation may have been submitted by now.
DeleteGoesOn(i) ==
  /\ call[i]["delete"] = "cancel"
  /\ op[i] # "cancelled"
  /\ DeleteStops(i)
  /\ UNCHANGED <<server, manager, swallowed, outlived>>

\* The buttons of an instance's page.
Button(i) == Submit(i) \/ Delete(i)

-----------------------------------------------------------------------------
(***************************************************************************)
(* run_update                                                              *)
(***************************************************************************)

InCall == \E i \in Instances : call[i]["job"] # "none"

\* JobLog.run starts no second job.  With restarting switched off the update
\* is refused while anything runs, otherwise there is nothing to take down.
JobBegins(by) ==
  /\ job.step = "idle"
  /\ job' = [job EXCEPT !.by = by, !.step = "take", !.todo = {i \in known : Active(i)}]
  /\ UNCHANGED <<known, server, call, op, manager, swallowed, outlived, behind, owed>>

\* A task of its own, that nobody keeps.
InstallServer == manager = "running" /\ JobBegins("web")

\* The scheduler waits for the update; it goes on if it missed its end.
ScheduledUpdate ==
  /\ manager = "running" \/ (manager = "background" /\ swallowed)
  /\ JobBegins("schedule")

\* self.stop() looks the instance up: one that was deleted fails the update.
StopOrFail(i) ==
  IF i \in known
    THEN At(i, "job", "stop") /\ job' = [job EXCEPT !.step = "take", !.at = i]
    ELSE job' = [job EXCEPT !.step = "start", !.at = NoInstance] /\ UNCHANGED call

JobTakes(i) ==
  /\ job.step = "take" /\ ~InCall
  /\ i \in job.todo
  /\ IF op[i] = "none"
       THEN StopOrFail(i) /\ UNCHANGED op
       ELSE Cancelled(i) /\ job' = [job EXCEPT !.step = "await", !.at = i] /\ UNCHANGED call
  /\ UNCHANGED <<known, server, manager, swallowed, outlived, behind, owed>>

JobAwaits(i) ==
  /\ job.step = "await" /\ job.at = i
  /\ op[i] # "cancelled"
  /\ StopOrFail(i)
  /\ UNCHANGED <<known, server, op, manager, swallowed, outlived, behind, owed>>

\* Faulty variant: a failed download ends the update there.
JobWorksOrFails ==
  /\ \/ job.step = "take" /\ ~InCall /\ job.todo = {} /\ job' = [job EXCEPT !.step = "work"]
     \/ job.step = "work" /\ \E s \in {"start", "idle"} : job' = [job EXCEPT !.step = s]
  /\ UNCHANGED <<known, server, call, op, manager, swallowed, outlived, behind, owed>>

\* update_server ends: the files are up to date, steamcmd or a directory it
\* needs is missing, or it exits with an error.  All go on in the finally clause.
SteamcmdEnds == job.step = "work" /\ job' = [job EXCEPT !.step = "start"]

\* Nothing is up any more: steamcmd runs, and ends.
JobWorks ==
  /\ \/ job.step = "take" /\ ~InCall /\ job.todo = {} /\ job' = [job EXCEPT !.step = "work"]
     \/ SteamcmdEnds
  /\ UNCHANGED <<known, server, call, op, manager, swallowed, outlived, behind, owed>>

\* The finally clause: what was taken down is started, what fails is logged.
JobStarts(i) ==
  /\ job.step = "start" /\ ~InCall
  /\ i \in job.down
  /\ IF i \in known
       THEN IF Free(i)
              THEN Entered(i, "job")
              ELSE At(i, "job", "start") /\ UNCHANGED <<known, server, op, job, behind, owed>>
       ELSE job' = [job EXCEPT !.down = @ \ {i}] /\ UNCHANGED <<known, server, call, op, behind, owed>>
  /\ UNCHANGED <<manager, swallowed, outlived>>

JobEnds ==
  /\ job.step = "start" /\ ~InCall
  /\ job.down = {}
  /\ job' = [job EXCEPT !.step = "idle", !.todo = {}]
  /\ UNCHANGED <<known, server, call, op, manager, swallowed, outlived, behind, owed>>

-----------------------------------------------------------------------------
(***************************************************************************)
(* The manager shuts down                                                  *)
(***************************************************************************)

\* A cancellation lands where the update is suspended.  _cancel_operation
\* suppresses it; in the finally clause it ends the loop; elsewhere it ends the
\* try block, and what is already down is started again.
JobCancelled ==
  IF job.step = "await"
    THEN /\ swallowed' = TRUE
         /\ UNCHANGED <<call, job>>
    ELSE /\ call' = [i \in Instances |-> [call[i] EXCEPT !["job"] = "none"]]
         /\ job' = IF job.step = "start"
                     THEN [job EXCEPT !.step = "idle", !.at = NoInstance, !.todo = {}, !.down = {}]
                     ELSE [job EXCEPT !.step = "start", !.at = NoInstance]
         /\ UNCHANGED swallowed

Suspended == InCall \/ job.step \in {"await", "work"}

\* No request is being served any more.  stop_background cancels the scheduler.
ShutdownBegins ==
  /\ manager = "running"
  /\ \A i \in Instances : call[i]["delete"] = "none"
  /\ manager' = "background"
  /\ IF job.step # "idle" /\ job.by = "schedule"
       THEN Suspended /\ JobCancelled
       ELSE UNCHANGED <<call, job, swallowed>>
  /\ UNCHANGED <<known, server, op, outlived, behind, owed>>

\* Faulty variants: shutdown_all does not wait for the scheduler; or it waits
\* for the update of the web server's too.
SchedulerNotAwaited ==
  /\ manager = "background"
  /\ manager' = "cancelling"
  /\ UNCHANGED <<known, server, call, op, job, swallowed, outlived, behind, owed>>

EveryUpdateAwaited ==
  /\ manager = "background"
  /\ ~swallowed
  /\ job.step = "idle"
  /\ manager' = "cancelling"
  /\ UNCHANGED <<known, server, call, op, job, swallowed, outlived, behind, owed>>

\* The scheduler is gone.  One that missed its cancellation loops for ever.
SchedulerGone ==
  /\ manager = "background"
  /\ ~swallowed
  /\ job.step = "idle" \/ job.by = "web"
  /\ manager' = "cancelling"
  /\ UNCHANGED <<known, server, call, op, job, swallowed, outlived, behind, owed>>

\* shutdown_all cancels the operations one after the other, ...
ShutdownCancels(i) ==
  /\ manager = "cancelling" /\ i \in known
  /\ op[i] # "none" /\ \A j \in Instances : op[j] # "cancelled"
  /\ Cancelled(i)
  /\ UNCHANGED <<known, server, call, job, manager, swallowed, outlived, behind, owed>>

\* ... and then stops what is active, all at once.
ShutdownStops ==
  /\ manager = "cancelling"
  /\ \A i \in known : op[i] = "none"
  /\ manager' = "stopping"
  /\ call' = [i \in Instances |->
       IF i \in known /\ Active(i) THEN [call[i] EXCEPT !["shutdown"] = "stop"] ELSE call[i]]
  /\ outlived' = (job.step # "idle" /\ job.by = "web")
  /\ UNCHANGED <<known, server, op, job, swallowed, behind, owed>>

ShutdownEnds ==
  /\ manager = "stopping"
  /\ \A i \in Instances : call[i]["shutdown"] = "none"
  /\ manager' = "gone"
  /\ UNCHANGED <<known, server, call, op, job, swallowed, outlived, behind, owed>>

-----------------------------------------------------------------------------
Lifecycle(i) == \E a \in Callers : EnterStop(i, a) \/ StopDone(i, a) \/ EnterStart(i, a) \/ StartDone(i, a)

JobStep == JobWorks \/ JobEnds \/ \E i \in Instances : JobTakes(i) \/ JobAwaits(i) \/ JobStarts(i)

Shutdown ==
  \/ SchedulerGone \/ ShutdownStops \/ ShutdownEnds
  \/ \E i \in Instances : ShutdownCancels(i)

Next ==
  /\ manager # "gone"
  /\ \/ InstallServer \/ ScheduledUpdate \/ JobStep \/ ShutdownBegins \/ Shutdown
     \/ \E i \in Instances :
          Lifecycle(i) \/ Exit(i) \/ Button(i) \/ OperationGone(i) \/ DeleteGoesOn(i)

Spec == Init /\ [][Next]_vars

(***************************************************************************)
(* Fairness: a task that can run is run, a server that was told to stop    *)
(* exits, a launch succeeds or fails.  steamcmd need not come to an end.   *)
(***************************************************************************)
Fairness ==
  /\ WF_vars(Shutdown)
  /\ WF_vars(job.step # "work" /\ JobStep)
  /\ \A i \in Instances : WF_vars(OperationGone(i)) /\ WF_vars(Lifecycle(i))

FairSpec == Spec /\ Fairness

-----------------------------------------------------------------------------
(***************************************************************************)
(* Properties                                                              *)
(***************************************************************************)

\* "Servers that were running must come back": once an update is over, whatever
\* it took down has been started again, or deleted, whichever of the stops, the
\* download or the starts failed and whatever operators did meanwhile.
ComesBack == manager = "running" /\ job.step = "idle" => owed \cap known = {}

\* When the manager has shut down no server of its instances is left running,
\* although an update may have been just about to start them again.  The one
\* exception is an update of the web server's, for which nobody waits.
NothingRunsOn == manager = "gone" /\ ~outlived => \A i \in known : server[i] = "down"

\* No server runs that belongs to no instance: nothing would ever stop it.  The
\* exception is one that a start waited for while it was being deleted.
NoOrphans == \A i \in Instances \ known : Active(i) => i \in behind

\* The manager comes to the end of its shutdown, whatever is under way, unless
\* the scheduler was just waiting for an operation it had cancelled.
ShutdownComesToEnd == manager = "background" /\ ~swallowed ~> manager = "gone"

=============================================================================
