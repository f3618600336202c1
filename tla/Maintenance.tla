---------------------------- MODULE Maintenance ----------------------------
(***************************************************************************)
(* One instance between its drivers and its audience: who stops and starts *)
(* it (an operator's operation, the server update, the mod update), what   *)
(* the sampler believes of it (vhsm/manager.py), and what StateWatcher     *)
(* (vhsm/discord/announce.py) and the sampler tell its players.            *)
(*                                                                         *)
(* The Supervisor is used through what it implements, InstanceLifecycle;   *)
(* its lock is "at most one driver is stopping or starting".  The sampler  *)
(* reads the kernel (listening) and the query socket (endpoint) on timers  *)
(* of their own; between them both are memories.  Taking the snapshot,     *)
(* _announce_what_changed and StateWatcher.observe are one step, Tick: no  *)
(* await separates them.                                                   *)
(***************************************************************************)
EXTENDS InstanceLifecycle, Naturals

CONSTANTS
  Jobs,      \* the jobs that run here: a subset of {"update", "mods"}
  MaxMods    \* bound: how often the mods on disk change, plus one

ASSUME JobsAssumption == Jobs \subseteq {"update", "mods"}
ASSUME MaxModsAssumption == MaxMods \in Nat \ {0}

VARIABLES
  bound,         \* the process holds its game port
  listening,     \* record.listening
  endpoint,      \* record.query_endpoint is not None
  sampler,       \* how far this sample_once is: "idle", "queried" or "probed"
  maintenance,   \* record.maintenance is not ""
  op,            \* record.operation_name while record.busy, else "none"
  job,           \* the job that has this instance in its hands, or "none"
  at,            \* how far the driver "op" and the driver "job" are
  disk,          \* the mod set on disk: its changed_at
  loaded,        \* the mod set the process read when it started
  baseline,      \* record.announced_mods; 0 is None
  settled,       \* StateWatcher no longer is quiet
  online,        \* InstanceState.announced_online
  owed,          \* history: an operator started it after the quiet period and
                 \* outside maintenance, and its players are not told yet
  unnoticed,     \* history: and it bound its port before StateWatcher had noticed
                 \* that its predecessor was gone
  debt           \* history: "owed" once a job has stopped the instance, "tried"
                 \* once its own start has raised, "none" once anybody launched it

believed == <<listening, endpoint, sampler>>
driving == <<op, job, at, debt>>
watching == <<settled, online, owed, unnoticed>>
maintenanceVars ==
  <<status, alive, bound, believed, maintenance, driving, disk, loaded, baseline, watching>>

Drivers == {"op", "job"}
Stages == {"idle", "take", "stop", "stopping", "work", "start", "enter", "starting"}

MaintenanceTypeOK ==
  /\ LifecycleTypeOK
  /\ {bound, listening, endpoint, maintenance, settled, online, owed, unnoticed}
       \subseteq BOOLEAN
  /\ op \in {"none", "starting", "stopping", "restarting"}
  /\ sampler \in {"idle", "queried", "probed"}
  /\ job \in Jobs \cup {"none"}
  /\ at \in [Drivers -> Stages]
  /\ debt \in {"none", "owed", "tried"}
  /\ {disk, loaded} \subseteq 1..MaxMods
  /\ baseline \in 0..MaxMods

MaintenanceInit ==
  /\ LifecycleInit
  /\ bound = FALSE /\ listening = FALSE /\ endpoint = FALSE /\ sampler = "idle"
  /\ maintenance = FALSE
  /\ op = "none" /\ job = "none" /\ at = [d \in Drivers |-> "idle"]
  /\ disk = 1 /\ loaded = 1 /\ baseline = 0
  /\ settled = FALSE /\ online = FALSE
  /\ owed = FALSE /\ unnoticed = FALSE /\ debt = "none"

-----------------------------------------------------------------------------
(***************************************************************************)
(* Drivers                                                                 *)
(***************************************************************************)

Locked == \E d \in Drivers : at[d] \in {"stopping", "starting"}

Stage(d, s) == at' = [at EXCEPT ![d] = s] /\ UNCHANGED <<op, job>>

\* The driver is done.  A job drops the flag if the server did not come back.
Finish(d) ==
  /\ at' = [at EXCEPT ![d] = "idle"]
  /\ op' = IF d = "op" THEN "none" ELSE op
  /\ job' = IF d = "job" THEN "none" ELSE job
  /\ maintenance' = (maintenance /\ (d = "job" => status' \in Active))

\* InstanceManager.submit: one operation at a time, no start when active.  A
\* job is not an operation, so it does not refuse one.
Submit ==
  /\ op = "none"
  /\ \/ op' = "starting" /\ status \notin Active /\ at' = [at EXCEPT !["op"] = "start"]
     \/ op' \in {"stopping", "restarting"} /\ at' = [at EXCEPT !["op"] = "stop"]
  /\ UNCHANGED <<status, alive, bound, believed, maintenance, job, debt, disk, loaded,
                 baseline, watching>>

\* run_update lists the active instances; run_mod_update has installed
\* something newer and is to restart.
JobBegins ==
  /\ job = "none"
  /\ job' \in Jobs
  /\ at' = [at EXCEPT !["job"] = "take"]
  /\ \/ job' = "update" /\ status \in Active /\ UNCHANGED disk
     \/ job' = "mods" /\ disk < MaxMods /\ disk' = disk + 1
  /\ UNCHANGED <<status, alive, bound, believed, maintenance, op, debt, loaded, baseline,
                 watching>>

\* It cancels the operator's operation, where that is, and raises the flag.
JobTakes ==
  /\ at["job"] = "take"
  /\ IF job = "mods" /\ status \notin Active
       THEN /\ job' = "none"
            /\ at' = [at EXCEPT !["job"] = "idle"]
            /\ UNCHANGED <<op, maintenance>>
       ELSE /\ op' = "none"
            /\ at' = [at EXCEPT !["op"] = "idle", !["job"] = "stop"]
            /\ maintenance' = TRUE
            /\ UNCHANGED job
  /\ UNCHANGED <<status, alive, bound, believed, debt, disk, loaded, baseline, watching>>

\* Faulty variant: a failed update leaves the servers down.
JobWorksOrFails ==
  /\ at["job"] = "work"
  /\ Stage("job", "start") \/ (at' = [at EXCEPT !["job"] = "idle"] /\ job' = "none" /\ UNCHANGED op)
  /\ UNCHANGED <<status, alive, bound, believed, maintenance, debt, disk, loaded, baseline,
                 watching>>

\* steamcmd ran, successfully or not.
JobWorks ==
  /\ at["job"] = "work"
  /\ Stage("job", "start")
  /\ UNCHANGED <<status, alive, bound, believed, maintenance, debt, disk, loaded, baseline,
                 watching>>

\* Supervisor.stop, called by d: nothing to stop, or a signal and a wait.
AfterStop(d) ==
  IF d = "job" THEN Stage("job", IF job = "update" THEN "work" ELSE "start")
               ELSE IF op = "restarting" THEN Stage("op", "start") ELSE Finish("op")

\* A job owes a start to what it has stopped.
Owes(d) == debt' = IF d = "job" THEN "owed" ELSE debt

StopCalled(d) ==
  /\ at[d] = "stop"
  /\ ~Locked
  /\ IF alive
       THEN AskStop /\ Stage(d, "stopping") /\ UNCHANGED debt
       ELSE Settle /\ status' = "stopped" /\ AfterStop(d) /\ Owes(d)
  /\ UNCHANGED <<bound, believed, maintenance, disk, loaded, baseline, watching>>

StopDone(d) ==
  /\ at[d] = "stopping"
  /\ Settle /\ status' = "stopped"
  /\ AfterStop(d) /\ Owes(d)
  /\ UNCHANGED <<bound, believed, maintenance, disk, loaded, baseline, watching>>

\* InstanceManager.start: the endpoint is forgotten, listening is not.
StartCalled(d) ==
  /\ at[d] = "start"
  /\ Stage(d, "enter")
  /\ endpoint' = FALSE
  /\ UNCHANGED <<status, alive, bound, listening, sampler, maintenance, debt, disk, loaded, baseline,
                 watching>>

\* Supervisor.start past its lock: refused for an active instance; raised when
\* the binary is missing, a directory cannot be made or the configuration is
\* not valid, which leaves the status as it was; or begun.
StartEntered(d) ==
  /\ at[d] = "enter"
  /\ ~Locked
  /\ \/ status \in Active /\ UNCHANGED <<status, alive, owed, unnoticed, debt>> /\ Finish(d)
     \/ /\ status \notin Active /\ UNCHANGED <<status, alive, owed, unnoticed>>
        /\ debt' = IF d = "job" /\ debt = "owed" THEN "tried" ELSE debt
        /\ Finish(d)
     \/ /\ Accept
        /\ Stage(d, "starting")
        /\ owed' = (d = "op" /\ settled) /\ unnoticed' = FALSE
        /\ debt' = "none"
        /\ UNCHANGED maintenance
  /\ UNCHANGED <<bound, believed, disk, loaded, baseline, settled, online>>

StartDone(d) ==
  /\ at[d] = "starting"
  /\ \/ status' = "running" /\ alive' = TRUE /\ loaded' = disk
     \/ status' = "crashed" /\ UNCHANGED <<alive, loaded>>
  /\ Finish(d)
  /\ UNCHANGED <<bound, believed, debt, disk, baseline, watching>>

-----------------------------------------------------------------------------
(***************************************************************************)
(* The server                                                              *)
(***************************************************************************)

\* It may come before any probe has found its predecessor's port free: nothing
\* but a probe resets listening.
Bind ==
  /\ alive /\ ~bound
  /\ bound' = TRUE
  /\ unnoticed' = (owed /\ online)
  /\ UNCHANGED <<status, alive, believed, maintenance, driving, disk, loaded, baseline, settled,
                 online, owed>>

Exit ==
  /\ Die
  /\ bound' = FALSE
  /\ UNCHANGED <<believed, maintenance, driving, disk, loaded, baseline, watching>>

Reaped ==
  /\ status \in {"running", "stopping"}
  /\ Settle
  /\ status = "stopping" => status' = "stopped"
  /\ UNCHANGED <<bound, believed, maintenance, driving, disk, loaded, baseline, watching>>

\* Mods are installed, removed or switched by hand.
ModsChange ==
  /\ disk < MaxMods
  /\ disk' = disk + 1
  /\ UNCHANGED <<status, alive, bound, believed, maintenance, driving, loaded, baseline, watching>>

-----------------------------------------------------------------------------
(***************************************************************************)
(* The sampler                                                             *)
(***************************************************************************)

\* sample_once first queries (_query_instance, every third tick: an endpoint
\* is dropped after three failures, a new one is found when the server
\* answers), then probes (check_reachable, every fifteenth), then ticks.
Query ==
  /\ sampler = "idle" /\ sampler' = "queried"
  /\ status \in Active
  /\ IF bound THEN endpoint' = TRUE ELSE endpoint' \in {endpoint, FALSE}
  /\ UNCHANGED <<status, alive, bound, listening, maintenance, driving, disk, loaded, baseline,
                 watching>>

Probe ==
  /\ sampler # "probed" /\ sampler' = "probed"
  /\ listening' = (status \in Active /\ bound)
  /\ UNCHANGED <<status, alive, bound, endpoint, maintenance, driving, disk, loaded, baseline,
                 watching>>

\* probe_instance, for a page, at any time: whatever the status, an answer is
\* an endpoint.
PageProbes ==
  /\ bound /\ endpoint' = TRUE
  /\ UNCHANGED <<status, alive, bound, listening, sampler, maintenance, driving, disk, loaded,
                 baseline, watching>>

Evidence == listening \/ endpoint

RestartPending == status \in {"running", "stopping"} /\ disk > loaded

\* Faulty variant: the flag itself keeps the news back.
BackUpUnflagged == status \in Active /\ Evidence /\ ~RestartPending /\ ~maintenance
BackUp == status \in Active /\ Evidence /\ ~RestartPending

Loud == settled /\ ~maintenance
\* Faulty variant: only while the operation is still under way.
SaysWhileStarting == Loud /\ Evidence /\ ~online /\ op = "starting"
SaysOnline == Loud /\ Evidence /\ ~online
SaysMods == BackUp /\ baseline # 0 /\ baseline # disk

\* Faulty variant: only the first sighting is recorded.
BaselineOfFirstSight == IF BackUp /\ baseline = 0 THEN disk ELSE baseline
Baseline == IF BackUp THEN disk ELSE baseline

\* _announce_what_changed and StateWatcher.observe on the snapshot taken
\* just before it.
Tick ==
  /\ maintenance' = (maintenance /\ ~BackUp)
  /\ baseline' = Baseline
  /\ settled' \in {settled, TRUE}
  /\ online' = Evidence
  /\ owed' = (owed /\ ~SaysOnline /\ ~maintenance)
  /\ unnoticed' = (unnoticed /\ owed')
  /\ sampler' = "idle"
  /\ UNCHANGED <<status, alive, bound, listening, endpoint, driving, disk, loaded>>

-----------------------------------------------------------------------------
Drive(d) == StopCalled(d) \/ StopDone(d) \/ StartCalled(d) \/ StartEntered(d) \/ StartDone(d)

MaintenanceNext ==
  \/ Submit \/ JobBegins \/ JobTakes \/ JobWorks
  \/ \E d \in Drivers : Drive(d)
  \/ Bind \/ Exit \/ Reaped \/ ModsChange
  \/ Probe \/ Query \/ PageProbes \/ Tick

MaintenanceSpec == MaintenanceInit /\ [][MaintenanceNext]_maintenanceVars

(***************************************************************************)
(* Fairness: the sampler ticks and probes on its timers, the drivers go on *)
(* (their turns at the lock are FIFO), a process told to stop exits (or is *)
(* killed), its exit is reaped, and a server that stays up binds its port. *)
(* Nothing obliges an operator, a job or a crash.                          *)
(***************************************************************************)
Obeys == status = "stopping" /\ Exit

MaintenanceFairness ==
  /\ WF_maintenanceVars(Tick /\ settled') /\ SF_maintenanceVars(Probe) /\ SF_maintenanceVars(Query)
  /\ \A d \in Drivers : SF_maintenanceVars(Drive(d))
  /\ WF_maintenanceVars(JobTakes) /\ WF_maintenanceVars(JobWorks)
  /\ WF_maintenanceVars(Bind) /\ WF_maintenanceVars(Obeys) /\ WF_maintenanceVars(Reaped)

MaintenanceFairSpec == MaintenanceSpec /\ MaintenanceFairness

-----------------------------------------------------------------------------
(***************************************************************************)
(* Properties                                                              *)
(***************************************************************************)

Joinable == status = "running" /\ bound

\* "Servers that were running must come back": no job lets go of an instance it
\* took down before the instance was launched again, by the job or by an
\* operator, or its own attempt raised; and then no maintenance window stays
\* open over an instance that is down, which would hush the next start by hand.
BroughtBack == job = "none" => debt # "owed" /\ (debt = "tried" => ~maintenance)

\* "A restart somebody asked for by hand is announced normally": the server
\* an operator started comes up, and its players are told that it is online,
\* unless it comes up in a maintenance window, or came up so fast that nobody
\* had noticed that it was gone.
HandRestartAnnounced ==
  (owed /\ Joinable) ~> (~owed \/ ~Joinable \/ unnoticed)

\* News of a mod set is news once: what was said is not said again until the
\* set on disk has changed.
NewsOnce == [][Tick /\ SaysMods => baseline' = disk /\ baseline < disk]_maintenanceVars

\* A server that stays up on the mods on disk, in nobody's hands, comes out of
\* its maintenance window, and its players hear of the mods it runs.
BackToNormal ==
  LET up == Joinable /\ loaded = disk /\ job = "none" IN
  up ~> (~up \/ (~maintenance /\ baseline = disk))
=============================================================================
