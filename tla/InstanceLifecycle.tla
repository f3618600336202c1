------------------------- MODULE InstanceLifecycle -------------------------
(***************************************************************************)
(* What the rest of the manager may rely on about one Valheim instance:    *)
(* the status it reads (Supervisor.status) against the one fact it stands  *)
(* for, whether a server process of this instance exists.                  *)
(*                                                                         *)
(* This is the abstract specification that module Supervisor implements.   *)
(* It has no tasks, no lock and no log pump: only the order in which the   *)
(* status may move and what each move says of the process.                 *)
(***************************************************************************)

VARIABLES
  status,   \* the status every route, command and sampler reads
  alive     \* TRUE while an operating-system process of this instance runs

lifecycleVars == <<status, alive>>

Active == {"starting", "running", "stopping"}
Status == Active \cup {"stopped", "crashed"}

LifecycleTypeOK ==
  /\ status \in Status
  /\ alive \in BOOLEAN

LifecycleInit ==
  /\ status = "stopped"
  /\ alive = FALSE

\* A start is accepted only for an instance that is not active.
Accept ==
  /\ status \notin Active
  /\ status' = "starting"
  /\ UNCHANGED alive

\* Only a starting instance gets a process, and only if it has none.
Spawn ==
  /\ status = "starting"
  /\ ~alive
  /\ alive' = TRUE
  /\ UNCHANGED status

\* The launch is recorded; the process may already have died again.
Up ==
  /\ status = "starting"
  /\ status' = "running"
  /\ UNCHANGED alive

Die ==
  /\ alive
  /\ alive' = FALSE
  /\ UNCHANGED status

AskStop ==
  /\ status \in {"running", "stopping"}
  /\ status' = "stopping"
  /\ UNCHANGED alive

\* An inactive status is given only to an instance without a process.
Settle ==
  /\ ~alive
  /\ status' \in {"stopped", "crashed"}
  /\ UNCHANGED alive

LifecycleNext == Accept \/ Spawn \/ Up \/ Die \/ AskStop \/ Settle

LifecycleSpec == LifecycleInit /\ [][LifecycleNext]_lifecycleVars

=============================================================================
