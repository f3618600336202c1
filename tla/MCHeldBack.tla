----------------------------- MODULE MCHeldBack -----------------------------
(* An instance of Maintenance for TLC that remembers whose launch of the   *)
(* server has not been seen to be online yet.                              *)
EXTENDS Maintenance

VARIABLE why   \* the driver of that launch, or "none"

UpdateJob == {"update"}

Launches(d) == StartEntered(d) /\ status' = "starting"

Seen == Tick /\ Joinable /\ Evidence

HistorySpec ==
  /\ MaintenanceInit /\ why = "none"
  /\ [][/\ MaintenanceNext
        /\ why' = IF \E d \in Drivers : Launches(d) THEN CHOOSE d \in Drivers : Launches(d)
                  ELSE IF Seen THEN "none" ELSE why]_<<maintenanceVars, why>>

\* "A restart the manager does for an update is not announced."
ManagerRestartHeldBack == [][Seen /\ SaysOnline => why # "job"]_<<maintenanceVars, why>>
=============================================================================
