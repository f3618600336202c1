---------------------------- MODULE UpdatesProofs ----------------------------
(***************************************************************************)
(* What is proved of module Updates for every set of instances.            *)
(***************************************************************************)
EXTENDS Updates, TLAPS

\* A supervisor's lock has one holder, and only a holder launches.
LockIsExclusive ==
  \A i \in Instances : \A a, b \in Callers :
    call[i][a] \in {"stopping", "starting"} /\ call[i][b] \in {"stopping", "starting"} => a = b

LaunchIsActive ==
  \A i \in Instances : \A a \in Callers : call[i][a] = "starting" => server[i] = "starting"

\* No start of a deleted instance is under way that did not wait for it to be
\* deleted.
NoLateStart ==
  \A i \in Instances \ known : \A a \in Callers : call[i][a] \in {"start", "starting"} => i \in behind

\* What the update owes is down, and the update knows it.
OwedIsDown == \A i \in owed : server[i] = "down"
OwedIsKept == manager = "running" => owed \cap known \subseteq job.down
IdleIsEmpty == job.step = "idle" => job.down = {}

\* The last two phases of the shutdown: nothing that could start a server is
\* left, and what runs is being stopped.
Quiet ==
  manager \in {"stopping", "gone"} /\ ~outlived =>
    /\ job.step = "idle"
    /\ \A i \in known : op[i] = "none" /\ call[i]["op"] = "none" /\ call[i]["job"] = "none"

WithoutOperation == \A i \in Instances : op[i] = "none" => call[i]["op"] = "none"
WithoutJob == job.step = "idle" => \A i \in Instances : call[i]["job"] = "none"
NotDeleted == manager # "running" => \A i \in Instances : call[i]["delete"] = "none"
StopsOnly ==
  \A i \in Instances :
    /\ call[i]["shutdown"] \in {"none", "stop", "stopping"}
    /\ call[i]["delete"] \in {"none", "cancel", "stop", "stopping"}

BeingStopped ==
  manager \in {"stopping", "gone"} /\ ~outlived =>
    \A i \in known : Active(i) => manager = "stopping" /\ call[i]["shutdown"] # "none"

ScheduleWaited == manager \in {"cancelling", "stopping", "gone"} /\ job.by = "schedule" => job.step = "idle"

Locks == LockIsExclusive /\ LaunchIsActive
Orphans == NoLateStart /\ NoOrphans
Debts == OwedIsDown /\ OwedIsKept /\ IdleIsEmpty
Calls == WithoutOperation /\ WithoutJob /\ NotDeleted /\ StopsOnly /\ ScheduleWaited
Quieting == Quiet /\ BeingStopped

\* The inductive invariant.
IInv == TypeOK /\ Locks /\ Orphans /\ Debts /\ Calls /\ Quieting

-----------------------------------------------------------------------------
\* At changes one entry of call.
LEMMA AtEffect ==
  ASSUME TypeOK, NEW i \in Instances, NEW a \in Callers, NEW stage \in Stages, At(i, a, stage)
  PROVE  /\ call' \in [Instances -> [Callers -> Stages]]
         /\ call'[i][a] = stage
         /\ \A j \in Instances : \A b \in Callers : j # i \/ b # a => call'[j][b] = call[j][b]
  BY DEF TypeOK, At

\* What follows a stop keeps the types.
LEMMA StoppedTypes ==
  ASSUME TypeOK, NEW i \in Instances, NEW a \in Callers, Stopped(i, a),
         server' \in [Instances -> {"down", "starting", "up", "stopping"}],
         UNCHANGED <<manager, swallowed, outlived>>
  PROVE  TypeOK'
<1>1. call' \in [Instances -> [Callers -> Stages]]
  BY AtEffect DEF Stopped, Stages
<1>2. op' \in [Instances -> {"none", "starting", "stopping", "restarting", "cancelled"}]
  BY DEF Stopped, TypeOK
<1>3. job' \in Job
  BY DEF Stopped, TypeOK, Job
<1> QED
  BY <1>1, <1>2, <1>3 DEF Stopped, TypeOK

\* So does what follows a start, ...
LEMMA StartedTypes ==
  ASSUME TypeOK, NEW i \in Instances, NEW a \in Callers, Started(i, a), owed' \subseteq Instances,
         server' \in [Instances -> {"down", "starting", "up", "stopping"}],
         UNCHANGED <<manager, swallowed, outlived>>
  PROVE  TypeOK'
<1>1. call' \in [Instances -> [Callers -> Stages]]
  BY AtEffect DEF Started, Stages
<1>2. op' \in [Instances -> {"none", "starting", "stopping", "restarting", "cancelled"}]
  BY DEF Started, TypeOK
<1>3. job' \in Job
  BY DEF Started, TypeOK, Job
<1> QED
  BY <1>1, <1>2, <1>3 DEF Started, TypeOK

\* ... and a start that has the lock.
LEMMA EnteredTypes ==
  ASSUME TypeOK, NEW i \in Instances, NEW a \in Callers, Entered(i, a), UNCHANGED <<manager, swallowed, outlived>>
  PROVE  TypeOK'
<1>1. CASE Active(i)
  BY <1>1, StartedTypes DEF Entered, TypeOK
<1>2. CASE ~Active(i)
  <2>1. call' \in [Instances -> [Callers -> Stages]]
    BY <1>2, AtEffect DEF Entered, Stages
  <2> QED
    BY <1>2, <2>1 DEF Entered, TypeOK
<1> QED
  BY <1>1, <1>2

\* The initial state satisfies the invariant.
LEMMA InitIInv == Init => IInv
<1> SUFFICES ASSUME Init PROVE IInv
  OBVIOUS
<1>1. TypeOK
  BY DEF Init, TypeOK, Callers, Stages, Phases, Job
<1>2. Locks /\ Orphans
  BY DEF Init, Locks, LockIsExclusive, LaunchIsActive, Orphans, NoLateStart, NoOrphans, Callers
<1>3. Debts
  BY DEF Init, Debts, OwedIsDown, OwedIsKept, IdleIsEmpty
<1>4. Calls
  BY DEF Init, Calls, WithoutOperation, WithoutJob, NotDeleted, StopsOnly, ScheduleWaited, Callers
<1>5. Quieting
  BY DEF Init, Quieting, Quiet, BeingStopped
<1> QED
  BY <1>1, <1>2, <1>3, <1>4, <1>5 DEF IInv

\* Every step keeps the types.
LEMMA TypeStep == IInv /\ [Next]_vars => TypeOK'
<1> SUFFICES ASSUME IInv, [Next]_vars PROVE TypeOK'
  OBVIOUS
<1> USE DEF IInv, TypeOK, Callers, Stages, Phases, Job
<1>1. ASSUME NEW i \in Instances, NEW a \in Callers, EnterStop(i, a) PROVE TypeOK'
  <2>1. CASE server[i] \in {"up", "stopping"}
    BY <1>1, <2>1, AtEffect DEF EnterStop
  <2>2. CASE server[i] \notin {"up", "stopping"}
    BY <1>1, <2>2, StoppedTypes DEF EnterStop
  <2> QED
    BY <2>1, <2>2
<1>2. ASSUME NEW i \in Instances, NEW a \in Callers, StopDone(i, a) PROVE TypeOK'
  BY <1>2, StoppedTypes DEF StopDone
<1>3. ASSUME NEW i \in Instances, NEW a \in Callers, EnterStart(i, a) PROVE TypeOK'
  BY <1>3, EnteredTypes DEF EnterStart
<1>4. ASSUME NEW i \in Instances, NEW a \in Callers, StartDone(i, a) PROVE TypeOK'
  BY <1>4, StartedTypes DEF StartDone
<1>5. ASSUME NEW i \in Instances, Exit(i) PROVE TypeOK'
  BY <1>5 DEF Exit, Locked
<1>6. ASSUME NEW i \in Instances, Submit(i) PROVE TypeOK'
  <2>1. PICK stage \in {"start", "stop"} : At(i, "op", stage)
    BY <1>6 DEF Submit
  <2>2. call' \in [Instances -> [Callers -> Stages]]
    BY <2>1, AtEffect
  <2> QED
    BY <1>6, <2>2 DEF Submit
<1>7. ASSUME NEW i \in Instances, OperationGone(i) PROVE TypeOK'
  BY <1>7 DEF OperationGone, At
<1>8. ASSUME NEW i \in Instances, Delete(i) PROVE TypeOK'
  BY <1>8 DEF Delete, DeleteStops, Active, Stopped, Awaited, Cancelled, At
<1>9. ASSUME NEW i \in Instances, DeleteGoesOn(i) PROVE TypeOK'
  BY <1>9 DEF DeleteGoesOn, DeleteStops, Active, Stopped, Awaited, At
<1>10. ASSUME InstallServer \/ ScheduledUpdate PROVE TypeOK'
  BY <1>10 DEF InstallServer, ScheduledUpdate, JobBegins, Active
<1>11. ASSUME NEW i \in Instances, JobTakes(i) PROVE TypeOK'
  <2>1. CASE op[i] = "none" /\ i \in known
    <3>1. call' \in [Instances -> [Callers -> Stages]]
      BY <1>11, <2>1, AtEffect DEF JobTakes, StopOrFail
    <3> QED
      BY <1>11, <2>1, <3>1 DEF JobTakes, StopOrFail
  <2>2. CASE op[i] = "none" /\ i \notin known
    BY <1>11, <2>2 DEF JobTakes, StopOrFail
  <2>3. CASE op[i] # "none"
    <3>1. op' \in [Instances -> {"none", "starting", "stopping", "restarting", "cancelled"}]
      BY <1>11, <2>3 DEF JobTakes, Cancelled
    <3> QED
      BY <1>11, <2>3, <3>1 DEF JobTakes
  <2> QED
    BY <2>1, <2>2, <2>3
<1>12. ASSUME NEW i \in Instances, JobAwaits(i) PROVE TypeOK'
  <2>1. CASE i \in known
    <3>1. call' \in [Instances -> [Callers -> Stages]]
      BY <1>12, <2>1, AtEffect DEF JobAwaits, StopOrFail
    <3> QED
      BY <1>12, <2>1, <3>1 DEF JobAwaits, StopOrFail
  <2>2. CASE i \notin known
    BY <1>12, <2>2 DEF JobAwaits, StopOrFail
  <2> QED
    BY <2>1, <2>2
<1>13. ASSUME JobWorks PROVE TypeOK'
  BY <1>13 DEF JobWorks, SteamcmdEnds, InCall
<1>14. ASSUME NEW i \in Instances, JobStarts(i) PROVE TypeOK'
  <2>1. CASE i \in known /\ Free(i)
    BY <1>14, <2>1, EnteredTypes DEF JobStarts
  <2>2. CASE i \in known /\ ~Free(i)
    <3>1. call' \in [Instances -> [Callers -> Stages]]
      BY <1>14, <2>2, AtEffect DEF JobStarts
    <3> QED
      BY <1>14, <2>2, <3>1 DEF JobStarts
  <2>3. CASE i \notin known
    BY <1>14, <2>3 DEF JobStarts
  <2> QED
    BY <2>1, <2>2, <2>3
<1>15. ASSUME JobEnds PROVE TypeOK'
  BY <1>15 DEF JobEnds, InCall
<1>16. ASSUME ShutdownBegins PROVE TypeOK'
  <2>1. CASE UNCHANGED call /\ UNCHANGED job
    BY <1>16, <2>1 DEF ShutdownBegins, JobCancelled
  <2>2. CASE call' = [j \in Instances |-> [call[j] EXCEPT !["job"] = "none"]] /\ UNCHANGED swallowed
    <3>1. call' \in [Instances -> [Callers -> Stages]]
      BY <2>2
    <3>2. job' \in Job
      BY <1>16 DEF ShutdownBegins, JobCancelled
    <3> QED
      BY <1>16, <2>2, <3>1, <3>2 DEF ShutdownBegins
  <2> QED
    BY <1>16, <2>1, <2>2 DEF ShutdownBegins, JobCancelled
<1>17. ASSUME SchedulerGone PROVE TypeOK'
  BY <1>17 DEF SchedulerGone
<1>18. ASSUME NEW i \in Instances, ShutdownCancels(i) PROVE TypeOK'
  BY <1>18 DEF ShutdownCancels, Cancelled
<1>19. ASSUME ShutdownStops PROVE TypeOK'
  BY <1>19 DEF ShutdownStops, Active
<1>20. ASSUME ShutdownEnds PROVE TypeOK'
  BY <1>20 DEF ShutdownEnds
<1>21. CASE UNCHANGED vars
  BY <1>21 DEF vars
<1> QED
  BY <1>1, <1>2, <1>3, <1>4, <1>5, <1>6, <1>7, <1>8, <1>9, <1>10, <1>11, <1>12, <1>13, <1>14,
    <1>15, <1>16, <1>17, <1>18, <1>19, <1>20, <1>21 DEF Next, Lifecycle, Button, JobStep, Shutdown

\* The lock is taken only when it is free, and a launch happens under it.
LEMMA LockStep == IInv /\ [Next]_vars => Locks'
<1> SUFFICES ASSUME IInv, [Next]_vars PROVE Locks'
  OBVIOUS
<1> USE DEF IInv, TypeOK, Callers, Stages, Locks, LockIsExclusive, LaunchIsActive
<1>1. ASSUME NEW i \in Instances, NEW a \in Callers, EnterStop(i, a) PROVE Locks'
  BY <1>1 DEF EnterStop, Stopped, Awaited, Locked, At
<1>2. ASSUME NEW i \in Instances, NEW a \in Callers, StopDone(i, a) PROVE Locks'
  BY <1>2 DEF StopDone, Stopped, Awaited, At
<1>3. ASSUME NEW i \in Instances, NEW a \in Callers, EnterStart(i, a) PROVE Locks'
  BY <1>3 DEF EnterStart, Entered, Active, Started, Locked, At
<1>4. ASSUME NEW i \in Instances, NEW a \in Callers, StartDone(i, a) PROVE Locks'
  BY <1>4 DEF StartDone, Started, At
<1>5. ASSUME NEW i \in Instances, Exit(i) PROVE Locks'
  BY <1>5 DEF Exit, Locked
<1>6. ASSUME NEW i \in Instances, Submit(i) PROVE Locks'
  BY <1>6 DEF Submit, Active, At
<1>7. ASSUME NEW i \in Instances, OperationGone(i) PROVE Locks'
  BY <1>7 DEF OperationGone, At
<1>8. ASSUME NEW i \in Instances, Delete(i) PROVE Locks'
  BY <1>8 DEF Delete, DeleteStops, Active, Stopped, Awaited, Cancelled, At
<1>9. ASSUME NEW i \in Instances, DeleteGoesOn(i) PROVE Locks'
  BY <1>9 DEF DeleteGoesOn, DeleteStops, Active, Stopped, Awaited, At
<1>10. ASSUME InstallServer \/ ScheduledUpdate PROVE Locks'
  BY <1>10 DEF InstallServer, ScheduledUpdate, JobBegins, Active
<1>11. ASSUME NEW i \in Instances, JobTakes(i) PROVE Locks'
  BY <1>11 DEF JobTakes, StopOrFail, Cancelled, At, InCall
<1>12. ASSUME NEW i \in Instances, JobAwaits(i) PROVE Locks'
  BY <1>12 DEF JobAwaits, StopOrFail, At
<1>13. ASSUME JobWorks PROVE Locks'
  BY <1>13 DEF JobWorks, SteamcmdEnds, InCall
<1>14. ASSUME NEW i \in Instances, JobStarts(i) PROVE Locks'
  BY <1>14 DEF JobStarts, Entered, Active, Started, Free, Locked, At, InCall
<1>15. ASSUME JobEnds PROVE Locks'
  BY <1>15 DEF JobEnds, InCall
<1>16. ASSUME ShutdownBegins PROVE Locks'
  BY <1>16 DEF ShutdownBegins, JobCancelled
<1>17. ASSUME SchedulerGone PROVE Locks'
  BY <1>17 DEF SchedulerGone
<1>18. ASSUME NEW i \in Instances, ShutdownCancels(i) PROVE Locks'
  BY <1>18 DEF ShutdownCancels, Cancelled
<1>19. ASSUME ShutdownStops PROVE Locks'
  BY <1>19 DEF ShutdownStops, Active
<1>20. ASSUME ShutdownEnds PROVE Locks'
  BY <1>20 DEF ShutdownEnds
<1>21. CASE UNCHANGED vars
  BY <1>21 DEF vars
<1> QED
  BY <1>1, <1>2, <1>3, <1>4, <1>5, <1>6, <1>7, <1>8, <1>9, <1>10, <1>11, <1>12, <1>13, <1>14,
    <1>15, <1>16, <1>17, <1>18, <1>19, <1>20, <1>21 DEF Next, Lifecycle, Button, JobStep, Shutdown

\* A server is launched for a known instance, or by who waited for its deletion.
LEMMA OrphanStep == IInv /\ [Next]_vars => Orphans'
<1> SUFFICES ASSUME IInv, [Next]_vars PROVE Orphans'
  OBVIOUS
<1> USE DEF IInv, TypeOK, Callers, Stages, Locks, LockIsExclusive, LaunchIsActive, Orphans, NoLateStart, NoOrphans, Active
<1>1. ASSUME NEW i \in Instances, NEW a \in Callers, EnterStop(i, a) PROVE Orphans'
  <2>1. CASE server[i] \in {"up", "stopping"}
    BY <1>1, <2>1, AtEffect DEF EnterStop
  <2>2. CASE server[i] \notin {"up", "stopping"}
    <3>1. \A j \in Instances : \A b \in Callers : j # i \/ b # a => call'[j][b] = call[j][b]
      BY <1>1, <2>2, AtEffect DEF EnterStop, Stopped
    <3>2. call'[i][a] = "none" \/ (call'[i][a] = "start" /\ i \in known /\ a # "delete")
      BY <1>1, <2>2, AtEffect DEF EnterStop, Stopped
    <3>3. known' \subseteq known /\ known \subseteq known' \cup {i} /\ behind \subseteq behind'
      BY <1>1, <2>2 DEF EnterStop, Stopped
    <3>4. i \in known /\ i \notin known' => a = "delete" /\ (Awaited(i) => i \in behind')
      BY <1>1, <2>2 DEF EnterStop, Stopped
    <3>5. ~Locked(i) /\ server' = [server EXCEPT ![i] = "down"]
      BY <1>1, <2>2 DEF EnterStop
    <3> QED
      BY <3>1, <3>2, <3>3, <3>4, <3>5 DEF Locked, Awaited
  <2> QED
    BY <2>1, <2>2
<1>2. ASSUME NEW i \in Instances, NEW a \in Callers, StopDone(i, a) PROVE Orphans'
  BY <1>2 DEF StopDone, Stopped, Awaited, At
<1>3. ASSUME NEW i \in Instances, NEW a \in Callers, EnterStart(i, a) PROVE Orphans'
  BY <1>3 DEF EnterStart, Entered, Active, Started, Locked, At
<1>4. ASSUME NEW i \in Instances, NEW a \in Callers, StartDone(i, a) PROVE Orphans'
  BY <1>4 DEF StartDone, Started, At
<1>5. ASSUME NEW i \in Instances, Exit(i) PROVE Orphans'
  BY <1>5 DEF Exit, Locked
<1>6. ASSUME NEW i \in Instances, Submit(i) PROVE Orphans'
  BY <1>6 DEF Submit, Active, At
<1>7. ASSUME NEW i \in Instances, OperationGone(i) PROVE Orphans'
  BY <1>7 DEF OperationGone, At
<1>8. ASSUME NEW i \in Instances, Delete(i) PROVE Orphans'
  BY <1>8 DEF Delete, DeleteStops, Active, Stopped, Awaited, Cancelled, At
<1>9. ASSUME NEW i \in Instances, DeleteGoesOn(i) PROVE Orphans'
  BY <1>9 DEF DeleteGoesOn, DeleteStops, Active, Stopped, Awaited, At
<1>10. ASSUME InstallServer \/ ScheduledUpdate PROVE Orphans'
  BY <1>10 DEF InstallServer, ScheduledUpdate, JobBegins, Active
<1>11. ASSUME NEW i \in Instances, JobTakes(i) PROVE Orphans'
  BY <1>11 DEF JobTakes, StopOrFail, Cancelled, At, InCall
<1>12. ASSUME NEW i \in Instances, JobAwaits(i) PROVE Orphans'
  BY <1>12 DEF JobAwaits, StopOrFail, At
<1>13. ASSUME JobWorks PROVE Orphans'
  BY <1>13 DEF JobWorks, SteamcmdEnds, InCall
<1>14. ASSUME NEW i \in Instances, JobStarts(i) PROVE Orphans'
  BY <1>14 DEF JobStarts, Entered, Active, Started, Free, Locked, At, InCall
<1>15. ASSUME JobEnds PROVE Orphans'
  BY <1>15 DEF JobEnds, InCall
<1>16. ASSUME ShutdownBegins PROVE Orphans'
  BY <1>16 DEF ShutdownBegins, JobCancelled
<1>17. ASSUME SchedulerGone PROVE Orphans'
  BY <1>17 DEF SchedulerGone
<1>18. ASSUME NEW i \in Instances, ShutdownCancels(i) PROVE Orphans'
  BY <1>18 DEF ShutdownCancels, Cancelled
<1>19. ASSUME ShutdownStops PROVE Orphans'
  BY <1>19 DEF ShutdownStops, Active
<1>20. ASSUME ShutdownEnds PROVE Orphans'
  BY <1>20 DEF ShutdownEnds
<1>21. CASE UNCHANGED vars
  BY <1>21 DEF vars
<1> QED
  BY <1>1, <1>2, <1>3, <1>4, <1>5, <1>6, <1>7, <1>8, <1>9, <1>10, <1>11, <1>12, <1>13, <1>14,
    <1>15, <1>16, <1>17, <1>18, <1>19, <1>20, <1>21 DEF Next, Lifecycle, Button, JobStep, Shutdown

\* The update strikes an instance off only when it has been started or deleted.
LEMMA OwedStep == IInv /\ [Next]_vars => Debts'
<1> SUFFICES ASSUME IInv, [Next]_vars PROVE Debts'
  OBVIOUS
<1> USE DEF IInv, TypeOK, Callers, Stages, Job, Phases, Locks, LockIsExclusive, LaunchIsActive, Debts, OwedIsDown, OwedIsKept, IdleIsEmpty, Calls, WithoutJob
<1>1. ASSUME NEW i \in Instances, NEW a \in Callers, EnterStop(i, a) PROVE Debts'
  <2>1. CASE server[i] \in {"up", "stopping"}
    BY <1>1, <2>1 DEF EnterStop
  <2>2. CASE server[i] \notin {"up", "stopping"}
    <3>1. server' = [server EXCEPT ![i] = "down"] /\ known' \subseteq known /\ manager' = manager
      BY <1>1, <2>2 DEF EnterStop, Stopped
    <3>2. CASE a = "job"
      <4>1. job'.step = "take" /\ job'.down = job.down \cup {i} /\ owed' = owed \cup {i}
        BY <1>1, <2>2, <3>2 DEF EnterStop, Stopped
      <4> QED
        BY <3>1, <4>1
    <3>3. CASE a # "job"
      <4>1. job' = job /\ owed' = owed
        BY <1>1, <2>2, <3>3 DEF EnterStop, Stopped
      <4> QED
        BY <3>1, <4>1
    <3> QED
      BY <3>2, <3>3
  <2> QED
    BY <2>1, <2>2
<1>2. ASSUME NEW i \in Instances, NEW a \in Callers, StopDone(i, a) PROVE Debts'
  BY <1>2 DEF StopDone, Stopped, Awaited, At
<1>3. ASSUME NEW i \in Instances, NEW a \in Callers, EnterStart(i, a) PROVE Debts'
  <2>1. CASE Active(i)
    <3>1. i \notin owed /\ UNCHANGED <<server, owed, known, manager>>
      BY <1>3, <2>1 DEF EnterStart, Entered, Started, Active
    <3>2. job' = job \/ (job'.step = job.step /\ job'.down = job.down \ {i})
      BY <1>3, <2>1 DEF EnterStart, Entered, Started
    <3> QED
      BY <3>1, <3>2
  <2>2. CASE ~Active(i)
    BY <1>3, <2>2 DEF EnterStart, Entered, Active
  <2> QED
    BY <2>1, <2>2
<1>4. ASSUME NEW i \in Instances, NEW a \in Callers, StartDone(i, a) PROVE Debts'
  BY <1>4 DEF StartDone, Started, At
<1>5. ASSUME NEW i \in Instances, Exit(i) PROVE Debts'
  BY <1>5 DEF Exit, Locked
<1>6. ASSUME NEW i \in Instances, Submit(i) PROVE Debts'
  BY <1>6 DEF Submit, Active, At
<1>7. ASSUME NEW i \in Instances, OperationGone(i) PROVE Debts'
  BY <1>7 DEF OperationGone, At
<1>8. ASSUME NEW i \in Instances, Delete(i) PROVE Debts'
  BY <1>8 DEF Delete, DeleteStops, Active, Stopped, Awaited, Cancelled, At
<1>9. ASSUME NEW i \in Instances, DeleteGoesOn(i) PROVE Debts'
  BY <1>9 DEF DeleteGoesOn, DeleteStops, Active, Stopped, Awaited, At
<1>10. ASSUME InstallServer \/ ScheduledUpdate PROVE Debts'
  BY <1>10 DEF InstallServer, ScheduledUpdate, JobBegins, Active
<1>11. ASSUME NEW i \in Instances, JobTakes(i) PROVE Debts'
  BY <1>11 DEF JobTakes, StopOrFail, Cancelled, At, InCall
<1>12. ASSUME NEW i \in Instances, JobAwaits(i) PROVE Debts'
  BY <1>12 DEF JobAwaits, StopOrFail, At
<1>13. ASSUME JobWorks PROVE Debts'
  BY <1>13 DEF JobWorks, SteamcmdEnds, InCall
<1>14. ASSUME NEW i \in Instances, JobStarts(i) PROVE Debts'
  <2>1. CASE i \in known /\ Free(i) /\ Active(i)
    <3>1. i \notin owed /\ UNCHANGED <<server, owed, known, manager>>
      BY <1>14, <2>1 DEF JobStarts, Entered, Started, Active
    <3>2. job' = job \/ (job'.step = job.step /\ job'.down = job.down \ {i})
      BY <1>14, <2>1 DEF JobStarts, Entered, Started
    <3> QED
      BY <3>1, <3>2
  <2>2. CASE i \in known /\ Free(i) /\ ~Active(i)
    BY <1>14, <2>2 DEF JobStarts, Entered
  <2>3. CASE i \in known /\ ~Free(i)
    BY <1>14, <2>3 DEF JobStarts
  <2>4. CASE i \notin known
    BY <1>14, <2>4 DEF JobStarts
  <2> QED
    BY <2>1, <2>2, <2>3, <2>4
<1>15. ASSUME JobEnds PROVE Debts'
  BY <1>15 DEF JobEnds, InCall
<1>16. ASSUME ShutdownBegins PROVE Debts'
  BY <1>16 DEF ShutdownBegins, JobCancelled
<1>17. ASSUME SchedulerGone PROVE Debts'
  BY <1>17 DEF SchedulerGone
<1>18. ASSUME NEW i \in Instances, ShutdownCancels(i) PROVE Debts'
  BY <1>18 DEF ShutdownCancels, Cancelled
<1>19. ASSUME ShutdownStops PROVE Debts'
  BY <1>19 DEF ShutdownStops, Active
<1>20. ASSUME ShutdownEnds PROVE Debts'
  BY <1>20 DEF ShutdownEnds
<1>21. CASE UNCHANGED vars
  BY <1>21 DEF vars
<1> QED
  BY <1>1, <1>2, <1>3, <1>4, <1>5, <1>6, <1>7, <1>8, <1>9, <1>10, <1>11, <1>12, <1>13, <1>14,
    <1>15, <1>16, <1>17, <1>18, <1>19, <1>20, <1>21 DEF Next, Lifecycle, Button, JobStep, Shutdown

\* Who is in a call, and who is not.
LEMMA CallStep == IInv /\ [Next]_vars => Calls'
<1> SUFFICES ASSUME IInv, [Next]_vars PROVE Calls'
  OBVIOUS
<1> USE DEF IInv, TypeOK, Callers, Stages, Job, Phases, Calls, WithoutOperation, WithoutJob, NotDeleted, StopsOnly, ScheduleWaited
<1>1. ASSUME NEW i \in Instances, NEW a \in Callers, EnterStop(i, a) PROVE Calls'
  <2>1. CASE server[i] \in {"up", "stopping"}
    <3>1. \A j \in Instances : \A b \in Callers : j # i \/ b # a => call'[j][b] = call[j][b]
      BY <1>1, <2>1, AtEffect DEF EnterStop
    <3>2. call[i][a] = "stop" /\ call'[i][a] = "stopping" /\ UNCHANGED <<op, job, manager>>
      BY <1>1, <2>1, AtEffect DEF EnterStop
    <3> QED
      BY <3>1, <3>2
  <2>2. CASE server[i] \notin {"up", "stopping"}
    <3>1. \A j \in Instances : \A b \in Callers : j # i \/ b # a => call'[j][b] = call[j][b]
      BY <1>1, <2>2, AtEffect DEF EnterStop, Stopped
    <3>2. call[i][a] = "stop" /\ (call'[i][a] = "none" \/ (call'[i][a] = "start" /\ a = "op"))
      BY <1>1, <2>2, AtEffect DEF EnterStop, Stopped
    <3>3. WithoutOperation'
      BY <1>1, <2>2, AtEffect DEF EnterStop, Stopped
    <3>4. job' = job \/ (job'.step = "take" /\ job'.by = job.by)
      BY <1>1, <2>2 DEF EnterStop, Stopped
    <3>5. WithoutJob'
      BY <3>1, <3>2, <3>4
    <3>6. a = "job" => job.step # "idle"
      BY <3>2
    <3>7. manager' = manager /\ (a # "job" => job' = job)
      BY <1>1, <2>2 DEF EnterStop, Stopped
    <3>8. ScheduleWaited'
      BY <3>4, <3>6, <3>7
    <3>9. NotDeleted' /\ StopsOnly'
      BY <3>1, <3>2, <3>7
    <3> QED
      BY <3>3, <3>5, <3>8, <3>9
  <2> QED
    BY <2>1, <2>2
<1>2. ASSUME NEW i \in Instances, NEW a \in Callers, StopDone(i, a) PROVE Calls'
  BY <1>2 DEF StopDone, Stopped, Awaited, At
<1>3. ASSUME NEW i \in Instances, NEW a \in Callers, EnterStart(i, a) PROVE Calls'
  <2>1. a \notin {"delete", "shutdown"} /\ manager' = manager
    BY <1>3 DEF EnterStart
  <2>2. CASE Active(i)
    <3>1. call'[i][a] = "none" /\ \A j \in Instances : \A b \in Callers : j # i \/ b # a => call'[j][b] = call[j][b]
      BY <1>3, <2>2, AtEffect DEF EnterStart, Entered, Started
    <3>2. job' = job \/ (job'.step = job.step /\ job'.by = job.by)
      BY <1>3, <2>2 DEF EnterStart, Entered, Started
    <3>3. \A j \in Instances : j # i => op'[j] = op[j]
      BY <1>3, <2>2 DEF EnterStart, Entered, Started
    <3>4. a # "op" => op' = op
      BY <1>3, <2>2 DEF EnterStart, Entered, Started
    <3> QED
      BY <2>1, <3>1, <3>2, <3>3, <3>4
  <2>3. CASE ~Active(i)
    <3>1. call'[i][a] = "starting" /\ \A j \in Instances : \A b \in Callers : j # i \/ b # a => call'[j][b] = call[j][b]
      BY <1>3, <2>3, AtEffect DEF EnterStart, Entered
    <3> QED
      BY <1>3, <2>1, <2>3, <3>1 DEF EnterStart, Entered
  <2> QED
    BY <2>2, <2>3
<1>4. ASSUME NEW i \in Instances, NEW a \in Callers, StartDone(i, a) PROVE Calls'
  BY <1>4 DEF StartDone, Started, At
<1>5. ASSUME NEW i \in Instances, Exit(i) PROVE Calls'
  BY <1>5 DEF Exit, Locked
<1>6. ASSUME NEW i \in Instances, Submit(i) PROVE Calls'
  <2>1. PICK stage \in {"start", "stop"} : At(i, "op", stage)
    BY <1>6 DEF Submit
  <2>2. \A j \in Instances : \A b \in Callers : j # i \/ b # "op" => call'[j][b] = call[j][b]
    BY <2>1, AtEffect
  <2>3. op'[i] # "none" /\ \A j \in Instances : j # i => op'[j] = op[j]
    BY <1>6 DEF Submit
  <2> QED
    BY <1>6, <2>2, <2>3 DEF Submit
<1>7. ASSUME NEW i \in Instances, OperationGone(i) PROVE Calls'
  BY <1>7 DEF OperationGone, At
<1>8. ASSUME NEW i \in Instances, Delete(i) PROVE Calls'
  BY <1>8 DEF Delete, DeleteStops, Active, Stopped, Awaited, Cancelled, At
<1>9. ASSUME NEW i \in Instances, DeleteGoesOn(i) PROVE Calls'
  BY <1>9 DEF DeleteGoesOn, DeleteStops, Active, Stopped, Awaited, At
<1>10. ASSUME InstallServer \/ ScheduledUpdate PROVE Calls'
  BY <1>10 DEF InstallServer, ScheduledUpdate, JobBegins, Active
<1>11. ASSUME NEW i \in Instances, JobTakes(i) PROVE Calls'
  <2>1. CASE op[i] = "none" /\ i \in known
    <3>1. At(i, "job", "stop") /\ job'.step = "take" /\ job'.by = job.by
      BY <1>11, <2>1 DEF JobTakes, StopOrFail
    <3>2. \A j \in Instances : \A b \in Callers : j # i \/ b # "job" => call'[j][b] = call[j][b]
      BY <3>1, AtEffect
    <3> QED
      BY <1>11, <2>1, <3>1, <3>2 DEF JobTakes
  <2>2. CASE op[i] = "none" /\ i \notin known
    <3>1. job'.step = "start" /\ job'.by = job.by /\ UNCHANGED <<call, op, manager>>
      BY <1>11, <2>2 DEF JobTakes, StopOrFail
    <3> QED
      BY <1>11, <3>1 DEF JobTakes
  <2>3. CASE op[i] # "none"
    <3>1. job'.step = "await" /\ job'.by = job.by /\ UNCHANGED <<call, manager>>
      BY <1>11, <2>3 DEF JobTakes
    <3>2. op'[i] = "cancelled" /\ \A j \in Instances : j # i => op'[j] = op[j]
      BY <1>11, <2>3 DEF JobTakes, Cancelled
    <3> QED
      BY <1>11, <3>1, <3>2 DEF JobTakes
  <2> QED
    BY <2>1, <2>2, <2>3
<1>12. ASSUME NEW i \in Instances, JobAwaits(i) PROVE Calls'
  <2>1. CASE i \in known
    <3>1. At(i, "job", "stop") /\ job'.step = "take" /\ job'.by = job.by
      BY <1>12, <2>1 DEF JobAwaits, StopOrFail
    <3>2. \A j \in Instances : \A b \in Callers : j # i \/ b # "job" => call'[j][b] = call[j][b]
      BY <3>1, AtEffect
    <3> QED
      BY <1>12, <2>1, <3>1, <3>2 DEF JobAwaits
  <2>2. CASE i \notin known
    <3>1. job'.step = "start" /\ job'.by = job.by /\ UNCHANGED <<call, op, manager>>
      BY <1>12, <2>2 DEF JobAwaits, StopOrFail
    <3> QED
      BY <1>12, <3>1 DEF JobAwaits
  <2> QED
    BY <2>1, <2>2
<1>13. ASSUME JobWorks PROVE Calls'
  BY <1>13 DEF JobWorks, SteamcmdEnds, InCall
<1>14. ASSUME NEW i \in Instances, JobStarts(i) PROVE Calls'
  <2>1. job'.step = "start" /\ job'.by = job.by
    BY <1>14 DEF JobStarts, Entered, Started
  <2>2. op' = op
    BY <1>14 DEF JobStarts, Entered, Started
  <2>3. \A j \in Instances : \A b \in Callers : j # i \/ b # "job" => call'[j][b] = call[j][b]
    <3>1. CASE UNCHANGED call
      BY <3>1
    <3>2. CASE \E stage \in {"start", "starting", "none"} : At(i, "job", stage)
      BY <3>2, AtEffect
    <3> QED
      BY <1>14, <3>1, <3>2 DEF JobStarts, Entered, Started
  <2> QED
    BY <1>14, <2>1, <2>2, <2>3 DEF JobStarts
<1>15. ASSUME JobEnds PROVE Calls'
  BY <1>15 DEF JobEnds, InCall
<1>16. ASSUME ShutdownBegins PROVE Calls'
  BY <1>16 DEF ShutdownBegins, JobCancelled
<1>17. ASSUME SchedulerGone PROVE Calls'
  BY <1>17 DEF SchedulerGone
<1>18. ASSUME NEW i \in Instances, ShutdownCancels(i) PROVE Calls'
  BY <1>18 DEF ShutdownCancels, Cancelled
<1>19. ASSUME ShutdownStops PROVE Calls'
  BY <1>19 DEF ShutdownStops, Active
<1>20. ASSUME ShutdownEnds PROVE Calls'
  BY <1>20 DEF ShutdownEnds
<1>21. CASE UNCHANGED vars
  BY <1>21 DEF vars
<1> QED
  BY <1>1, <1>2, <1>3, <1>4, <1>5, <1>6, <1>7, <1>8, <1>9, <1>10, <1>11, <1>12, <1>13, <1>14,
    <1>15, <1>16, <1>17, <1>18, <1>19, <1>20, <1>21 DEF Next, Lifecycle, Button, JobStep, Shutdown

\* Nothing is started in the last two phases of the shutdown.
LEMMA QuietStep == IInv /\ [Next]_vars => Quieting'
<1> SUFFICES ASSUME IInv, [Next]_vars PROVE Quieting'
  OBVIOUS
<1> USE DEF IInv, TypeOK, Callers, Stages, Job, Phases, Locks, LockIsExclusive, LaunchIsActive, Calls, WithoutOperation, WithoutJob, NotDeleted, StopsOnly,
  ScheduleWaited, Quieting, Quiet, BeingStopped, Active
<1>1. ASSUME NEW i \in Instances, NEW a \in Callers, EnterStop(i, a) PROVE Quieting'
  <2>1. CASE server[i] \in {"up", "stopping"}
    BY <1>1, <2>1, AtEffect DEF EnterStop
  <2>2. CASE server[i] \notin {"up", "stopping"}
    <3>1. \A j \in Instances : \A b \in Callers : j # i \/ b # a => call'[j][b] = call[j][b]
      BY <1>1, <2>2, AtEffect DEF EnterStop, Stopped
    <3>2. call[i][a] = "stop" /\ server' = [server EXCEPT ![i] = "down"] /\ known' \subseteq known
      BY <1>1, <2>2 DEF EnterStop, Stopped
    <3>3. UNCHANGED <<manager, outlived>> /\ (a \notin {"op", "job"} => UNCHANGED <<op, job>>)
      BY <1>1, <2>2 DEF EnterStop, Stopped
    <3>4. manager \in {"stopping", "gone"} /\ ~outlived => a \notin {"job", "delete"} /\ (i \in known => a # "op")
      BY <3>2
    <3>5. a = "op" => job' = job /\ \A j \in Instances : j # i => op'[j] = op[j]
      BY <1>1, <2>2 DEF EnterStop, Stopped
    <3> QED
      BY <3>1, <3>2, <3>3, <3>4, <3>5
  <2> QED
    BY <2>1, <2>2
<1>2. ASSUME NEW i \in Instances, NEW a \in Callers, StopDone(i, a) PROVE Quieting'
  BY <1>2 DEF StopDone, Stopped, Awaited, At
<1>3. ASSUME NEW i \in Instances, NEW a \in Callers, EnterStart(i, a) PROVE Quieting'
  BY <1>3 DEF EnterStart, Entered, Active, Started, Locked, At
<1>4. ASSUME NEW i \in Instances, NEW a \in Callers, StartDone(i, a) PROVE Quieting'
  BY <1>4 DEF StartDone, Started, At
<1>5. ASSUME NEW i \in Instances, Exit(i) PROVE Quieting'
  BY <1>5 DEF Exit, Locked
<1>6. ASSUME NEW i \in Instances, Submit(i) PROVE Quieting'
  BY <1>6 DEF Submit, Active, At
<1>7. ASSUME NEW i \in Instances, OperationGone(i) PROVE Quieting'
  BY <1>7 DEF OperationGone, At
<1>8. ASSUME NEW i \in Instances, Delete(i) PROVE Quieting'
  BY <1>8 DEF Delete, DeleteStops, Active, Stopped, Awaited, Cancelled, At
<1>9. ASSUME NEW i \in Instances, DeleteGoesOn(i) PROVE Quieting'
  BY <1>9 DEF DeleteGoesOn, DeleteStops, Active, Stopped, Awaited, At
<1>10. ASSUME InstallServer \/ ScheduledUpdate PROVE Quieting'
  BY <1>10 DEF InstallServer, ScheduledUpdate, JobBegins, Active
<1>11. ASSUME NEW i \in Instances, JobTakes(i) PROVE Quieting'
  BY <1>11 DEF JobTakes, StopOrFail, Cancelled, At, InCall
<1>12. ASSUME NEW i \in Instances, JobAwaits(i) PROVE Quieting'
  BY <1>12 DEF JobAwaits, StopOrFail, At
<1>13. ASSUME JobWorks PROVE Quieting'
  BY <1>13 DEF JobWorks, SteamcmdEnds, InCall
<1>14. ASSUME NEW i \in Instances, JobStarts(i) PROVE Quieting'
  BY <1>14 DEF JobStarts, Entered, Active, Started, Free, Locked, At, InCall
<1>15. ASSUME JobEnds PROVE Quieting'
  BY <1>15 DEF JobEnds, InCall
<1>16. ASSUME ShutdownBegins PROVE Quieting'
  BY <1>16 DEF ShutdownBegins, JobCancelled
<1>17. ASSUME SchedulerGone PROVE Quieting'
  BY <1>17 DEF SchedulerGone
<1>18. ASSUME NEW i \in Instances, ShutdownCancels(i) PROVE Quieting'
  BY <1>18 DEF ShutdownCancels, Cancelled
<1>19. ASSUME ShutdownStops PROVE Quieting'
  <2>1. job.step = "idle" \/ outlived'
    BY <1>19 DEF ShutdownStops
  <2>2. \A j \in known : op[j] = "none" /\ call'[j]["op"] = "none"
    BY <1>19 DEF ShutdownStops
  <2>3. job.step = "idle" => \A j \in known : call'[j]["job"] = "none"
    BY <1>19 DEF ShutdownStops
  <2>4. \A j \in known : Active(j) => call'[j]["shutdown"] = "stop"
    BY <1>19 DEF ShutdownStops
  <2> QED
    BY <1>19, <2>1, <2>2, <2>3, <2>4 DEF ShutdownStops
<1>20. ASSUME ShutdownEnds PROVE Quieting'
  BY <1>20 DEF ShutdownEnds
<1>21. CASE UNCHANGED vars
  BY <1>21 DEF vars
<1> QED
  BY <1>1, <1>2, <1>3, <1>4, <1>5, <1>6, <1>7, <1>8, <1>9, <1>10, <1>11, <1>12, <1>13, <1>14,
    <1>15, <1>16, <1>17, <1>18, <1>19, <1>20, <1>21 DEF Next, Lifecycle, Button, JobStep, Shutdown

\* The invariant is inductive.
LEMMA IInvHolds == Spec => []IInv
<1>1. IInv /\ [Next]_vars => IInv'
  BY TypeStep, LockStep, OrphanStep, OwedStep, CallStep, QuietStep DEF IInv
<1> QED
  BY <1>1, InitIInv, PTL DEF Spec

\* Every variable keeps its type.
THEOREM TypeCorrect == Spec => []TypeOK
<1>1. IInv => TypeOK
  BY DEF IInv
<1> QED
  BY <1>1, IInvHolds, PTL

\* Once an update is over, what it took down has been started or deleted
\* (the finally clause of run_update).
THEOREM ComesBackHolds == Spec => []ComesBack
<1>1. IInv => ComesBack
  BY DEF IInv, Debts, OwedIsKept, IdleIsEmpty, ComesBack
<1> QED
  BY <1>1, IInvHolds, PTL

\* A manager that has shut down (stop_background, shutdown_all) leaves no server
\* of its instances running, unless it overtook an update of the web server's.
THEOREM NothingRunsOnHolds == Spec => []NothingRunsOn
<1>1. IInv => NothingRunsOn
  BY DEF IInv, TypeOK, Quieting, BeingStopped, Active, NothingRunsOn
<1> QED
  BY <1>1, IInvHolds, PTL

\* A deleted instance has no server (InstanceManager.delete), unless a start
\* waited for its deletion.
THEOREM NoOrphansHolds == Spec => []NoOrphans
<1>1. IInv => NoOrphans
  BY DEF IInv, Orphans
<1> QED
  BY <1>1, IInvHolds, PTL

-----------------------------------------------------------------------------
(***************************************************************************)
(* Updates asks of each supervisor only what InstanceLifecycle promises.   *)
(* The views compose: "down" is stopped or crashed, a server that is up or *)
(* stopping has a process, and what lies within a call that holds the lock *)
(* is one step here: a launch is Spawn and Up, an exit Die and Settle.     *)
(***************************************************************************)
HasProcess(i) == server[i] \in {"up", "stopping"}
StatusOf(i) ==
  IF server[i] = "down" THEN "stopped" ELSE IF server[i] = "up" THEN "running" ELSE server[i]

Life(i) == INSTANCE InstanceLifecycle WITH status <- StatusOf(i), alive <- HasProcess(i)

SpawnAndUp(i) ==
  /\ StatusOf(i) = "starting" /\ ~HasProcess(i)
  /\ StatusOf(i)' = "running" /\ HasProcess(i)'
DieAndSettle(i) ==
  /\ HasProcess(i)
  /\ StatusOf(i)' = "stopped" /\ ~HasProcess(i)'

Lives(i) == Life(i)!LifecycleNext \/ SpawnAndUp(i) \/ DieAndSettle(i) \/ UNCHANGED server[i]

\* What the status may do, seen from here.
Turns(i) ==
  \/ server[i] = "down" /\ server'[i] = "starting"
  \/ server[i] = "starting" /\ server'[i] = "up"
  \/ server[i] \in {"up", "stopping"} /\ server'[i] = "stopping"
  \/ server'[i] = "down"

LEMMA TurnsLive ==
  ASSUME TypeOK, NEW i \in Instances, Turns(i)
  PROVE  Lives(i)
<1>0. server[i] \in {"down", "starting", "up", "stopping"}
  BY DEF TypeOK
<1>1. CASE server[i] = "down" /\ server'[i] = "starting"
  BY <1>1 DEF Lives, Life!LifecycleNext, Life!Accept, Life!Active, StatusOf, HasProcess
<1>2. CASE server[i] = "starting" /\ server'[i] = "up"
  BY <1>2 DEF Lives, SpawnAndUp, StatusOf, HasProcess
<1>3. CASE server[i] \in {"up", "stopping"} /\ server'[i] = "stopping"
  BY <1>3 DEF Lives, Life!LifecycleNext, Life!AskStop, StatusOf, HasProcess
<1>4. CASE HasProcess(i) /\ server'[i] = "down"
  BY <1>4 DEF Lives, DieAndSettle, StatusOf, HasProcess
<1>5. CASE server[i] = "starting" /\ server'[i] = "down"
  BY <1>5 DEF Lives, Life!LifecycleNext, Life!Settle, StatusOf, HasProcess
<1>6. CASE server[i] = "down" /\ server'[i] = "down"
  BY <1>6 DEF Lives
<1> QED BY <1>0, <1>1, <1>2, <1>3, <1>4, <1>5, <1>6 DEF Turns, HasProcess

\* A launch has been accepted before it succeeds, because of LaunchIsActive.
LEMMA ServersTurn ==
  ASSUME TypeOK, Locks, [Next]_vars, NEW i \in Instances
  PROVE  Turns(i) \/ UNCHANGED server[i]
<1> USE DEF Turns
<1>1. CASE UNCHANGED server
  BY <1>1
<1>2. ASSUME NEW j \in Instances, NEW a \in Callers,
             EnterStop(j, a) \/ StopDone(j, a) \/ EnterStart(j, a) \/ StartDone(j, a)
      PROVE  Turns(i) \/ UNCHANGED server[i]
  <2>1. CASE EnterStop(j, a) \/ StopDone(j, a) \/ EnterStart(j, a)
    BY <2>1 DEF EnterStop, StopDone, EnterStart, Entered, Active, TypeOK
  <2>2. CASE StartDone(j, a)
    <3>1. server[j] = "starting"
      BY <2>2 DEF StartDone, Locks, LaunchIsActive
    <3> QED BY <3>1, <2>2 DEF StartDone, TypeOK
  <2> QED BY <1>2, <2>1, <2>2
<1>3. ASSUME NEW j \in Instances, Exit(j) PROVE Turns(i) \/ UNCHANGED server[i]
  BY <1>3 DEF Exit, TypeOK
<1>4. ASSUME NEW j \in Instances, JobStarts(j) PROVE Turns(i) \/ UNCHANGED server[i]
  BY <1>4 DEF JobStarts, Entered, Active, TypeOK
<1>5. ASSUME NEW j \in Instances,
             \/ Submit(j) \/ OperationGone(j) \/ Delete(j) \/ DeleteGoesOn(j)
             \/ JobTakes(j) \/ JobAwaits(j) \/ ShutdownCancels(j)
      PROVE  UNCHANGED server
  BY <1>5 DEF Submit, OperationGone, Delete, DeleteGoesOn, JobTakes, JobAwaits, ShutdownCancels
<1>6. CASE \/ InstallServer \/ ScheduledUpdate \/ JobWorks \/ JobEnds \/ ShutdownBegins
           \/ SchedulerGone \/ ShutdownStops \/ ShutdownEnds \/ UNCHANGED vars
  <2>1. UNCHANGED server
    BY <1>6 DEF InstallServer, ScheduledUpdate, JobBegins, JobWorks, JobEnds, ShutdownBegins,
                SchedulerGone, ShutdownStops, ShutdownEnds, vars
  <2> QED BY <2>1, <1>1
<1> QED BY <1>1, <1>2, <1>3, <1>4, <1>5, <1>6 DEF Next, Lifecycle, Button, JobStep, Shutdown

\* Whatever updates, operators, deletions and the shutdown do at once, every
\* instance lives as InstanceLifecycle says, which is what Supervisor implements.
THEOREM LiveAsPromised ==
  Spec => (\A i \in Instances : Life(i)!LifecycleInit) /\ [][\A i \in Instances : Lives(i)]_vars
<1>1. Init => \A i \in Instances : Life(i)!LifecycleInit
  BY DEF Init, Life!LifecycleInit, StatusOf, HasProcess
<1>2. IInv /\ [Next]_vars => [\A i \in Instances : Lives(i)]_vars
  <2> SUFFICES ASSUME IInv, [Next]_vars, NEW i \in Instances PROVE Lives(i)
    OBVIOUS
  <2>1. Turns(i) \/ UNCHANGED server[i]
    BY ServersTurn DEF IInv
  <2> QED BY <2>1, TurnsLive DEF IInv, Lives
<1> QED BY <1>1, <1>2, IInvHolds, PTL DEF Spec
=============================================================================
