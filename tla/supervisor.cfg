\* Two tasks, two launches, hosts with at most one fault.
SPECIFICATION FairSpec
CONSTANTS
  Tasks = {t1, t2}
  Runs = {r1, r2}
  NoRun = NoRun
  NoTask = NoTask
  Faults <- AllFaults
CONSTRAINT OneFault
INVARIANTS
  OneServer
PROPERTIES
  NeverForgotten
  StopIsFinal
  NoForeignLines
  ImplementsLifecycle
  CallsReturn
  ExitNoticed
