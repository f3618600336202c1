\* Two instances; the system stops for good when the manager is gone.
SPECIFICATION FairSpec
CONSTANTS
  Instances = {i1, i2}
  NoInstance = NoInstance
INVARIANTS
  ComesBack
  NothingRunsOn
  NoOrphans
PROPERTIES
  ShutdownComesToEnd
CHECK_DEADLOCK FALSE
