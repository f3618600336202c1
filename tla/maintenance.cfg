\* Both jobs and an operator, two mod sets.
SPECIFICATION MaintenanceFairSpec
CONSTANTS
  Jobs <- AllJobs
  MaxMods = 2
INVARIANT BroughtBack
PROPERTIES
  NewsOnce
  HandRestartAnnounced
  BackToNormal
