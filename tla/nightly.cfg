\* Two instances, two days, one file in the package, a check or an install by hand beside the schedule.
SPECIFICATION Spec
CONSTANTS
  Fetchers = {"schedule", "hand"}
  Members = {m}
  Instances = {i1, i2}
  None = None
  MaxDays = 2
  MaxUpsets = 2
CONSTRAINT FewAtOnce
SYMMETRY Symmetric
CHECK_DEADLOCK FALSE
INVARIANTS
  ServedWhole
  OncePerDay
  CurrentOrSaid
