\* Two names, two files, an upload; three snapshots and three saves.
SPECIFICATION Spec
CONSTANTS
  Names = {n1, n2}
  First = n1
  Files = {db, fwl}
  Uploads = {u1}
  Keep = 1
  Pairs = TRUE
  MaxSaves = 2
  MaxSnaps = 3
CONSTRAINT Bounded
SYMMETRY Symmetric
INVARIANTS
  WayBack
  ListedIsComplete
  PruneSpares
PROPERTIES
  RestoredAsAsked
  LoadsWhole
