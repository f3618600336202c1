\* Two requests at once; three packages, one of them in two versions.
SPECIFICATION Spec
CONSTANTS
  Requests = {r1, r2}
  Packages = {core, lib, mod}
  Core = core
  lib = lib
  mod = mod
  Newest <- MCNewest
  Needs <- MCNeeds
  Asked = {mod}
  Exports <- MCExports
SYMMETRY Symmetric
CONSTRAINT Bounded
INVARIANTS
  AsRecorded
  DependenciesKept
