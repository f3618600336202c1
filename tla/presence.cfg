\* Three players, one of them by crossplay, and three characters' names; one player's entry in the
\* roster.
SPECIFICATION PresenceSpec
CONSTANTS
  Accounts = {p1, p2, x}
  Crossplay = {x}
  Recorded = {p1}
  Names = {n1, n2, n3}
  NoName = NoName
  Absent = Absent
CONSTRAINTS
  SomeClear
  SaveApart
SYMMETRY Symmetric
INVARIANTS
  OwnName
  RosterKept
