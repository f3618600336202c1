\* Two players.
SPECIFICATION FairSpec
CONSTANTS
  Players = {p1, p2}
INVARIANTS
  BanStands
  NobodyStranded
PROPERTIES
  KickLifts
