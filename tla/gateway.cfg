\* Two instances, two guilds, one request at a time beside READY.
SPECIFICATION GatewayFairSpec
CONSTANTS
  Instances = {i1, i2}
  Guilds = {g1, g2}
  Requests = {s}
  None = None
  MaxSessions = 3
  MaxNumber = 3
  MaxUpsets = 2
CHECK_DEADLOCK FALSE
INVARIANTS
  OnceInOrder
  MenusMatch
PROPERTIES
  BackUp
