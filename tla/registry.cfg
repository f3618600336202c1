\* Three ids, room for two port ranges, one fault at a time.
SPECIFICATION Spec
CONSTANTS
  Ids = {i1, i2, i3}
  Ports = {1, 3, 4}
  LowPort = 1
  DefaultPort = 1
  EndPort = 5
  Channels = {c1}
  NoChannel = NoChannel
  Absent = Absent
CONSTRAINTS
  OneFault
  FirstStart
  SomeSure
SYMMETRY Symmetric
INVARIANTS
  RunningPortsDisjoint
  ChannelsDistinct
PROPERTIES
  RestartKeeps
