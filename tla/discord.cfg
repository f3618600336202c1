\* Two requests at once, two starts, a queue of one.
SPECIFICATION FairSpec
CONSTANTS
  Savers = {s1, s2}
  Keys = {k}
  NoKey = NoKey
  QueueLimit = 1
  MaxAttempts = 2
  MaxEvents = 2
  MaxStarts = 2
CONSTRAINT FewWhenOverlapped
CHECK_DEADLOCK FALSE
INVARIANTS
  SaidOnce
  NothingForgotten
PROPERTIES
  InOrder
  PumpGoesOn
