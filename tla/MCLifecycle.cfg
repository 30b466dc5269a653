CONSTANTS
  Clients = {c1, c2}
  MaxLate = 2
  MaxSignals = 2
SPECIFICATION FairSpec
CHECK_DEADLOCK FALSE
INVARIANTS
  TypeOK
  RunningIsWhole
  WindsDown
PROPERTY
  SignalEnds
