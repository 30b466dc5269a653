CONSTANTS
  MaxSessions = 2
  MaxMessages = 2
SPECIFICATION FairSpec
CHECK_DEADLOCK FALSE
PROPERTY EverySessionHears
