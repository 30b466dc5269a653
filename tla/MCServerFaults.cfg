CONSTANTS
  Conns = {c1, c2, c3}
  NoConn = NoConn
  MaxClients = 2
  Sockets = {5, 6, 7}
  Requests = {"GET_DATA"}
  MaxMsgs = 0
  Faults = {"hangup", "timeout", "slow", "no_thread"}
SYMMETRY ConnSymmetry
SPECIFICATION Spec
CHECK_DEADLOCK FALSE
INVARIANTS
  TypeOK
  AddSucceeds
  TableSound
  EveryClientServed
  NoOtherLeak
PROPERTIES
  TableRefined
  RefusalMissesOneSlot
  ReusedOnlyAfterLeaving
