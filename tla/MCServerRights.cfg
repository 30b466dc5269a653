CONSTANTS
  Conns = {c1, c2}
  NoConn = NoConn
  MaxClients = 1
  Sockets = {5, 6}
  Requests = {"AUTH:good", "unknown", "LIST_USERS", "GET_DATA"}
  MaxMsgs = 2
  Faults = {"timeout", "slow"}
SYMMETRY ConnSymmetry
SPECIFICATION Spec
CHECK_DEADLOCK FALSE
INVARIANTS
  OnlyOwnRights
  ReplyToSender
