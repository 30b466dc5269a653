CONSTANTS
  Conns = {c1, c2}
  NoConn = NoConn
  MaxClients = 2
  Sockets = {5, 6}
  Requests = {"AUTH:good"}
  MaxMsgs = 1
  Faults = {"hangup", "stall"}
SPECIFICATION FairSpec
CHECK_DEADLOCK FALSE
PROPERTIES
  GoneIsRemoved
  RequestIsAnswered
  ConnectionIsAccepted
