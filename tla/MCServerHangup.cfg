CONSTANTS
  Conns = {c1, c2}
  NoConn = NoConn
  MaxClients = 1
  Sockets = {5, 6}
  Requests = {"GET_DATA"}
  MaxMsgs = 1
  Faults = {"hangup"}
SPECIFICATION Spec
CHECK_DEADLOCK FALSE
INVARIANT SurvivesHangup
