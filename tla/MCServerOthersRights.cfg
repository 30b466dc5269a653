CONSTANTS
  Conns = {c1, c2}
  NoConn = NoConn
  MaxClients = 1
  Sockets = {5, 6}
  Requests = {"AUTH:good", "RECHARGE"}
  MaxMsgs = 1
  Faults = {"timeout"}
SPECIFICATION Spec
CHECK_DEADLOCK FALSE
INVARIANT OnlyAdministratorsCommand
