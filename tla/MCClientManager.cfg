CONSTANTS
  MaxClients = 3
  Sockets = {4, 5}
  Peers = {p1, p2}
  NoPeer = NoPeer
SYMMETRY PeerSymmetry
SPECIFICATION TableSpec
INVARIANTS
  TableTypeOK
  CountExact
