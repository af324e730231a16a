\* Handler::on_write returns -1 when sendto fails and Server::on_read then
\* erases (or never inserts) the session.
CONSTANTS
  p1 = p1
  p2 = p2
  Peers <- MCPeers
  CH_LEN = 2
  FIN_LEN = 1
  FLIGHT_LEN = 2
  CryptoFailPoints = {}
  ConnNewMayFail = FALSE
SPECIFICATION Spec
INVARIANT WriteFailureKeepsSession
SYMMETRY PeerSymmetry
CHECK_DEADLOCK FALSE
