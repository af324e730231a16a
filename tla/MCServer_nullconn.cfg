\* Handler::init fails in ngtcp2_conn_server_new; Server::on_read ignores
\* it and feeds the datagram to a Handler whose conn_ is nullptr.
CONSTANTS
  p1 = p1
  p2 = p2
  Peers <- MCPeers
  CH_LEN = 2
  FIN_LEN = 1
  FLIGHT_LEN = 2
  CryptoFailPoints = {}
  ConnNewMayFail = TRUE
SPECIFICATION Spec
INVARIANT NoNullConnUse
SYMMETRY PeerSymmetry
CHECK_DEADLOCK FALSE
