\* The timer started by Handler::init is never restarted by a read, so an
\* active session is deleted IDLE_TIMEOUT after it was made.
CONSTANTS
  p1 = p1
  p2 = p2
  Peers <- MCPeers
  CH_LEN = 2
  FIN_LEN = 1
  FLIGHT_LEN = 2
  CryptoFailPoints = {}
  ConnNewMayFail = FALSE
  IDLE_TIMEOUT = 2
SPECIFICATION TSpec
PROPERTY IdleTimeoutOnlyWhenIdle
SYMMETRY PeerSymmetry
CHECK_DEADLOCK FALSE
