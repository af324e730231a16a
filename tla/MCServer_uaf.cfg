\* timeoutcb deletes a Handler that handlers_ still holds; the next
\* datagram from that endpoint is dispatched to freed memory.
CONSTANTS
  p1 = p1
  p2 = p2
  Peers <- MCPeers
  CH_LEN = 2
  FIN_LEN = 1
  FLIGHT_LEN = 2
  CryptoFailPoints = {}
  ConnNewMayFail = FALSE
SPECIFICATION Spec
INVARIANT NoUseAfterFree
SYMMETRY PeerSymmetry
CHECK_DEADLOCK FALSE
