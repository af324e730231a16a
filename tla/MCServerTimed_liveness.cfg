\* Every Handler is released by its idle timer, assuming only that time
\* passes and libev runs expired timers (datagrams are never assumed).
CONSTANTS
  p1 = p1
  p2 = p2
  Peers <- MCPeers
  CH_LEN = 2
  FIN_LEN = 2
  FLIGHT_LEN = 2
  CryptoFailPoints = {"export_rx", "key_tx"}
  ConnNewMayFail = FALSE
  IDLE_TIMEOUT = 3
SPECIFICATION TFairSpec
PROPERTY IdleSessionEventuallyReleased
\* The server process stops (undefined behaviour) once a datagram reaches a
\* deleted Handler; no other state is final.
CHECK_DEADLOCK FALSE
