\* The session table, the bridge and key installation with three peers, a
\* two-byte ClientHello, a two-byte Finished (so it can arrive split) and a two-byte server flight.
CONSTANTS
  p1 = p1
  p2 = p2
  p3 = p3
  Peers <- MCPeers3
  CH_LEN = 2
  FIN_LEN = 2
  FLIGHT_LEN = 2
  CryptoFailPoints = {"prf", "export_tx", "key_tx", "export_rx", "iv_rx"}
  ConnNewMayFail = TRUE
SPECIFICATION Spec
INVARIANTS
  TypeOK
  KeysMatchHandshake
  AdmittedAfterServerFlight
  TimerArmedWhileLive
PROPERTIES
  BridgeIsFifo
\* The server process stops (undefined behaviour) once a datagram reaches a
\* deleted Handler; no other state is final.
CHECK_DEADLOCK FALSE
