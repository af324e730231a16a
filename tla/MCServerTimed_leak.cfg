\* timeoutcb deletes the Handler but not its handlers_ entry; with time
\* passing and timers running (TFairSpec) the entry is never evicted.
CONSTANTS
  p1 = p1
  p2 = p2
  Peers <- MCPeers
  CH_LEN = 2
  FIN_LEN = 1
  FLIGHT_LEN = 2
  CryptoFailPoints = {}
  ConnNewMayFail = FALSE
  IDLE_TIMEOUT = 2
SPECIFICATION TFairSpec
PROPERTY EntryEventuallyEvicted
CHECK_DEADLOCK FALSE
