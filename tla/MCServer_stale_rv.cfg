\* setup_crypto_context checks the stale rv of the secret export after
\* deriving each key and IV, so a failed derivation is installed.
CONSTANTS
  p1 = p1
  p2 = p2
  Peers <- MCPeers
  CH_LEN = 2
  FIN_LEN = 1
  FLIGHT_LEN = 2
  CryptoFailPoints = {"key_tx", "iv_rx"}
  ConnNewMayFail = FALSE
SPECIFICATION Spec
INVARIANT InstalledKeysValid
SYMMETRY PeerSymmetry
CHECK_DEADLOCK FALSE
