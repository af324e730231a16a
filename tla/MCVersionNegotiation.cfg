\* Every combination of 36 peer addresses and 4 requested versions.
CONSTANTS
  Addrs <- MCAddrs
  Versions <- MCVersions
  PROTO_VERSION <- MCProtoVersion
SPECIFICATION Spec
INVARIANTS
  FnvMatchesReference
