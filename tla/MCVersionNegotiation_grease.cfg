\* A client that asks for a reserved version can be told that version is
\* one of the server's.
CONSTANTS
  Addrs <- MCGreaseAddrs
  Versions <- MCGreaseVersions
  PROTO_VERSION <- MCProtoVersion
SPECIFICATION Spec
INVARIANT NeverListsRequestedVersion
