------------------------ MODULE MCVersionNegotiation ------------------------
(* Inputs for VersionNegotiation: IPv4 sockaddr prefixes (family AF_INET  *)
(* in host order, then the port in network order), with edge bytes.       *)
EXTENDS VersionNegotiation

Edge == {0, 1, 10, 127, 128, 255}

MCAddrs == {<<2, 0, a, b>> : a, b \in Edge}

\* 0x00000099 (the spec's example), a draft version, all-ones, and a
\* version that already has the reserved pattern.
MCVersions == {<<0, 0, 0, 153>>, <<255, 0, 0, 4>>, <<255, 255, 255, 255>>,
               <<10, 10, 10, 10>>}

MCProtoVersion == <<255, 0, 0, 5>>   \* 0xff000005

\* A client greasing the version field: 127.0.0.1:40001 as the 16 bytes of
\* a sockaddr_in (family, port 0x9c41, address, zero padding), asking for
\* each of the 4096 reserved versions 0x1a?a?a?a (all 65536 take TLC
\* minutes; the answer is the same).
MCGreaseAddrs == {<<2, 0, 156, 65, 127, 0, 0, 1>> \o [i \in 1..8 |-> 0]}

MCGreaseVersions == {<<16 * a + 10, 16 * b + 10, 16 * c + 10, 16 * d + 10>> : a \in {1}, b, c, d \in 0..15}

=============================================================================
