------------------------- MODULE VersionNegotiation -------------------------
(***************************************************************************)
(* The Version Negotiation answer of examples/server.cc: Server::on_read   *)
(* sends it when ngtcp2_accept reports an unsupported version from an      *)
(* endpoint with no session; send_version_negotiation lists a reserved     *)
(* version from generate_reserved_vesrion, then NGTCP2_PROTO_VERSION.      *)
(*                                                                         *)
(* generate_reserved_vesrion is FNV-1a (32-bit) over the sockaddr bytes    *)
(* and the requested version in network byte order, then masked to the    *)
(* 0x?a?a?a?a pattern of reserved QUIC versions.  TLC integers stop at     *)
(* 2^31, so a uint32_t is a pair <<hi, lo>> of 16-bit halves; a version on *)
(* the wire is its four bytes, most significant first.                     *)
(***************************************************************************)
EXTENDS Integers, Sequences, SequencesExt, Bitwise

CONSTANTS
  Addrs,          \* sockaddr byte strings of peers (as recvfrom fills them)
  Versions,       \* requested versions, as 4 bytes in network order
  PROTO_VERSION   \* NGTCP2_PROTO_VERSION, as 4 bytes in network order

Byte == 0..255
ASSUME Addrs \subseteq Seq(Byte) /\ Versions \subseteq [1..4 -> Byte]
ASSUME PROTO_VERSION \in [1..4 -> Byte]

W16 == 65536

UInt32 == (0..(W16 - 1)) \X (0..(W16 - 1))   \* as <<hi, lo>>

\* A uint32_t as the four network-order bytes ngtcp2_upe_encode_version_negotiation
\* writes for each entry of sv.
ToBytes(w) == <<w[1] \div 256, w[1] % 256, w[2] \div 256, w[2] % 256>>

\* h *= 0x01000193u, modulo 2^32: (hi*2^16 + lo) * (0x0100*2^16 + 0x0193).
MulPrime(w) ==
  LET plo == w[2] * 403 IN
  <<(w[1] * 403 + w[2] * 256 + plo \div W16) % W16, plo % W16>>

\* Mutant: FNV-1 order, multiply before the xor.
FnvStep_mul_first(w, b) == LET m == MulPrime(w) IN <<m[1], m[2] ^^ b>>

\* One round of the loops: h ^= *p; h *= 0x01000193u.
FnvStep(w, b) == MulPrime(<<w[1], w[2] ^^ b>>)

FNV_OFFSET == <<33052, 40389>>   \* 0x811C9DC5u

\* for (; p != ep; ++p) { h ^= *p; h *= 0x01000193u; }
RECURSIVE FnvLoop(_, _)
FnvLoop(h, bytes) ==
  IF bytes = <<>> THEN h
  ELSE LET next == FnvStep(h, Head(bytes)) IN
       \* h stays a uint32_t (naming its range also makes TLC compute
       \* each round before the next, instead of one deep expression)
       CASE next \in UInt32 -> FnvLoop(next, Tail(bytes))

\* The hash before masking: the sockaddr bytes, then htonl(version).
fnv1a(sa, version) == FnvLoop(FNV_OFFSET, sa \o version)

\* h &= 0xf0f0f0f0u; h |= 0x0a0a0a0au.
generate_reserved_version(sa, version) ==
  LET h == fnv1a(sa, version) IN
  <<(h[1] & 61680) | 2570, (h[2] & 61680) | 2570>>

\* send_version_negotiation: the header echoes the client's (abstracted
\* here) and the body lists sv = {reserved_ver, NGTCP2_PROTO_VERSION}.
version_negotiation_packet(sa, version) ==
  [type |-> "version_negotiation",
   versions |-> <<ToBytes(generate_reserved_version(sa, version)), PROTO_VERSION>>]

-----------------------------------------------------------------------------
(* Reference: FNV-1a on a uint32_t held as 4 little-endian bytes, with the *)
(* product computed by schoolbook multiplication, byte by byte.            *)
PrimeLE == <<147, 1, 0, 1>>   \* 0x01000193 little-endian

RefMul(b) ==
  LET RECURSIVE col(_)
      col(k) == LET below == IF k = 1 THEN 0 ELSE col(k - 1) \div 256
                IN below + FoldLeft(LAMBDA x, y : x + y, 0, [i \in 1..k |-> b[i] * PrimeLE[k + 1 - i]])
  IN [k \in 1..4 |-> col(k) % 256]

RECURSIVE RefFnv(_, _)
RefFnv(b, s) ==
  IF s = <<>> THEN b
  ELSE RefFnv(RefMul([b EXCEPT ![1] = @ ^^ Head(s)]), Tail(s))

RefOffset == <<197, 157, 28, 129>>   \* 0x811C9DC5 little-endian

-----------------------------------------------------------------------------
\* The packet send_version_negotiation has encoded into buf and not yet
\* handed to sendto, with the request it answers (sockaddr and version).
VARIABLE buf

vars == <<buf>>

None == [type |-> "none"]

Init == buf = None

\* Server::on_read: a datagram long enough for its family, from an endpoint
\* without a session, that ngtcp2_accept finds to carry an unsupported
\* version (hd.version); send_version_negotiation encodes the answer.
ReceiveUnsupported ==
  /\ buf = None
  /\ \E sa \in Addrs, v \in Versions :
       buf' = [pkt |-> version_negotiation_packet(sa, v), sa |-> sa, version |-> v]

\* sendto(fd_, buf.data(), pktlen, ...): the packet leaves (a failure is
\* only logged); the server keeps nothing of it.
SendTo ==
  /\ buf # None
  /\ buf' = None

Next == ReceiveUnsupported \/ SendTo

Spec == Init /\ [][Next]_vars

\* The halves arithmetic of generate_reserved_vesrion computes 32-bit
\* FNV-1a: it agrees with a byte-wise reference on every input sent.
FnvMatchesReference ==
  buf # None =>
    LET ref == RefFnv(RefOffset, buf.sa \o buf.version)
        h == fnv1a(buf.sa, buf.version)
    IN ToBytes(h) = <<ref[4], ref[3], ref[2], ref[1]>>

\* A Version Negotiation packet never lists the version the client asked
\* for: it tells a peer that its version is unsupported and which ones
\* are (spec 4.5, glossary).  generate_reserved_vesrion hashes the
\* requested version into a reserved one, which a client greasing with a
\* reserved version may itself have chosen.
NeverListsRequestedVersion ==
  buf # None => \A i \in 1..2 : buf.pkt.versions[i] # buf.version

=============================================================================
