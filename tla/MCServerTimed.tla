--------------------------- MODULE MCServerTimed ----------------------------
(* Model-checking instance of ServerTimed: peers are model values. *)
EXTENDS ServerTimed

CONSTANTS p1, p2

MCPeers == {p1, p2}

\* Peers are interchangeable keys of handlers_.
PeerSymmetry == Permutations(MCPeers)

=============================================================================
