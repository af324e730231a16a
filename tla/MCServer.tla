----------------------------- MODULE MCServer ------------------------------
(* Model-checking instance of Server: peers are model values. *)
EXTENDS Server

CONSTANTS p1, p2

MCPeers == {p1, p2}

\* Peers are interchangeable keys of handlers_.
PeerSymmetry == Permutations(MCPeers)

=============================================================================
