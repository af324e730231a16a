---------------------------- MODULE MCServer3 ------------------------------
(* Model-checking instance of Server with three peers (model values).     *)
EXTENDS Server

CONSTANTS p1, p2, p3

MCPeers3 == {p1, p2, p3}

\* Peers are interchangeable keys of handlers_.
PeerSymmetry3 == Permutations(MCPeers3)

=============================================================================
