------------------------ MODULE MCHandshakeProtocol ------------------------
(***************************************************************************)
(* Model-checking instances of HandshakeProtocol.                          *)
(***************************************************************************)
EXTENDS HandshakeProtocol, TLC

\* As in MCHandshakeServer; identities are compared for equality only.
Symmetry == Permutations(Peers) \cup Permutations(Conns) \cup Permutations(Keys)
=============================================================================
