------------------------- MODULE MCHandshakeServer -------------------------
(***************************************************************************)
(* Model-checking instances of HandshakeServer.                            *)
(***************************************************************************)
EXTENDS HandshakeServer, TLC

\* Public keys are only compared for equality, and so are connections (which
\* also name session ids and PSKs): permuting them changes nothing. Not used
\* with the liveness properties.
Symmetry == Permutations(Peers) \cup Permutations(Conns)
=============================================================================
