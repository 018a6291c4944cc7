--------------------------- MODULE MCDecisionGate ---------------------------
(***************************************************************************)
(* Model-checking instance of DecisionGate: probabilities in twentieths,   *)
(* so that the shipped margin of 0.15 is exactly three of them.            *)
(***************************************************************************)
EXTENDS DecisionGate

Twentieths == {p \in [Actions -> 0..20] : p[0] + p[1] + p[2] + p[3] = 20}
=============================================================================
