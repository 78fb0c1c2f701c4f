-------------------------- MODULE MCConnectorSync --------------------------
EXTENDS ConnectorSync, TLC

(* Workers are alike.                                                      *)
Symmetry == Permutations(Workers)
=============================================================================
