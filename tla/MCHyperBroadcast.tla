-------------------------- MODULE MCHyperBroadcast --------------------------
(* The values that the configurations give to the constants of             *)
(* HyperBroadcast.                                                         *)
EXTENDS HyperBroadcast

CONSTANTS c1, c2, c3, utp, tcp

\* An outgoing and an incoming uTP connection to one peer have the same id.
TwoNamesakes == [c \in {c1, c2, c3} |-> IF c = c3 THEN tcp ELSE utp]
=============================================================================
