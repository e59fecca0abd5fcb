---------------------------- MODULE MCHyperswarm ----------------------------
(* The values that the configurations give to the constants of Hyperswarm. *)
EXTENDS Hyperswarm, TLC

CONSTANTS p1, p2

On  == [announce |-> TRUE, lookup |-> TRUE]
LookupOnly == [announce |-> FALSE, lookup |-> TRUE]
Off == [announce |-> FALSE, lookup |-> FALSE]

\* An application that looks one topic up, and one that changes its mind.
OnlyLookup == {LookupOnly}
OnOrOff == {On, Off}

\* Lookups that find one peer; two; either.
OnePeer == {<<p1>>}
TwoPeers == {<<p1, p2>>}
OneOrTwoPeers == {<<p1>>, <<p1, p2>>}
=============================================================================
