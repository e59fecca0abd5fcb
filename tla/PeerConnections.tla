-------------------------- MODULE PeerConnections --------------------------
(***************************************************************************)
(* What a swarm promises of the connections it opens: it opens them to     *)
(* peers that were found, over protocols that connected, and it hands at   *)
(* most one per peer to the application.  Discovery, commands, wake-ups    *)
(* and the order in which the sources are polled do not appear.            *)
(***************************************************************************)
CONSTANTS
    Peers,
    Protocols

VARIABLES
    found,   \* the peers that the discovery has found
    up,      \* the connections, <<peer, protocol>>, that were established
    handed   \* those that were handed to the application

vars == <<found, up, handed>>

TypeOK == /\ found \subseteq Peers
          /\ up \subseteq found \X Protocols
          /\ handed \subseteq up

Init == /\ found = {}
        /\ up = {}
        /\ handed = {}

Find(peers) ==
    /\ found' = found \cup peers
    /\ UNCHANGED <<up, handed>>

Establish(p, x) ==
    /\ p \in found
    /\ up' = up \cup {<<p, x>>}
    /\ UNCHANGED <<found, handed>>

HandOver(p, x) ==
    /\ <<p, x>> \in up
    /\ \A y \in Protocols : <<p, y>> \notin handed
    /\ handed' = handed \cup {<<p, x>>}
    /\ UNCHANGED <<found, up>>

Next ==
    \/ \E peers \in SUBSET Peers : Find(peers)
    \/ \E p \in Peers, x \in Protocols : Establish(p, x) \/ HandOver(p, x)

Spec == Init /\ [][Next]_vars
=============================================================================
