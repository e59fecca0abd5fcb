---------------------------- MODULE SwarmNetwork ----------------------------
(***************************************************************************)
(* Several swarms on one topic.  Each is a Hyperswarm seen from outside:   *)
(* configure() starts one announce and one lookup, each peer that the      *)
(* lookup finds is dialled once over every protocol, the dialled swarm     *)
(* takes whatever connects to it, and the dialling swarm drops the double  *)
(* (CombinedTransport::on_connection).  The DHT keeps the announcements.   *)
(*                                                                         *)
(* An application may close a link that it was handed, and learns when the *)
(* other side has.  connected is never told of either.                     *)
(*                                                                         *)
(* When a swarm polls its sources is the subject of Hyperswarm; here a     *)
(* connection waits for a poll as long as it may, perhaps for ever.        *)
(***************************************************************************)

CONSTANTS
    Swarms,      \* the swarms, by the address that each listens on
    Protocols,   \* {"tcp", "utp"}, or {"tcp"} without feature transport_utp
    Unreliable,  \* the protocols over which a dial may fail
    Echoed,      \* the swarms whose lookup may return their own address
    Patchy,      \* the swarms whose lookup may miss what is announced
    Closing      \* the swarms whose application may close its links

ASSUME NetworkAssumption == /\ Unreliable \subseteq Protocols
                            /\ Echoed \cup Patchy \cup Closing \subseteq Swarms

VARIABLES
    wanted,      \* the swarms whose topic is configured to announce and look up
    queries,     \* the queries that HyperDht runs for each swarm
    announced,   \* the swarms whose announcement the DHT has stored
    near,        \* each link, as the swarm that dials it sees it
    far,         \* each link, as the swarm that is dialled sees it
    connected    \* CombinedTransport::connected of each swarm

vars == <<wanted, queries, announced, near, far, connected>>

(* One connection that the swarm from may open to the swarm to, which may  *)
(* be itself.                                                              *)
Links == [from : Swarms, to : Swarms, over : Protocols]

(* A side that closed its link itself is "closed", and one that was told   *)
(* that the other side had is "ended".                                     *)
NearState == {"none", "flying", "failed", "ok", "taken", "skipped", "closed", "ended"}
FarState == {"none", "backlog", "taken", "closed", "ended"}

(* Every variable has its type, and the dialled side sees a link only if  *)
(* the dialling side has opened it.                                        *)
TypeOK ==
    /\ wanted \subseteq Swarms
    /\ queries \in [Swarms -> SUBSET {"announce", "lookup"}]
    /\ announced \subseteq Swarms
    /\ near \in [Links -> NearState]
    /\ far \in [Links -> FarState]
    /\ connected \in [Swarms -> SUBSET Swarms]
    /\ \A l \in Links : far[l] = "none" <=> near[l] \in {"none", "flying", "failed"}

Init ==
    /\ wanted = {}
    /\ queries = [s \in Swarms |-> {}]
    /\ announced = {}
    /\ near = [l \in Links |-> "none"]
    /\ far = [l \in Links |-> "none"]
    /\ connected = [s \in Swarms |-> {}]
-----------------------------------------------------------------------------
(* The application switches the topic on; both queries run at once.        *)
Configure(s) ==
    /\ s \notin wanted
    /\ wanted' = wanted \cup {s}
    /\ queries' = [queries EXCEPT ![s] = {"announce", "lookup"}]
    /\ UNCHANGED <<announced, near, far, connected>>

AnnounceDone(s) ==
    /\ "announce" \in queries[s]
    /\ queries' = [queries EXCEPT ![s] = @ \ {"announce"}]
    /\ announced' = announced \cup {s}
    /\ UNCHANGED <<wanted, near, far, connected>>

(* What a lookup can return: the swarms that the DHT knows or some of      *)
(* them, the one that asks perhaps among them.                             *)
Remotes(s) == {found \in SUBSET announced :
                   /\ s \in found => s \in Echoed
                   /\ s \notin Patchy => announced \ {s} \subseteq found}

(* Mutated form: the lookup runs for ever, and its peers are dialled again. *)
LookupDoneAgain(s) ==
    /\ "lookup" \in queries[s]
    /\ \E remotes \in Remotes(s) :
          near' = [l \in Links |-> IF l.from = s /\ l.to \in remotes
                                   THEN "flying" ELSE near[l]]
    /\ UNCHANGED <<wanted, queries, announced, far, connected>>

(* Each swarm that the lookup returns is dialled over every protocol; none *)
(* is compared with the swarm's own address.  The lookup is not repeated.  *)
LookupDone(s) ==
    /\ "lookup" \in queries[s]
    /\ queries' = [queries EXCEPT ![s] = @ \ {"lookup"}]
    /\ \E remotes \in Remotes(s) :
          near' = [l \in Links |-> IF l.from = s /\ l.to \in remotes
                                   THEN "flying" ELSE near[l]]
    /\ UNCHANGED <<wanted, announced, far, connected>>

(* The network opens a link, or fails to.                                  *)
Establish(l) ==
    /\ near[l] = "flying"
    /\ near' = [near EXCEPT ![l] = "ok"]
    /\ far' = [far EXCEPT ![l] = "backlog"]
    /\ UNCHANGED <<wanted, queries, announced, connected>>

Fail(l) ==
    /\ l.over \in Unreliable
    /\ near[l] = "flying"
    /\ near' = [near EXCEPT ![l] = "failed"]
    /\ UNCHANGED <<wanted, queries, announced, far, connected>>

(* Mutated form: an incoming connection counts as connected, too.          *)
TakeIncomingMarks(l) ==
    /\ far[l] = "backlog"
    /\ far' = [far EXCEPT ![l] = "taken"]
    /\ connected' = [connected EXCEPT ![l.to] = @ \cup {l.from}]
    /\ UNCHANGED <<wanted, queries, announced, near>>

(* Mutated form: an incoming connection from a connected address is        *)
(* dropped as a double, too.                                               *)
TakeIncomingChecks(l) ==
    /\ far[l] = "backlog"
    /\ far' = [far EXCEPT ![l] = IF l.from \in connected[l.to]
                                 THEN "ended" ELSE "taken"]
    /\ UNCHANGED <<wanted, queries, announced, near, connected>>

(* on_connection takes every incoming connection.                          *)
TakeIncoming(l) ==
    /\ far[l] = "backlog"
    /\ far' = [far EXCEPT ![l] = "taken"]
    /\ UNCHANGED <<wanted, queries, announced, near, connected>>

(* Mutated form: the address is not remembered.                            *)
TakeOutgoingForgets(l) ==
    /\ near[l] = "ok"
    /\ l.to \notin connected[l.from]
    /\ near' = [near EXCEPT ![l] = "taken"]
    /\ UNCHANGED <<wanted, queries, announced, far, connected>>

(* on_connection takes the first outgoing connection to an address, and    *)
(* drops the others.                                                       *)
TakeOutgoing(l) ==
    /\ near[l] = "ok"
    /\ l.to \notin connected[l.from]
    /\ connected' = [connected EXCEPT ![l.from] = @ \cup {l.to}]
    /\ near' = [near EXCEPT ![l] = "taken"]
    /\ UNCHANGED <<wanted, queries, announced, far>>

SkipOutgoing(l) ==
    /\ near[l] = "ok"
    /\ l.to \in connected[l.from]
    /\ near' = [near EXCEPT ![l] = "skipped"]
    /\ UNCHANGED <<wanted, queries, announced, far, connected>>

(* An application closes a link that it was handed.                        *)
CloseNear(l) ==
    /\ near[l] = "taken"
    /\ l.from \in Closing
    /\ near' = [near EXCEPT ![l] = "closed"]
    /\ UNCHANGED <<wanted, queries, announced, far, connected>>

CloseFar(l) ==
    /\ far[l] = "taken"
    /\ l.to \in Closing
    /\ far' = [far EXCEPT ![l] = "closed"]
    /\ UNCHANGED <<wanted, queries, announced, near, connected>>

(* An application reads that the other side dropped or closed its link.    *)
EndNear(l) ==
    /\ near[l] = "taken"
    /\ far[l] = "closed"
    /\ near' = [near EXCEPT ![l] = "ended"]
    /\ UNCHANGED <<wanted, queries, announced, far, connected>>

EndFar(l) ==
    /\ far[l] = "taken"
    /\ near[l] \in {"skipped", "closed"}
    /\ far' = [far EXCEPT ![l] = "ended"]
    /\ UNCHANGED <<wanted, queries, announced, near, connected>>

Dht(s) == AnnounceDone(s) \/ LookupDone(s)
Network(l) == Establish(l) \/ Fail(l)
Transport(l) == TakeIncoming(l) \/ TakeOutgoing(l) \/ SkipOutgoing(l)
Application(l) == CloseNear(l) \/ CloseFar(l) \/ EndNear(l) \/ EndFar(l)

Next ==
    \/ \E s \in Swarms : Configure(s) \/ Dht(s)
    \/ \E l \in Links : Network(l) \/ Transport(l) \/ Application(l)

Spec == Init /\ [][Next]_vars

(***************************************************************************)
(* Queries finish and dials are answered.  Nobody has to configure a       *)
(* swarm, to close a link, or to poll.                                     *)
(***************************************************************************)
Fairness ==
    /\ \A s \in Swarms : WF_vars(AnnounceDone(s)) /\ WF_vars(LookupDone(s))
    /\ \A l \in Links : WF_vars(Network(l))

FairSpec == Spec /\ Fairness

(* Each connection is polled in the end, at either side.  poll_next does   *)
(* not ensure it (FoundPeersDialled in Stalled): it needs an application   *)
(* that polls again without being woken.                                   *)
Polled == \A l \in Links : []<>(near[l] # "ok") /\ []<>(far[l] # "backlog")

PolledSpec == FairSpec /\ Polled
-----------------------------------------------------------------------------
(* Both ends of the link have been handed out, and neither has dropped it. *)
Live(l) == near[l] = "taken" /\ far[l] = "taken"

SameWay(k, l) == k.from = l.from /\ k.to = l.to

(* Nothing is on its way: no query, no dial, no connection that waits for  *)
(* a poll, no news for an application that the other side has gone.        *)
Settled == /\ \A s \in Swarms : queries[s] = {}
           /\ \A l \in Links : /\ near[l] \notin {"flying", "ok"}
                               /\ far[l] # "backlog"
                               /\ far[l] = "closed" => near[l] # "taken"
                               /\ near[l] \in {"skipped", "closed"} => far[l] # "taken"

(* Two swarms that dial each other at the same time never cancel each      *)
(* other's links: the link for which a double was dropped is open at both  *)
(* ends, or waits for the remote's poll, until an application closes it    *)
(* (on_connection).                                                        *)
DropLeavesALink ==
    \A l \in Links :
        near[l] = "skipped" =>
            \E k \in Links :
                /\ SameWay(k, l)
                /\ \/ near[k] = "taken" /\ far[k] \in {"backlog", "taken"}
                   \/ near[k] = "closed"
                   \/ near[k] \in {"taken", "ended"} /\ far[k] = "closed"

(* Although the acceptor takes every connection (on_connection), it ends   *)
(* up with one link at most from each swarm that dials it.                 *)
OneLinkEachWay ==
    Settled => \A k, l \in Links :
        SameWay(k, l) /\ far[k] = "taken" /\ far[l] = "taken" => k = l

Meet(s, t) == \E l \in Links : {l.from, l.to} = {s, t} /\ Live(l)

Dialled(s, t) == \E l \in Links : l.from = s /\ l.to = t /\ near[l] # "none"
Closed(s, t) == \E l \in Links : /\ l.from = s /\ l.to = t
                                 /\ near[l] = "closed" \/ far[l] = "closed"

(* A swarm that dials another gets a link to it, which only an application *)
(* closes, if one protocol works and both sides keep polling: neither the  *)
(* protocols, racing, nor the two sides, dialling each other, leave them   *)
(* without one (connect, on_connection).                                   *)
DialledAreMet ==
    \A s, t \in Swarms :
        s # t => (Polled => (Dialled(s, t) ~> (Meet(s, t) \/ Closed(s, t))))

(* "connecting peers who are interested in a topic" (README): two swarms   *)
(* that have the same topic on get a link.                                 *)
InterestedPeersMeet ==
    \A s, t \in Swarms : s # t => ((s \in wanted /\ t \in wanted) ~> Meet(s, t))
=============================================================================
