-------------------------- MODULE SwarmBindProofs ---------------------------
(***************************************************************************)
(* The sockets of SwarmBind, for any number of swarms, nodes and ports.    *)
(***************************************************************************)
EXTENDS SwarmBind, TLAPS

(* What a swarm has bound at each await.                                   *)
SwarmHolds ==
    \A s \in Swarms :
        /\ stage[s] \in {"utp", "mdns", "dht", "bound"} =>
               [owner |-> s, use |-> "tcp", port |-> local_addr[s]] \in sockets
        /\ stage[s] \in {"mdns", "dht", "bound"} /\ "utp" \in Protocols =>
               [owner |-> s, use |-> "utp", port |-> local_addr[s]] \in sockets

(* What a node has bound: nothing but the socket of its DHT.               *)
NodeHolds ==
    \A n \in BootstrapNodes :
        /\ \A k \in sockets : k.owner = n => k.use = "dht"
        /\ stage[n] = "bound" =>
               [owner |-> n, use |-> "dht", port |-> local_addr[n]] \in sockets

(* The inductive invariant.                                                *)
IInv == TypeOK /\ SwarmHolds /\ NodeHolds

LEMMA InitIInv == Init => IInv
  BY DEF Init, IInv, TypeOK, SwarmHolds, NodeHolds, Owners

(* Taking a port that is free keeps the sockets apart.                     *)
LEMMA TakeKeepsApart ==
    ASSUME TypeOK, NEW o \in Owners, NEW use \in {"tcp", "utp", "dht"},
           NEW wish, NEW p \in Ports, Grants(use, wish, p), Take(o, use, p)
    PROVE  /\ sockets' \subseteq Socket
           /\ \A j, k \in sockets' :
                  Network(j.use) = Network(k.use) /\ j.port = k.port => j = k
  BY DEF TypeOK, Grants, Take, At, Socket

(* Releasing the sockets of one owner keeps those of the others.           *)
LEMMA ReleaseKeepsOthers ==
    ASSUME IInv, NEW o \in Owners, Release(o),
           stage' = [stage EXCEPT ![o] = "unbound"], UNCHANGED local_addr
    PROVE  IInv'
<1>1. TypeOK'
      BY DEF IInv, TypeOK, Release
<1>2. SwarmHolds' /\ NodeHolds'
      BY DEF IInv, TypeOK, SwarmHolds, NodeHolds, Release, Owners
<1> QED BY <1>1, <1>2 DEF IInv

LEMMA NextIInv == IInv /\ [Next]_vars => IInv'
<1> SUFFICES ASSUME IInv, [Next]_vars PROVE IInv'
    OBVIOUS
<1>a. Swarms \cap BootstrapNodes = {} /\ Wishes \cup {NodePort} \subseteq Ports \cup {0}
      BY BindAssumption
<1> USE DEF IInv, SwarmHolds, NodeHolds, Owners
<1>1. ASSUME NEW s \in Swarms, BindSwarm(s) PROVE IInv'
      BY <1>1, <1>a DEF BindSwarm, TypeOK
<1>2. ASSUME NEW s \in Swarms, BindTcp(s) PROVE IInv'
  <2>1. PICK p \in Ports : /\ Grants("tcp", local_addr[s], p)
                           /\ Take(s, "tcp", p)
                           /\ local_addr' = [local_addr EXCEPT ![s] = p]
        BY <1>2 DEF BindTcp
  <2>2. TypeOK'
        BY <1>2, <2>1, TakeKeepsApart DEF BindTcp, TypeOK
  <2>3. SwarmHolds' /\ NodeHolds'
        BY <1>2, <1>a, <2>1 DEF BindTcp, TypeOK, Take
  <2> QED BY <2>2, <2>3
<1>3. ASSUME NEW s \in Swarms, BindUtp(s) PROVE IInv'
  <2>1. PICK p \in Ports : Grants("utp", local_addr[s], p) /\ Take(s, "utp", p)
        BY <1>3 DEF BindUtp
  <2>2. TypeOK'
        BY <1>3, <2>1, TakeKeepsApart DEF BindUtp, TypeOK
  <2>3. p = local_addr[s]
    <3>1. [owner |-> s, use |-> "tcp", port |-> local_addr[s]] \in Socket
          BY <1>3 DEF BindUtp, TypeOK
    <3>2. local_addr[s] # 0
          BY <3>1, BindAssumption DEF Socket
    <3> QED BY <2>1, <3>2 DEF Grants
  <2>4. SwarmHolds' /\ NodeHolds'
        BY <1>3, <1>a, <2>1, <2>3 DEF BindUtp, TypeOK, Take
  <2> QED BY <2>2, <2>4
<1>4. ASSUME NEW s \in Swarms, BindMdns(s) PROVE IInv'
      BY <1>4, <1>a DEF BindMdns, TypeOK
<1>5. ASSUME NEW s \in Swarms, BindDht(s) PROVE IInv'
  <2>1. PICK p \in Ports : Grants("dht", 0, p) /\ Take(s, "dht", p)
        BY <1>5 DEF BindDht
  <2>2. TypeOK'
        BY <1>5, <2>1, TakeKeepsApart DEF BindDht, TypeOK
  <2>3. SwarmHolds' /\ NodeHolds'
        BY <1>5, <1>a, <2>1 DEF BindDht, TypeOK, Take
  <2> QED BY <2>2, <2>3
<1>6. ASSUME NEW s \in Swarms, DropSwarm(s) PROVE IInv'
      BY <1>6, ReleaseKeepsOthers DEF DropSwarm
<1>7. ASSUME NEW n \in BootstrapNodes, RunNode(n) PROVE IInv'
      BY <1>7, <1>a DEF RunNode, TypeOK
<1>8. ASSUME NEW n \in BootstrapNodes, BindNode(n) PROVE IInv'
  <2>1. PICK p \in Ports : Grants("dht", local_addr[n], p) /\ Take(n, "dht", p)
        BY <1>8 DEF BindNode
  <2>2. TypeOK'
        BY <1>8, <2>1, TakeKeepsApart DEF BindNode, TypeOK
  <2>3. SwarmHolds' /\ NodeHolds'
        BY <1>8, <1>a, <2>1 DEF BindNode, TypeOK, Take
  <2> QED BY <2>2, <2>3
<1>8a. ASSUME NEW n \in BootstrapNodes, NodeRuns(n) PROVE IInv'
  <2>1. PICK k \in sockets : k.owner = n /\ local_addr' = [local_addr EXCEPT ![n] = k.port]
        BY <1>8a DEF NodeRuns
  <2>2. k = [owner |-> n, use |-> "dht", port |-> k.port] /\ k.port \in Ports
        BY <2>1 DEF TypeOK, Socket
  <2>3. TypeOK'
        BY <1>8a, <2>1, <2>2 DEF NodeRuns, TypeOK
  <2>4. SwarmHolds' /\ NodeHolds'
        BY <1>8a, <1>a, <2>1, <2>2 DEF NodeRuns, TypeOK
  <2> QED BY <2>3, <2>4
<1>9. ASSUME NEW o \in Owners, BindFails(o) PROVE IInv'
      BY <1>9, ReleaseKeepsOthers DEF BindFails
<1>10. CASE UNCHANGED vars
      BY <1>10 DEF vars, TypeOK
<1> QED BY <1>1, <1>2, <1>3, <1>4, <1>5, <1>6, <1>7, <1>8, <1>8a, <1>9, <1>10
        DEF Next, Bind

LEMMA Invariance == Spec => []IInv
  BY InitIInv, NextIInv, PTL DEF Spec

(* Every reachable state is well typed, and no two sockets are on one      *)
(* port of one protocol.                                                   *)
THEOREM TypeCorrect == Spec => []TypeOK
<1>1. IInv => TypeOK BY DEF IInv
<1> QED BY <1>1, Invariance, PTL

(* The port that a bound swarm announces is its own over every protocol    *)
(* (CombinedTransport::bind, Hyperswarm::bind).                            *)
THEOREM AnnouncedPortIsOwn == Spec => []AnnouncedPortReaches
<1>1. IInv => AnnouncedPortReaches
  <2> SUFFICES ASSUME IInv, NEW s \in Swarms, stage[s] = "bound", NEW x \in Protocols
               PROVE  At(x, local_addr[s]) =
                          {[owner |-> s, use |-> x, port |-> local_addr[s]]}
      BY DEF AnnouncedPortReaches
  <2>1. x \in {"tcp", "utp"}
        BY BindAssumption
  <2>2. [owner |-> s, use |-> x, port |-> local_addr[s]] \in sockets
        BY <2>1 DEF IInv, SwarmHolds
  <2> QED BY <2>2 DEF IInv, TypeOK, At
<1> QED BY <1>1, Invariance, PTL

(* The address that run() returned is that of the node's own DHT           *)
(* (BootstrapNode::run).                                                   *)
THEOREM BootstrapAddrIsOwn == Spec => []BootstrapAddrReaches
<1>1. IInv => BootstrapAddrReaches
  <2> SUFFICES ASSUME IInv, NEW n \in BootstrapNodes, stage[n] = "bound"
               PROVE  At("dht", local_addr[n]) =
                          {[owner |-> n, use |-> "dht", port |-> local_addr[n]]}
      BY DEF BootstrapAddrReaches
  <2>1. [owner |-> n, use |-> "dht", port |-> local_addr[n]] \in sockets
        BY DEF IInv, NodeHolds
  <2> QED BY <2>1 DEF IInv, TypeOK, At
<1> QED BY <1>1, Invariance, PTL
=============================================================================
