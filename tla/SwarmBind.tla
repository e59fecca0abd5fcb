----------------------------- MODULE SwarmBind ------------------------------
(***************************************************************************)
(* Hyperswarm::bind and BootstrapNode::run: the sockets that the swarms    *)
(* and the bootstrap nodes of one host take, one await after the other,    *)
(* while others do the same.  A swarm takes a TCP port, then the UDP port  *)
(* of the same number for uTP, then the mDNS sockets, then a UDP port for  *)
(* its DHT.  Each await may fail, or be the last if the application drops  *)
(* the future, and what was taken so far is then released.                 *)
(*                                                                         *)
(* An address is its port (the swarms listen on 0.0.0.0).  The mDNS        *)
(* sockets share port 5353 and take nothing from others: they are left out.*)
(***************************************************************************)
EXTENDS Naturals

CONSTANTS
    Swarms,
    BootstrapNodes,
    Ports,       \* the ports that the system hands out
    Wishes,      \* the ports of Config::local_addr; 0 is the default
    NodePort,    \* the port of DEFAULT_DHT_BIND_ADDR
    Protocols    \* {"tcp", "utp"}, or {"tcp"} without feature transport_utp

ASSUME BindAssumption ==
    /\ Swarms \cap BootstrapNodes = {}
    /\ Ports \subseteq Nat \ {0}
    /\ Wishes \subseteq Ports \cup {0}
    /\ NodePort \in Ports
    /\ Protocols \in {{"tcp"}, {"tcp", "utp"}}

VARIABLES
    sockets,     \* the sockets that are open
    stage,       \* the await at which each swarm or node is
    local_addr   \* the address that each was given, later the one it has

vars == <<sockets, stage, local_addr>>

Owners == Swarms \cup BootstrapNodes

Socket == [owner : Owners, use : {"tcp", "utp", "dht"}, port : Ports]

(* TCP ports and UDP ports are numbered apart.                             *)
Network(use) == IF use = "tcp" THEN "tcp" ELSE "udp"

At(use, p) == {k \in sockets : Network(k.use) = Network(use) /\ k.port = p}

(* The system may give p to a bind that asks for wish.                     *)
Grants(use, wish, p) == wish \in {0, p} /\ At(use, p) = {}

Take(o, use, p) ==
    sockets' = sockets \cup {[owner |-> o, use |-> use, port |-> p]}

Release(o) == sockets' = {k \in sockets : k.owner # o}

(* Every variable has its type, and no two sockets are on one port.        *)
TypeOK ==
    /\ sockets \subseteq Socket
    /\ stage \in [Owners -> {"unbound", "tcp", "utp", "mdns", "dht", "with_config",
                         "bound"}]
    /\ local_addr \in [Owners -> Ports \cup {0}]
    /\ \A j, k \in sockets :
           Network(j.use) = Network(k.use) /\ j.port = k.port => j = k

Init ==
    /\ sockets = {}
    /\ stage = [o \in Owners |-> "unbound"]
    /\ local_addr = [o \in Owners |-> 0]
-----------------------------------------------------------------------------
(* The application calls Hyperswarm::bind, for the first time or again.    *)
BindSwarm(s) ==
    /\ stage[s] = "unbound"
    /\ stage' = [stage EXCEPT ![s] = "tcp"]
    /\ \E a \in Wishes : local_addr' = [local_addr EXCEPT ![s] = a]
    /\ UNCHANGED sockets

(* TcpTransport::bind.  From here on the address is that of the listener.  *)
BindTcp(s) ==
    /\ stage[s] = "tcp"
    /\ \E p \in Ports :
           /\ Grants("tcp", local_addr[s], p)
           /\ Take(s, "tcp", p)
           /\ local_addr' = [local_addr EXCEPT ![s] = p]
    /\ stage' = [stage EXCEPT ![s] = IF "utp" \in Protocols THEN "utp" ELSE "mdns"]

(* Mutated form: uTP takes any free port.                                  *)
BindUtpAnywhere(s) ==
    /\ stage[s] = "utp"
    /\ \E p \in Ports : Grants("utp", 0, p) /\ Take(s, "utp", p)
    /\ stage' = [stage EXCEPT ![s] = "mdns"]
    /\ UNCHANGED local_addr

(* Mutated form: the socket of uTP may share its port.                     *)
BindUtpShared(s) ==
    /\ stage[s] = "utp"
    /\ Take(s, "utp", local_addr[s])
    /\ stage' = [stage EXCEPT ![s] = "mdns"]
    /\ UNCHANGED local_addr

(* UtpTransport::bind.                                                     *)
BindUtp(s) ==
    /\ stage[s] = "utp"
    /\ \E p \in Ports : Grants("utp", local_addr[s], p) /\ Take(s, "utp", p)
    /\ stage' = [stage EXCEPT ![s] = "mdns"]
    /\ UNCHANGED local_addr

(* MdnsDiscovery::bind.                                                    *)
BindMdns(s) ==
    /\ stage[s] = "mdns"
    /\ stage' = [stage EXCEPT ![s] = "dht"]
    /\ UNCHANGED <<sockets, local_addr>>

(* DhtDiscovery::bind: HyperDht takes any UDP port.  The port it is told   *)
(* to announce is that of local_addr.                                      *)
BindDht(s) ==
    /\ stage[s] = "dht"
    /\ \E p \in Ports : Grants("dht", 0, p) /\ Take(s, "dht", p)
    /\ stage' = [stage EXCEPT ![s] = "bound"]
    /\ UNCHANGED local_addr

(* An await of bind or run returns an error, which is passed on, or the    *)
(* application drops the future; the parts that were bound are dropped.    *)
BindFails(s) ==
    /\ stage[s] \notin {"unbound", "bound"}
    /\ Release(s)
    /\ stage' = [stage EXCEPT ![s] = "unbound"]
    /\ UNCHANGED local_addr

(* The application drops its swarm.                                        *)
DropSwarm(s) ==
    /\ stage[s] = "bound"
    /\ Release(s)
    /\ stage' = [stage EXCEPT ![s] = "unbound"]
    /\ UNCHANGED local_addr

(* BootstrapNode::run, up to its first await: with_addr has any address,   *)
(* default() and an address left out mean NodePort.                        *)
RunNode(n) ==
    /\ stage[n] = "unbound"
    /\ stage' = [stage EXCEPT ![n] = "dht"]
    /\ \E a \in Wishes \cup {NodePort} : local_addr' = [local_addr EXCEPT ![n] = a]
    /\ UNCHANGED sockets

(* DhtConfig::bind takes the socket, and HyperDht::with_config is awaited. *)
BindNode(n) ==
    /\ stage[n] = "dht"
    /\ \E p \in Ports : Grants("dht", local_addr[n], p) /\ Take(n, "dht", p)
    /\ stage' = [stage EXCEPT ![n] = "with_config"]
    /\ UNCHANGED local_addr

(* Mutated form: run returns the address that it was given.                *)
NodeRunsAsGiven(n) ==
    /\ stage[n] = "with_config"
    /\ stage' = [stage EXCEPT ![n] = "bound"]
    /\ UNCHANGED <<sockets, local_addr>>

(* run returns the address of the socket; the task it spawns never ends.   *)
NodeRuns(n) ==
    /\ stage[n] = "with_config"
    /\ \E k \in sockets : /\ k.owner = n
                          /\ local_addr' = [local_addr EXCEPT ![n] = k.port]
    /\ stage' = [stage EXCEPT ![n] = "bound"]
    /\ UNCHANGED sockets

Bind(s) == BindTcp(s) \/ BindUtp(s) \/ BindMdns(s) \/ BindDht(s)

Next ==
    \/ \E s \in Swarms : BindSwarm(s) \/ Bind(s) \/ DropSwarm(s)
    \/ \E n \in BootstrapNodes : RunNode(n) \/ BindNode(n) \/ NodeRuns(n)
    \/ \E o \in Owners : BindFails(o)

Spec == Init /\ [][Next]_vars
-----------------------------------------------------------------------------
(* Whoever dials the port that a swarm announces reaches that swarm, over  *)
(* every protocol: the listener there is its own, and not another swarm's  *)
(* or the socket of a DHT (CombinedTransport::bind, Hyperswarm::bind).     *)
AnnouncedPortReaches ==
    \A s \in Swarms : stage[s] = "bound" =>
        \A x \in Protocols :
            At(x, local_addr[s]) =
                {[owner |-> s, use |-> x, port |-> local_addr[s]]}

(* Whoever bootstraps from the address that run() returned reaches that    *)
(* node (BootstrapNode::run).                                              *)
BootstrapAddrReaches ==
    \A n \in BootstrapNodes : stage[n] = "bound" =>
        At("dht", local_addr[n]) =
            {[owner |-> n, use |-> "dht", port |-> local_addr[n]]}
=============================================================================
