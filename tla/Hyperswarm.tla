----------------------------- MODULE Hyperswarm -----------------------------
(***************************************************************************)
(* Hyperswarm (src/src/swarm.rs): one Stream that owns the discovery and   *)
(* the transport and polls them, in order, from one task.                  *)
(*                                                                         *)
(* pc says where the task is.                                              *)
(*    "ready"     the consumer runs: before its first poll, or with the    *)
(*                item that the last poll returned                         *)
(*    "idle"      the last poll returned Pending                           *)
(*    "panicked"  the task is gone                                         *)
(* and, inside poll_next, which source it polls next.  Other threads and   *)
(* the network act between any two of these stages.                        *)
(***************************************************************************)
EXTENDS MdnsDiscovery, CombinedTransport, FiniteSets

CONSTANTS
    Configs,   \* the topic configurations the application uses
    MaxCalls,  \* bound on the calls of configure
    MaxFound   \* bound: mDNS is quiet once this many peers were found

TopicConfig == [announce : BOOLEAN, lookup : BOOLEAN]

ASSUME SwarmAssumption == /\ Configs \subseteq TopicConfig
                          /\ MaxCalls \in Nat
                          /\ MaxFound \in Nat

VARIABLES
    pc,
    topics,    \* HashMap<Topic, TopicConfig>; a missing topic has the default
    commands,  \* the command channel of the SwarmHandles
    calls      \* how many times configure has been called

swarmVars == <<topics, commands, calls>>
vars == <<pc, swarmVars, dhtVars, mdnsVars, transportVars, wakerVars>>

Stages == {"commands", "dht", "mdns",
           "tcp_incoming", "tcp_connects", "utp_incoming", "utp_connects"}

ConfigureCommand == Topics \X TopicConfig

TypeOK ==
    /\ pc \in Stages \cup {"ready", "idle", "panicked"}
    /\ topics \in [Topics -> TopicConfig]
    /\ commands \in Seq(ConfigureCommand)
    /\ calls \in Nat
    /\ DhtTypeOK
    /\ MdnsTypeOK
    /\ TransportTypeOK
    /\ WakerTypeOK

Init ==
    /\ pc = "ready"
    /\ topics = [t \in Topics |-> [announce |-> FALSE, lookup |-> FALSE]]
    /\ commands = <<>>
    /\ calls = 0
    /\ DhtInit
    /\ MdnsInit
    /\ TransportInit
    /\ WakerInit

(* The stage that follows a connects stage: uTP after TCP, if it is built. *)
AfterConnects(x) == IF x = "tcp" /\ "utp" \in Protocols THEN "utp_incoming"
                                                        ELSE "idle"
-----------------------------------------------------------------------------
(* Mutated form: the old configuration is not looked at.                   *)
AddedAnyway(t, config) ==
    (IF config.announce THEN <<Announce(t)>> ELSE <<>>)
    \o
    (IF config.lookup THEN <<Lookup(t)>> ELSE <<>>)

(* configure(): what the new configuration adds to the old one is asked of *)
(* both discoveries, the announcement first; nothing is ever withdrawn.    *)
Added(t, config) ==
    (IF config.announce /\ ~topics[t].announce THEN <<Announce(t)>> ELSE <<>>)
    \o
    (IF config.lookup /\ ~topics[t].lookup THEN <<Lookup(t)>> ELSE <<>>)

Configure(t, config) ==
    /\ topics' = [topics EXCEPT ![t] = config]
    /\ DhtSubmit(Added(t, config))
    /\ MdnsSubmit(Added(t, config))
    /\ UNCHANGED transportVars

(* The owner of the swarm calls configure between two polls.  If the last  *)
(* one was Pending it has dropped that next() first, and calls another.    *)
OwnerConfigure(t, config) ==
    /\ pc \in {"ready", "idle"}
    /\ pc' = "ready"
    /\ calls < MaxCalls
    /\ calls' = calls + 1
    /\ Configure(t, config)
    /\ UNCHANGED commands

(* Any thread sends a configuration through a SwarmHandle.                 *)
HandleConfigure(t, config) ==
    /\ pc # "panicked"
    /\ calls < MaxCalls
    /\ calls' = calls + 1
    /\ commands' = Append(commands, <<t, config>>)
    /\ Fire("command")
    /\ UNCHANGED <<pc, topics, dhtVars, mdnsVars, transportVars>>
-----------------------------------------------------------------------------
(* A poll starts: the consumer asks for the next item, or the executor     *)
(* runs the woken task.                                                    *)
ConsumerPoll ==
    /\ pc = "ready"
    /\ pc' = "commands"
    /\ UNCHANGED <<swarmVars, dhtVars, mdnsVars, transportVars, wakerVars>>

ExecutorPoll ==
    /\ pc = "idle"
    /\ woken
    /\ pc' = "commands"
    /\ woken' = FALSE
    /\ UNCHANGED <<wakers, swarmVars, dhtVars, mdnsVars, transportVars>>

(* The executor may run a task that no modelled source has woken: HyperDht *)
(* had traffic but no event, or FuturesUnordered yielded.                  *)
SpuriousWake ==
    /\ pc = "idle"
    /\ ~woken
    /\ woken' = TRUE
    /\ UNCHANGED <<pc, wakers, swarmVars, dhtVars, mdnsVars, transportVars>>

(* Mutated forms: one command per poll; no waker left with the channel.    *)
PollOneCommand ==
    /\ pc = "commands"
    /\ commands # <<>>
    /\ commands' = Tail(commands)
    /\ Configure(Head(commands)[1], Head(commands)[2])
    /\ pc' = "dht"
    /\ UNCHANGED calls

PollCommandsUnarmed ==
    /\ pc = "commands"
    /\ commands = <<>>
    /\ pc' = "dht"
    /\ UNCHANGED <<swarmVars, dhtVars, mdnsVars, transportVars, wakerVars>>

(* Mutated form: the newest command is taken first.                        *)
PollNewestCommand ==
    LET last == Len(commands) IN
    /\ pc = "commands"
    /\ commands # <<>>
    /\ commands' = SubSeq(commands, 1, last - 1)
    /\ Configure(commands[last][1], commands[last][2])
    /\ UNCHANGED <<pc, calls>>

(* Commands are taken until the channel is empty and holds the waker.      *)
PollCommand ==
    /\ pc = "commands"
    /\ commands # <<>>
    /\ commands' = Tail(commands)
    /\ Configure(Head(commands)[1], Head(commands)[2])
    /\ UNCHANGED <<pc, calls>>

PollCommandsDone ==
    /\ pc = "commands"
    /\ commands = <<>>
    /\ Register("command")
    /\ pc' = "dht"
    /\ UNCHANGED <<swarmVars, dhtVars, mdnsVars, transportVars>>

(* Mutated form: Pending is returned as soon as a peer has been dialled.   *)
PollDhtReadyReturns ==
    /\ pc = "dht"
    /\ \E peer \in Peers : DhtReady(peer) /\ Connect(peer)
    /\ pc' = "idle"
    /\ UNCHANGED <<swarmVars, mdnsVars, wakerVars>>

(* The DHT is polled first.  A peer is dialled at once, and the poll goes  *)
(* on to the transport without looking at the discovery again.             *)
PollDhtReady ==
    /\ pc = "dht"
    /\ \E peer \in Peers : DhtReady(peer) /\ Connect(peer)
    /\ pc' = "tcp_incoming"
    /\ UNCHANGED <<swarmVars, mdnsVars, wakerVars>>

PollDhtLoop ==
    /\ pc = "dht"
    /\ DhtExecute \/ DhtHandleEvent
    /\ UNCHANGED <<pc, swarmVars, mdnsVars, transportVars, wakerVars>>

PollDhtPending ==
    /\ pc = "dht"
    /\ DhtPending
    /\ pc' = "mdns"
    /\ UNCHANGED <<swarmVars, mdnsVars, transportVars>>

(* mDNS is polled only when the DHT is Pending.                            *)
PollMdnsReady ==
    /\ pc = "mdns"
    /\ \E peer \in Peers : MdnsReady(peer) /\ Connect(peer)
    /\ pc' = "tcp_incoming"
    /\ UNCHANGED <<swarmVars, dhtVars>>

(* An error of the discovery is returned to the consumer as an item.       *)
PollMdnsError ==
    /\ pc = "mdns"
    /\ MdnsError
    /\ pc' = "ready"
    /\ UNCHANGED <<swarmVars, dhtVars, transportVars>>

PollMdnsPending ==
    /\ pc = "mdns"
    /\ MdnsPending
    /\ pc' = "tcp_incoming"
    /\ UNCHANGED <<swarmVars, dhtVars, transportVars>>
-----------------------------------------------------------------------------
(* The transport: per protocol, the listener and then the connect futures. *)
(* A connection is returned to the consumer; an error is logged and the    *)
(* poll returns Pending, without polling what comes after it.              *)
PollIncoming(x) ==
    /\ pc = Incoming(x)
    /\ \/ Accept(x, "conn") /\ pc' = "ready"
       \/ Accept(x, "error") /\ pc' = "idle"
       \/ Accept(x, "reset") /\ pc' = "panicked"
       \/ IncomingPending(x) /\ pc' = Connects(x)
    /\ UNCHANGED <<swarmVars, dhtVars, mdnsVars>>

PollConnects(x) ==
    /\ pc = Connects(x)
    /\ \/ \E i \in DOMAIN dials :
             \/ StartDial(i, x) /\ UNCHANGED pc
             \/ TakeDial(i, x) /\ pc' = "ready"
             \/ SkipDial(i, x) /\ pc' = AfterConnects(x)
             \/ FailDial(i, x) /\ pc' = "idle"
             \/ ResetDial(i, x) /\ pc' = "panicked"
       \/ ConnectsPending(x) /\ pc' = AfterConnects(x)
    /\ UNCHANGED <<swarmVars, dhtVars, mdnsVars>>
-----------------------------------------------------------------------------
(* The world outside the task.                                             *)
DhtActs ==
    /\ DhtBootstraps \/ \E c \in Command : DhtAnswers(c)
    /\ UNCHANGED <<pc, swarmVars, mdnsVars, transportVars>>

LocatorActs ==
    /\ Len(dials) + Len(located) < MaxFound
    /\ \E kind \in MdnsKinds, peer \in Peers : LocatorYields(kind, peer)
    /\ UNCHANGED <<pc, swarmVars, dhtVars, transportVars>>

NetworkAnswers(i, x) ==
    /\ \E state \in FutureState : Answer(i, x, state)
    /\ UNCHANGED <<pc, swarmVars, dhtVars, mdnsVars>>

NetworkAnswersDial ==
    \E i \in DOMAIN dials, x \in Protocols : NetworkAnswers(i, x)

NetworkActs ==
    /\ \/ \E x \in Protocols, arrival \in Arrival : Arrive(x, arrival)
       \/ \E i \in DOMAIN dials, x \in Protocols : Close(i, x)
    /\ UNCHANGED <<pc, swarmVars, dhtVars, mdnsVars>>

Poll ==
    \/ ConsumerPoll
    \/ ExecutorPoll
    \/ PollCommand
    \/ PollCommandsDone
    \/ PollDhtReady
    \/ PollDhtLoop
    \/ PollDhtPending
    \/ PollMdnsReady
    \/ PollMdnsError
    \/ PollMdnsPending
    \/ \E x \in Protocols : PollIncoming(x) \/ PollConnects(x)

Next ==
    \/ Poll
    \/ \E t \in Topics, config \in Configs :
          OwnerConfigure(t, config) \/ HandleConfigure(t, config)
    \/ SpuriousWake
    \/ DhtActs
    \/ LocatorActs
    \/ NetworkAnswersDial
    \/ NetworkActs

Spec == Init /\ [][Next]_vars

(***************************************************************************)
(* A task that can take a step takes it: the executor runs woken tasks and *)
(* the consumer keeps calling next(), as the loop in the README does.  The *)
(* dials, of which there are finitely many, are answered in the end: both  *)
(* protocols give up on a silent remote.                                   *)
(* Nothing is assumed of the DHT, of mDNS, of incoming connections or of   *)
(* spurious wake-ups.                                                      *)
(***************************************************************************)
Fairness ==
    /\ WF_vars(Poll)
    /\ WF_vars(NetworkAnswersDial)

FairSpec == Spec /\ Fairness

(* The same, where something else wakes the task again and again: traffic  *)
(* of HyperDht, or the Locator's lookup interval.                          *)
WokenSpec == FairSpec /\ WF_vars(SpuriousWake)
-----------------------------------------------------------------------------
(* The task is parked: it will run again only if something wakes it.       *)
Quiet == pc = "idle" /\ ~woken

(* The connection of dial i over x has been given to the consumer.         *)
Taken(i, x) == dials[i].fut[x] \in {"taken", "closed"}

Established(i, x) == dials[i].fut[x] \in {"ok", "taken", "closed", "skipped"}

(* Some poll took an item of the transport and returned Pending all the    *)
(* same: a double connection, or an error that was only logged.            *)
Swallowed == \E i \in DOMAIN dials, x \in Protocols :
                dials[i].fut[x] \in {"skipped", "failed"}

(* The next poll of the discovery would get somewhere.                     *)
DiscoveryHasWork ==
    \/ pending_events # <<>>
    \/ dht_events # <<>>
    \/ bootstrapped /\ pending_commands # <<>>
    \/ located # <<>> /\ ~LocatorHas("end")

(* Command c waits in the DHT's queue, or has been given to HyperDht.       *)
Queued(c) == {i \in DOMAIN pending_commands : pending_commands[i] = c}
DhtKnows(c) == issued[c] > 0 \/ Queued(c) # {}
-----------------------------------------------------------------------------
(* At most one outgoing connection per address ever reaches the consumer,  *)
(* whichever of TCP and uTP answers first and however often the address is *)
(* found (CombinedTransport::on_connection).                               *)
OneOutgoingPerAddress ==
    \A i, j \in DOMAIN dials, x, y \in Protocols :
        /\ Taken(i, x)
        /\ Taken(j, y)
        /\ dials[i].addr = dials[j].addr
        => i = j /\ x = y

(* A connection is dropped as a double only if another connection to the   *)
(* same address was handed to the consumer: the two protocols never cancel *)
(* each other (CombinedTransport::on_connection).                          *)
SkippedForAnother ==
    \A i \in DOMAIN dials, x \in Protocols :
        dials[i].fut[x] = "skipped" =>
            \E j \in DOMAIN dials, y \in Protocols :
                Taken(j, y) /\ dials[j].addr = dials[i].addr

(* Why: connected holds exactly the addresses that were handed out.        *)
ConnectionInv ==
    /\ \A i \in DOMAIN dials, x \in Protocols :
          Taken(i, x) => dials[i].addr \in connected
    /\ \A p \in connected : \E i \in DOMAIN dials, x \in Protocols :
          Taken(i, x) /\ dials[i].addr = p
    /\ OneOutgoingPerAddress
    /\ SkippedForAnother

(* What a topic's configuration asks for is with the DHT or on its way     *)
(* there: no announce or lookup is lost between the channel, the map of    *)
(* topics, the queue that waits for the bootstrap, and HyperDht.           *)
WantedReachesDht ==
    \A t \in Topics : /\ topics[t].announce => DhtKnows(Announce(t))
                      /\ topics[t].lookup => DhtKnows(Lookup(t))

(* Configuring a topic again does not repeat a query that is on: each      *)
(* query but the first needs one call of configure that switches it off    *)
(* and one that switches it on (Hyperswarm::configure).                    *)
NoRepeatedQuery ==
    \A c \in Command : 2 * (issued[c] + Cardinality(Queued(c))) <= calls + 1

(* A task that is parked has no configuration waiting in its channel: the  *)
(* while-let of poll_next leaves the channel empty and armed.              *)
CommandsNotStranded == Quiet => commands = <<>>

(* Why: a poll that is past the commands has emptied the channel and left  *)
(* its waker there, so a later command wakes the task.                     *)
PastCommands == pc \notin {"ready", "commands", "panicked"}
ChannelArmed == commands = <<>> /\ "command" \in wakers
CommandInv == PastCommands => woken \/ ChannelArmed

(* A task that is parked has no TCP connection waiting in its listener,    *)
(* whatever happened to dials, discovery and uTP, unless accept() itself   *)
(* can fail: that error is logged, and the listener is not polled again.   *)
ListenerNotStranded ==
    Quiet /\ "accept" \notin Faults => backlog["tcp"] = <<>>

(* Why: a poll that is past the listener has emptied the backlog and left  *)
(* its waker with the socket.                                              *)
PastListener == pc \in {"tcp_connects", "utp_incoming", "utp_connects", "idle"}
ListenerArmed == backlog["tcp"] = <<>> /\ "tcp_incoming" \in wakers
NoAcceptError ==
    \A x \in Protocols : \A k \in DOMAIN backlog[x] : backlog[x][k] # "error"
ListenerInv ==
    "accept" \notin Faults =>
        /\ NoAcceptError
        /\ PastListener => woken \/ ListenerArmed

(* If no poll swallowed an item, a parked task has left nothing unpolled   *)
(* in the transport, and if the discovery still holds something then a     *)
(* dial is in flight whose answer will wake the task.                      *)
StallNeedsSwallowedItem ==
    Quiet /\ ~Swallowed /\ "accept" \notin Faults =>
        /\ \A x \in Protocols : backlog[x] = <<>>
        /\ \A i \in DOMAIN dials, x \in Protocols : ~Runnable(i, x)
        /\ DiscoveryHasWork =>
              \E i \in DOMAIN dials, x \in Protocols :
                  dials[i].fut[x] = "flying" /\ Connects(x) \in wakers

(* "cancel either connection if connected already" (the comment above      *)
(* on_connection's decision): a connection is dropped as a double only     *)
(* while another connection to the address is open.                        *)
SkippedOnlyWhileConnected ==
    [][\A i \in DOMAIN dials, x \in Protocols :
          dials[i].fut[x] = "ok" /\ dials'[i].fut[x] = "skipped" =>
              \E j \in DOMAIN dials, y \in Protocols :
                  dials[j].fut[y] = "taken" /\ dials[j].addr = dials[i].addr]_vars

(* Every configuration sent through a handle is applied in the end.        *)
CommandsApplied == commands # <<>> ~> commands = <<>>

(* While nobody configures anything more, a topic ends up as the last      *)
(* handle in the channel wants it, also if the owner has configured the    *)
(* topic since that handle did (Hyperswarm::configure, poll_next).         *)
Waiting(t) == {i \in DOMAIN commands : commands[i][1] = t}
LastWaiting(t, config) ==
    \E i \in Waiting(t) : commands[i][2] = config /\ \A j \in Waiting(t) : j <= i
LastCommandWins ==
    \A t \in Topics, config \in Configs, n \in 0..MaxCalls :
        (calls = n /\ LastWaiting(t, config))
            ~> (calls # n \/ (Waiting(t) = {} /\ topics[t] = config))

(* Every TCP connection that reaches the listener is handed out in the end. *)
ListenerServed == backlog["tcp"] # <<>> ~> backlog["tcp"] = <<>>

(* "Connect to all peers that are found over both TCP and UTP" (README):   *)
(* every peer that the DHT found is dialled over every protocol.           *)
FoundPeersDialled ==
    \A p \in Peers :
        (\E k \in DOMAIN pending_events : pending_events[k] = p)
            ~> \E i \in DOMAIN dials : /\ dials[i].addr = p
                                       /\ \A x \in Protocols :
                                             dials[i].fut[x] # "new"

(* The same of the executions in which no poll swallows an item, without   *)
(* any wake-up from outside.  There are such where only TCP is built: with *)
(* uTP, one of the two connections to a peer is swallowed in the end.      *)
CleanRunDialsAll == []~Swallowed => FoundPeersDialled
-----------------------------------------------------------------------------
(* The swarm keeps the promise of PeerConnections: whatever discovery,     *)
(* network and handles do, each step of the swarm is a step of that        *)
(* specification or changes nothing it speaks of.                          *)
Found == {pending_events[k] : k \in DOMAIN pending_events}
             \cup {dials[i].addr : i \in DOMAIN dials}
EstablishedConnections ==
    {c \in Peers \X Protocols :
        \E i \in DOMAIN dials : dials[i].addr = c[1] /\ Established(i, c[2])}
HandedConnections ==
    {c \in Peers \X Protocols :
        \E i \in DOMAIN dials : dials[i].addr = c[1] /\ Taken(i, c[2])}

Promised == INSTANCE PeerConnections
               WITH found <- Found,
                    up <- EstablishedConnections,
                    handed <- HandedConnections

KeepsPromise == Promised!Spec
=============================================================================
