# A TLA+ model of hyperswarm-rs

This directory holds TLA+ modules that model the `hyperswarm` crate, TLC
configurations that check them on small instances, and proofs that TLAPS checks
for every value of the constants. Line numbers refer to the crate's sources;
`swarm.rs` stands for `src/swarm.rs`, and so on.

## 1. The system

A `Hyperswarm` is one `Stream`. Its owner polls it from one async task and
receives connections. Everything the swarm does happens inside `poll_next` or
inside `configure`; other threads and the network only put things where the next
poll finds them, and wake the task.

| Component | State | Operations | Talks to |
|---|---|---|---|
| `Hyperswarm` (`swarm.rs`) | `topics`, the command channel | `bind`, `configure`, `handle`, `poll_next` | owns discovery and transport |
| `SwarmHandle` (`swarm.rs:80-89`) | a sender of the command channel | `configure` | the channel, from any thread |
| `CombinedDiscovery` (`discovery/combined.rs`) | none of its own | `lookup`, `announce`, `poll_next` | DHT first, mDNS when the DHT is Pending |
| `DhtDiscovery` (`discovery/dht.rs`) | `bootstrapped`, `pending_commands`, `pending_events` | `lookup`, `announce`, `poll_next` | `HyperDht` (another crate) |
| `MdnsDiscovery` (`discovery/mdns.rs`) | a command channel, `pending_future` | `lookup`, `announce`, `poll_next` | `Locator`, `Announcer` (another crate) |
| `CombinedTransport` (`transport/combined.rs`) | `connected` | `bind`, `connect`, `poll_next` | TCP, then uTP |
| `TcpTransport`, `UtpTransport` | a listener, a `FuturesUnordered` of dials | `bind`, `connect`, `poll_next` | the network |
| `Config`, `TopicConfig`, `MdnsConfig` | values | builders | read by `bind` and `configure` |
| Bootstrap node (`bootstrap.rs`) | a `HyperDht` | `run` | the DHT |
| `HyperBroadcast` (`examples/hyperchat.rs`) | a list of peers behind a lock | `run`, `broadcast`, removal by the task of a failed connection | a `Hyperswarm`, connection loops |
| `connection_loop` (`examples/hyperchat.rs`) | a stream, two channels, what it has half read | `select` between reading and sending | the loop at the other end |

### What is hard here

* **Wake-ups.** `poll_next` returns `Pending` after it has taken one item from
  the discovery and one from the transport, whatever is left. The contract of a
  `Stream` is that something will then wake the task; whether anything does
  depends on which sources were polled to `Pending` and which were not reached.
* **Interleaving.** A handle sends a command, a connection arrives or a dial
  completes between any two stages of a poll.
* **Races between protocols.** A peer is dialled over TCP and uTP at once, and
  may be found twice; one connection must be handed out.
* **Order.** Commands arrive before the DHT has bootstrapped, and again while
  results wait to be handed out.
* **Failures.** Refused dials, sockets reset before they are looked at (a panic),
  failing `accept()`, malformed mDNS topics, a `Locator` that ends, a `bind` that
  fails half way.
* **Several swarms.** Two swarms dial each other at once and each drops doubles
  by what it has dialled itself; both look the topic up while both are still
  being announced; a swarm may find and dial itself.
* **The application.** `hyperchat` lists a connection after it has spawned its
  task, and removes by an id that two connections may share, while a broadcast
  walks the list. Its loop drops a half-done read whenever it has something to
  send, and does not read while it writes.

### What makes each component right

* Hyperswarm: no command is lost or stuck in the channel; every poll that returns
  `Pending` leaves the wakers of what it left undone.
* DhtDiscovery: what a configuration wants reaches the DHT once.
* CombinedTransport: at most one outgoing connection per address is handed out,
  and TCP and uTP never cancel each other.
* `bind`: the port that is announced leads to the swarm over every protocol.
* Several swarms: dropping doubles leaves a link open that only an application
  closes, a swarm that dials another gets a link to it, and swarms that share a
  topic meet.
* HyperBroadcast: every listed connection gets every line once and in order, and
  the list holds the connections that are open.
* connection_loop: messages arrive whole and in order, and the two ends never
  wait for each other.
* The whole: every peer found is dialled, and the application sees what
  `PeerConnections` promises.

## 2. The modules

```
PeerConnections            the promise: found, established, handed out
      ^ implemented by (INSTANCE ... WITH)
Hyperswarm                 pc, topics, the command channel; all of poll_next
  EXTENDS MdnsDiscovery    the mDNS command channel and the Locator
            EXTENDS DhtDiscovery   the queues of the DHT, HyperDht's events
  EXTENDS CombinedTransport        dials, listeners, connected
                    all EXTEND SwarmBase   peers, sources, wakers
MCHyperswarm               values for TLC
HyperswarmProofs           its theorems
  StallProofs              what a parked task has left behind
  QueryProofs              no query is repeated

SwarmNetwork               several swarms, the links between them, the DHT
SwarmNetworkProofs         its theorems

SwarmBind                  swarms and bootstrap nodes that bind on one host
SwarmBindProofs            its theorems

HyperBroadcast             the list of peers of hyperchat and its tasks
MCHyperBroadcast           values for TLC
HyperBroadcastProofs       its theorems
ConnectionLoop             the connection loops at both ends of one stream
ConnectionLoopProofs       its theorems
  FramingProofs            messages arrive whole and in order
```

**SwarmBase.** `woken` and `wakers` model the contract between a task and its
sources: a source polled to `Pending` keeps the task's waker (`Register`), and
fires it once when it has news (`Fire`). A source that answered `Ready` keeps
none. This is the only assumption made of the async runtime and the futures
crates.

**DhtDiscovery.** The state variables are the struct's fields. `poll_next` is a
loop; each turn is an action: `DhtReady` (a waiting peer goes out),
`DhtExecute` (a pending command is given to HyperDht), `DhtHandleEvent` (an event
is taken), `DhtPending`. `issued` and `answered` count what HyperDht was asked and
has answered; `DhtBootstraps` and `DhtAnswers` are HyperDht.

**MdnsDiscovery.** `MdnsSubmit` sends to the channel; each poll takes at most one
command and drops it, as the code does. `MdnsReady`, `MdnsError` and
`MdnsPending` are the three ways to return. `LocatorYields` is the Locator. The
Announcer is polled by the code but its answers are ignored; it is left out, and
the wake-ups it may cause are covered by `SpuriousWake`.

**CombinedTransport.** `dials` is the history of `connect()` calls, each with the
state of its future per protocol. A poll of `FuturesUnordered` is modelled as any
order among the futures that can run: `StartDial` (first poll), `TakeDial`,
`SkipDial`, `FailDial` and `ResetDial` (it completes), `ConnectsPending`. A
future may also fail at its first poll, which fires no waker. The
real queue is first-in first-out, so the model allows more orders than the code;
the counterexamples of section 4 do not need the extra ones. Adding a future
fires no waker. `Protocols` is `{"tcp", "utp"}`, or `{"tcp"}` for the build
without the feature `transport_utp`.

**Hyperswarm.** `pc` is the stage of the poll:

```
ready/idle -> commands -> dht -> mdns -> tcp_incoming -> tcp_connects
                                      -> utp_incoming -> utp_connects -> idle
```

`ready` is the consumer with an item in hand; `idle` is a poll that returned
`Pending`. A stage that returns an item goes to `ready`; one that logs an error
goes to `idle` at once; one that panics goes to `panicked`. The guards are the
early returns: the mDNS is reached only from a DHT that is Pending, and the uTP
side only from a TCP side that returned nothing. The owner calls `configure`
(`OwnerConfigure`) with an item in hand, or after it has dropped a pending
`next()`, and then polls anew. Between two stages any other
actor may act, since the sources are shared with other threads and the kernel.

**PeerConnections** says what the application is promised of the connections
that the swarm opens. It knows nothing of discovery, polls or wake-ups. The
refinement maps `found` to the addresses in `pending_events` and `dials`, `up` to
the dials that ever connected, and `handed` to the dials that were handed out.

**SwarmNetwork** looks at swarms from outside. Each `Configure` starts one
announce and one lookup (`swarm.rs:63-68`); `LookupDone` dials every swarm that
is announced over every protocol (`dht.rs:103-110`, `combined.rs:133-138`);
`TakeIncoming`, `TakeOutgoing` and `SkipOutgoing` are the branches of
`on_connection` (`combined.rs:103-127`). `near` and `far` are the two ends of a
link. `CloseNear` and `CloseFar` are an application that closes a link
(`Closing`), `EndNear` and `EndFar` one that reads that the other side has gone;
`connected` is told of neither, as in the code. A swarm polls when it likes,
perhaps never again: whether a connection is polled is the subject of
`Hyperswarm`, and the liveness here has it as a condition (`Polled`). Of
`HyperDht` the module assumes that a lookup returns what is announced when it
ends, all of it or, for a swarm in `Patchy`, some of it, perhaps with the swarm
that looks up (`Echoed`), whose links to itself are then links like all others; of
the network, that a dial over a protocol in `Unreliable` may fail.

**SwarmBind** has one action per await of `bind`: `BindTcp`, `BindUtp` (on the
port that TCP got, `combined.rs:45-49`), `BindMdns`, `BindDht`. `BindFails` is the
error that `?` passes on, or the future that is dropped, at any of them; Rust
drops the parts, which is taken for granted. `BootstrapNode::run` has two awaits:
`RunNode` goes up to the first, `BindNode` has `DhtConfig::bind` take the socket,
and `NodeRuns` ends `HyperDht::with_config` and returns the address. TCP and UDP
ports are numbered apart, so a uTP port may be lost to any DHT.

**HyperBroadcast** has the three kinds of task of `hyperchat`: `run`
(`TakeConnection` up to the spawn at line 187, `PushPeer` at line 213, `RunEnds`
for the `?` at line 166, with which the process ends), the reader of stdin
(`Broadcast`, then one `SendToPeer` per turn of the loop, `BroadcastDone`), and
one task per connection. Its loop looks at its channel in `select` only:
`TakeMessage` and `ChannelClosed` happen there, `ReadHeader` and `TakeMessage`
leave it for a body or a message, `StreamDone` comes back from either, and the
stream may fail at any time (`StreamFails`). `RemovePeers` is the `retain` at line
192 (`Retain` says by an increasing
enumeration which entries stay, a form that can be reasoned about without a
recursion). The lock is held from `Broadcast` to
`BroadcastDone`; pushing and removing take it for one step. A `Peer` owns the only
sender of its channel, so removing it closes the channel of a connection that may
be alive. `IdOf` is `Peer::id`: an incoming and an outgoing uTP connection to one
peer have the same. `since` is a history variable.

**ConnectionLoop** has both ends of a stream, each at one of the awaits of
`connection_loop`: `select`, the body, `write_all`. Units stand for bytes, a read
takes what is there, and a write what there is room for. `SelectLeft`,
`SelectRight` and `SelectPending` are the outcomes of one poll of `select`, which
polls the header first; `SelectRight` drops what the header's future had read.
A header that is not one has any length up to `MaxGarbled`. `cut` is a history
variable. The pipe is what `Connection` passes to TCP and uTP
(`transport/mod.rs:76-108`), which deliver in order.

Definitions named as mutated forms (`TakeDialForgets`, `PollOneCommand`, ...)
are plausible bugs, never used by the specification; they show that each property
can fail.

## 3. Properties and runs

Runs are `tlc -config <Name>.cfg <Module>`, with `SwarmNetwork` for Pair and
Missed, `SwarmBind` for Ports, `MCHyperBroadcast` for Broadcast and Ghost,
`ConnectionLoop` for Framing, and `MCHyperswarm` for the others.

| Run | Instance | Properties | Result |
|---|---|---|---|
| Dials | 1 topic, 1 or 2 peers, TCP and uTP, refused dials, connections that close, recurring wake-ups | `TypeOK`, `StallNeedsSwallowedItem`, `KeepsPromise`, `FoundPeersDialled` | holds |
| Commands | TCP only, 3 configure calls on or off, by owner or handle, at any time, lookups that find 2 peers | `WantedReachesDht`, `NoRepeatedQuery`, `CommandsNotStranded`, `CommandsApplied`, `LastCommandWins`, `CleanRunDialsAll` | holds |
| Listeners | an incoming connection per protocol beside dials of 1 or 2 peers, no recurring wake-ups | `ListenerNotStranded`, `ListenerServed` | holds |
| Faults | DHT and mDNS find the same peer, so 4 dials to one address; resets, refusals, closed connections, failing accept, bad mDNS topics, a Locator that ends | `OneOutgoingPerAddress`, `SkippedForAnother` | holds |
| Stalled | as Dials, without recurring wake-ups | `FoundPeersDialled` | violated |
| Skipped | 2 lookups find a peer whose connection closes | `SkippedOnlyWhileConnected` | violated |
| Pair | 2 swarms, TCP and uTP, dials over uTP may fail, one swarm may find itself and may miss the other, the other closes links | `TypeOK`, `OneLinkEachWay`, `DropLeavesALink`, `DialledAreMet` | holds |
| Missed | 2 swarms, every lookup complete, no dial fails, no link closes, every connection polled | `InterestedPeersMeet` | violated |
| Ports | 2 swarms and a bootstrap node on 5 ports, any or a given port, failures and retries | `TypeOK`, `AnnouncedPortReaches`, `BootstrapAddrReaches` | holds |
| Broadcast | 3 connections, 2 with one id, 2 lines, failures at any time | `TypeOK`, `NoLineMissed`, `CutOffByNamesake`, `GhostsOnlyByPush`, `LinesArrive`, `CutOffEnds` | holds |
| Ghost | the same | `FailedIsRemoved` | violated |
| Framing | 3 messages each way of 3 units with a header of 2, a window of 4, failures at any time | `TypeOK`, `InOrderUnlessCut`, `NeverJammed`, `EndIsNoticed`, `CleanRunDelivers` | holds |

**Bounds.** `MaxCalls` bounds calls of `configure`, `MaxIncoming` the incoming
connections per protocol, `MaxFound` how many peers mDNS finds. A dial is made
for each peer found, so `Answers` and `MaxCalls` bound the dials. Two dials are
enough for the races that matter: a race for one address needs two futures (TCP
and uTP of one dial, or two dials), and a stall needs one peer whose dial is
swallowed and one that is left behind. Three calls of `configure` switch a topic
on, off and on again, which is where a query is repeated; with two peers per
lookup they also make dials while others are in flight. `CleanRunDialsAll` speaks of
executions in which no poll swallows an item. With uTP there are none once a peer
is dialled, since one of its two futures is dropped or fails in the end: the
property is about the TCP-only build, and Commands has such executions with both
peers dialled. Symmetry is not used, since most
runs check a refinement or liveness. Two swarms are enough for Pair, since
`connected` and the links of one pair do not depend on other swarms; the safety
properties are proved for any number. One swarm of Pair finds itself and the other
closes links, both those it opened and those it accepted; the links of the other
to itself would be independent of these. One incoming connection per
protocol is enough for Listeners, since a poll takes one and the consumer polls again;
`ListenerNotStranded` is proved for any number. In Broadcast, two connections
share an id and one does not, so that a removal shifts the place of a live
connection behind it; two lines show a gap between lines. In Framing a header of
two units can be half read, a message is longer than its header, and a window of
four holds a message and part of the next, so that a write may wait; with a window
smaller than a message the two ends do jam, which is why `NeverJammed` has that
condition. Five ports let both swarms and the
node be bound at once, with no UDP port left for a sixth socket.

**Fairness.** `FairSpec` assumes that the executor runs a woken task and that the
consumer keeps calling `next()` (`WF_vars(Poll)`), as the loop of the crate's
README does, and that a dial is answered in the end
(`WF_vars(NetworkAnswersDial)`), since both protocols give up on a silent
remote. There is one fairness condition for all of `Poll` because a task does one
thing at a time. Nothing is assumed of the DHT, of mDNS, of incoming connections
or of wake-ups. `WokenSpec` adds that something wakes the task again and again;
traffic of the DHT may do so, but no code of the crate ensures it. `FairSpec` of
`SwarmNetwork` assumes that queries end and that a dial succeeds or fails; nobody
has to configure a swarm, to close a link or to poll. That each connection is
polled in the end, at both sides, is what Stalled shows the code not to ensure, so
it is the stated condition of `DialledAreMet` (`Polled`); Missed grants it
(`PolledSpec`), to show that polling is not what is missing there. `FairSpec` of
`HyperBroadcast` assumes that the reader of stdin, `run` and the removals go on
when they can and obtain the lock in the end (the Mutex of async_std does not
starve a waiter). It assumes nothing of a `connection_loop`, which may wait in a
body or a `write_all` for as long as its remote likes: `LinesArrive` and
`CutOffEnds` hold for a connection that gets back to its `select` each time and
whose headers do not keep it from its channel for ever (`Served`, their stated
condition). Framing shows the first half of that for two ends that run and have
dropped no half-read header (`CleanRunDelivers`). `FairSpec` of
`ConnectionLoop` assumes that a loop whose stream or channel is ready is polled.
No message, line, connection or failure has to come.

**Deadlock** is checked except in Faults, where a panicked task stops, and in the
runs of `SwarmNetwork`, `HyperBroadcast` and `ConnectionLoop`, where everything
ends once the swarms are linked, the process has ended or all is sent.

## 4. What the violated runs show

* **Stalled.** A lookup finds p1 and p2. The first poll dials p1. When p1 refuses
  over TCP, the next poll dials p2 and then takes the refusal from
  `FuturesUnordered`; the error is logged and the poll returns `Pending`
  (`swarm.rs:127-131`) before p2's futures were polled even once. p1's uTP dial
  wakes the task at most once more. A double connection does the same
  (`combined.rs:120-127`), so no failure is needed: a peer that is found twice is
  enough. The peers wait until the task is polled for another reason. `Dials`
  shows that a recurring wake-up is enough, `StallNeedsSwallowedItem` that only a
  swallowed item can cause the stall, and `CleanRunDialsAll` that without one the
  TCP-only build dials everybody.
* **Skipped.** `connected` is a set from which nothing is removed, so a peer that
  comes back is dialled, connected and dropped (`combined.rs:104-111`).
* **Missed.** Both swarms switch the topic on. Both lookups end before either
  announcement is stored, and no lookup is repeated, so they never meet. The
  crate's test sleeps 50 ms to avoid this (`swarm.rs:190`).
  The run has complete lookups, dials that succeed and connections that are
  polled; `DialledAreMet` says that a swarm that has dialled another does get a
  link.
* **Ghost.** `run` spawns the task of a connection (line 187) and lists the
  connection afterwards (line 213). If the connection fails at once, its task gets
  the lock first, removes nothing, and the push then lists a connection that is
  gone. `GhostsOnlyByPush` says that this is the only way.

Two more things are known and have no run. The comment at `combined.rs:96-100` does not want both a TCP and
a uTP link between two swarms and says that the remedy is not reliable: when a and
b find each other, a may keep its TCP link and b its uTP link, because incoming
connections are not entered in `connected`; `OneLinkEachWay` is what the remedy
achieves. And commands for mDNS are taken off the channel and dropped
(`mdns.rs:147-170`): the crate's README says that topics are announced and looked
up "over both mDNS and the DHT" (`README.md:55`), which is not so, and lists
finding peers over mDNS as open further down (`README.md:159`). The module has it
(`DropOneCommand`); a property would only restate that one branch.

What `InOrderUnlessCut` excepts does happen: `select` drops a header that is half
read as soon as there is something to send (`hyperchat.rs:254-257`), and the end
that did so reads the rest of the stream out of step. No line of the repository
promises otherwise.

## 5. What is proved

`HyperswarmProofs` proves the following for every set of peers and topics, every
set of answers and configurations, every choice of protocols and faults, and
every bound. It uses only the assumptions stated in the modules
(`AnswersAssumption`, `MdnsAssumption`, `TransportAssumption`,
`SwarmAssumption`), which say what kind of value each constant is.

| Theorem | States | Argument |
|---|---|---|
| `TypeCorrect` | `Spec => []TypeOK` | one lemma per component, then one step per action |
| `CommandsNeverStranded` | `[]CommandsNotStranded` | `CommandInv`: a poll past the commands is woken, or the channel is empty and holds the waker. The property speaks of parked tasks only and says nothing of how the task got there, so it is not inductive |
| `AtMostOnePerAddress`, `NoMutualCancel` | `[]OneOutgoingPerAddress`, `[]SkippedForAnother` | `ConnectionInv`: `connected` is exactly the set of addresses handed out. `TransportSteps` reduces every step to one of three effects on the dials |
| `ListenerNeverStranded` | `[]ListenerNotStranded` | `ListenerInv`: a poll past the listener is woken or has left its waker with an empty backlog, and no backlog holds an error |
| `NothingWantedIsLost` | `[]WantedReachesDht` | inductive with `TypeOK`; `SubmitEffect` and `ExecuteEffect` say what the queue keeps |
| `Refinement` | `Spec => KeepsPromise` | every effect of `TransportSteps` is a step of `PeerConnections` or a stutter; handing out needs `ConnectionInv` |
| `NoQueryRepeated` (`QueryProofs`) | `[]NoRepeatedQuery` | `QueryInv`: twice the requests for a query, sent or queued, are at most the calls that have taken effect, plus one while the query is wanted. The property counts all calls and does not say whether a query is on, so a call that repeats one would not contradict it. Cardinalities of the places in the queue are related by bijections |
| `StallsOnlyAfterSwallowing` (`StallProofs`) | `[]StallNeedsSwallowedItem` | `StallInv`: as long as nothing was swallowed and the task is not woken, every stage that the poll has passed is empty and has its waker; the discovery may instead have been left early, but then there is a dial that is not over, which is in flight and armed once the poll has passed the connects. `SwallowedStays`: what was swallowed stays so. The property speaks of parked tasks only |

`SwarmNetworkProofs` (any swarms and protocols, whichever fail, find themselves,
miss others or close links):

| Theorem | States | Argument |
|---|---|---|
| `NoLinkCancelled` | `[]DropLeavesALink` | `ConnectedHanded`: an address is in `connected` iff a link to it was handed out, whether or not it was closed since; `EndedByOther`: a side ends only what the other has dropped or closed. The property alone says nothing of `connected`, by which doubles are dropped |
| `AcceptorKeepsOne` | `[]OneLinkEachWay` | `HandedOnce`: the initiator hands out one link to an address at most; it rests on `LookupBeforeDial`, a swarm has dialled nobody before its lookup ends |
| `TypeCorrect` | `[]TypeOK` | |

`SwarmBindProofs` (any swarms, nodes and ports):

| Theorem | States | Argument |
|---|---|---|
| `AnnouncedPortIsOwn` | `[]AnnouncedPortReaches` | `SwarmHolds`: which sockets a swarm has at each await; with `TypeOK`, which says that no two sockets share a port |
| `BootstrapAddrIsOwn` | `[]BootstrapAddrReaches` | `NodeHolds` |
| `TypeCorrect` | `[]TypeOK` | `TakeKeepsApart`, `ReleaseKeepsOthers` |

`ConnectionLoopProofs` (any sizes of header, message and window, any number of
messages):

| Theorem | States | Argument |
|---|---|---|
| `NeverBothWaiting` | `[]NeverJammed` | `RoomInv`: while both ends write, what one of them has left fits into the stream. The end that began to write last had polled its header first and found less than a header, so it had emptied the stream of the other; writing only moves units from the message to the stream. `NeverJammed` alone does not say why there is room |
| `TypeCorrect` | `[]TypeOK` | inductive with `StageInv`, which says what has been read at each await |
| `InOrder` (`FramingProofs`) | `[]InOrderUnlessCut` | `OrderInv`: for an end that dropped no half-read header, what it has read of the current message, what the stream holds for it and what the other has yet to write are, joined, whole messages from the next one it will pass on to the last one taken. `Consecutive` says so without recursion: the first `Size` units are that message, every unit is followed `Size` units later by that of the next message, and the last `Size` units are the last message. Reading and writing only move units within the join (`ReadKeepsStream`), a message that is taken is put at its end (`ConsecutiveSend`), one that is delivered is taken off its front (`ConsecutiveDeliver`), and a header at its front has the right length (`ConsecutiveHeader`). `IdleInv`: an end that does not write has nothing left to write |

`HyperBroadcastProofs` (any connections, ids and number of lines):

| Theorem | States | Argument |
|---|---|---|
| `EveryLineSent` | `[]NoLineMissed` | inductive with `ListingInv` (one entry per connection, and one connection about to be listed), `UnlistedInv` (a connection that is about to be listed was sent the initial message only) and `SinceInv` (nobody was listed later than the last line it was sent). Removing moves entries, but not while a broadcast holds the lock; `RetainEffect` says what stays |
| `OnlyNamesakesCutOff` | `[]CutOffByNamesake` | the connection for which the entry was removed has the same id and has failed; that it is not the same connection follows from its task not running |
| `GhostsArePushedLate` | `Spec => GhostsOnlyByPush` | an action property: every action but the push adds nobody to the list, and the removal leaves no entry with the id of its connection |
| `TypeCorrect` | `[]TypeOK` | |

Every invariant and action property that a run checks is thus also proved, and
each inductive invariant was checked by TLC on a run's instance first. Only
model-checked is what is temporal (`CommandsApplied`,
`ListenerServed`, `FoundPeersDialled`, `CleanRunDialsAll`,
`DialledAreMet`, `LastCommandWins`, `LinesArrive`, `CutOffEnds`,
`EndIsNoticed`, `CleanRunDelivers`), since fairness is out
of the prover's reach.

## 6. What is not modelled

* The contents of a `PeerInfo` other than its address; debug output.
* `HyperDht`, `Locator`, `Announcer`, the executor and the network are other
  code: they are modelled as the crate uses them.
* The builders of `Config`, `DhtConfig` and `MdnsConfig`: each is one assignment,
  and nothing interacts with it. The repository has no test of them either
  (`tests/test.rs` is empty). `MdnsConfig::default()`
  leaves `lookup_interval` zero where `new()` sets a minute (`mdns.rs:34`).
* The command lines of the bootstrap program and of the examples; `simple.rs`,
  which prints what it reads.
* In `hyperchat`, the forwarding of received messages to one channel and their
  printing. One `name` is kept for all peers there (line 97), so everybody is shown
  under the name of the first. At the end of stdin the reader broadcasts empty
  lines for ever (lines 118-122).
* IP addresses: a swarm listens on all interfaces, so its address is its port.
* Streams that lose data. The crate's README says of uTP that "sometimes the
  connection is not flushed properly" (`README.md:164`); `ConnectionLoop` assumes a
  stream that delivers what was written, in order, so `InOrderUnlessCut`,
  `EndIsNoticed` and `CleanRunDelivers` speak of uTP only as far as libutp does.
* The release of the sockets of a `bind` that fails: it is what Rust's `Drop` does,
  and the model takes it for granted.
* What comes after a panic (`tcp.rs:82`) or an error of `accept()` (`tcp.rs:113`):
  both are in Faults, whose properties hold up to them; nothing is promised of
  the listener afterwards.

## 7. Plan

1. Proofs: the safety that the liveness properties rest on. For
   `LastCommandWins`: only a call of `configure` changes the configuration that a
   topic will have once the channel is empty.
2. `SwarmNetwork` with topics that are switched off and on again, so that a closed
   link is dialled anew; announcements that outlive their swarm when another takes
   its port.
3. `DhtDiscovery` alone against an abstract queue of queries and results;
   `CombinedTransport` alone.
4. That a clean network of `Hyperswarm`s behaves as `SwarmNetwork` assumes.
