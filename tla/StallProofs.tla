---------------------------- MODULE StallProofs ----------------------------
(***************************************************************************)
(* Hyperswarm parks its task with work left only after a poll swallowed an *)
(* item: the proof that every stage of poll_next that a poll has passed is *)
(* either empty and armed, or has left a dial behind whose answer wakes    *)
(* the task.                                                               *)
(***************************************************************************)
EXTENDS HyperswarmProofs

PastIncoming(x) ==
    pc \in IF x = "tcp" THEN {"tcp_connects", "utp_incoming", "utp_connects", "idle"}
                        ELSE {"utp_connects", "idle"}
IncomingArmed(x) == backlog[x] = <<>> /\ Incoming(x) \in wakers

PastConnects(x) ==
    pc \in IF x = "tcp" THEN {"utp_incoming", "utp_connects", "idle"} ELSE {"idle"}
ConnectsArmed(x) == /\ \A i \in DOMAIN dials : ~Runnable(i, x)
                    /\ Connects(x) \in wakers

PastDiscovery ==
    pc \in {"tcp_incoming", "tcp_connects", "utp_incoming", "utp_connects", "idle"}
DhtArmed == ReachesHyperDht /\ dht_events = <<>> /\ "dht" \in wakers
LocatorArmed == \/ located = <<>> /\ "locator" \in wakers
                \/ LocatorHas("end")

(* A dial that some later poll will have to do with.                       *)
Open(i, x) == dials[i].fut[x] \in {"new", "flying", "ok", "refused"}
DialOpen == \E i \in DOMAIN dials, x \in Protocols : Open(i, x)

StagesInv ==
    /\ \A x \in Protocols : PastIncoming(x) => IncomingArmed(x)
    /\ \A x \in Protocols : PastConnects(x) => ConnectsArmed(x)
    /\ pc = "mdns" => DhtArmed
    /\ PastDiscovery => (DhtArmed /\ LocatorArmed) \/ DialOpen

StallInv == "accept" \notin Faults /\ ~Swallowed /\ ~woken => StagesInv
-----------------------------------------------------------------------------
(* A future that was skipped or failed stays so.                           *)
LEMMA SwallowedStays == TypeOK /\ Swallowed /\ [Next]_vars => Swallowed'
<1> SUFFICES ASSUME TypeOK, [Next]_vars, NEW i \in DOMAIN dials, NEW x \in Protocols,
                    dials[i].fut[x] \in {"skipped", "failed"}
             PROVE  i \in DOMAIN dials' /\ dials'[i].fut[x] = dials[i].fut[x]
  BY DEF Swallowed
<1>t. TransportTypeOK
  BY DEF TypeOK
<1>1. ASSUME NEW p \in Peers, Connect(p)
      PROVE  i \in DOMAIN dials' /\ dials'[i].fut[x] = dials[i].fut[x]
  BY <1>t, <1>1, ConnectEffect
<1>2. ASSUME NEW j \in DOMAIN dials, NEW y \in Protocols, Moves(j, y)
      PROVE  i \in DOMAIN dials' /\ dials'[i].fut[x] = dials[i].fut[x]
  <2>1. PICK s : SetFuture(j, y, s)
    BY <1>2 DEF Moves, StartDial, TakeDial, SkipDial, FailDial, Answer, Close
  <2>2. dials[j].fut[y] \notin {"skipped", "failed"}
    BY <1>2 DEF Moves, StartDial, TakeDial, SkipDial, FailDial, Answer, Close
  <2> QED BY <1>t, <2>1, <2>2, SetFutureEffect
<1> QED BY <1>1, <1>2, TransportSteps

(* A source that fires and does not wake the task had no waker to fire.    *)
LEMMA FireQuiet ==
    ASSUME NEW s, Fire(s), ~woken'
    PROVE  ~woken /\ s \notin wakers /\ wakers' = wakers
  BY DEF Fire

(* What a new dial leaves open.                                            *)
LEMMA ConnectOpens ==
    ASSUME TransportTypeOK, NEW p \in Peers, Connect(p)
    PROVE  DialOpen'
<1>1. dials \in Seq(Dial) /\ dials' = Append(dials, [addr |-> p,
                                        fut |-> [x \in Protocols |-> "new"]])
  BY DEF Connect, TransportTypeOK
<1>2. Len(dials) + 1 \in DOMAIN dials' /\ Len(dials) + 1 \notin DOMAIN dials
  BY <1>1
<1>3. dials'[Len(dials) + 1].fut["tcp"] = "new"
  BY <1>2, ConnectEffect, TransportAssumption
<1> QED BY <1>2, <1>3, TransportAssumption DEF DialOpen, Open

(* A future that moves within a set of states: what that does to the rest. *)
LEMMA MoveKeeps ==
    ASSUME TransportTypeOK, NEW i \in DOMAIN dials, NEW x \in Protocols, NEW s,
           SetFuture(i, x, s)
    PROVE  /\ \A y \in Protocols : y # x =>
                  ((\A j \in DOMAIN dials : ~Runnable(j, y))
                      => \A j \in DOMAIN dials' : ~Runnable(j, y)')
           /\ s \in {"new", "flying", "ok", "refused"} => DialOpen'
           /\ s \notin {"new", "ok", "refused"} =>
                  ((\A j \in DOMAIN dials : ~Runnable(j, x))
                      => \A j \in DOMAIN dials' : ~Runnable(j, x)')
           /\ ~Open(i, x) => (DialOpen => DialOpen')
<1>1. /\ DOMAIN dials' = DOMAIN dials
      /\ \A j \in DOMAIN dials : \A y \in Protocols :
             dials'[j].fut[y] = IF j = i /\ y = x THEN s ELSE dials[j].fut[y]
  BY SetFutureEffect
<1>2. \A j \in DOMAIN dials, y \in Protocols :
          ~(j = i /\ y = x) => /\ Runnable(j, y)' <=> Runnable(j, y)
                               /\ Open(j, y)' <=> Open(j, y)
  BY <1>1 DEF Runnable, Open
<1>3. Runnable(i, x)' <=> s \in {"new", "ok", "refused"}
  BY <1>1 DEF Runnable
<1>4. Open(i, x)' <=> s \in {"new", "flying", "ok", "refused"}
  BY <1>1 DEF Open
<1> QED BY <1>1, <1>2, <1>3, <1>4 DEF DialOpen
-----------------------------------------------------------------------------
(* The steps of the task before it has passed anything.                    *)
LEMMA EarlyStep ==
    ASSUME pc' \in {"ready", "commands", "dht", "panicked"}
    PROVE  StagesInv'
  BY DEF StagesInv, PastIncoming, PastConnects, PastDiscovery

(* A step that leaves the stages, their sources and their wakers alone.    *)
LEMMA StagesKept ==
    ASSUME StagesInv,
           UNCHANGED <<pc, dials, backlog, located, bootstrapped, pending_events,
                       pending_commands, dht_events>>,
           wakers \subseteq wakers'
    PROVE  StagesInv'
<1>1. \A x \in Protocols : IncomingArmed(x) => IncomingArmed(x)'
  BY DEF IncomingArmed
<1>2. \A x \in Protocols : ConnectsArmed(x) => ConnectsArmed(x)'
  BY DEF ConnectsArmed, Runnable
<1>3. DhtArmed => DhtArmed'
  BY DEF DhtArmed, ReachesHyperDht
<1>4. LocatorArmed => LocatorArmed'
  BY DEF LocatorArmed, LocatorHas
<1>5. DialOpen => DialOpen'
  BY DEF DialOpen, Open
<1> QED BY <1>1, <1>2, <1>3, <1>4, <1>5
        DEF StagesInv, PastIncoming, PastConnects, PastDiscovery

(* The discovery stages: Pending leaves the source armed, and Ready leaves *)
(* a dial.                                                                 *)
LEMMA DiscoveryStages ==
    ASSUME TypeOK, StagesInv,
           \/ PollDhtReady \/ PollDhtPending
           \/ PollMdnsReady \/ PollMdnsError \/ PollMdnsPending
    PROVE  StagesInv'
<1>t. TransportTypeOK
  BY DEF TypeOK
<1>1. CASE PollDhtReady \/ PollMdnsReady
  <2>1. pc' = "tcp_incoming" /\ \E p \in Peers : Connect(p)
    BY <1>1 DEF PollDhtReady, PollMdnsReady
  <2>2. DialOpen'
    BY <1>t, <2>1, ConnectOpens
  <2> QED BY <2>1, <2>2 DEF StagesInv, PastIncoming, PastConnects
<1>2. CASE PollDhtPending
  <2>1. pc' = "mdns" /\ DhtArmed'
    BY <1>2 DEF PollDhtPending, DhtPending, DhtArmed, ReachesHyperDht, Register, dhtVars
  <2> QED BY <2>1 DEF StagesInv, PastIncoming, PastConnects, PastDiscovery
<1>3. CASE PollMdnsError
  BY <1>3, EarlyStep DEF PollMdnsError
<1>4. CASE PollMdnsPending
  <2>1. pc = "mdns" /\ pc' = "tcp_incoming" /\ wakers \subseteq wakers' /\ DhtArmed
    BY <1>4 DEF PollMdnsPending, MdnsPending, StagesInv
  <2>2. DhtArmed'
    BY <1>4, <2>1 DEF PollMdnsPending, DhtArmed, ReachesHyperDht, dhtVars
  <2>3. LocatorArmed'
    BY <1>4 DEF PollMdnsPending, MdnsPending, LocatorArmed, LocatorHas
  <2> QED BY <2>1, <2>2, <2>3 DEF StagesInv, PastIncoming, PastConnects
<1> QED BY <1>1, <1>2, <1>3, <1>4

(* A listener is left armed, or returns something and ends the poll.       *)
LEMMA IncomingStage ==
    ASSUME TypeOK, NoAcceptError, StagesInv, NEW x \in Protocols, PollIncoming(x)
    PROVE  StagesInv'
<1>1. CASE \/ Accept(x, "conn") /\ pc' = "ready"
           \/ Accept(x, "reset") /\ pc' = "panicked"
  BY <1>1, EarlyStep
<1>2. CASE Accept(x, "error")
  <2>1. backlog[x] \in Seq(Arrival) /\ backlog[x] # <<>> /\ Head(backlog[x]) = "error"
    BY <1>2 DEF Accept, TypeOK, TransportTypeOK
  <2>2. 1 \in DOMAIN backlog[x] /\ backlog[x][1] = "error"
    BY <2>1
  <2> QED BY <2>2 DEF NoAcceptError
<1>3. CASE IncomingPending(x) /\ pc' = Connects(x)
  <2>1. /\ UNCHANGED <<dials, backlog, located, bootstrapped, pending_events,
                       pending_commands, dht_events>>
        /\ wakers' = wakers \cup {Incoming(x)} /\ backlog[x] = <<>>
    BY <1>3 DEF IncomingPending, PollIncoming, Register, transportVars, mdnsVars, dhtVars
  <2>2. pc = Incoming(x) /\ pc' = Connects(x) /\ x \in {"tcp", "utp"}
    BY <1>3, TransportAssumption DEF PollIncoming
  <2>3. IncomingArmed(x)'
    BY <2>1 DEF IncomingArmed
  <2>4. ASSUME NEW y \in Protocols, y # x, PastIncoming(y)' PROVE IncomingArmed(y)'
    <3>1. PastIncoming(y)
      BY <2>2, <2>4, TransportAssumption DEF PastIncoming, Incoming, Connects
    <3> QED BY <2>1, <3>1 DEF StagesInv, IncomingArmed
  <2>5. ASSUME NEW y \in Protocols, PastConnects(y)' PROVE ConnectsArmed(y)'
    <3>1. PastConnects(y)
      BY <2>2, <2>5, TransportAssumption DEF PastConnects, Incoming, Connects
    <3> QED BY <2>1, <3>1 DEF StagesInv, ConnectsArmed, Runnable
  <2>6. (DhtArmed /\ LocatorArmed)' \/ DialOpen'
    <3>1. PastDiscovery
      BY <2>2 DEF PastDiscovery, Incoming
    <3> QED BY <2>1, <3>1 DEF StagesInv, DhtArmed, ReachesHyperDht, LocatorArmed,
                              LocatorHas, DialOpen, Open
  <2>7. pc' # "mdns"
    BY <2>2 DEF Connects
  <2> QED BY <2>3, <2>4, <2>5, <2>6, <2>7 DEF StagesInv
<1> QED BY <1>1, <1>2, <1>3 DEF PollIncoming

(* The connect futures of a protocol have all been run when the poll goes  *)
(* on without having swallowed one.                                        *)
LEMMA ConnectsStage ==
    ASSUME TypeOK, StagesInv, ~Swallowed', NEW x \in Protocols, PollConnects(x)
    PROVE  StagesInv'
<1>t. TransportTypeOK
  BY DEF TypeOK
<1>p. pc = Connects(x) /\ x \in {"tcp", "utp"} /\ PastDiscovery /\ PastIncoming(x)
  BY TransportAssumption DEF PollConnects, PastDiscovery, PastIncoming, Connects
<1>d. UNCHANGED <<located, bootstrapped, pending_events, pending_commands, dht_events>>
  BY DEF PollConnects, mdnsVars, dhtVars
<1>1. ASSUME NEW i \in DOMAIN dials, StartDial(i, x), UNCHANGED pc
      PROVE  StagesInv'
  <2>1. SetFuture(i, x, "flying") /\ backlog' = backlog /\ wakers \subseteq wakers'
    BY <1>1 DEF StartDial, Register
  <2>2. DialOpen'
    BY <1>t, <2>1, MoveKeeps
  <2>3. \A y \in Protocols : PastIncoming(y)' => IncomingArmed(y)'
    BY <1>1, <2>1 DEF StagesInv, PastIncoming, IncomingArmed
  <2>4. ASSUME NEW y \in Protocols, PastConnects(y)' PROVE ConnectsArmed(y)'
    <3>1. PastConnects(y) /\ y # x
      BY <1>1, <1>p, <2>4 DEF PastConnects, Connects
    <3>2. ConnectsArmed(y)
      BY <3>1 DEF StagesInv
    <3> QED BY <1>t, <2>1, <3>1, <3>2, MoveKeeps DEF ConnectsArmed
  <2>5. pc' # "mdns"
    BY <1>1, <1>p DEF Connects
  <2> QED BY <2>2, <2>3, <2>4, <2>5 DEF StagesInv
<1>2. ASSUME NEW i \in DOMAIN dials,
             \/ TakeDial(i, x) /\ pc' = "ready"
             \/ ResetDial(i, x) /\ pc' = "panicked"
      PROVE  StagesInv'
  BY <1>2, EarlyStep
<1>3. ASSUME NEW i \in DOMAIN dials, SkipDial(i, x) \/ FailDial(i, x)
      PROVE  FALSE
  <2>1. PICK s \in {"skipped", "failed"} : SetFuture(i, x, s)
    BY <1>3 DEF SkipDial, FailDial
  <2>2. i \in DOMAIN dials' /\ dials'[i].fut[x] = s
    BY <1>t, <2>1, SetFutureEffect
  <2> QED BY <2>2 DEF Swallowed
<1>4. CASE ConnectsPending(x) /\ pc' = AfterConnects(x)
  <2>1. /\ UNCHANGED <<dials, backlog>> /\ wakers' = wakers \cup {Connects(x)}
        /\ \A i \in DOMAIN dials : ~Runnable(i, x)
    BY <1>4 DEF ConnectsPending, Register, transportVars
  <2>2. ConnectsArmed(x)'
    BY <2>1 DEF ConnectsArmed, Runnable
  <2>3. ASSUME NEW y \in Protocols, PastIncoming(y)' PROVE IncomingArmed(y)'
    <3>1. PastIncoming(y)
      BY <1>4, <1>p, <2>3, TransportAssumption DEF PastIncoming, Connects, AfterConnects
    <3> QED BY <2>1, <3>1 DEF StagesInv, IncomingArmed
  <2>4. ASSUME NEW y \in Protocols, y # x, PastConnects(y)' PROVE ConnectsArmed(y)'
    <3>1. PastConnects(y)
      BY <1>4, <1>p, <2>4, TransportAssumption DEF PastConnects, Connects, AfterConnects
    <3> QED BY <2>1, <3>1 DEF StagesInv, ConnectsArmed, Runnable
  <2>5. (DhtArmed /\ LocatorArmed)' \/ DialOpen'
    BY <1>d, <1>p, <2>1 DEF StagesInv, DhtArmed, ReachesHyperDht, LocatorArmed,
                            LocatorHas, DialOpen, Open
  <2>6. pc' # "mdns"
    BY <1>4 DEF AfterConnects
  <2> QED BY <2>2, <2>3, <2>4, <2>5, <2>6 DEF StagesInv
<1> QED BY <1>1, <1>2, <1>3, <1>4 DEF PollConnects

(* What the world does to a stage that was passed wakes the task.          *)
LEMMA WorldSteps ==
    ASSUME TypeOK, StagesInv, ~woken',
           DhtActs \/ LocatorActs \/ NetworkAnswersDial \/ NetworkActs
    PROVE  StagesInv'
<1>t. TransportTypeOK
  BY DEF TypeOK
<1>p. pc' = pc
  BY DEF DhtActs, LocatorActs, NetworkAnswersDial, NetworkAnswers, NetworkActs
<1>1. CASE DhtActs
  <2>1. Fire("dht") /\ UNCHANGED <<dials, backlog, located>>
    BY <1>1 DEF DhtActs, DhtBootstraps, DhtAnswers, Emit, mdnsVars, transportVars
  <2>2. "dht" \notin wakers /\ wakers' = wakers
    BY <2>1, FireQuiet
  <2> QED BY <1>p, <2>1, <2>2 DEF StagesInv, DhtArmed, PastIncoming, PastConnects,
             PastDiscovery, IncomingArmed, ConnectsArmed, Runnable, DialOpen, Open
<1>2. CASE LocatorActs
  <2>1. /\ Fire("locator") /\ UNCHANGED <<dials, backlog, bootstrapped, pending_events,
                                          pending_commands, dht_events>>
        /\ \A i \in DOMAIN located : located[i].kind # "end"
    BY <1>2 DEF LocatorActs, LocatorYields, dhtVars, transportVars
  <2>2. "locator" \notin wakers /\ wakers' = wakers
    BY <2>1, FireQuiet
  <2>3. ~LocatorArmed
    <3>1. located \in Seq(Located)
      BY DEF TypeOK, MdnsTypeOK
    <3>2. located # <<>> => 1 \in DOMAIN located /\ Head(located) = located[1]
      BY <3>1
    <3> QED BY <2>1, <2>2, <3>2 DEF LocatorArmed, LocatorHas
  <2> QED BY <1>p, <2>1, <2>2, <2>3 DEF StagesInv, DhtArmed, ReachesHyperDht,
             PastIncoming, PastConnects, PastDiscovery, IncomingArmed, ConnectsArmed,
             Runnable, DialOpen, Open
<1>k. ASSUME UNCHANGED <<located, bootstrapped, pending_events, pending_commands, dht_events>>,
             wakers' = wakers, DialOpen => DialOpen',
             \A y \in Protocols : PastIncoming(y) => IncomingArmed(y)',
             \A y \in Protocols : PastConnects(y) => ConnectsArmed(y)'
      PROVE  StagesInv'
  BY <1>k, <1>p DEF StagesInv, DhtArmed, ReachesHyperDht, LocatorArmed, LocatorHas,
     PastIncoming, PastConnects, PastDiscovery
<1>3. ASSUME NEW i \in DOMAIN dials, NEW x \in Protocols, NetworkAnswers(i, x)
      PROVE  StagesInv'
  <2>1. PICK s \in {"ok", "refused"} : SetFuture(i, x, s)
    BY <1>3 DEF NetworkAnswers, Answer
  <2>2. /\ Fire(Connects(x)) /\ backlog' = backlog
        /\ UNCHANGED <<located, bootstrapped, pending_events, pending_commands, dht_events>>
    BY <1>3 DEF NetworkAnswers, Answer, mdnsVars, dhtVars
  <2>3. Connects(x) \notin wakers /\ wakers' = wakers
    BY <2>2, FireQuiet
  <2>4. DialOpen'
    BY <1>t, <2>1, MoveKeeps
  <2>5. \A y \in Protocols : PastIncoming(y) => IncomingArmed(y)'
    BY <2>2, <2>3 DEF StagesInv, IncomingArmed
  <2>6. ASSUME NEW y \in Protocols, PastConnects(y) PROVE ConnectsArmed(y)'
    <3>1. ConnectsArmed(y) /\ y # x
      BY <2>3, <2>6 DEF StagesInv, ConnectsArmed
    <3> QED BY <1>t, <2>1, <2>3, <3>1, MoveKeeps DEF ConnectsArmed
  <2> QED BY <1>k, <2>2, <2>3, <2>4, <2>5, <2>6
<1>4. ASSUME NEW i \in DOMAIN dials, NEW x \in Protocols, Close(i, x), NetworkActs
      PROVE  StagesInv'
  <2>1. SetFuture(i, x, "closed") /\ UNCHANGED <<backlog, wakers>> /\ ~Open(i, x)
    BY <1>4 DEF Close, wakerVars, Open
  <2>2. UNCHANGED <<located, bootstrapped, pending_events, pending_commands, dht_events>>
    BY <1>4 DEF NetworkActs, mdnsVars, dhtVars
  <2>3. DialOpen => DialOpen'
    BY <1>t, <2>1, MoveKeeps
  <2>4. \A y \in Protocols : PastIncoming(y) => IncomingArmed(y)'
    BY <2>1 DEF StagesInv, IncomingArmed
  <2>5. ASSUME NEW y \in Protocols, PastConnects(y) PROVE ConnectsArmed(y)'
    <3>1. ConnectsArmed(y)
      BY <2>5 DEF StagesInv
    <3> QED BY <1>t, <2>1, <3>1, MoveKeeps DEF ConnectsArmed
  <2> QED BY <1>k, <2>1, <2>2, <2>3, <2>4, <2>5
<1>5. ASSUME NEW x \in Protocols, NEW arrival \in Arrival, Arrive(x, arrival), NetworkActs
      PROVE  StagesInv'
  <2>1. /\ Fire(Incoming(x)) /\ dials' = dials
        /\ \A y \in Protocols : y # x => backlog'[y] = backlog[y]
    BY <1>5 DEF Arrive, TypeOK, TransportTypeOK
  <2>2. Incoming(x) \notin wakers /\ wakers' = wakers
    BY <2>1, FireQuiet
  <2>3. UNCHANGED <<located, bootstrapped, pending_events, pending_commands, dht_events>>
    BY <1>5 DEF NetworkActs, mdnsVars, dhtVars
  <2>4. \A y \in Protocols : PastIncoming(y) => IncomingArmed(y)'
    BY <2>1, <2>2 DEF StagesInv, IncomingArmed
  <2>5. \A y \in Protocols : PastConnects(y) => ConnectsArmed(y)'
    BY <2>1, <2>2 DEF StagesInv, ConnectsArmed, Runnable
  <2>6. DialOpen => DialOpen'
    BY <2>1 DEF DialOpen, Open
  <2> QED BY <1>k, <2>2, <2>3, <2>4, <2>5, <2>6
<1> QED BY <1>1, <1>2, <1>3, <1>4, <1>5 DEF NetworkAnswersDial, NetworkActs

(* Only the executor, when it starts a poll, takes a wake-up back.         *)
LEMMA StallStep == TypeOK /\ ListenerInv /\ StallInv /\ [Next]_vars => StallInv'
<1> SUFFICES ASSUME TypeOK, ListenerInv, StallInv, [Next]_vars,
                    "accept" \notin Faults, ~Swallowed', ~woken'
             PROVE  StagesInv'
  BY DEF StallInv
<1>a. NoAcceptError /\ ~Swallowed
  BY SwallowedStays DEF ListenerInv
<1>s. ~woken => StagesInv
  BY <1>a DEF StallInv
<1>1. CASE \/ \E t \in Topics, config \in Configs : OwnerConfigure(t, config)
           \/ ConsumerPoll \/ ExecutorPoll \/ PollCommand \/ PollCommandsDone \/ PollDhtLoop
  BY <1>1, EarlyStep DEF OwnerConfigure, ConsumerPoll, ExecutorPoll, PollCommand,
     PollCommandsDone, PollDhtLoop
<1>2. ASSUME NEW t \in Topics, NEW config \in Configs, HandleConfigure(t, config)
      PROVE  StagesInv'
  <2>1. /\ UNCHANGED <<pc, dials, backlog, located, bootstrapped, pending_events,
                       pending_commands, dht_events>>
        /\ Fire("command")
    BY <1>2 DEF HandleConfigure, dhtVars, mdnsVars, transportVars
  <2>2. ~woken /\ wakers' = wakers
    BY <2>1, FireQuiet
  <2> QED BY <1>s, <2>1, <2>2, StagesKept
<1>3. CASE SpuriousWake
  BY <1>3 DEF SpuriousWake
<1>4. CASE \/ PollDhtReady \/ PollDhtPending
           \/ PollMdnsReady \/ PollMdnsError \/ PollMdnsPending
  <2>1. ~woken
    BY <1>4 DEF PollDhtReady, PollDhtPending, DhtPending, Register, PollMdnsReady,
       MdnsReady, PollMdnsError, MdnsError, PollMdnsPending, MdnsPending, wakerVars
  <2> QED BY <1>4, <1>s, <2>1, DiscoveryStages
<1>5. ASSUME NEW x \in Protocols, PollIncoming(x) \/ PollConnects(x)
      PROVE  StagesInv'
  <2>1. ~woken
    BY <1>5 DEF PollIncoming, Accept, IncomingPending, PollConnects, StartDial, TakeDial,
       SkipDial, FailDial, ResetDial, ConnectsPending, Register, wakerVars
  <2> QED BY <1>5, <1>a, <1>s, <2>1, IncomingStage, ConnectsStage
<1>6. CASE DhtActs \/ LocatorActs \/ NetworkAnswersDial \/ NetworkActs
  <2>1. ~woken
    BY <1>6 DEF DhtActs, DhtBootstraps, DhtAnswers, Emit, LocatorActs, LocatorYields,
       NetworkAnswersDial, NetworkAnswers, Answer, NetworkActs, Arrive, Close, Fire, wakerVars
  <2> QED BY <1>6, <1>s, <2>1, WorldSteps
<1>7. CASE UNCHANGED vars
  BY <1>7, <1>s, StagesKept DEF vars, wakerVars, dhtVars, mdnsVars, transportVars
<1> QED BY <1>1, <1>2, <1>3, <1>4, <1>5, <1>6, <1>7 DEF Next, Poll

(* A poll that returns Pending leaves nothing behind that nobody will wake *)
(* the task for, unless it or an earlier one dropped a double connection   *)
(* or only logged an error: those two are all that can stall the swarm.    *)
THEOREM StallsOnlyAfterSwallowing == Spec => []StallNeedsSwallowedItem
<1>1. Init => StallInv
  BY EarlyStep DEF Init, StallInv, StagesInv, PastIncoming, PastConnects, PastDiscovery
<1>2. TypeOK /\ StallInv => StallNeedsSwallowedItem
  <2> SUFFICES ASSUME TypeOK, StallInv, Quiet, ~Swallowed, "accept" \notin Faults
               PROVE  /\ \A x \in Protocols : backlog[x] = <<>>
                      /\ \A i \in DOMAIN dials, x \in Protocols : ~Runnable(i, x)
                      /\ DiscoveryHasWork =>
                            \E i \in DOMAIN dials, x \in Protocols :
                                dials[i].fut[x] = "flying" /\ Connects(x) \in wakers
    BY DEF StallNeedsSwallowedItem
  <2>1. StagesInv /\ pc = "idle"
    BY DEF StallInv, Quiet
  <2>2. \A x \in Protocols : IncomingArmed(x) /\ ConnectsArmed(x)
    BY <2>1 DEF StagesInv, PastIncoming, PastConnects
  <2>3. DiscoveryHasWork => DialOpen
    BY <2>1 DEF StagesInv, PastDiscovery, DiscoveryHasWork, DhtArmed, ReachesHyperDht,
                LocatorArmed
  <2>4. \A i \in DOMAIN dials, x \in Protocols :
            Open(i, x) /\ ~Runnable(i, x) => dials[i].fut[x] = "flying"
    BY DEF Open, Runnable
  <2> QED BY <2>2, <2>3, <2>4 DEF IncomingArmed, ConnectsArmed, DialOpen
<1> QED BY <1>1, <1>2, TypeCorrect, ListenersCorrect, StallStep, PTL DEF Spec
=============================================================================
