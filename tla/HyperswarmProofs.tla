-------------------------- MODULE HyperswarmProofs --------------------------
(***************************************************************************)
(* Proofs about Hyperswarm, for every set of peers, topics, answers and    *)
(* configurations, every choice of protocols and faults, and any bounds.   *)
(***************************************************************************)
EXTENDS Hyperswarm, TLAPS

(* Adding a future, or moving one on, keeps the list of dials well typed.  *)
LEMMA DialsType ==
    ASSUME dials \in Seq(Dial)
    PROVE  /\ \A p \in Peers :
                 Append(dials, [addr |-> p, fut |-> [x \in Protocols |-> "new"]])
                     \in Seq(Dial)
           /\ \A i \in DOMAIN dials, x \in Protocols, s \in FutureState :
                 [dials EXCEPT ![i].fut[x] = s] \in Seq(Dial)
<1>1. ASSUME NEW p \in Peers
      PROVE  Append(dials, [addr |-> p, fut |-> [x \in Protocols |-> "new"]])
                 \in Seq(Dial)
  <2>1. [addr |-> p, fut |-> [x \in Protocols |-> "new"]] \in Dial
    BY DEF Dial, FutureState
  <2> QED BY <2>1
<1>2. ASSUME NEW i \in DOMAIN dials, NEW x \in Protocols, NEW s \in FutureState
      PROVE  [dials EXCEPT ![i].fut[x] = s] \in Seq(Dial)
  <2>1. dials[i] \in Dial
    OBVIOUS
  <2>2. [dials[i].fut EXCEPT ![x] = s] \in [Protocols -> FutureState]
    BY <2>1 DEF Dial
  <2>3. [dials[i] EXCEPT !.fut[x] = s] \in Dial
    BY <2>1, <2>2 DEF Dial
  <2> QED BY <2>3
<1> QED BY <1>1, <1>2
-----------------------------------------------------------------------------
(* The initial state is well typed.                                        *)
LEMMA TypeInit == Init => TypeOK
<1> SUFFICES ASSUME Init PROVE TypeOK
  OBVIOUS
<1> USE DEF Init
<1>1. topics \in [Topics -> TopicConfig]
  BY DEF TopicConfig
<1>2. DhtTypeOK
  <2>1. bootstrapped \in BOOLEAN
    BY Zenon DEF DhtInit
  <2>2. /\ pending_commands \in Seq(Command)
        /\ pending_events \in Seq(Peers)
        /\ dht_events \in Seq(DhtEvent)
    BY DEF DhtInit
  <2>3. /\ issued \in [Command -> Nat]
        /\ answered \in [Command -> Nat]
    BY DEF DhtInit
  <2> QED BY <2>1, <2>2, <2>3 DEF DhtTypeOK
<1>3. MdnsTypeOK
  BY DEF MdnsInit, MdnsTypeOK
<1>4. TransportTypeOK
  BY DEF TransportInit, TransportTypeOK
<1>5. WakerTypeOK
  BY Zenon DEF WakerInit, WakerTypeOK
<1>6. /\ pc \in Stages \cup {"ready", "idle", "panicked"}
      /\ commands \in Seq(ConfigureCommand)
      /\ calls \in Nat
  BY DEF Stages
<1> QED BY <1>1, <1>2, <1>3, <1>4, <1>5, <1>6 DEF TypeOK
-----------------------------------------------------------------------------
(* Wakers come from the sources, whoever keeps or fires them.              *)
LEMMA WakerType ==
    ASSUME WakerTypeOK, NEW s \in Sources
    PROVE  /\ Register(s) => WakerTypeOK'
           /\ Fire(s) => WakerTypeOK'
<1>1. Register(s) => WakerTypeOK'
  BY DEF WakerTypeOK, Register
<1>2. ASSUME Fire(s) PROVE WakerTypeOK'
  <2>1. woken' \in BOOLEAN
    BY <1>2, Zenon DEF Fire
  <2>2. wakers' \subseteq Sources
    BY <1>2 DEF WakerTypeOK, Fire
  <2> QED BY <2>1, <2>2 DEF WakerTypeOK
<1> QED BY <1>1, <1>2

(* The commands that a configuration adds are well typed.                  *)
LEMMA AddedType ==
    ASSUME NEW t \in Topics, NEW config
    PROVE  Added(t, config) \in Seq(Command)
<1>1. Announce(t) \in Command /\ Lookup(t) \in Command
  BY DEF Announce, Lookup, Command
<1>2. /\ <<Announce(t)>> \in Seq(Command)
      /\ <<Lookup(t)>> \in Seq(Command)
      /\ <<>> \in Seq(Command)
  BY <1>1
<1> QED BY <1>2 DEF Added

(* Each operation of DhtDiscovery keeps its state well typed.              *)
LEMMA DhtType ==
    ASSUME DhtTypeOK
    PROVE  /\ \A cmds \in Seq(Command) : DhtSubmit(cmds) => DhtTypeOK'
           /\ \A p \in Peers : DhtReady(p) => DhtTypeOK'
           /\ DhtExecute => DhtTypeOK'
           /\ DhtHandleEvent => DhtTypeOK'
           /\ \A e \in DhtEvent : Emit(e) /\ UNCHANGED answered => DhtTypeOK'
           /\ \A c \in Command : DhtAnswers(c) => DhtTypeOK'
<1> USE DEF DhtTypeOK
<1>1. ASSUME NEW cmds \in Seq(Command), DhtSubmit(cmds) PROVE DhtTypeOK'
  BY <1>1 DEF DhtSubmit
<1>2. ASSUME NEW p \in Peers, DhtReady(p) PROVE DhtTypeOK'
  BY <1>2 DEF DhtReady
<1>3. ASSUME DhtExecute PROVE DhtTypeOK'
  <2>1. Head(pending_commands) \in Command
    BY <1>3 DEF DhtExecute
  <2>2. issued' \in [Command -> Nat]
    BY <1>3, <2>1 DEF DhtExecute
  <2>3. pending_commands' \in Seq(Command)
    BY <1>3 DEF DhtExecute
  <2> QED BY <1>3, <2>2, <2>3 DEF DhtExecute
<1>4. ASSUME DhtHandleEvent PROVE DhtTypeOK'
  <2>1. Head(dht_events) \in DhtEvent /\ Tail(dht_events) \in Seq(DhtEvent)
    BY <1>4 DEF DhtHandleEvent
  <2>2. Head(dht_events).remotes \in Seq(Peers)
    BY <2>1 DEF DhtEvent
  <2>3. pending_events' \in Seq(Peers)
    BY <1>4, <2>2 DEF DhtHandleEvent
  <2>4. bootstrapped' \in BOOLEAN
    BY <1>4, Zenon DEF DhtHandleEvent
  <2> QED BY <1>4, <2>1, <2>3, <2>4 DEF DhtHandleEvent
<1>5. ASSUME NEW e \in DhtEvent, Emit(e), UNCHANGED answered PROVE DhtTypeOK'
  BY <1>5 DEF Emit
<1>6. ASSUME NEW c \in Command, DhtAnswers(c) PROVE DhtTypeOK'
  <2>1. answered' \in [Command -> Nat]
    BY <1>6 DEF DhtAnswers
  <2>2. PICK e \in DhtEvent : Emit(e)
    <3>1. CASE Emit([kind |-> "AnnounceResult", remotes |-> <<>>])
      <4>1. [kind |-> "AnnounceResult", remotes |-> <<>>] \in DhtEvent
        BY DEF DhtEvent
      <4> QED BY <3>1, <4>1
    <3>2. CASE \E remotes \in Answers :
                  Emit([kind |-> "LookupResult", remotes |-> remotes])
      <4>1. PICK remotes \in Answers :
                    Emit([kind |-> "LookupResult", remotes |-> remotes])
        BY <3>2
      <4>2. [kind |-> "LookupResult", remotes |-> remotes] \in DhtEvent
        BY AnswersAssumption DEF DhtEvent
      <4> QED BY <4>1, <4>2
    <3> QED BY <1>6, <3>1, <3>2 DEF DhtAnswers
  <2> QED BY <2>1, <2>2 DEF Emit
<1> QED BY <1>1, <1>2, <1>3, <1>4, <1>5, <1>6

(* Each operation of MdnsDiscovery keeps its state and the wakers well     *)
(* typed.                                                                  *)
LEMMA MdnsType ==
    ASSUME MdnsTypeOK, WakerTypeOK
    PROVE  /\ \A cmds \in Seq(Command) :
                 MdnsSubmit(cmds) => MdnsTypeOK' /\ WakerTypeOK'
           /\ \A p : MdnsReady(p) => MdnsTypeOK' /\ WakerTypeOK' /\ p \in Peers
           /\ MdnsError => MdnsTypeOK' /\ WakerTypeOK'
           /\ MdnsPending => MdnsTypeOK' /\ WakerTypeOK'
           /\ \A kind \in MdnsKinds, p \in Peers :
                 LocatorYields(kind, p) => MdnsTypeOK' /\ WakerTypeOK'
<1>1. ASSUME NEW cmds \in Seq(Command), MdnsSubmit(cmds)
      PROVE  MdnsTypeOK' /\ WakerTypeOK'
  <2>1. MdnsTypeOK'
    BY <1>1 DEF MdnsSubmit, MdnsTypeOK
  <2>2. WakerTypeOK'
    <3>1. CASE cmds = <<>>
      BY <1>1, <3>1 DEF MdnsSubmit, wakerVars, WakerTypeOK
    <3>2. CASE cmds # <<>>
      BY <1>1, <3>2, WakerType DEF MdnsSubmit, Sources
    <3> QED BY <3>1, <3>2
  <2> QED BY <2>1, <2>2
<1>2. DropOneCommand => mdns_commands' \in Seq(Command)
  BY DEF DropOneCommand, MdnsTypeOK
<1>3. located # <<>> => Head(located) \in Located /\ Tail(located) \in Seq(Located)
  BY DEF MdnsTypeOK
<1>4. ChannelWaker \subseteq Sources
  BY DEF ChannelWaker, Sources
<1>5. ASSUME NEW p, MdnsReady(p)
      PROVE  MdnsTypeOK' /\ WakerTypeOK' /\ p \in Peers
  BY <1>2, <1>3, <1>4, <1>5 DEF MdnsReady, LocatorHas, MdnsTypeOK, WakerTypeOK, Located
<1>6. ASSUME MdnsError PROVE MdnsTypeOK' /\ WakerTypeOK'
  BY <1>2, <1>3, <1>4, <1>6 DEF MdnsError, LocatorHas, MdnsTypeOK, WakerTypeOK
<1>7. ASSUME MdnsPending PROVE MdnsTypeOK' /\ WakerTypeOK'
  <2>1. (IF located = <<>> THEN {"locator"} ELSE {}) \subseteq Sources
    BY DEF Sources
  <2> QED BY <1>2, <1>4, <1>7, <2>1 DEF MdnsPending, MdnsTypeOK, WakerTypeOK
<1>8. ASSUME NEW kind \in MdnsKinds, NEW p \in Peers, LocatorYields(kind, p)
      PROVE  MdnsTypeOK' /\ WakerTypeOK'
  <2>1. [kind |-> kind, addr |-> p] \in Located
    BY MdnsAssumption DEF Located
  <2>2. MdnsTypeOK'
    BY <1>8, <2>1 DEF LocatorYields, MdnsTypeOK
  <2> QED BY <1>8, <2>2, WakerType DEF LocatorYields, Sources
<1> QED BY <1>1, <1>5, <1>6, <1>7, <1>8

(* Each operation of CombinedTransport keeps its state and the wakers well *)
(* typed.                                                                  *)
LEMMA TransportType ==
    ASSUME TransportTypeOK, WakerTypeOK
    PROVE  /\ \A p \in Peers : Connect(p) => TransportTypeOK'
           /\ \A x \in Protocols, arrival \in Arrival :
                 Accept(x, arrival) => TransportTypeOK' /\ WakerTypeOK'
           /\ \A x \in Protocols :
                 \/ IncomingPending(x)
                 \/ ConnectsPending(x)
                 => TransportTypeOK' /\ WakerTypeOK'
           /\ \A i \in DOMAIN dials, x \in Protocols :
                 \/ StartDial(i, x)
                 \/ TakeDial(i, x)
                 \/ SkipDial(i, x)
                 \/ FailDial(i, x)
                 \/ ResetDial(i, x)
                 \/ \E state \in FutureState : Answer(i, x, state)
                 \/ Close(i, x)
                 => TransportTypeOK' /\ WakerTypeOK'
           /\ \A x \in Protocols, arrival \in Arrival :
                 Arrive(x, arrival) => TransportTypeOK' /\ WakerTypeOK'
<1>1. ASSUME NEW p \in Peers, Connect(p) PROVE TransportTypeOK'
  BY <1>1, DialsType DEF Connect, TransportTypeOK
<1>2. ASSUME NEW x \in Protocols
      PROVE  Incoming(x) \in Sources /\ Connects(x) \in Sources
  BY DEF Incoming, Connects, Sources
<1>3. ASSUME NEW x \in Protocols, NEW arrival \in Arrival, Accept(x, arrival)
      PROVE  TransportTypeOK' /\ WakerTypeOK'
  <2>1. backlog' \in [Protocols -> Seq(Arrival)]
    BY <1>3 DEF Accept, TransportTypeOK
  <2>2. accepted' \in [Protocols -> Nat]
    BY <1>3 DEF Accept, TransportTypeOK
  <2> QED BY <1>3, <2>1, <2>2 DEF Accept, TransportTypeOK, WakerTypeOK, wakerVars
<1>4. ASSUME NEW x \in Protocols, IncomingPending(x) \/ ConnectsPending(x)
      PROVE  TransportTypeOK' /\ WakerTypeOK'
  <2>1. TransportTypeOK'
    BY <1>4 DEF IncomingPending, ConnectsPending, TransportTypeOK, transportVars
  <2> QED BY <1>2, <1>4, <2>1, WakerType DEF IncomingPending, ConnectsPending
<1>5. ASSUME NEW i \in DOMAIN dials, NEW x \in Protocols, NEW s \in FutureState,
             SetFuture(i, x, s)
      PROVE  dials' \in Seq(Dial)
  BY <1>5, DialsType DEF SetFuture, TransportTypeOK
<1>6. ASSUME NEW i \in DOMAIN dials, NEW x \in Protocols,
             StartDial(i, x) \/ TakeDial(i, x) \/ SkipDial(i, x) \/ FailDial(i, x)
      PROVE  TransportTypeOK' /\ WakerTypeOK'
  <2>1. dials[i].addr \in Peers
    <3>1. dials[i] \in Dial
      BY DEF TransportTypeOK
    <3> QED BY <3>1 DEF Dial
  <2>2. dials' \in Seq(Dial)
    BY <1>5, <1>6 DEF StartDial, TakeDial, SkipDial, FailDial, FutureState
  <2>3. WakerTypeOK'
    BY <1>2, <1>6, WakerType DEF StartDial, TakeDial, SkipDial, FailDial
  <2> QED BY <1>6, <2>1, <2>2, <2>3
          DEF StartDial, TakeDial, SkipDial, FailDial, TransportTypeOK
<1>7. ASSUME NEW i \in DOMAIN dials, NEW x \in Protocols, ResetDial(i, x)
      PROVE  TransportTypeOK' /\ WakerTypeOK'
  BY <1>7 DEF ResetDial, TransportTypeOK, transportVars, WakerTypeOK, wakerVars
<1>8. ASSUME NEW i \in DOMAIN dials, NEW x \in Protocols, NEW state \in FutureState,
             Answer(i, x, state)
      PROVE  TransportTypeOK' /\ WakerTypeOK'
  <2>1. dials' \in Seq(Dial)
    BY <1>5, <1>8 DEF Answer
  <2>2. WakerTypeOK'
    BY <1>2, <1>8, WakerType DEF Answer
  <2> QED BY <1>8, <2>1, <2>2 DEF Answer, TransportTypeOK
<1>9. ASSUME NEW i \in DOMAIN dials, NEW x \in Protocols, Close(i, x)
      PROVE  TransportTypeOK' /\ WakerTypeOK'
  <2>1. dials' \in Seq(Dial)
    BY <1>5, <1>9 DEF Close, FutureState
  <2> QED BY <1>9, <2>1 DEF Close, TransportTypeOK, WakerTypeOK, wakerVars
<1>10. ASSUME NEW x \in Protocols, NEW arrival \in Arrival, Arrive(x, arrival)
       PROVE  TransportTypeOK' /\ WakerTypeOK'
  <2>1. backlog' \in [Protocols -> Seq(Arrival)]
    BY <1>10 DEF Arrive, TransportTypeOK
  <2>2. WakerTypeOK'
    BY <1>2, <1>10, WakerType DEF Arrive
  <2> QED BY <1>10, <2>1, <2>2 DEF Arrive, TransportTypeOK
<1> QED BY <1>1, <1>3, <1>4, <1>6, <1>7, <1>8, <1>9, <1>10
-----------------------------------------------------------------------------
(* configure() keeps everything it touches well typed.                     *)
LEMMA ConfigureType ==
    ASSUME TypeOK, NEW t \in Topics, NEW config \in TopicConfig,
           Configure(t, config)
    PROVE  /\ topics' \in [Topics -> TopicConfig]
           /\ DhtTypeOK' /\ MdnsTypeOK' /\ TransportTypeOK' /\ WakerTypeOK'
<1>1. topics' \in [Topics -> TopicConfig]
  BY DEF Configure, TypeOK
<1>2. DhtTypeOK' /\ MdnsTypeOK' /\ WakerTypeOK'
  BY AddedType, DhtType, MdnsType DEF Configure, TypeOK
<1>3. TransportTypeOK'
  BY DEF Configure, TypeOK, TransportTypeOK, transportVars
<1> QED BY <1>1, <1>2, <1>3

(* What an action leaves alone stays well typed.                           *)
LEMMA UnchangedType ==
    ASSUME TypeOK
    PROVE  /\ UNCHANGED swarmVars => /\ topics' \in [Topics -> TopicConfig]
                                     /\ commands' \in Seq(ConfigureCommand)
                                     /\ calls' \in Nat
           /\ UNCHANGED dhtVars => DhtTypeOK'
           /\ UNCHANGED mdnsVars => MdnsTypeOK'
           /\ UNCHANGED transportVars => TransportTypeOK'
           /\ UNCHANGED wakerVars => WakerTypeOK'
<1> USE DEF TypeOK
<1>1. UNCHANGED swarmVars => /\ topics' \in [Topics -> TopicConfig]
                             /\ commands' \in Seq(ConfigureCommand)
                             /\ calls' \in Nat
  BY DEF swarmVars
<1>2. UNCHANGED dhtVars => DhtTypeOK'
  BY DEF dhtVars, DhtTypeOK
<1>3. UNCHANGED mdnsVars => MdnsTypeOK'
  BY DEF mdnsVars, MdnsTypeOK
<1>4. UNCHANGED transportVars => TransportTypeOK'
  BY DEF transportVars, TransportTypeOK
<1>5. UNCHANGED wakerVars => WakerTypeOK'
  BY DEF wakerVars, WakerTypeOK
<1> QED BY <1>1, <1>2, <1>3, <1>4, <1>5

(* Every step keeps the state well typed.                                  *)
LEMMA TypeStep == TypeOK /\ [Next]_vars => TypeOK'
<1> SUFFICES ASSUME TypeOK, [Next]_vars PROVE TypeOK'
  OBVIOUS
<1> DEFINE PcOK == pc \in Stages \cup {"ready", "idle", "panicked"}
<1>pc. PcOK
  BY DEF TypeOK
<1>u. /\ UNCHANGED swarmVars => /\ topics' \in [Topics -> TopicConfig]
                                /\ commands' \in Seq(ConfigureCommand)
                                /\ calls' \in Nat
      /\ UNCHANGED dhtVars => DhtTypeOK'
      /\ UNCHANGED mdnsVars => MdnsTypeOK'
      /\ UNCHANGED transportVars => TransportTypeOK'
      /\ UNCHANGED wakerVars => WakerTypeOK'
  BY UnchangedType
<1>t. DhtTypeOK /\ MdnsTypeOK /\ TransportTypeOK /\ WakerTypeOK
  BY DEF TypeOK
<1>1. ASSUME NEW t \in Topics, NEW config \in Configs, OwnerConfigure(t, config)
      PROVE  TypeOK'
  <2>1. config \in TopicConfig
    BY SwarmAssumption
  <2>2. calls' \in Nat /\ commands' \in Seq(ConfigureCommand) /\ PcOK'
    BY <1>1 DEF OwnerConfigure, TypeOK
  <2> QED BY <1>1, <2>1, <2>2, ConfigureType DEF OwnerConfigure, TypeOK
<1>2. ASSUME NEW t \in Topics, NEW config \in Configs, HandleConfigure(t, config)
      PROVE  TypeOK'
  <2>1. <<t, config>> \in ConfigureCommand
    BY SwarmAssumption DEF ConfigureCommand
  <2>2. commands' \in Seq(ConfigureCommand) /\ calls' \in Nat
    BY <1>2, <2>1 DEF HandleConfigure, TypeOK
  <2>3. WakerTypeOK'
    BY <1>2, <1>t, WakerType DEF HandleConfigure, Sources
  <2>4. topics' \in [Topics -> TopicConfig] /\ PcOK'
    BY <1>2 DEF HandleConfigure, TypeOK
  <2> QED BY <1>2, <1>u, <2>2, <2>3, <2>4 DEF HandleConfigure, TypeOK
<1>3. CASE ConsumerPoll
  BY <1>3, <1>u DEF ConsumerPoll, TypeOK, Stages
<1>4. CASE ExecutorPoll
  <2>1. WakerTypeOK'
    BY <1>4, <1>t DEF ExecutorPoll, WakerTypeOK
  <2> QED BY <1>4, <1>u, <2>1 DEF ExecutorPoll, TypeOK, Stages
<1>5. CASE SpuriousWake
  <2>1. WakerTypeOK'
    BY <1>5, <1>t DEF SpuriousWake, WakerTypeOK
  <2> QED BY <1>5, <1>u, <1>pc, <2>1 DEF SpuriousWake, TypeOK
<1>6. CASE PollCommand
  <2>1. Head(commands) \in ConfigureCommand /\ Tail(commands) \in Seq(ConfigureCommand)
    BY <1>6 DEF PollCommand, TypeOK
  <2>2. Head(commands)[1] \in Topics /\ Head(commands)[2] \in TopicConfig
    BY <2>1 DEF ConfigureCommand
  <2> QED BY <1>6, <2>1, <2>2, ConfigureType DEF PollCommand, TypeOK
<1>7. CASE PollCommandsDone
  <2>1. WakerTypeOK'
    BY <1>7, <1>t, WakerType DEF PollCommandsDone, Sources
  <2> QED BY <1>7, <1>u, <2>1 DEF PollCommandsDone, TypeOK, Stages
<1>8. CASE PollDhtReady
  BY <1>8, <1>u, <1>t, DhtType, TransportType DEF PollDhtReady, TypeOK, Stages
<1>9. CASE PollDhtLoop
  BY <1>9, <1>u, <1>t, DhtType DEF PollDhtLoop, TypeOK
<1>10. CASE PollDhtPending
  <2>1. WakerTypeOK'
    BY <1>10, <1>t, WakerType DEF PollDhtPending, DhtPending, Sources
  <2> QED BY <1>10, <1>u, <2>1 DEF PollDhtPending, DhtPending, TypeOK, Stages
<1>11. CASE PollMdnsReady
  BY <1>11, <1>u, <1>t, MdnsType, TransportType DEF PollMdnsReady, TypeOK, Stages
<1>12. CASE PollMdnsError
  BY <1>12, <1>u, <1>t, MdnsType DEF PollMdnsError, TypeOK
<1>13. CASE PollMdnsPending
  BY <1>13, <1>u, <1>t, MdnsType DEF PollMdnsPending, TypeOK, Stages
<1>14. ASSUME NEW x \in Protocols, PollIncoming(x)
       PROVE  TypeOK'
  <2>1. TransportTypeOK' /\ WakerTypeOK'
    BY <1>14, <1>t, TransportType DEF PollIncoming, Arrival
  <2>2. PcOK'
    BY <1>14 DEF PollIncoming, Connects, Stages
  <2> QED BY <1>14, <1>u, <2>1, <2>2 DEF PollIncoming, TypeOK
<1>15. ASSUME NEW x \in Protocols, PollConnects(x)
       PROVE  TypeOK'
  <2>1. TransportTypeOK' /\ WakerTypeOK'
    BY <1>15, <1>t, TransportType DEF PollConnects
  <2>2. PcOK'
    BY <1>15, <1>pc DEF PollConnects, AfterConnects, Stages
  <2> QED BY <1>15, <1>u, <2>1, <2>2 DEF PollConnects, TypeOK
<1>16. CASE DhtActs
  <2>1. CASE DhtBootstraps
    <3>1. [kind |-> "Bootstrapped", remotes |-> <<>>] \in DhtEvent
      BY DEF DhtEvent
    <3>2. DhtTypeOK'
      BY <1>t, <2>1, <3>1, DhtType DEF DhtBootstraps
    <3>3. WakerTypeOK'
      BY <1>t, <2>1, WakerType DEF DhtBootstraps, Emit, Sources
    <3> QED BY <1>16, <1>u, <3>2, <3>3 DEF DhtActs, TypeOK
  <2>2. CASE \E c \in Command : DhtAnswers(c)
    <3>1. DhtTypeOK'
      BY <1>t, <2>2, DhtType
    <3>2. WakerTypeOK'
      BY <1>t, <2>2, WakerType DEF DhtAnswers, Emit, Sources
    <3> QED BY <1>16, <1>u, <3>1, <3>2 DEF DhtActs, TypeOK
  <2> QED BY <1>16, <2>1, <2>2 DEF DhtActs
<1>17. CASE LocatorActs
  BY <1>17, <1>u, <1>t, MdnsType DEF LocatorActs, TypeOK
<1>18. CASE NetworkAnswersDial
  BY <1>18, <1>u, <1>t, TransportType DEF NetworkAnswersDial, NetworkAnswers, TypeOK
<1>19. CASE NetworkActs
  BY <1>19, <1>u, <1>t, TransportType DEF NetworkActs, TypeOK
<1>20. CASE UNCHANGED vars
  BY <1>20, <1>u, <1>pc DEF vars, TypeOK
<1> QED
  BY <1>1, <1>2, <1>3, <1>4, <1>5, <1>6, <1>7, <1>8, <1>9, <1>10, <1>11, <1>12,
     <1>13, <1>14, <1>15, <1>16, <1>17, <1>18, <1>19, <1>20 DEF Next, Poll

(* The state is well typed in every reachable state.                       *)
THEOREM TypeCorrect == Spec => []TypeOK
<1> QED BY TypeInit, TypeStep, PTL DEF Spec
-----------------------------------------------------------------------------
(* Every step keeps CommandInv: only a poll that starts at the commands    *)
(* takes the waker off the channel, and a handle that finds it there wakes *)
(* the task.                                                               *)
LEMMA CommandStep == CommandInv /\ [Next]_vars => CommandInv'
<1> SUFFICES ASSUME CommandInv, [Next]_vars PROVE CommandInv'
  OBVIOUS
<1> DEFINE Kept == /\ commands' = commands
                   /\ woken => woken'
                   /\ "command" \in wakers => "command" \in wakers'
<1>k. Kept /\ (PastCommands' => PastCommands) => CommandInv'
  BY DEF CommandInv, ChannelArmed
<1>f. \A s : s # "command" /\ Fire(s) /\ commands' = commands => Kept
  BY DEF Fire
<1>r. \A s : Register(s) /\ commands' = commands => Kept
  BY DEF Register
<1>u. UNCHANGED wakerVars /\ commands' = commands => Kept
  BY DEF wakerVars
<1>1. ASSUME NEW t \in Topics, NEW config \in Configs, OwnerConfigure(t, config)
      PROVE  CommandInv'
  BY <1>1 DEF OwnerConfigure, CommandInv, PastCommands
<1>2. ASSUME NEW t \in Topics, NEW config \in Configs, HandleConfigure(t, config)
      PROVE  CommandInv'
  <2>1. CASE PastCommands
    BY <1>2, <2>1 DEF HandleConfigure, Fire, CommandInv, ChannelArmed
  <2>2. CASE ~PastCommands
    BY <1>2, <2>2 DEF HandleConfigure, CommandInv, PastCommands
  <2> QED BY <2>1, <2>2
<1>3. CASE ConsumerPoll \/ ExecutorPoll \/ PollCommand
  BY <1>3 DEF ConsumerPoll, ExecutorPoll, PollCommand, CommandInv, PastCommands
<1>4. CASE SpuriousWake
  BY <1>4 DEF SpuriousWake, CommandInv
<1>5. CASE PollCommandsDone
  BY <1>5 DEF PollCommandsDone, Register, swarmVars, CommandInv, ChannelArmed
<1>6. CASE PollDhtReady \/ PollDhtLoop \/ PollDhtPending
  <2>1. PastCommands
    BY <1>6 DEF PollDhtReady, PollDhtLoop, PollDhtPending, PastCommands
  <2>2. Kept
    BY <1>6, <1>r, <1>u
       DEF PollDhtReady, PollDhtLoop, PollDhtPending, DhtPending, swarmVars
  <2> QED BY <1>k, <2>1, <2>2
<1>7. CASE PollMdnsReady \/ PollMdnsError \/ PollMdnsPending
  <2>1. PastCommands
    BY <1>7 DEF PollMdnsReady, PollMdnsError, PollMdnsPending, PastCommands
  <2>2. Kept
    BY <1>7 DEF PollMdnsReady, PollMdnsError, PollMdnsPending,
                MdnsReady, MdnsError, MdnsPending, swarmVars
  <2> QED BY <1>k, <2>1, <2>2
<1>8. ASSUME NEW x \in Protocols, PollIncoming(x) \/ PollConnects(x)
      PROVE  CommandInv'
  <2>1. PastCommands
    BY <1>8 DEF PollIncoming, PollConnects, Incoming, Connects, PastCommands
  <2>2. Kept
    BY <1>8, <1>r, <1>u
       DEF PollIncoming, PollConnects, Accept, IncomingPending, StartDial, TakeDial,
           SkipDial, FailDial, ResetDial, ConnectsPending, swarmVars
  <2> QED BY <1>k, <2>1, <2>2
<1>9. CASE DhtActs \/ LocatorActs
  <2>1. Kept
    BY <1>9, <1>f DEF DhtActs, DhtBootstraps, DhtAnswers, Emit, LocatorActs,
                      LocatorYields, swarmVars
  <2> QED BY <1>9, <1>k, <2>1 DEF DhtActs, LocatorActs, PastCommands
<1>10. CASE NetworkAnswersDial \/ NetworkActs
  <2>1. Kept
    BY <1>10, <1>f, <1>u
       DEF NetworkAnswersDial, NetworkAnswers, NetworkActs, Answer, Arrive, Close,
           Incoming, Connects, swarmVars
  <2> QED BY <1>10, <1>k, <2>1
          DEF NetworkAnswersDial, NetworkAnswers, NetworkActs, PastCommands
<1>11. CASE UNCHANGED vars
  BY <1>11 DEF vars, swarmVars, wakerVars, CommandInv, PastCommands, ChannelArmed
<1> QED
  BY <1>1, <1>2, <1>3, <1>4, <1>5, <1>6, <1>7, <1>8, <1>9, <1>10, <1>11
     DEF Next, Poll

(* A parked task has no configuration waiting in its channel.              *)
THEOREM CommandsNeverStranded == Spec => []CommandsNotStranded
<1>1. Init => CommandInv
  BY DEF Init, CommandInv, PastCommands
<1>2. CommandInv => CommandsNotStranded
  BY DEF CommandInv, CommandsNotStranded, Quiet, PastCommands, ChannelArmed
<1> QED BY <1>1, <1>2, CommandStep, PTL DEF Spec
-----------------------------------------------------------------------------
(* The three things a step can do to the dials: add one, move a future on, *)
(* or leave them and the connected addresses alone.                        *)
Moves(i, x) ==
    \/ StartDial(i, x)
    \/ TakeDial(i, x)
    \/ SkipDial(i, x)
    \/ FailDial(i, x)
    \/ \E state \in {"ok", "refused"} : Answer(i, x, state)
    \/ Close(i, x)

LEMMA TransportSteps ==
    ASSUME [Next]_vars
    PROVE  \/ \E p \in Peers : /\ Connect(p)
                               /\ DhtReady(p) \/ UNCHANGED pending_events
           \/ \E i \in DOMAIN dials, x \in Protocols :
                 Moves(i, x) /\ UNCHANGED pending_events
           \/ /\ UNCHANGED <<dials, connected>>
              /\ DhtHandleEvent \/ UNCHANGED pending_events
<1> USE DEF dhtVars
<1>1. CASE PollDhtReady \/ PollMdnsReady
  BY <1>1 DEF PollDhtReady, PollMdnsReady
<1>2. ASSUME NEW x \in Protocols, PollIncoming(x)
      PROVE  UNCHANGED <<dials, connected, pending_events>>
  BY <1>2 DEF PollIncoming, Accept, IncomingPending, transportVars
<1>3. ASSUME NEW x \in Protocols, PollConnects(x)
      PROVE  \/ \E i \in DOMAIN dials : Moves(i, x) /\ UNCHANGED pending_events
             \/ UNCHANGED <<dials, connected, pending_events>>
  BY <1>3 DEF PollConnects, Moves, ResetDial, ConnectsPending, transportVars
<1>4. CASE NetworkAnswersDial
  BY <1>4 DEF NetworkAnswersDial, NetworkAnswers, Answer, Moves
<1>5. CASE NetworkActs
  BY <1>5 DEF NetworkActs, Arrive, Moves
<1>6. ASSUME NEW t \in Topics, NEW config \in Configs,
             OwnerConfigure(t, config) \/ HandleConfigure(t, config)
      PROVE  UNCHANGED <<dials, connected, pending_events>>
  BY <1>6 DEF OwnerConfigure, HandleConfigure, Configure, DhtSubmit, transportVars
<1>7. CASE PollDhtLoop
  BY <1>7 DEF PollDhtLoop, DhtExecute, transportVars
<1>8. CASE \/ ConsumerPoll \/ ExecutorPoll \/ SpuriousWake \/ PollCommand
           \/ PollCommandsDone \/ PollDhtPending \/ PollMdnsError
           \/ PollMdnsPending \/ LocatorActs \/ UNCHANGED vars
  BY <1>8 DEF ConsumerPoll, ExecutorPoll, SpuriousWake, PollCommand, Configure,
              DhtSubmit, PollCommandsDone, PollDhtPending, DhtPending, PollMdnsError,
              PollMdnsPending, LocatorActs, vars, transportVars
<1>9. CASE DhtActs
  BY <1>9 DEF DhtActs, DhtBootstraps, DhtAnswers, Emit, transportVars
<1> QED BY <1>1, <1>2, <1>3, <1>4, <1>5, <1>6, <1>7, <1>8, <1>9 DEF Next, Poll

(* A new dial comes last and has only new futures.                         *)
LEMMA ConnectEffect ==
    ASSUME TransportTypeOK, NEW p \in Peers, Connect(p)
    PROVE  /\ connected' = connected
           /\ \A i \in DOMAIN dials : i \in DOMAIN dials' /\ dials'[i] = dials[i]
           /\ \A i \in DOMAIN dials' \ DOMAIN dials :
                 /\ dials'[i].addr = p
                 /\ \A x \in Protocols : dials'[i].fut[x] = "new"
           /\ \E i \in DOMAIN dials' : dials'[i].addr = p
<1> DEFINE d == [addr |-> p, fut |-> [x \in Protocols |-> "new"]]
<1>1. dials' = Append(dials, d) /\ connected' = connected
  BY DEF Connect
<1>2. dials \in Seq(Dial)
  BY DEF TransportTypeOK
<1>3. /\ Len(dials) \in Nat
      /\ DOMAIN dials = 1..Len(dials)
      /\ DOMAIN dials' = 1..(Len(dials) + 1)
      /\ dials'[Len(dials) + 1] = d
      /\ \A i \in 1..Len(dials) : dials'[i] = dials[i]
  <2> HIDE DEF d
  <2> QED BY <1>1, <1>2
<1>4. d.addr = p /\ \A x \in Protocols : d.fut[x] = "new"
  OBVIOUS
<1>5. \A i \in DOMAIN dials' \ DOMAIN dials : i = Len(dials) + 1
  BY <1>3
<1>6. Len(dials) + 1 \in DOMAIN dials'
  BY <1>3
<1> HIDE DEF d
<1> QED BY <1>1, <1>3, <1>4, <1>5, <1>6

(* Moving a future on changes that future only.                            *)
LEMMA SetFutureEffect ==
    ASSUME TransportTypeOK, NEW i \in DOMAIN dials, NEW x \in Protocols, NEW s,
           SetFuture(i, x, s)
    PROVE  /\ DOMAIN dials' = DOMAIN dials
           /\ \A j \in DOMAIN dials :
                 /\ dials'[j].addr = dials[j].addr
                 /\ \A y \in Protocols :
                       dials'[j].fut[y] = IF j = i /\ y = x THEN s
                                                            ELSE dials[j].fut[y]
<1>1. \A j \in DOMAIN dials : dials[j] \in Dial
  BY DEF TransportTypeOK
<1>2. /\ DOMAIN dials' = DOMAIN dials
      /\ \A j \in DOMAIN dials : j # i => dials'[j] = dials[j]
      /\ dials'[i] = [dials[i] EXCEPT !.fut[x] = s]
  BY DEF SetFuture, TransportTypeOK
<1>3. /\ dials'[i].addr = dials[i].addr
      /\ dials'[i].fut = [dials[i].fut EXCEPT ![x] = s]
  BY <1>1, <1>2 DEF Dial
<1>4. \A y \in Protocols :
         dials'[i].fut[y] = IF y = x THEN s ELSE dials[i].fut[y]
  BY <1>1, <1>3 DEF Dial
<1> QED BY <1>2, <1>3, <1>4
-----------------------------------------------------------------------------
(* Every step keeps ConnectionInv.                                         *)
LEMMA ConnectionStep == TypeOK /\ ConnectionInv /\ [Next]_vars => ConnectionInv'
<1> SUFFICES ASSUME TypeOK, ConnectionInv, [Next]_vars PROVE ConnectionInv'
  OBVIOUS
<1>t. TransportTypeOK
  BY DEF TypeOK
<1>1. ASSUME NEW p \in Peers, Connect(p)
      PROVE  ConnectionInv'
  <2>1. /\ connected' = connected
        /\ \A i \in DOMAIN dials : i \in DOMAIN dials' /\ dials'[i] = dials[i]
        /\ \A i \in DOMAIN dials' \ DOMAIN dials, x \in Protocols :
              dials'[i].fut[x] = "new"
    BY <1>1, <1>t, ConnectEffect
  <2>2. \A i \in DOMAIN dials', x \in Protocols :
           dials'[i].fut[x] # "new" => i \in DOMAIN dials
    BY <2>1
  <2>3. \A i \in DOMAIN dials', x \in Protocols :
           /\ Taken(i, x)' => i \in DOMAIN dials /\ Taken(i, x)
           /\ dials'[i].fut[x] = "skipped" =>
                 i \in DOMAIN dials /\ dials[i].fut[x] = "skipped"
    BY <2>1, <2>2 DEF Taken
  <2>4. \A i \in DOMAIN dials, x \in Protocols : Taken(i, x) => Taken(i, x)'
    BY <2>1 DEF Taken
  <2>5. OneOutgoingPerAddress'
    BY <2>1, <2>3 DEF ConnectionInv, OneOutgoingPerAddress
  <2>6. SkippedForAnother'
    BY <2>1, <2>3, <2>4 DEF ConnectionInv, SkippedForAnother
  <2> QED BY <2>1, <2>3, <2>4, <2>5, <2>6 DEF ConnectionInv
<1>2. ASSUME NEW i \in DOMAIN dials, NEW x \in Protocols, NEW s, SetFuture(i, x, s),
             UNCHANGED connected, s # "skipped",
             s \in {"taken", "closed"} <=> Taken(i, x), dials[i].fut[x] # "skipped"
      PROVE  ConnectionInv'
  <2>1. /\ DOMAIN dials' = DOMAIN dials
        /\ \A j \in DOMAIN dials : dials'[j].addr = dials[j].addr
        /\ \A j \in DOMAIN dials, y \in Protocols :
              /\ Taken(j, y)' <=> Taken(j, y)
              /\ dials'[j].fut[y] = "skipped" <=> dials[j].fut[y] = "skipped"
    BY <1>t, <1>2, SetFutureEffect DEF Taken
  <2>2. OneOutgoingPerAddress'
    BY <2>1 DEF ConnectionInv, OneOutgoingPerAddress
  <2>3. SkippedForAnother'
    BY <2>1 DEF ConnectionInv, SkippedForAnother
  <2> QED BY <1>2, <2>1, <2>2, <2>3 DEF ConnectionInv
<1>3. ASSUME NEW i \in DOMAIN dials, NEW x \in Protocols, SkipDial(i, x)
      PROVE  ConnectionInv'
  <2>1. /\ DOMAIN dials' = DOMAIN dials
        /\ \A j \in DOMAIN dials : dials'[j].addr = dials[j].addr
        /\ \A j \in DOMAIN dials, y \in Protocols :
              /\ Taken(j, y)' <=> Taken(j, y)
              /\ dials'[j].fut[y] = "skipped" =>
                    dials[j].fut[y] = "skipped" \/ (j = i /\ y = x)
    BY <1>t, <1>3, SetFutureEffect DEF Taken, SkipDial
  <2>2. connected' = connected /\ dials[i].addr \in connected
    BY <1>3 DEF SkipDial
  <2>3. OneOutgoingPerAddress'
    BY <2>1 DEF ConnectionInv, OneOutgoingPerAddress
  <2>4. SkippedForAnother'
    BY <2>1, <2>2 DEF ConnectionInv, SkippedForAnother
  <2> QED BY <2>1, <2>2, <2>3, <2>4 DEF ConnectionInv
<1>4. ASSUME NEW i \in DOMAIN dials, NEW x \in Protocols, TakeDial(i, x)
      PROVE  ConnectionInv'
  <2>1. /\ DOMAIN dials' = DOMAIN dials
        /\ \A j \in DOMAIN dials : dials'[j].addr = dials[j].addr
        /\ \A j \in DOMAIN dials, y \in Protocols :
              /\ Taken(j, y)' <=> Taken(j, y) \/ (j = i /\ y = x)
              /\ dials'[j].fut[y] = "skipped" => dials[j].fut[y] = "skipped"
    BY <1>t, <1>4, SetFutureEffect DEF Taken, TakeDial
  <2>2. /\ connected' = connected \cup {dials[i].addr}
        /\ dials[i].addr \notin connected
    BY <1>4 DEF TakeDial
  <2>3. \A j \in DOMAIN dials, y \in Protocols :
           Taken(j, y) => dials[j].addr # dials[i].addr
    BY <2>2 DEF ConnectionInv
  <2>4. OneOutgoingPerAddress'
    BY <2>1, <2>3 DEF ConnectionInv, OneOutgoingPerAddress
  <2>5. SkippedForAnother'
    BY <2>1 DEF ConnectionInv, SkippedForAnother
  <2> QED BY <2>1, <2>2, <2>4, <2>5 DEF ConnectionInv
<1>5. ASSUME NEW i \in DOMAIN dials, NEW x \in Protocols, Moves(i, x)
      PROVE  ConnectionInv'
  <2>1. CASE SkipDial(i, x) \/ TakeDial(i, x)
    BY <1>3, <1>4, <2>1
  <2>2. CASE StartDial(i, x)
    BY <1>2, <2>2 DEF StartDial, Taken
  <2>3. CASE FailDial(i, x)
    BY <1>2, <2>3 DEF FailDial, Taken
  <2>4. ASSUME NEW state \in {"ok", "refused"}, Answer(i, x, state)
        PROVE  ConnectionInv'
    BY <1>2, <2>4 DEF Answer, Taken
  <2>5. CASE Close(i, x)
    BY <1>2, <2>5 DEF Close, Taken
  <2> QED BY <1>5, <2>1, <2>2, <2>3, <2>4, <2>5 DEF Moves
<1>6. CASE UNCHANGED <<dials, connected>>
  BY <1>6 DEF ConnectionInv, Taken, OneOutgoingPerAddress, SkippedForAnother
<1> QED BY <1>1, <1>5, <1>6, TransportSteps

(* connected holds exactly the addresses that were handed out.             *)
LEMMA ConnectionsCorrect == Spec => []ConnectionInv
<1>1. Init => ConnectionInv
  <2> SUFFICES ASSUME Init PROVE ConnectionInv
    OBVIOUS
  <2>1. DOMAIN dials = {} /\ connected = {}
    BY DEF Init, TransportInit
  <2> QED BY <2>1 DEF ConnectionInv, OneOutgoingPerAddress, SkippedForAnother
<1> QED BY <1>1, TypeCorrect, ConnectionStep, PTL DEF Spec

(* At most one outgoing connection per address reaches the consumer.       *)
THEOREM AtMostOnePerAddress == Spec => []OneOutgoingPerAddress
<1>1. ConnectionInv => OneOutgoingPerAddress
  BY DEF ConnectionInv
<1> QED BY <1>1, ConnectionsCorrect, PTL

(* A connection is dropped only when another to its address was handed out. *)
THEOREM NoMutualCancel == Spec => []SkippedForAnother
<1>1. ConnectionInv => SkippedForAnother
  BY DEF ConnectionInv
<1> QED BY <1>1, ConnectionsCorrect, PTL
-----------------------------------------------------------------------------
(* Every step keeps ListenerInv.                                           *)
LEMMA ListenerStep == TypeOK /\ ListenerInv /\ [Next]_vars => ListenerInv'
<1> SUFFICES ASSUME TypeOK, ListenerInv, [Next]_vars, "accept" \notin Faults
             PROVE  /\ NoAcceptError'
                    /\ PastListener' => woken' \/ ListenerArmed'
  BY DEF ListenerInv
<1> DEFINE Goal == /\ NoAcceptError'
                   /\ PastListener' => woken' \/ ListenerArmed'
           Kept == /\ backlog' = backlog
                   /\ woken => woken'
                   /\ "tcp_incoming" \in wakers => "tcp_incoming" \in wakers'
<1>inv. NoAcceptError /\ (PastListener => woken \/ ListenerArmed)
  BY DEF ListenerInv
<1>b. backlog \in [Protocols -> Seq(Arrival)]
  BY DEF TypeOK, TransportTypeOK
<1>n. backlog' = backlog => NoAcceptError'
  BY <1>inv DEF NoAcceptError
<1>k. Kept /\ (PastListener' => PastListener) => Goal
  BY <1>inv, <1>n DEF ListenerArmed
<1>f. \A s : s # "tcp_incoming" /\ Fire(s) /\ backlog' = backlog => Kept
  BY DEF Fire
<1>r. \A s : Register(s) /\ backlog' = backlog => Kept
  BY DEF Register
<1>u. UNCHANGED wakerVars /\ backlog' = backlog => Kept
  BY DEF wakerVars
<1>1. CASE \/ \E t \in Topics, config \in Configs : OwnerConfigure(t, config)
           \/ ConsumerPoll \/ ExecutorPoll \/ PollCommand \/ PollCommandsDone
           \/ PollDhtReady \/ PollDhtLoop \/ PollDhtPending
           \/ PollMdnsReady \/ PollMdnsError \/ PollMdnsPending
  <2>1. backlog' = backlog
    BY <1>1 DEF OwnerConfigure, Configure, ConsumerPoll, ExecutorPoll, PollCommand,
                PollCommandsDone, PollDhtReady, PollDhtLoop, PollDhtPending,
                PollMdnsReady, PollMdnsError, PollMdnsPending, Connect, transportVars
  <2>2. ~PastListener'
    BY <1>1 DEF OwnerConfigure, ConsumerPoll, ExecutorPoll, PollCommand,
                PollCommandsDone, PollDhtReady, PollDhtLoop, PollDhtPending,
                PollMdnsReady, PollMdnsError, PollMdnsPending, PastListener
  <2> QED BY <1>n, <2>1, <2>2
<1>2. ASSUME NEW t \in Topics, NEW config \in Configs, HandleConfigure(t, config)
      PROVE  Goal
  <2>1. Kept
    BY <1>2, <1>f DEF HandleConfigure, transportVars
  <2> QED BY <1>2, <1>k, <2>1 DEF HandleConfigure, PastListener
<1>3. CASE SpuriousWake
  BY <1>3, <1>n DEF SpuriousWake, transportVars
<1>4. ASSUME NEW x \in Protocols, PollIncoming(x)
      PROVE  Goal
  <2>1. CASE \E arrival : Accept(x, arrival)
    <3>1. PICK arrival : Accept(x, arrival)
      BY <2>1
    <3>2. /\ backlog[x] # <<>>
          /\ backlog[x] \in Seq(Arrival)
          /\ backlog' = [backlog EXCEPT ![x] = Tail(@)]
      BY <1>b, <3>1 DEF Accept
    <3>3. /\ Head(backlog[x]) # "error"
          /\ \A k \in DOMAIN Tail(backlog[x]) : Tail(backlog[x])[k] # "error"
      <4>1. \A k \in DOMAIN backlog[x] : backlog[x][k] # "error"
        BY <1>inv DEF NoAcceptError
      <4> QED BY <3>2, <4>1
    <3>4. NoAcceptError'
      BY <1>b, <1>inv, <3>2, <3>3 DEF NoAcceptError
    <3>5. \A a : Accept(x, a) => a = Head(backlog[x])
      BY DEF Accept
    <3>6. ~PastListener'
      BY <1>4, <3>2, <3>3, <3>5 DEF PollIncoming, IncomingPending, PastListener
    <3> QED BY <3>4, <3>6
  <2>2. CASE IncomingPending(x) /\ pc' = Connects(x)
    <3>1. Kept
      BY <1>r, <2>2 DEF IncomingPending, transportVars
    <3>2. CASE x = "tcp"
      BY <1>n, <2>2, <3>2
         DEF IncomingPending, Register, Incoming, transportVars, ListenerArmed
    <3>3. CASE x # "tcp"
      BY <1>4, <1>k, <3>1, <3>3 DEF PollIncoming, Incoming, PastListener
    <3> QED BY <3>2, <3>3
  <2> QED BY <1>4, <2>1, <2>2 DEF PollIncoming
<1>5. ASSUME NEW x \in Protocols, PollConnects(x)
      PROVE  Goal
  <2>1. PastListener
    BY <1>5 DEF PollConnects, Connects, PastListener
  <2>2. Kept
    BY <1>5, <1>r, <1>u
       DEF PollConnects, StartDial, TakeDial, SkipDial, FailDial, ResetDial,
           ConnectsPending, transportVars
  <2> QED BY <1>k, <2>1, <2>2
<1>6. CASE DhtActs \/ LocatorActs
  <2>1. Kept
    BY <1>6, <1>f DEF DhtActs, DhtBootstraps, DhtAnswers, Emit, LocatorActs,
                      LocatorYields, transportVars
  <2> QED BY <1>6, <1>k, <2>1 DEF DhtActs, LocatorActs, PastListener
<1>7. ASSUME NEW i \in DOMAIN dials, NEW x \in Protocols,
             NetworkAnswers(i, x)
      PROVE  Goal
  <2>1. Kept
    BY <1>7, <1>f DEF NetworkAnswers, Answer, Connects
  <2> QED BY <1>7, <1>k, <2>1 DEF NetworkAnswers, PastListener
<1>8. ASSUME NEW i \in DOMAIN dials, NEW x \in Protocols, Close(i, x), UNCHANGED pc
      PROVE  Goal
  BY <1>8, <1>k, <1>u DEF Close, PastListener
<1>9. ASSUME NEW x \in Protocols, NEW arrival \in Arrival, Arrive(x, arrival),
             UNCHANGED pc
      PROVE  Goal
  <2>1. /\ backlog[x] \in Seq(Arrival)
        /\ backlog' = [backlog EXCEPT ![x] = Append(@, arrival)]
        /\ arrival # "error"
    BY <1>9, <1>b DEF Arrive
  <2>2. \A k \in DOMAIN Append(backlog[x], arrival) :
           Append(backlog[x], arrival)[k] # "error"
    <3>1. \A k \in DOMAIN backlog[x] : backlog[x][k] # "error"
      BY <1>inv DEF NoAcceptError
    <3> QED BY <2>1, <3>1
  <2>3. NoAcceptError'
    BY <1>b, <1>inv, <2>1, <2>2 DEF NoAcceptError
  <2>4. PastListener' => woken' \/ ListenerArmed'
    <3>1. CASE x = "tcp"
      BY <1>9, <1>inv, <3>1 DEF Arrive, Fire, Incoming, PastListener, ListenerArmed
    <3>2. CASE x # "tcp"
      BY <1>9, <1>b, <1>inv, <2>1, <3>2, TransportAssumption
         DEF Arrive, Fire, Incoming, PastListener, ListenerArmed
    <3> QED BY <3>1, <3>2
  <2> QED BY <2>3, <2>4
<1>10. CASE UNCHANGED vars
  BY <1>10, <1>k, <1>u DEF vars, transportVars, wakerVars, PastListener
<1> QED
  BY <1>1, <1>2, <1>3, <1>4, <1>5, <1>6, <1>7, <1>8, <1>9, <1>10
     DEF Next, Poll, NetworkAnswersDial, NetworkActs

LEMMA ListenersCorrect == Spec => []ListenerInv
<1>1. Init => ListenerInv
  <2> SUFFICES ASSUME Init PROVE ListenerInv
    OBVIOUS
  <2>1. \A x \in Protocols : DOMAIN backlog[x] = {}
    BY DEF Init, TransportInit
  <2> QED BY <2>1 DEF Init, ListenerInv, NoAcceptError, PastListener
<1> QED BY <1>1, TypeCorrect, ListenerStep, PTL DEF Spec

(* While accept() does not fail, no TCP connection waits for a parked task. *)
THEOREM ListenerNeverStranded == Spec => []ListenerNotStranded
<1>1. ListenerInv => ListenerNotStranded
  BY DEF ListenerInv, ListenerNotStranded, Quiet, PastListener, ListenerArmed
<1> QED BY <1>1, ListenersCorrect, PTL
-----------------------------------------------------------------------------
(* The members of a sequence are its head and the members of its tail.     *)
LEMMA HeadAndTail ==
    ASSUME NEW S, NEW q \in Seq(S), q # <<>>
    PROVE  {q[k] : k \in DOMAIN q}
               = {Head(q)} \cup {Tail(q)[k] : k \in DOMAIN Tail(q)}
<1>1. /\ Len(q) \in Nat /\ Len(q) > 0
      /\ DOMAIN q = 1..Len(q)
      /\ DOMAIN Tail(q) = 1..(Len(q) - 1)
      /\ Head(q) = q[1]
      /\ \A k \in 1..(Len(q) - 1) : Tail(q)[k] = q[k + 1]
  OBVIOUS
<1>2. \A k \in DOMAIN q : k = 1 \/ (k - 1 \in DOMAIN Tail(q) /\ q[k] = Tail(q)[k - 1])
  BY <1>1
<1>3. \A k \in DOMAIN Tail(q) : k + 1 \in DOMAIN q /\ Tail(q)[k] = q[k + 1]
  BY <1>1
<1>4. 1 \in DOMAIN q
  BY <1>1
<1> DEFINE All == {q[k] : k \in DOMAIN q}
           Rest == {Tail(q)[k] : k \in DOMAIN Tail(q)}
<1>5. ASSUME NEW e \in All PROVE e \in {Head(q)} \cup Rest
  <2>1. PICK k \in DOMAIN q : e = q[k]
    OBVIOUS
  <2>2. CASE k = 1
    BY <1>1, <2>1, <2>2
  <2>3. CASE k - 1 \in DOMAIN Tail(q) /\ q[k] = Tail(q)[k - 1]
    BY <2>1, <2>3
  <2> QED BY <1>2, <2>2, <2>3
<1>6. Rest \subseteq All
  BY <1>3
<1>7. Head(q) \in All
  BY <1>1, <1>4
<1> QED BY <1>5, <1>6, <1>7

(* Refinement: every step of the swarm is a step of PeerConnections, or    *)
(* changes nothing that PeerConnections speaks of.                         *)
LEMMA PromiseStep ==
    TypeOK /\ ConnectionInv /\ [Next]_vars => [Promised!Next]_(Promised!vars)
<1> SUFFICES ASSUME TypeOK, ConnectionInv, [Next]_vars
             PROVE  Promised!Next \/ UNCHANGED <<Found, EstablishedConnections,
                                                 HandedConnections>>
  BY DEF Promised!vars
<1>t. /\ TransportTypeOK
      /\ pending_events \in Seq(Peers)
      /\ \A i \in DOMAIN dials : dials[i].addr \in Peers
  <2>1. \A i \in DOMAIN dials : dials[i] \in Dial
    BY DEF TypeOK, TransportTypeOK
  <2> QED BY <2>1 DEF TypeOK, DhtTypeOK, Dial
<1> DEFINE Same == UNCHANGED <<EstablishedConnections, HandedConnections>>
<1>find. ASSUME NEW S \in SUBSET Peers, Found' = Found \cup S, Same
         PROVE  Promised!Next
  BY <1>find DEF Promised!Next, Promised!Find
<1>1. ASSUME NEW p \in Peers, Connect(p), DhtReady(p) \/ UNCHANGED pending_events
      PROVE  Promised!Next \/ UNCHANGED <<Found, EstablishedConnections,
                                          HandedConnections>>
  <2>1. /\ \A i \in DOMAIN dials : i \in DOMAIN dials' /\ dials'[i] = dials[i]
        /\ \A i \in DOMAIN dials' \ DOMAIN dials :
              /\ dials'[i].addr = p
              /\ \A x \in Protocols : dials'[i].fut[x] = "new"
        /\ \E i \in DOMAIN dials' : dials'[i].addr = p
    BY <1>1, <1>t, ConnectEffect
  <2>2. \A i \in DOMAIN dials', x \in Protocols :
           dials'[i].fut[x] # "new" => i \in DOMAIN dials
    BY <2>1
  <2>3. Same
    <3>1. EstablishedConnections' = EstablishedConnections
      BY <2>1, <2>2 DEF EstablishedConnections, Established
    <3>2. HandedConnections' = HandedConnections
      BY <2>1, <2>2 DEF HandedConnections, Taken
    <3> QED BY <3>1, <3>2
  <2>4. {dials'[i].addr : i \in DOMAIN dials'}
            = {dials[i].addr : i \in DOMAIN dials} \cup {p}
    BY <2>1
  <2>5. {pending_events'[k] : k \in DOMAIN pending_events'} \cup {p}
            = {pending_events[k] : k \in DOMAIN pending_events} \cup {p}
    <3>1. CASE DhtReady(p)
      BY <1>t, <3>1, HeadAndTail DEF DhtReady
    <3>2. CASE UNCHANGED pending_events
      BY <3>2
    <3> QED BY <1>1, <3>1, <3>2
  <2>6. Found' = Found \cup {p}
    BY <2>4, <2>5 DEF Found
  <2> QED BY <1>find, <2>3, <2>6
<1>2. ASSUME NEW i \in DOMAIN dials, NEW x \in Protocols, NEW s, SetFuture(i, x, s),
             UNCHANGED pending_events
      PROVE  /\ Found' = Found
             /\ DOMAIN dials' = DOMAIN dials
             /\ \A j \in DOMAIN dials :
                   /\ dials'[j].addr = dials[j].addr
                   /\ \A y \in Protocols :
                         dials'[j].fut[y] = IF j = i /\ y = x THEN s
                                                              ELSE dials[j].fut[y]
  BY <1>t, <1>2, SetFutureEffect DEF Found
<1>3. ASSUME NEW i \in DOMAIN dials, NEW x \in Protocols, Moves(i, x),
             UNCHANGED pending_events
      PROVE  Promised!Next \/ UNCHANGED <<Found, EstablishedConnections,
                                          HandedConnections>>
  <2> DEFINE p == dials[i].addr
  <2>p. p \in Peers /\ p \in Found
    BY <1>t DEF Found
  <2>1. CASE Answer(i, x, "ok")
    <3>1. SetFuture(i, x, "ok") /\ dials[i].fut[x] = "flying"
      BY <2>1 DEF Answer
    <3>2. EstablishedConnections' = EstablishedConnections \cup {<<p, x>>}
      BY <1>2, <1>3, <2>p, <3>1 DEF EstablishedConnections, Established
    <3>3. Found' = Found /\ HandedConnections' = HandedConnections
      BY <1>2, <1>3, <3>1 DEF HandedConnections, Taken
    <3> QED BY <2>p, <3>2, <3>3 DEF Promised!Next, Promised!Establish
  <2>2. CASE TakeDial(i, x)
    <3>1. SetFuture(i, x, "taken") /\ dials[i].fut[x] = "ok" /\ p \notin connected
      BY <2>2 DEF TakeDial
    <3>2. HandedConnections' = HandedConnections \cup {<<p, x>>}
      BY <1>2, <1>3, <2>p, <3>1 DEF HandedConnections, Taken
    <3>3. Found' = Found /\ EstablishedConnections' = EstablishedConnections
      BY <1>2, <1>3, <3>1 DEF EstablishedConnections, Established
    <3>4. <<p, x>> \in EstablishedConnections
      BY <2>p, <3>1 DEF EstablishedConnections, Established
    <3>5. \A y \in Protocols : <<p, y>> \notin HandedConnections
      BY <3>1 DEF HandedConnections, ConnectionInv
    <3> QED BY <2>p, <3>2, <3>3, <3>4, <3>5 DEF Promised!Next, Promised!HandOver
  <2>3. CASE \/ StartDial(i, x) \/ SkipDial(i, x) \/ FailDial(i, x)
             \/ Answer(i, x, "refused") \/ Close(i, x)
    <3>1. PICK s \in FutureState :
             /\ SetFuture(i, x, s)
             /\ s \in {"taken", "closed"} <=> Taken(i, x)
             /\ s \in {"ok", "taken", "closed", "skipped"} <=> Established(i, x)
      BY <2>3 DEF StartDial, SkipDial, FailDial, Answer, Close, Taken, Established,
                  FutureState
    <3>2. /\ Found' = Found /\ DOMAIN dials' = DOMAIN dials
          /\ \A j \in DOMAIN dials, y \in Protocols :
                /\ dials'[j].addr = dials[j].addr
                /\ Taken(j, y)' <=> Taken(j, y)
                /\ Established(j, y)' <=> Established(j, y)
      BY <1>2, <1>3, <3>1 DEF Taken, Established
    <3> QED BY <3>2 DEF EstablishedConnections, HandedConnections
  <2> QED BY <1>3, <2>1, <2>2, <2>3 DEF Moves
<1>4. CASE /\ UNCHANGED <<dials, connected>>
           /\ DhtHandleEvent \/ UNCHANGED pending_events
  <2>1. Same
    BY <1>4 DEF EstablishedConnections, HandedConnections, Established, Taken
  <2>2. CASE UNCHANGED pending_events
    BY <1>4, <2>1, <2>2 DEF Found
  <2>3. CASE DhtHandleEvent
    <3>1. Head(dht_events) \in DhtEvent
      BY <2>3 DEF DhtHandleEvent, TypeOK, DhtTypeOK
    <3>2. PICK r \in Seq(Peers) : pending_events' = pending_events \o r
      BY <2>3, <3>1 DEF DhtHandleEvent, DhtEvent
    <3>3. pending_events = <<>>
      BY <2>3 DEF DhtHandleEvent, ReachesHyperDht
    <3>4. pending_events' = r
      BY <3>2, <3>3
    <3>5. /\ Found' = Found \cup {r[k] : k \in DOMAIN r}
          /\ {r[k] : k \in DOMAIN r} \in SUBSET Peers
      BY <1>4, <3>3, <3>4 DEF Found
    <3> QED BY <1>find, <2>1, <3>5
  <2> QED BY <1>4, <2>2, <2>3
<1> QED BY <1>1, <1>3, <1>4, TransportSteps

(* The swarm implements PeerConnections: it opens connections to found     *)
(* peers only, and hands at most one per peer to the application.          *)
THEOREM Refinement == Spec => KeepsPromise
<1>1. Init => Promised!Init
  <2> SUFFICES ASSUME Init PROVE Promised!Init
    OBVIOUS
  <2>1. DOMAIN dials = {} /\ DOMAIN pending_events = {}
    BY DEF Init, TransportInit, DhtInit
  <2> QED BY <2>1 DEF Promised!Init, Found, EstablishedConnections, HandedConnections
<1> QED BY <1>1, TypeCorrect, ConnectionsCorrect, PromiseStep, PTL
        DEF Spec, KeepsPromise, Promised!Spec
-----------------------------------------------------------------------------
(* What a submission adds to the queue, and what it leaves there.          *)
LEMMA SubmitEffect ==
    ASSUME DhtTypeOK, NEW cmds \in Seq(Command), DhtSubmit(cmds)
    PROVE  /\ \A c \in Command : DhtKnows(c) => DhtKnows(c)'
           /\ \A c \in Command :
                 (\E k \in DOMAIN cmds : cmds[k] = c) => DhtKnows(c)'
<1>1. /\ pending_commands \in Seq(Command)
      /\ pending_commands' = pending_commands \o cmds
      /\ issued' = issued
  BY DEF DhtTypeOK, DhtSubmit
<1>2. \A i \in DOMAIN pending_commands :
         i \in DOMAIN pending_commands' /\ pending_commands'[i] = pending_commands[i]
  BY <1>1
<1>3. \A k \in DOMAIN cmds :
         /\ Len(pending_commands) + k \in DOMAIN pending_commands'
         /\ pending_commands'[Len(pending_commands) + k] = cmds[k]
  BY <1>1
<1>4. ASSUME NEW c \in Command, DhtKnows(c) PROVE DhtKnows(c)'
  BY <1>1, <1>2, <1>4 DEF DhtKnows, Queued
<1>5. ASSUME NEW c \in Command, NEW k \in DOMAIN cmds, cmds[k] = c PROVE DhtKnows(c)'
  BY <1>3, <1>5 DEF DhtKnows, Queued
<1> QED BY <1>4, <1>5

(* Executing a pending command forgets none.                               *)
LEMMA ExecuteEffect ==
    ASSUME DhtTypeOK, DhtExecute, NEW c \in Command, DhtKnows(c)
    PROVE  DhtKnows(c)'
<1>1. /\ pending_commands \in Seq(Command) /\ pending_commands # <<>>
      /\ pending_commands' = Tail(pending_commands)
      /\ Head(pending_commands) \in Command
      /\ issued \in [Command -> Nat]
      /\ issued' = [issued EXCEPT ![Head(pending_commands)] = @ + 1]
  BY DEF DhtTypeOK, DhtExecute
<1>2. CASE issued[c] > 0
  <2>1. issued'[c] > 0
    BY <1>1, <1>2
  <2> QED BY <2>1 DEF DhtKnows
<1>3. CASE Queued(c) # {}
  <2>1. PICK i \in DOMAIN pending_commands : pending_commands[i] = c
    BY <1>3 DEF Queued
  <2>2. CASE i = 1
    <3>1. issued'[c] = issued[c] + 1 /\ issued[c] \in Nat
      BY <1>1, <2>1, <2>2
    <3>2. issued'[c] > 0
      BY <3>1
    <3> QED BY <3>2 DEF DhtKnows
  <2>3. CASE i # 1
    <3>1. i - 1 \in DOMAIN pending_commands' /\ pending_commands'[i - 1] = c
      BY <1>1, <2>1, <2>3
    <3> QED BY <3>1 DEF DhtKnows, Queued
  <2> QED BY <2>2, <2>3
<1> QED BY <1>2, <1>3 DEF DhtKnows

(* configure() asks the DHT for everything that the new configuration      *)
(* wants and the old one did not.                                          *)
LEMMA ConfigureWants ==
    ASSUME TypeOK, WantedReachesDht, NEW t \in Topics, NEW config \in TopicConfig,
           Configure(t, config)
    PROVE  WantedReachesDht'
<1> DEFINE cmds == Added(t, config)
<1>1. cmds \in Seq(Command) /\ DhtSubmit(cmds) /\ DhtTypeOK
  BY AddedType DEF Configure, TypeOK
<1>2. /\ \A c \in Command : DhtKnows(c) => DhtKnows(c)'
      /\ \A c \in Command :
            (\E k \in DOMAIN cmds : cmds[k] = c) => DhtKnows(c)'
  BY <1>1, SubmitEffect
<1>3. \A u \in Topics : Announce(u) \in Command /\ Lookup(u) \in Command
  BY DEF Announce, Lookup, Command
<1>4. config.announce /\ ~topics[t].announce =>
         \E k \in DOMAIN cmds : cmds[k] = Announce(t)
  <2> SUFFICES ASSUME config.announce, ~topics[t].announce
               PROVE  1 \in DOMAIN cmds /\ cmds[1] = Announce(t)
    OBVIOUS
  <2> QED BY DEF Added
<1>5. config.lookup /\ ~topics[t].lookup =>
         \E k \in DOMAIN cmds : cmds[k] = Lookup(t)
  <2> SUFFICES ASSUME config.lookup, ~topics[t].lookup
               PROVE  Len(cmds) \in DOMAIN cmds /\ cmds[Len(cmds)] = Lookup(t)
    OBVIOUS
  <2> QED BY DEF Added
<1>6. topics' = [topics EXCEPT ![t] = config] /\ topics \in [Topics -> TopicConfig]
  BY DEF Configure, TypeOK
<1>7. ASSUME NEW u \in Topics
      PROVE  /\ topics'[u].announce => DhtKnows(Announce(u))'
             /\ topics'[u].lookup => DhtKnows(Lookup(u))'
  <2>1. CASE u = t
    <3>1. topics'[u] = config
      BY <1>6, <2>1
    <3>2. /\ topics[t].announce => DhtKnows(Announce(t))
          /\ topics[t].lookup => DhtKnows(Lookup(t))
      BY DEF WantedReachesDht
    <3>3. config.announce => DhtKnows(Announce(t))'
      BY <1>2, <1>3, <1>4, <3>2
    <3>4. config.lookup => DhtKnows(Lookup(t))'
      BY <1>2, <1>3, <1>5, <3>2
    <3> QED BY <2>1, <3>1, <3>3, <3>4
  <2>2. CASE u # t
    <3>1. topics'[u] = topics[u]
      BY <1>6, <2>2
    <3> QED BY <1>2, <1>3, <3>1 DEF WantedReachesDht
  <2> QED BY <2>1, <2>2
<1> QED BY <1>7 DEF WantedReachesDht

(* Every step keeps what a configuration wants with the DHT.               *)
LEMMA WantedStep == TypeOK /\ WantedReachesDht /\ [Next]_vars => WantedReachesDht'
<1> SUFFICES ASSUME TypeOK, WantedReachesDht, [Next]_vars PROVE WantedReachesDht'
  OBVIOUS
<1>k. ASSUME topics' = topics, \A c \in Command : DhtKnows(c) => DhtKnows(c)'
      PROVE  WantedReachesDht'
  <2>1. \A u \in Topics : Announce(u) \in Command /\ Lookup(u) \in Command
    BY DEF Announce, Lookup, Command
  <2> QED BY <1>k, <2>1 DEF WantedReachesDht
<1>u. UNCHANGED <<topics, pending_commands, issued>> => WantedReachesDht'
  BY DEF WantedReachesDht, DhtKnows, Queued
<1>1. ASSUME NEW t \in Topics, NEW config \in Configs, OwnerConfigure(t, config)
      PROVE  WantedReachesDht'
  BY <1>1, SwarmAssumption, ConfigureWants DEF OwnerConfigure
<1>2. ASSUME NEW t \in Topics, NEW config \in Configs, HandleConfigure(t, config)
      PROVE  WantedReachesDht'
  BY <1>2, <1>u DEF HandleConfigure, dhtVars
<1>3. CASE PollCommand
  <2>1. Head(commands) \in ConfigureCommand
    BY <1>3 DEF PollCommand, TypeOK
  <2> QED BY <1>3, <2>1, ConfigureWants DEF PollCommand, ConfigureCommand
<1>4. CASE PollDhtLoop
  <2>1. CASE DhtExecute
    BY <1>4, <1>k, <2>1, ExecuteEffect DEF PollDhtLoop, TypeOK, swarmVars
  <2>2. CASE DhtHandleEvent
    BY <1>4, <1>u, <2>2 DEF PollDhtLoop, DhtHandleEvent, swarmVars
  <2> QED BY <1>4, <2>1, <2>2 DEF PollDhtLoop
<1>5. CASE \/ ConsumerPoll \/ ExecutorPoll \/ PollCommandsDone \/ PollDhtReady
           \/ PollDhtPending \/ PollMdnsReady \/ PollMdnsError \/ PollMdnsPending
           \/ \E x \in Protocols : PollIncoming(x) \/ PollConnects(x)
           \/ SpuriousWake \/ UNCHANGED vars
  BY <1>5, <1>u DEF ConsumerPoll, ExecutorPoll, PollCommandsDone, PollDhtReady,
     DhtReady, PollDhtPending, DhtPending, PollMdnsReady, PollMdnsError,
     PollMdnsPending, PollIncoming, PollConnects, SpuriousWake, vars, swarmVars, dhtVars
<1>6. CASE DhtActs \/ LocatorActs \/ NetworkAnswersDial \/ NetworkActs
  BY <1>6, <1>u DEF DhtActs, DhtBootstraps, DhtAnswers, Emit, LocatorActs,
     NetworkAnswersDial, NetworkAnswers, NetworkActs, swarmVars, dhtVars
<1> QED BY <1>1, <1>2, <1>3, <1>4, <1>5, <1>6 DEF Next, Poll

(* No announce or lookup that a configuration asks for is lost on its way  *)
(* to the DHT.                                                             *)
THEOREM NothingWantedIsLost == Spec => []WantedReachesDht
<1>1. Init => WantedReachesDht
  BY DEF Init, WantedReachesDht
<1> QED BY <1>1, TypeCorrect, WantedStep, PTL DEF Spec
=============================================================================
