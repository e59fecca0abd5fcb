---------------------------- MODULE QueryProofs ----------------------------
(***************************************************************************)
(* Hyperswarm repeats no query: the proof that every query but the first   *)
(* takes a call of configure that switches it off and one that switches it *)
(* on again.                                                               *)
(***************************************************************************)
EXTENDS HyperswarmProofs, FiniteSetTheorems, SequenceTheorems

(* The configuration of c's topic asks for c.                              *)
Wanted(c) == IF c.kind = "Announce" THEN topics[c.topic].announce
                                    ELSE topics[c.topic].lookup

Asked(c) == issued[c] + Cardinality(Queued(c))

(* The calls of configure that have taken effect: the others wait in the   *)
(* channel of the handles.                                                 *)
Applied == calls - Len(commands)

(* Each query takes two of them, but one that is on has not been switched  *)
(* off again yet.                                                          *)
QueryInv ==
    /\ Len(commands) <= calls
    /\ \A c \in Command : 2 * Asked(c) <= Applied + (IF Wanted(c) THEN 1 ELSE 0)
-----------------------------------------------------------------------------
(* Where an element occurs in a sequence.                                  *)
Occurrences(s, c) == {i \in DOMAIN s : s[i] = c}

LEMMA OccurrencesFinite ==
    ASSUME NEW S, NEW s \in Seq(S), NEW c
    PROVE  IsFiniteSet(Occurrences(s, c)) /\ Cardinality(Occurrences(s, c)) \in Nat
<1>1. Len(s) \in Nat /\ DOMAIN s = 1..Len(s)
  OBVIOUS
<1>2. IsFiniteSet(1..Len(s))
  BY <1>1, FS_Interval
<1>3. Occurrences(s, c) \in SUBSET (1..Len(s))
  BY <1>1 DEF Occurrences
<1>4. IsFiniteSet(Occurrences(s, c))
  BY <1>2, <1>3, FS_Subset
<1> QED BY <1>4, FS_CardinalityType

LEMMA OccurrencesAppend ==
    ASSUME NEW S, NEW s \in Seq(S), NEW c, NEW d \in S
    PROVE  Cardinality(Occurrences(s \o <<d>>, c)) =
               Cardinality(Occurrences(s, c)) + (IF d = c THEN 1 ELSE 0)
<1>1. /\ Len(s) \in Nat /\ DOMAIN s = 1..Len(s)
      /\ DOMAIN (s \o <<d>>) = 1..(Len(s) + 1)
      /\ \A i \in 1..Len(s) : (s \o <<d>>)[i] = s[i]
      /\ (s \o <<d>>)[Len(s) + 1] = d
  OBVIOUS
<1>2. Len(s) + 1 \notin Occurrences(s, c)
  BY <1>1 DEF Occurrences
<1>3. CASE d = c
  <2>1. Occurrences(s \o <<d>>, c) = Occurrences(s, c) \cup {Len(s) + 1}
    BY <1>1, <1>3 DEF Occurrences
  <2> QED BY <1>2, <1>3, <2>1, OccurrencesFinite, FS_AddElement
<1>4. CASE d # c
  <2>1. Occurrences(s \o <<d>>, c) = Occurrences(s, c)
    BY <1>1, <1>4 DEF Occurrences
  <2> QED BY <1>4, <2>1, OccurrencesFinite
<1> QED BY <1>3, <1>4

LEMMA OccurrencesTail ==
    ASSUME NEW S, NEW s \in Seq(S), s # <<>>, NEW c
    PROVE  Cardinality(Occurrences(s, c)) =
               Cardinality(Occurrences(Tail(s), c)) + (IF Head(s) = c THEN 1 ELSE 0)
<1>1. /\ Len(s) \in Nat /\ Len(s) >= 1 /\ DOMAIN s = 1..Len(s)
      /\ Tail(s) \in Seq(S) /\ DOMAIN Tail(s) = 1..(Len(s) - 1)
      /\ \A i \in 1..(Len(s) - 1) : Tail(s)[i] = s[i + 1]
      /\ Head(s) = s[1]
  OBVIOUS
<1> DEFINE T == Occurrences(Tail(s), c)
           R == Occurrences(s, c) \ {1}
           f == [i \in T |-> i + 1]
<1>2. f \in Bijection(T, R)
  <2>1. \A i \in T : i \in 1..(Len(s) - 1) /\ i + 1 \in R
    BY <1>1 DEF Occurrences
  <2>2. \A j \in R : j - 1 \in T /\ (j - 1) + 1 = j
    BY <1>1 DEF Occurrences
  <2>3. f \in [T -> R] /\ \A i, j \in T : f[i] = f[j] => i = j
    BY <2>1, <1>1
  <2>4. \A j \in R : \E i \in T : f[i] = j
    BY <2>2
  <2> QED BY <2>3, <2>4 DEF Bijection, Injection, Surjection, IsInjective
<1>3. ExistsBijection(T, R)
  BY <1>2 DEF ExistsBijection
<1>4. IsFiniteSet(T) /\ Cardinality(T) \in Nat
  BY <1>1, OccurrencesFinite
<1>5. Cardinality(R) = Cardinality(T)
  BY <1>3, <1>4, FS_Bijection
<1>6. IsFiniteSet(Occurrences(s, c)) /\ Cardinality(Occurrences(s, c)) \in Nat
  BY OccurrencesFinite
<1>7. 1 \in Occurrences(s, c) <=> Head(s) = c
  BY <1>1 DEF Occurrences
<1>8. Cardinality(R) = IF 1 \in Occurrences(s, c)
                       THEN Cardinality(Occurrences(s, c)) - 1
                       ELSE Cardinality(Occurrences(s, c))
  BY <1>6, FS_RemoveElement
<1> HIDE DEF T, R
<1> QED BY <1>4, <1>5, <1>6, <1>7, <1>8 DEF T
-----------------------------------------------------------------------------
(* configure() asks for c once more if it switches c on, and not otherwise. *)
LEMMA ConfigureAsks ==
    ASSUME TypeOK, NEW t \in Topics, NEW config \in TopicConfig,
           Configure(t, config), NEW c \in Command
    PROVE  /\ Asked(c) \in Nat
           /\ Asked(c)' = Asked(c) + (IF Wanted(c)' /\ ~Wanted(c) THEN 1 ELSE 0)
<1> DEFINE a == config.announce /\ ~topics[t].announce
           l == config.lookup /\ ~topics[t].lookup
           A == IF a THEN <<Announce(t)>> ELSE <<>>
           L == IF l THEN <<Lookup(t)>> ELSE <<>>
           s == pending_commands
<1>1. /\ s \in Seq(Command) /\ issued \in [Command -> Nat]
      /\ topics \in [Topics -> TopicConfig]
      /\ topics' = [topics EXCEPT ![t] = config]
      /\ issued' = issued /\ s' = s \o Added(t, config)
  BY DEF TypeOK, DhtTypeOK, Configure, DhtSubmit
<1>2. Announce(t) \in Command /\ Lookup(t) \in Command
  BY DEF Announce, Lookup, Command
<1>3. A \in Seq(Command) /\ L \in Seq(Command)
  BY <1>2
<1>4. s' = (s \o A) \o L
  <2>1. Added(t, config) = A \o L
    BY DEF Added
  <2>2. ASSUME NEW x \in Seq(Command), NEW y \in Seq(Command), NEW z \in Seq(Command)
        PROVE  (x \o y) \o z = x \o (y \o z)
    BY ConcatAssociative
  <2>3. (s \o A) \o L = s \o (A \o L)
    BY <1>1, <1>3, <2>2
  <2> QED BY <1>1, <2>1, <2>3
<1>5. ASSUME NEW q \in Seq(Command), NEW d \in Command, NEW b
      PROVE  /\ q \o (IF b THEN <<d>> ELSE <<>>) \in Seq(Command)
             /\ Cardinality(Occurrences(q \o (IF b THEN <<d>> ELSE <<>>), c)) =
                    Cardinality(Occurrences(q, c)) + (IF b /\ d = c THEN 1 ELSE 0)
  <2>1. CASE b
    BY <2>1, OccurrencesAppend
  <2>2. CASE ~b
    <3>1. q \o <<>> = q /\ Cardinality(Occurrences(q, c)) \in Nat
      BY OccurrencesFinite
    <3> QED BY <2>2, <3>1
  <2> QED BY <2>1, <2>2
<1>6. /\ s \o A \in Seq(Command)
      /\ Cardinality(Occurrences(s \o A, c)) =
             Cardinality(Occurrences(s, c)) + (IF a /\ Announce(t) = c THEN 1 ELSE 0)
  BY <1>1, <1>2, <1>5
<1>7. Cardinality(Occurrences((s \o A) \o L, c)) =
          Cardinality(Occurrences(s \o A, c)) + (IF l /\ Lookup(t) = c THEN 1 ELSE 0)
  <2> HIDE DEF A, s
  <2> QED BY <1>2, <1>5, <1>6
<1>8. Cardinality(Occurrences(s, c)) \in Nat /\ issued[c] \in Nat
  BY <1>1, OccurrencesFinite
<1>9. Queued(c) = Occurrences(s, c) /\ Queued(c)' = Occurrences(s', c)
  BY DEF Queued, Occurrences
<1>10. (a /\ Announce(t) = c) \/ (l /\ Lookup(t) = c) <=> Wanted(c)' /\ ~Wanted(c)
  <2>1. c.kind \in {"Announce", "Lookup"} /\ c.topic \in Topics
        /\ c = [kind |-> c.kind, topic |-> c.topic]
    BY DEF Command
  <2>2. CASE c.topic # t
    <3>1. topics'[c.topic] = topics[c.topic]
      BY <1>1, <2>1, <2>2
    <3>2. Announce(t) # c /\ Lookup(t) # c
      BY <2>2 DEF Announce, Lookup
    <3> QED BY <3>1, <3>2 DEF Wanted
  <2>3. CASE c.topic = t
    <3>1. topics'[c.topic] = config
      BY <1>1, <2>1, <2>3
    <3>2. CASE c.kind = "Announce"
      <4>1. c = Announce(t) /\ c # Lookup(t)
        BY <2>1, <2>3, <3>2 DEF Announce, Lookup
      <4> QED BY <2>3, <3>1, <3>2, <4>1 DEF Wanted
    <3>3. CASE c.kind = "Lookup"
      <4>1. c = Lookup(t) /\ c # Announce(t)
        BY <2>1, <2>3, <3>3 DEF Announce, Lookup
      <4> QED BY <2>3, <3>1, <3>3, <4>1 DEF Wanted
    <3> QED BY <2>1, <3>2, <3>3
  <2> QED BY <2>2, <2>3
<1>11. Announce(t) # Lookup(t)
  BY DEF Announce, Lookup
<1> HIDE DEF a, l, A, L, s
<1>12. Cardinality(Occurrences(s', c)) = Cardinality(Occurrences(s, c))
           + (IF Wanted(c)' /\ ~Wanted(c) THEN 1 ELSE 0)
  BY <1>4, <1>6, <1>7, <1>8, <1>10, <1>11
<1>13. Asked(c)' = issued[c] + Cardinality(Occurrences(s', c))
       /\ Asked(c) = issued[c] + Cardinality(Occurrences(s, c))
  BY <1>1, <1>9 DEF Asked
<1> QED BY <1>8, <1>12, <1>13

(* Executing a command moves it from the queue to HyperDht.                *)
LEMMA ExecuteAsks ==
    ASSUME TypeOK, DhtExecute, NEW c \in Command
    PROVE  Asked(c)' = Asked(c)
<1> DEFINE s == pending_commands
<1>1. /\ s \in Seq(Command) /\ s # <<>> /\ Head(s) \in Command
      /\ s' = Tail(s) /\ Tail(s) \in Seq(Command)
      /\ issued \in [Command -> Nat]
      /\ issued' = [issued EXCEPT ![Head(s)] = @ + 1]
  BY DEF TypeOK, DhtTypeOK, DhtExecute
<1>2. issued'[c] = issued[c] + (IF Head(s) = c THEN 1 ELSE 0) /\ issued[c] \in Nat
  BY <1>1
<1>3. Queued(c) = Occurrences(s, c) /\ Queued(c)' = Occurrences(s', c)
  BY DEF Queued, Occurrences
<1> HIDE DEF s
<1>4. Cardinality(Occurrences(s, c)) =
          Cardinality(Occurrences(s', c)) + (IF Head(s) = c THEN 1 ELSE 0)
  BY <1>1, OccurrencesTail
<1>5. Cardinality(Occurrences(s', c)) \in Nat
  BY <1>1, OccurrencesFinite
<1> QED BY <1>2, <1>3, <1>4, <1>5 DEF Asked

(* One more call that takes effect, on a topic that is on or off before it *)
(* and after it.                                                           *)
LEMMA AppliedOneMore ==
    ASSUME TypeOK, NEW t \in Topics, NEW config \in TopicConfig, Configure(t, config),
           QueryInv, Applied' = Applied + 1, Len(commands') <= calls'
    PROVE  QueryInv'
<1>1. Applied \in Nat
  BY DEF TypeOK, QueryInv, Applied
<1>2. ASSUME NEW c \in Command
      PROVE  2 * Asked(c)' <= Applied' + (IF Wanted(c)' THEN 1 ELSE 0)
  <2>1. 2 * Asked(c) <= Applied + (IF Wanted(c) THEN 1 ELSE 0)
    BY DEF QueryInv
  <2>2. /\ Asked(c) \in Nat
        /\ Asked(c)' = Asked(c) + (IF Wanted(c)' /\ ~Wanted(c) THEN 1 ELSE 0)
    BY ConfigureAsks
  <2>3. CASE Wanted(c)' /\ ~Wanted(c)
    BY <1>1, <2>1, <2>2, <2>3
  <2>4. CASE ~(Wanted(c)' /\ ~Wanted(c))
    <3>1. Asked(c)' = Asked(c)
      BY <2>2, <2>4
    <3>2. 2 * Asked(c) <= Applied + 1
      BY <1>1, <2>1, <2>2
    <3> QED BY <1>1, <2>2, <3>1, <3>2
  <2> QED BY <2>3, <2>4
<1> QED BY <1>2 DEF QueryInv

(* A step that asks for nothing and applies nothing.                       *)
LEMMA QueryKept ==
    ASSUME QueryInv, topics' = topics, Applied' = Applied, Len(commands') <= calls',
           \A c \in Command : Asked(c)' = Asked(c)
    PROVE  QueryInv'
  BY DEF QueryInv, Wanted

LEMMA QueryStep == TypeOK /\ QueryInv /\ [Next]_vars => QueryInv'
<1> SUFFICES ASSUME TypeOK, QueryInv, [Next]_vars PROVE QueryInv'
  OBVIOUS
<1>t. commands \in Seq(ConfigureCommand) /\ Len(commands) \in Nat /\ calls \in Nat
      /\ Len(commands) <= calls
  BY DEF TypeOK, QueryInv
<1>u. UNCHANGED <<topics, commands, calls, pending_commands, issued>> => QueryInv'
  BY <1>t, QueryKept DEF Asked, Queued, Applied
<1>1. ASSUME NEW t \in Topics, NEW config \in Configs, OwnerConfigure(t, config)
      PROVE  QueryInv'
  <2>1. calls' = calls + 1 /\ commands' = commands /\ Configure(t, config)
    BY <1>1 DEF OwnerConfigure
  <2>2. Applied' = Applied + 1 /\ Len(commands') <= calls'
    BY <1>t, <2>1 DEF Applied
  <2> QED BY <2>1, <2>2, SwarmAssumption, AppliedOneMore
<1>2. ASSUME NEW t \in Topics, NEW config \in Configs, HandleConfigure(t, config)
      PROVE  QueryInv'
  <2>1. calls' = calls + 1 /\ Len(commands') = Len(commands) + 1
        /\ UNCHANGED <<topics, pending_commands, issued>>
    BY <1>t, <1>2 DEF HandleConfigure, dhtVars
  <2>2. Applied' = Applied /\ Len(commands') <= calls'
    BY <1>t, <2>1 DEF Applied
  <2> QED BY <2>1, <2>2, QueryKept DEF Asked, Queued
<1>3. CASE PollCommand
  <2>1. /\ Head(commands) \in ConfigureCommand /\ Len(commands') = Len(commands) - 1
        /\ calls' = calls /\ Configure(Head(commands)[1], Head(commands)[2])
    BY <1>3, <1>t DEF PollCommand
  <2>2. Applied' = Applied + 1 /\ Len(commands') <= calls'
    BY <1>t, <2>1 DEF Applied
  <2>3. Head(commands)[1] \in Topics /\ Head(commands)[2] \in TopicConfig
    BY <2>1 DEF ConfigureCommand
  <2> QED BY <2>1, <2>2, <2>3, AppliedOneMore
<1>4. CASE PollDhtLoop
  <2>1. UNCHANGED <<topics, commands, calls>>
    BY <1>4 DEF PollDhtLoop, swarmVars
  <2>2. CASE DhtExecute
    BY <1>t, <2>1, <2>2, ExecuteAsks, QueryKept DEF Applied
  <2>3. CASE DhtHandleEvent
    BY <1>u, <2>1, <2>3 DEF DhtHandleEvent
  <2> QED BY <1>4, <2>2, <2>3 DEF PollDhtLoop
<1>5. CASE \/ ConsumerPoll \/ ExecutorPoll \/ PollCommandsDone \/ PollDhtReady
           \/ PollDhtPending \/ PollMdnsReady \/ PollMdnsError \/ PollMdnsPending
           \/ \E x \in Protocols : PollIncoming(x) \/ PollConnects(x)
           \/ SpuriousWake \/ UNCHANGED vars
  BY <1>5, <1>u DEF ConsumerPoll, ExecutorPoll, PollCommandsDone, PollDhtReady,
     DhtReady, PollDhtPending, DhtPending, PollMdnsReady, PollMdnsError,
     PollMdnsPending, PollIncoming, PollConnects, SpuriousWake, vars, swarmVars, dhtVars
<1>6. CASE DhtActs \/ LocatorActs \/ NetworkAnswersDial \/ NetworkActs
  BY <1>6, <1>u DEF DhtActs, DhtBootstraps, DhtAnswers, Emit, LocatorActs,
     NetworkAnswersDial, NetworkAnswers, NetworkActs, swarmVars, dhtVars
<1> QED BY <1>1, <1>2, <1>3, <1>4, <1>5, <1>6 DEF Next, Poll

(* However the owner and the handles configure the topics, before or after *)
(* the bootstrap, configure() asks the DHT for the same query n times only *)
(* if it was called 2n - 1 times: to switch it on, and off in between.     *)
THEOREM NoQueryRepeated == Spec => []NoRepeatedQuery
<1>1. Init => QueryInv
  <2> SUFFICES ASSUME Init PROVE QueryInv
    OBVIOUS
  <2>1. /\ Len(commands) = 0 /\ calls = 0 /\ pending_commands = <<>>
        /\ issued = [c \in Command |-> 0]
        /\ topics = [t \in Topics |-> [announce |-> FALSE, lookup |-> FALSE]]
    BY DEF Init, DhtInit
  <2>2. ASSUME NEW c \in Command PROVE Asked(c) = 0
    <3>1. Queued(c) = {}
      BY <2>1 DEF Queued
    <3> QED BY <2>1, <3>1, FS_EmptySet DEF Asked
  <2>3. ASSUME NEW c \in Command PROVE ~Wanted(c)
    <3>1. c.topic \in Topics
      BY DEF Command
    <3> QED BY <2>1, <3>1 DEF Wanted
  <2> QED BY <2>1, <2>2, <2>3 DEF QueryInv, Applied
<1>2. TypeOK /\ QueryInv => NoRepeatedQuery
  <2> SUFFICES ASSUME TypeOK, QueryInv, NEW c \in Command
               PROVE  2 * (issued[c] + Cardinality(Queued(c))) <= calls + 1
    BY DEF NoRepeatedQuery
  <2>1. 2 * Asked(c) <= Applied + (IF Wanted(c) THEN 1 ELSE 0)
    BY DEF QueryInv
  <2>2. Len(commands) \in Nat /\ calls \in Nat /\ Len(commands) <= calls
    BY DEF TypeOK, QueryInv
  <2>3. Asked(c) \in Nat
    <3>1. Queued(c) = Occurrences(pending_commands, c)
      BY DEF Queued, Occurrences
    <3>2. pending_commands \in Seq(Command) /\ issued[c] \in Nat
      BY DEF TypeOK, DhtTypeOK
    <3>3. Cardinality(Queued(c)) \in Nat
      BY <3>1, <3>2, OccurrencesFinite
    <3> QED BY <3>2, <3>3 DEF Asked
  <2>4. 2 * Asked(c) <= calls + 1
    BY <2>1, <2>2, <2>3 DEF Applied
  <2> QED BY <2>4 DEF Asked
<1> QED BY <1>1, <1>2, TypeCorrect, QueryStep, PTL DEF Spec
=============================================================================
