------------------------ MODULE HyperBroadcastProofs ------------------------
(* Theorems about HyperBroadcast, for any connections, ids and lines.      *)
EXTENDS HyperBroadcast, SequenceTheorems, TLAPS

(* Where the task of a connection can be.                                  *)
TaskState == {"none", "select", "busy", "failed", "done"}

USE DEF Running, TaskState

(* run lists one connection at a time, and each connection once.           *)
ListingInv ==
    /\ \A c, d \in pushing : c = d
    /\ \A i, j \in DOMAIN peers : peers[i] = peers[j] => i = j
    /\ \A c \in pushing : c \notin Listed /\ task[c] # "none"
    /\ \A c \in Listed : task[c] # "none"

(* What a connection was sent before it is listed: nothing before run has  *)
(* taken it, and then the initial message.                                 *)
UnlistedInv ==
    \A c \in Conns :
        /\ alive /\ task[c] = "none" => sent[c] = <<>>
        /\ c \in pushing /\ Running(c) => sent[c] \o outbox[c] = <<0>>

(* No connection was listed later than the last line that it was sent.     *)
SinceInv == \A i \in DOMAIN peers : since[peers[i]] <= Reached(i)

IInv == /\ TypeOK
        /\ ListingInv
        /\ UnlistedInv
        /\ SinceInv
        /\ NoLineMissed
        /\ CutOffByNamesake
-----------------------------------------------------------------------------
(* The lines after the s-th up to the n-th, after the initial message.     *)
Lines(s, n) == <<0>> \o [k \in 1..(n - s) |-> s + k]

LEMMA LinesNone ==
    ASSUME NEW n \in Nat
    PROVE  Lines(n, n) = <<0>>
<1>1. [k \in 1..(n - n) |-> n + k] = <<>>
      OBVIOUS
<1> QED BY <1>1 DEF Lines

(* Taking the head of a sequence to the end of another: TakeMessage.       *)
LEMMA MoveHead ==
    ASSUME NEW S, NEW s \in Seq(S), NEW o \in Seq(S), o # <<>>
    PROVE  /\ Append(s, Head(o)) \in Seq(S)
           /\ Tail(o) \in Seq(S)
           /\ Append(s, Head(o)) \o Tail(o) = s \o o
<1>1. Head(o) \in S /\ Tail(o) \in Seq(S) /\ o = <<Head(o)>> \o Tail(o)
  <2>1. Len(o) \in Nat /\ Len(o) # 0
        OBVIOUS
  <2>2. Head(o) = o[1] /\ Tail(o) \in Seq(S) /\ Head(o) \in S
        BY <2>1
  <2> QED BY <2>1, <2>2
<1>2. Append(s, Head(o)) \in Seq(S)
      BY <1>1
<1> QED BY <1>1, <1>2

(* A message at the end of a channel is at the end of all that was sent.   *)
LEMMA SendLast ==
    ASSUME NEW S, NEW s \in Seq(S), NEW o \in Seq(S), NEW m \in S
    PROVE  /\ Append(o, m) \in Seq(S)
           /\ s \o Append(o, m) = Append(s \o o, m)
  OBVIOUS

LEMMA LinesNext ==
    ASSUME NEW s \in Nat, NEW n \in Nat, s <= n
    PROVE  Append(Lines(s, n), n + 1) = Lines(s, n + 1)
<1> DEFINE a == [k \in 1..(n - s) |-> s + k]
           b == [k \in 1..(n + 1 - s) |-> s + k]
<1>1. n - s \in Nat /\ n + 1 - s = (n - s) + 1
      OBVIOUS
<1>2. a \in Seq(Nat) /\ Len(a) = n - s /\ \A k \in 1..Len(a) : a[k] = s + k
      BY <1>1
<1>3. /\ b \in Seq(Nat)
      /\ Len(b) = Len(a) + 1
      /\ \A k \in 1..(Len(a) + 1) : b[k] = s + k
      BY <1>1, <1>2
<1>4. Lines(s, n) = <<0>> \o a /\ Lines(s, n + 1) = <<0>> \o b
      BY DEF Lines
<1>5. n + 1 = s + (Len(a) + 1)
      BY <1>1, <1>2
<1> HIDE DEF a, b
<1>6. b = Append(a, n + 1)
      BY <1>2, <1>3, <1>5
<1>7. <<0>> \o Append(a, n + 1) = Append(<<0>> \o a, n + 1)
  <2>1. <<0>> \in Seq(Nat) /\ n + 1 \in Nat
        OBVIOUS
  <2> QED BY <2>1, <1>2, SendLast
<1> QED BY <1>4, <1>6, <1>7

(* What Retain keeps, and that it keeps it once.                           *)
LEMMA RetainEffect ==
    ASSUME TypeOK, ListingInv, NEW id, Retain(id)
    PROVE  /\ peers' \in Seq(Conns)
           /\ \A k \in DOMAIN peers' : \E i \in DOMAIN peers :
                  IdOf[peers[i]] # id /\ peers'[k] = peers[i]
           /\ \A i \in DOMAIN peers : IdOf[peers[i]] # id =>
                  \E k \in DOMAIN peers' : peers'[k] = peers[i]
           /\ \A j, k \in DOMAIN peers' : peers'[j] = peers'[k] => j = k
<1> DEFINE kept == {i \in DOMAIN peers : IdOf[peers[i]] # id}
<1>0. PICK n \in 0..Len(peers) : \E f \in [1..n -> kept] :
          /\ \A j, k \in 1..n : j < k => f[j] < f[k]
          /\ kept = {f[k] : k \in 1..n}
          /\ peers' = [k \in 1..n |-> peers[f[k]]]
      BY DEF Retain
<1>1. PICK f \in [1..n -> kept] :
          /\ \A j, k \in 1..n : j < k => f[j] < f[k]
          /\ kept = {f[k] : k \in 1..n}
          /\ peers' = [k \in 1..n |-> peers[f[k]]]
      BY <1>0
<1>2. peers \in Seq(Conns) /\ Len(peers) \in Nat /\ n \in Nat /\ DOMAIN peers = 1..Len(peers)
      BY DEF TypeOK
<1>3. \A k \in 1..n : f[k] \in DOMAIN peers /\ IdOf[peers[f[k]]] # id
      BY <1>1
<1>4. \A i \in DOMAIN peers : peers[i] \in Conns
      BY <1>2
<1>5. DOMAIN peers' = 1..n /\ \A k \in 1..n : peers'[k] = peers[f[k]]
      BY <1>1
<1>6. peers' \in Seq(Conns)
      BY <1>1, <1>2, <1>3, <1>4
<1>7. ASSUME NEW j \in 1..n, NEW k \in 1..n, peers[f[j]] = peers[f[k]]
      PROVE  j = k
  <2>1. f[j] = f[k] /\ f[j] \in Nat
        BY <1>2, <1>3, <1>7 DEF ListingInv
  <2> QED BY <1>1, <1>2, <2>1
<1>8. \A i \in DOMAIN peers : IdOf[peers[i]] # id =>
          \E k \in 1..n : peers'[k] = peers[i]
      BY <1>1, <1>5
<1> QED BY <1>3, <1>5, <1>6, <1>7, <1>8
-----------------------------------------------------------------------------
(* A step leaves the lines of the peers as they are when it leaves the     *)
(* list, and what each peer was sent and was due, as they are.             *)
LEMMA LinesKept ==
    ASSUME NoLineMissed, UNCHANGED <<peers, since>>,
           \A i \in DOMAIN peers : Reached(i)' = Reached(i),
           \A i \in DOMAIN peers : Running(peers[i])' =>
               /\ Running(peers[i])
               /\ sent'[peers[i]] \o outbox'[peers[i]] = sent[peers[i]] \o outbox[peers[i]]
    PROVE  NoLineMissed'
<1>1. \A i \in DOMAIN peers :
          Due(peers[i], Reached(i))' = Lines(since[peers[i]], Reached(i))
      BY DEF Due, Lines
<1>2. \A i \in DOMAIN peers :
          Due(peers[i], Reached(i)) = Lines(since[peers[i]], Reached(i))
      BY DEF Due, Lines
<1> QED BY <1>1, <1>2 DEF NoLineMissed

(* The connections that are cut off stay so for the same reason.           *)
LEMMA CutOffKept ==
    ASSUME CutOffByNamesake,
           \A c \in Conns : task[c] = "done" => task'[c] = "done",
           \A c \in Conns : Running(c)' /\ c \notin Listed' \cup pushing' =>
               Running(c) /\ c \notin Listed \cup pushing
    PROVE  CutOffByNamesake'
  BY DEF CutOffByNamesake
-----------------------------------------------------------------------------
LEMMA InitIInv == Init => IInv
<1> SUFFICES ASSUME Init PROVE IInv
    OBVIOUS
<1>1. peers = <<>> /\ DOMAIN peers = {} /\ Listed = {}
      BY DEF Init, Listed
<1>2. TypeOK
      BY BroadcastAssumption DEF Init, TypeOK
<1> QED BY <1>1, <1>2 DEF Init, IInv, ListingInv, UnlistedInv, SinceInv,
           NoLineMissed, CutOffByNamesake

LEMMA TakeConnectionIInv ==
    ASSUME IInv, NEW c \in Conns, TakeConnection(c)
    PROVE  IInv'
<1>1. /\ task' \in [Conns -> TaskState]
      /\ alive /\ task[c] = "none" /\ task'[c] = "select"
      /\ \A d \in Conns : d # c => task'[d] = task[d]
      BY DEF IInv, TypeOK, TakeConnection
<1>2. <<0>> \in Seq(0..MaxLines)
      BY BroadcastAssumption
<1>3. /\ outbox' \in [Conns -> Seq(0..MaxLines)]
      /\ outbox'[c] = <<0>>
      /\ \A d \in Conns : d # c => outbox'[d] = outbox[d]
      BY <1>2 DEF IInv, TypeOK, TakeConnection
<1>4. UNCHANGED <<alive, peers, sent, line, at, since, Listed>> /\ pushing = {} /\ pushing' = {c}
      BY DEF TakeConnection, Listed
<1>5. c \notin Listed /\ \A i \in DOMAIN peers : peers[i] \in Conns \ {c}
      BY <1>1 DEF IInv, ListingInv, Listed, TypeOK
<1>6. TypeOK'
      BY <1>1, <1>3, <1>4 DEF IInv, TypeOK
<1>7. ListingInv'
      BY <1>1, <1>4, <1>5 DEF IInv, ListingInv, Listed
<1>8. UnlistedInv'
  <2>1. sent[c] \o outbox'[c] = <<0>>
    <3>1. sent[c] = <<>>
          BY <1>1 DEF IInv, UnlistedInv
    <3> QED BY <1>2, <1>3, <3>1
  <2> QED BY <1>1, <1>3, <1>4, <2>1 DEF IInv, UnlistedInv
<1>9. SinceInv' /\ NoLineMissed'
  <2>1. \A i \in DOMAIN peers : Reached(i)' = Reached(i)
        BY <1>4 DEF Reached
  <2>2. SinceInv'
        BY <1>4, <2>1 DEF IInv, SinceInv
  <2>3. \A i \in DOMAIN peers : /\ task'[peers[i]] = task[peers[i]]
                                /\ outbox'[peers[i]] = outbox[peers[i]]
        BY <1>1, <1>3, <1>5
  <2> QED BY <1>4, <2>1, <2>2, <2>3, LinesKept DEF IInv
<1>10. CutOffByNamesake'
       BY <1>1, <1>4 DEF IInv, CutOffByNamesake
<1> QED BY <1>6, <1>7, <1>8, <1>9, <1>10 DEF IInv

LEMMA PushPeerIInv ==
    ASSUME IInv, NEW c \in Conns, PushPeer(c)
    PROVE  IInv'
<1>1. peers \in Seq(Conns) /\ Len(peers) \in Nat /\ line \in Nat
      BY BroadcastAssumption DEF IInv, TypeOK
<1>2. /\ peers' \in Seq(Conns)
      /\ DOMAIN peers' = DOMAIN peers \cup {Len(peers) + 1}
      /\ peers'[Len(peers) + 1] = c
      /\ \A i \in DOMAIN peers : peers'[i] = peers[i] /\ i # Len(peers) + 1
      BY <1>1 DEF PushPeer
<1>3. /\ since' \in [Conns -> 0..MaxLines]
      /\ since'[c] = line
      /\ \A d \in Conns : d # c => since'[d] = since[d]
      BY DEF IInv, TypeOK, PushPeer
<1>4. /\ UNCHANGED <<alive, task, outbox, sent, line, at>>
      /\ c \in pushing /\ pushing' = {} /\ at = 0
      BY DEF PushPeer, LockFree
<1>5. c \notin Listed /\ task[c] # "none" /\ \A i \in DOMAIN peers : peers[i] \in Conns \ {c}
      BY <1>1, <1>4 DEF IInv, ListingInv, Listed
<1>6. Listed' = Listed \cup {c}
      BY <1>2 DEF Listed
<1>7. TypeOK'
      BY <1>2, <1>3, <1>4 DEF IInv, TypeOK
<1>8. ListingInv'
  <2>1. \A i, j \in DOMAIN peers' : peers'[i] = peers'[j] => i = j
        BY <1>2, <1>5 DEF IInv, ListingInv
  <2>2. \A d \in Listed' : task'[d] # "none"
        BY <1>4, <1>5, <1>6 DEF IInv, ListingInv
  <2> QED BY <1>4, <2>1, <2>2 DEF ListingInv
<1>9. UnlistedInv'
      BY <1>4 DEF IInv, UnlistedInv
<1>10. \A i \in DOMAIN peers' : Reached(i)' = line
       BY <1>4 DEF Reached
<1>11. \A i \in DOMAIN peers : Reached(i) = line
       BY <1>4 DEF Reached
<1>12. SinceInv'
       BY <1>1, <1>2, <1>3, <1>5, <1>10, <1>11 DEF IInv, SinceInv
<1>13. NoLineMissed'
  <2>1. ASSUME NEW i \in DOMAIN peers, Running(peers[i])
        PROVE  (sent[peers[i]] \o outbox[peers[i]] = Due(peers[i], line))'
    <3>1. sent[peers[i]] \o outbox[peers[i]] = Lines(since[peers[i]], line)
          BY <2>1, <1>11 DEF IInv, NoLineMissed, Due, Lines
    <3>2. peers'[i] = peers[i] /\ since'[peers[i]] = since[peers[i]]
          BY <1>2, <1>3, <1>5
    <3>3. Due(peers[i], line)' = Lines(since'[peers'[i]], line')
          BY DEF Due, Lines
    <3> QED BY <3>1, <3>2, <3>3, <1>4
  <2>2. ASSUME Running(c)
        PROVE  (sent[c] \o outbox[c] = Due(c, line))'
    <3>1. sent'[c] \o outbox'[c] = <<0>>
          BY <2>2, <1>4 DEF IInv, UnlistedInv
    <3>2. Due(c, line)' = <<0>>
          BY <1>1, <1>3, <1>4, LinesNone DEF Due, Lines
    <3> QED BY <3>1, <3>2
  <2> QED BY <2>1, <2>2, <1>2, <1>4, <1>10 DEF NoLineMissed, Due
<1>14. CutOffByNamesake'
  <2>1. \A d \in pushing : d = c
        BY <1>4 DEF IInv, ListingInv
  <2> QED BY <2>1, <1>4, <1>6 DEF IInv, CutOffByNamesake
<1> QED BY <1>7, <1>8, <1>9, <1>12, <1>13, <1>14 DEF IInv

LEMMA RunEndsIInv ==
    ASSUME IInv, RunEnds
    PROVE  IInv'
<1>1. /\ alive' = FALSE /\ pushing' = {} /\ peers' = <<>> /\ at' = 0
      /\ UNCHANGED <<sent, line, since>>
      BY DEF RunEnds
<1>2. task' \in [Conns -> TaskState] /\ \A c \in Conns : task'[c] = "none"
      BY DEF RunEnds
<1>3. outbox' \in [Conns -> Seq(0..MaxLines)]
      BY DEF RunEnds
<1>4. DOMAIN peers' = {} /\ Listed' = {} /\ peers' \in Seq(Conns) /\ Len(peers') = 0
      BY <1>1 DEF Listed
<1>5. TypeOK'
  <2>1. at' \in 0..(Len(peers') + 1)
        BY <1>1, <1>4
  <2> QED BY <1>1, <1>2, <1>3, <1>4, <2>1 DEF IInv, TypeOK
<1> QED BY <1>1, <1>2, <1>4, <1>5 DEF IInv, ListingInv, UnlistedInv, SinceInv,
           NoLineMissed, CutOffByNamesake
-----------------------------------------------------------------------------
(* When a line is typed, no peer has it yet.                               *)
LEMMA BroadcastIInv ==
    ASSUME IInv, Broadcast
    PROVE  IInv'
<1>1. /\ line \in Nat /\ line + 1 - 1 = line /\ line' = line + 1 /\ line' \in 0..MaxLines
      /\ at = 0 /\ at' = 1 /\ Len(peers) \in Nat
      /\ UNCHANGED <<alive, pushing, peers, task, outbox, sent, since>>
      BY BroadcastAssumption DEF IInv, TypeOK, Broadcast, LockFree
<1>2. \A i \in DOMAIN peers : Reached(i)' = Reached(i)
  <2>1. \A i \in DOMAIN peers : 1 <= i
        BY DEF IInv, TypeOK
  <2> QED BY <1>1, <2>1 DEF Reached
<1>3. TypeOK'
      BY <1>1 DEF IInv, TypeOK
<1>4. ListingInv' /\ UnlistedInv' /\ Listed' = Listed
      BY <1>1 DEF IInv, ListingInv, UnlistedInv, Listed
<1>5. SinceInv'
      BY <1>1, <1>2 DEF IInv, SinceInv
<1>6. NoLineMissed'
      BY <1>1, <1>2, LinesKept DEF IInv
<1>7. CutOffByNamesake'
      BY <1>1, <1>4, CutOffKept DEF IInv
<1> QED BY <1>3, <1>4, <1>5, <1>6, <1>7 DEF IInv

(* The line reaches the peer that the broadcast is at, and that one only.  *)
LEMMA SendToPeerIInv ==
    ASSUME IInv, SendToPeer
    PROVE  IInv'
<1>1. /\ at \in DOMAIN peers /\ at' = at + 1 /\ line \in Nat /\ line \in 0..MaxLines
      /\ UNCHANGED <<alive, pushing, peers, task, sent, line, since>>
      /\ Listed' = Listed
      BY BroadcastAssumption DEF IInv, TypeOK, SendToPeer, Listed
<1>2. /\ peers \in Seq(Conns) /\ DOMAIN peers = 1..Len(peers) /\ Len(peers) \in Nat
      /\ at \in Nat /\ at # 0 /\ at <= Len(peers)
      /\ peers[at] \in Conns
      BY <1>1 DEF IInv, TypeOK
<1> DEFINE c == peers[at]
<1>3. /\ outbox' \in [Conns -> Seq(0..MaxLines)]
      /\ Running(c) => outbox'[c] = Append(outbox[c], line)
      /\ \A d \in Conns : d # c => outbox'[d] = outbox[d]
  <2>1. Append(outbox[c], line) \in Seq(0..MaxLines)
        BY <1>1, <1>2 DEF IInv, TypeOK
  <2> QED BY <1>2, <2>1 DEF IInv, TypeOK, SendToPeer
<1>4. \A i \in DOMAIN peers : i # at => peers[i] # c /\ peers[i] \in Conns
      BY <1>1, <1>2 DEF IInv, ListingInv
<1>5. \A i \in DOMAIN peers : i # at => Reached(i)' = Reached(i)
      BY <1>1, <1>2 DEF Reached
<1>6. \A i \in DOMAIN peers : i = at => Reached(i) = line - 1 /\ Reached(i)' = line
      BY <1>1, <1>2 DEF Reached
<1>7. since[c] \in Nat /\ since[c] <= line - 1
      BY <1>1, <1>2, <1>6 DEF IInv, TypeOK, SinceInv
<1> HIDE DEF c
<1>8. TypeOK'
  <2>1. at' \in 0..(Len(peers') + 1)
        BY <1>1, <1>2
  <2> QED BY <1>1, <1>3, <2>1 DEF IInv, TypeOK
<1>9. ListingInv'
      BY <1>1 DEF IInv, ListingInv
<1>10. c \in Listed /\ c \notin pushing
       BY <1>1 DEF c, Listed, IInv, ListingInv
<1>11. UnlistedInv'
       BY <1>1, <1>3, <1>10 DEF IInv, UnlistedInv, TypeOK
<1>12. SinceInv'
  <2>1. ASSUME NEW i \in DOMAIN peers, i # at PROVE since[peers[i]] <= Reached(i)'
        BY <2>1, <1>5 DEF IInv, SinceInv
  <2>2. ASSUME NEW i \in DOMAIN peers, i = at PROVE since[peers[i]] <= Reached(i)'
        BY <2>2, <1>1, <1>6, <1>7 DEF c
  <2> QED BY <2>1, <2>2, <1>1 DEF SinceInv
<1>13. NoLineMissed'
  <2>1. ASSUME NEW i \in DOMAIN peers, i # at, Running(peers[i])
        PROVE  (sent[peers[i]] \o outbox[peers[i]] = Due(peers[i], Reached(i)))'
    <3>1. sent[peers[i]] \o outbox[peers[i]] = Lines(since[peers[i]], Reached(i))
          BY <2>1 DEF IInv, NoLineMissed, Due, Lines
    <3>2. Due(peers[i], Reached(i))' = Lines(since'[peers'[i]], Reached(i)')
          BY DEF Due, Lines
    <3> QED BY <2>1, <3>1, <3>2, <1>1, <1>3, <1>4, <1>5
  <2>2. ASSUME Running(c)
        PROVE  sent'[c] \o outbox'[c] = Lines(since[c], line)
    <3>1. sent[c] \o outbox[c] = Lines(since[c], line - 1)
          BY <2>2, <1>1, <1>6 DEF c, IInv, NoLineMissed, Due, Lines
    <3>2. sent'[c] \o outbox'[c] = Append(sent[c] \o outbox[c], line)
      <4>1. sent[c] \in Seq(0..MaxLines) /\ outbox[c] \in Seq(0..MaxLines)
            BY <1>2 DEF c, IInv, TypeOK
      <4>2. sent[c] \o Append(outbox[c], line) = Append(sent[c] \o outbox[c], line)
        <5>1. line \in 0..MaxLines
              BY <1>1
        <5>2. ASSUME NEW s \in Seq(0..MaxLines), NEW o \in Seq(0..MaxLines),
                     NEW m \in 0..MaxLines
              PROVE  s \o Append(o, m) = Append(s \o o, m)
              BY SendLast
        <5> QED BY <4>1, <5>1, <5>2
      <4> QED BY <2>2, <4>2, <1>1, <1>3
    <3>3. line - 1 \in Nat /\ (line - 1) + 1 = line
          BY <1>1, <1>7
    <3>4. Append(Lines(since[c], line - 1), line) = Lines(since[c], line)
          BY <1>7, <3>3, LinesNext
    <3> QED BY <3>1, <3>2, <3>4
  <2>3. ASSUME NEW i \in DOMAIN peers', Running(peers[i])'
        PROVE  (sent[peers[i]] \o outbox[peers[i]] = Due(peers[i], Reached(i)))'
    <3>1. CASE i # at
          BY <2>1, <2>3, <3>1, <1>1
    <3>2. CASE i = at
      <4>1. Due(peers[i], Reached(i))' = Lines(since'[peers'[i]], Reached(i)')
            BY DEF Due, Lines
      <4> QED BY <2>2, <2>3, <3>2, <4>1, <1>1, <1>6 DEF c
    <3> QED BY <3>1, <3>2
  <2> QED BY <2>3 DEF NoLineMissed
<1>14. CutOffByNamesake'
       BY <1>1, CutOffKept DEF IInv
<1> QED BY <1>8, <1>9, <1>11, <1>12, <1>13, <1>14 DEF IInv

(* A broadcast that is over has reached every peer.                        *)
LEMMA BroadcastDoneIInv ==
    ASSUME IInv, BroadcastDone
    PROVE  IInv'
<1>1. /\ at > Len(peers) /\ at' = 0 /\ at \in Nat /\ Len(peers) \in Nat
      /\ DOMAIN peers = 1..Len(peers)
      /\ UNCHANGED <<alive, pushing, peers, task, outbox, sent, line, since>>
      /\ Listed' = Listed
      BY DEF IInv, TypeOK, BroadcastDone, Listed
<1>2. \A i \in DOMAIN peers : Reached(i)' = Reached(i)
      BY <1>1 DEF Reached
<1>3. TypeOK' /\ ListingInv' /\ UnlistedInv' /\ SinceInv'
      BY <1>1, <1>2 DEF IInv, TypeOK, ListingInv, UnlistedInv, SinceInv
<1>4. NoLineMissed'
      BY <1>1, <1>2, LinesKept DEF IInv
<1>5. CutOffByNamesake'
      BY <1>1, CutOffKept DEF IInv
<1> QED BY <1>3, <1>4, <1>5 DEF IInv
-----------------------------------------------------------------------------
LEMMA PlaceIsTyped == ASSUME TypeOK PROVE pushing \subseteq Conns /\ Listed \subseteq Conns
  BY DEF TypeOK, Listed

(* A loop that goes on from or to its select.                              *)
LEMMA MoveIInv ==
    ASSUME IInv, NEW c \in Conns, Running(c),
           UNCHANGED <<alive, pushing, peers, outbox, sent, line, at, since>>,
           NEW p \in {"select", "busy"}, task' = [task EXCEPT ![c] = p]
    PROVE  IInv'
<1>1. /\ task' \in [Conns -> TaskState]
      /\ \A d \in Conns : /\ Running(d)' = Running(d)
                           /\ (task'[d] = "none") = (task[d] = "none")
                           /\ (task'[d] = "done") = (task[d] = "done")
      BY DEF IInv, TypeOK
<1>2. Listed' = Listed /\ \A i \in DOMAIN peers : Reached(i)' = Reached(i) /\ peers[i] \in Conns
      BY DEF Listed, Reached, IInv, TypeOK
<1>3. TypeOK' /\ UnlistedInv' /\ SinceInv'
      BY <1>1, <1>2 DEF IInv, TypeOK, UnlistedInv, SinceInv
<1>4. ListingInv'
      BY <1>1, <1>2, PlaceIsTyped DEF IInv, ListingInv
<1>5. NoLineMissed'
      BY <1>1, <1>2, LinesKept DEF IInv
<1>6. CutOffByNamesake'
      BY <1>1, <1>2, CutOffKept DEF IInv
<1> QED BY <1>3, <1>4, <1>5, <1>6 DEF IInv

LEMMA TakeMessageIInv ==
    ASSUME IInv, NEW c \in Conns, TakeMessage(c)
    PROVE  IInv'
<1>1. UNCHANGED <<alive, pushing, peers, line, at, since>> /\ Listed' = Listed
      BY DEF TakeMessage, Listed
<1>2. /\ sent[c] \in Seq(0..MaxLines) /\ outbox[c] \in Seq(0..MaxLines)
      /\ outbox[c] # <<>>
      BY DEF IInv, TypeOK, TakeMessage
<1>3. /\ Append(sent[c], Head(outbox[c])) \in Seq(0..MaxLines)
      /\ Tail(outbox[c]) \in Seq(0..MaxLines)
      /\ Append(sent[c], Head(outbox[c])) \o Tail(outbox[c]) = sent[c] \o outbox[c]
      BY <1>2, MoveHead
<1>4. /\ sent' \in [Conns -> Seq(0..MaxLines)]
      /\ outbox' \in [Conns -> Seq(0..MaxLines)]
      /\ sent'[c] = Append(sent[c], Head(outbox[c]))
      /\ outbox'[c] = Tail(outbox[c])
      /\ \A d \in Conns : d # c => sent'[d] = sent[d] /\ outbox'[d] = outbox[d]
      BY <1>3 DEF IInv, TypeOK, TakeMessage
<1>4a. /\ task' \in [Conns -> TaskState] /\ task[c] = "select" /\ task'[c] = "busy"
       /\ \A d \in Conns : d # c => task'[d] = task[d]
       BY DEF IInv, TypeOK, TakeMessage
<1>5. \A d \in Conns : sent'[d] \o outbox'[d] = sent[d] \o outbox[d]
      BY <1>3, <1>4
<1>6. \A i \in DOMAIN peers : Reached(i)' = Reached(i) /\ peers[i] \in Conns
      BY <1>1 DEF Reached, IInv, TypeOK
<1>7. TypeOK' /\ SinceInv'
      BY <1>1, <1>4, <1>6, <1>4a DEF IInv, TypeOK, SinceInv
<1>7a. ListingInv'
       BY <1>1, <1>4a, PlaceIsTyped DEF IInv, ListingInv
<1>8. UnlistedInv'
      BY <1>1, <1>2, <1>4, <1>5, <1>4a DEF IInv, UnlistedInv
<1>9. NoLineMissed'
      BY <1>1, <1>5, <1>6, <1>4a, LinesKept DEF IInv
<1>10. CutOffByNamesake'
       BY <1>1, <1>4a, CutOffKept DEF IInv
<1> QED BY <1>7, <1>8, <1>9, <1>10, <1>7a DEF IInv

(* A loop that returns, for whichever reason.                              *)
LEMMA ReturnIInv ==
    ASSUME IInv, NEW c \in Conns, Running(c), Return(c)
    PROVE  IInv'
<1>1. UNCHANGED <<alive, pushing, peers, sent, line, at, since>> /\ Listed' = Listed
      BY DEF Return, Listed
<1>2. /\ task' \in [Conns -> TaskState]
      /\ task'[c] = "failed"
      /\ \A d \in Conns : d # c => task'[d] = task[d]
      BY DEF IInv, TypeOK, Return
<1>3. /\ outbox' \in [Conns -> Seq(0..MaxLines)]
      /\ \A d \in Conns : d # c => outbox'[d] = outbox[d]
      BY DEF IInv, TypeOK, Return
<1>4. \A i \in DOMAIN peers : Reached(i)' = Reached(i) /\ peers[i] \in Conns
      BY <1>1 DEF Reached, IInv, TypeOK
<1>5. TypeOK' /\ SinceInv'
      BY <1>1, <1>2, <1>3, <1>4 DEF IInv, TypeOK, SinceInv
<1>6. ListingInv'
  <2>1. pushing \subseteq Conns /\ Listed \subseteq Conns
        BY <1>4 DEF IInv, TypeOK, Listed
  <2> QED BY <2>1, <1>1, <1>2 DEF IInv, ListingInv
<1>7. UnlistedInv'
      BY <1>1, <1>2, <1>3 DEF IInv, UnlistedInv
<1>8. NoLineMissed'
      BY <1>1, <1>2, <1>3, <1>4, LinesKept DEF IInv
<1>9. CutOffByNamesake'
      BY <1>1, <1>2, CutOffKept DEF IInv
<1> QED BY <1>5, <1>6, <1>7, <1>8, <1>9 DEF IInv

(* Whoever the removal cuts off has the id of the connection that failed.  *)
LEMMA RemovePeersIInv ==
    ASSUME IInv, NEW c \in Conns, RemovePeers(c)
    PROVE  IInv' /\ c \notin Listed' /\ Listed' \subseteq Listed
<1>1. /\ UNCHANGED <<alive, pushing, outbox, sent, line, at, since>>
      /\ at = 0 /\ task[c] = "failed"
      BY DEF RemovePeers, LockFree
<1>2. /\ task' \in [Conns -> TaskState]
      /\ task'[c] = "done"
      /\ \A d \in Conns : d # c => task'[d] = task[d]
      BY DEF IInv, TypeOK, RemovePeers
<1>3. /\ peers' \in Seq(Conns)
      /\ \A k \in DOMAIN peers' : \E i \in DOMAIN peers :
             IdOf[peers[i]] # IdOf[c] /\ peers'[k] = peers[i]
      /\ \A i \in DOMAIN peers : IdOf[peers[i]] # IdOf[c] =>
             \E k \in DOMAIN peers' : peers'[k] = peers[i]
      /\ \A j, k \in DOMAIN peers' : peers'[j] = peers'[k] => j = k
      BY RetainEffect DEF IInv, RemovePeers
<1>4. Listed' = {d \in Listed : IdOf[d] # IdOf[c]}
      BY <1>3 DEF Listed
<1>5. \A i \in DOMAIN peers : Reached(i) = line /\ peers[i] \in Conns
      BY <1>1 DEF Reached, IInv, TypeOK
<1>6. \A i \in DOMAIN peers' : Reached(i)' = line
      BY <1>1 DEF Reached
<1>7. TypeOK'
  <2>1. Len(peers') \in Nat
        BY <1>3
  <2>2. at' \in 0..(Len(peers') + 1)
        BY <1>1, <2>1
  <2> QED BY <1>1, <1>2, <1>3, <2>2 DEF IInv, TypeOK
<1>8. ListingInv'
  <2>1. pushing \subseteq Conns /\ Listed \subseteq Conns
        BY <1>5 DEF IInv, TypeOK, Listed
  <2> QED BY <2>1, <1>1, <1>2, <1>3, <1>4 DEF IInv, ListingInv
<1>9. UnlistedInv'
      BY <1>1, <1>2 DEF IInv, UnlistedInv
<1>10. SinceInv'
       BY <1>1, <1>3, <1>5, <1>6 DEF IInv, SinceInv
<1>11. NoLineMissed'
  <2>1. ASSUME NEW k \in DOMAIN peers', Running(peers[k])'
        PROVE  (sent[peers[k]] \o outbox[peers[k]] = Due(peers[k], Reached(k)))'
    <3>1. PICK i \in DOMAIN peers : IdOf[peers[i]] # IdOf[c] /\ peers'[k] = peers[i]
          BY <1>3
    <3>2. Running(peers[i])
          BY <2>1, <3>1, <1>2, <1>5
    <3>3. sent[peers[i]] \o outbox[peers[i]] = Lines(since[peers[i]], line)
          BY <3>2, <1>5 DEF IInv, NoLineMissed, Due, Lines
    <3>4. Due(peers[k], Reached(k))' = Lines(since'[peers'[k]], Reached(k)')
          BY DEF Due, Lines
    <3> QED BY <3>1, <3>3, <3>4, <1>1, <1>6
  <2> QED BY <2>1 DEF NoLineMissed
<1>12. CutOffByNamesake'
  <2>1. ASSUME NEW d \in Conns, Running(d)', d \notin Listed' \cup pushing'
        PROVE  \E x \in Conns \ {d} : IdOf[x] = IdOf[d] /\ task'[x] = "done"
    <3>1. d # c /\ Running(d)
          BY <2>1, <1>2
    <3>2. CASE d \in Listed
          BY <3>1, <3>2, <2>1, <1>2, <1>4
    <3>3. CASE d \notin Listed
      <4>1. PICK x \in Conns \ {d} : IdOf[x] = IdOf[d] /\ task[x] = "done"
            BY <3>1, <3>3, <2>1, <1>1 DEF IInv, CutOffByNamesake
      <4> QED BY <4>1, <1>1, <1>2
    <3> QED BY <3>2, <3>3
  <2> QED BY <2>1 DEF CutOffByNamesake
<1> QED BY <1>4, <1>7, <1>8, <1>9, <1>10, <1>11, <1>12 DEF IInv
-----------------------------------------------------------------------------
LEMMA NextIInv == IInv /\ [Next]_vars => IInv'
<1> SUFFICES ASSUME IInv, [Next]_vars PROVE IInv'
    OBVIOUS
<1>1. CASE RunEnds
      BY <1>1, RunEndsIInv
<1>2. CASE Broadcast
      BY <1>2, BroadcastIInv
<1>3. CASE Stdin
      BY <1>3, SendToPeerIInv, BroadcastDoneIInv DEF Stdin
<1>4. ASSUME NEW c \in Conns, TakeConnection(c) PROVE IInv'
      BY <1>4, TakeConnectionIInv
<1>5. ASSUME NEW c \in Conns, PushPeer(c) PROVE IInv'
      BY <1>5, PushPeerIInv
<1>6. ASSUME NEW c \in Conns, Channel(c) PROVE IInv'
      BY <1>6, TakeMessageIInv, ReturnIInv DEF Channel, ChannelClosed
<1>7. ASSUME NEW c \in Conns, Stream(c) PROVE IInv'
  <2>1. CASE ReadHeader(c)
        BY <2>1, MoveIInv DEF ReadHeader
  <2>2. CASE StreamDone(c)
        BY <2>2, MoveIInv DEF StreamDone
  <2>3. CASE StreamFails(c)
        BY <2>3, ReturnIInv DEF StreamFails
  <2> QED BY <1>7, <2>1, <2>2, <2>3 DEF Stream
<1>8. ASSUME NEW c \in Conns, RemovePeers(c) PROVE IInv'
      BY <1>8, RemovePeersIInv
<1>9. CASE UNCHANGED vars
  <2>1. UNCHANGED <<alive, pushing, peers, task, outbox, sent, line, at, since>>
        BY <1>9 DEF vars
  <2>2. Listed' = Listed /\ \A i \in DOMAIN peers : Reached(i)' = Reached(i)
        BY <2>1 DEF Listed, Reached
  <2>3. TypeOK' /\ ListingInv' /\ UnlistedInv' /\ SinceInv'
        BY <2>1, <2>2 DEF IInv, TypeOK, ListingInv, UnlistedInv, SinceInv
  <2>4. NoLineMissed'
        BY <2>1, <2>2, LinesKept DEF IInv
  <2>5. CutOffByNamesake'
        BY <2>1, <2>2, CutOffKept DEF IInv
  <2> QED BY <2>3, <2>4, <2>5 DEF IInv
<1> QED BY <1>1, <1>2, <1>3, <1>4, <1>5, <1>6, <1>7, <1>8, <1>9 DEF Next

LEMMA Invariant == Spec => []IInv
<1>1. Init => IInv
      BY InitIInv
<1>2. IInv /\ [Next]_vars => IInv'
      BY NextIInv
<1> QED BY <1>1, <1>2, PTL DEF Spec

(* Every step of run, broadcast, the loops and the removals keeps the      *)
(* list, the channels and the position of a broadcast within their types.  *)
THEOREM TypeCorrect == Spec => []TypeOK
<1>1. IInv => TypeOK
      BY DEF IInv
<1> QED BY Invariant, <1>1, PTL

(* However many connections come, fail and are removed between the lines   *)
(* and during one, each that is listed and runs has been sent the initial  *)
(* message and then every line since it was listed, once and in order.     *)
THEOREM EveryLineSent == Spec => []NoLineMissed
<1>1. IInv => NoLineMissed
      BY DEF IInv
<1> QED BY Invariant, <1>1, PTL

(* retain of run takes no connection that runs off the list but one whose  *)
(* id another connection had, and that other one has failed.               *)
THEOREM OnlyNamesakesCutOff == Spec => []CutOffByNamesake
<1>1. IInv => CutOffByNamesake
      BY DEF IInv
<1> QED BY Invariant, <1>1, PTL

(* The removal in run leaves no entry of the connection that it is for:    *)
(* one that stays listed for good was listed after its removal.            *)
THEOREM GhostsArePushedLate == Spec => GhostsOnlyByPush
<1> DEFINE Step == \A c \in Conns : Ghost(c)' => Ghost(c) \/ c \in pushing
<1>1. IInv /\ [Next]_vars => [Step]_vars
  <2> SUFFICES ASSUME IInv, Next, NEW d \in Conns, Ghost(d)', ~Ghost(d)
               PROVE  d \in pushing
      OBVIOUS
  <2>1. task'[d] = "done" /\ d \in Listed' /\ (task[d] = "done" => d \notin Listed)
        BY DEF Ghost
  <2>2. ASSUME task' = task, Listed' = Listed PROVE FALSE
        BY <2>1, <2>2
  <2>2a. CASE RunEnds
        BY <2>1, <2>2a DEF RunEnds
  <2>3. CASE Broadcast \/ Stdin
        BY <2>2, <2>3 DEF Broadcast, Stdin, SendToPeer, BroadcastDone, Listed
  <2>4. ASSUME NEW c \in Conns, TakeConnection(c) \/ Stream(c) \/ Channel(c)
        PROVE  FALSE
    <3>1. task'[c] # "done" /\ (\A x \in Conns : x # c => task'[x] = task[x]) /\ Listed' = Listed
      <4>1. peers' = peers /\ \E p \in TaskState \ {"done"} : task' = [task EXCEPT ![c] = p]
            BY <2>4 DEF TakeConnection, Stream, ReadHeader, StreamDone, StreamFails,
                        Channel, TakeMessage, ChannelClosed, Return
      <4>2. task \in [Conns -> TaskState]
            BY DEF IInv, TypeOK
      <4> QED BY <4>1, <4>2 DEF Listed
    <3> QED BY <3>1, <2>1
  <2>6. ASSUME NEW c \in Conns, PushPeer(c) PROVE d \in pushing
    <3>1. task' = task /\ c \in pushing /\ Listed' = Listed \cup {c}
      <4>1. /\ DOMAIN peers' = DOMAIN peers \cup {Len(peers) + 1}
            /\ peers'[Len(peers) + 1] = c
            /\ \A i \in DOMAIN peers : peers'[i] = peers[i]
        <5>1. peers \in Seq(Conns) /\ peers' = Append(peers, c)
              BY <2>6 DEF PushPeer, IInv, TypeOK
        <5> QED BY <5>1
      <4> QED BY <2>6, <4>1 DEF PushPeer, Listed
    <3> QED BY <3>1, <2>1
  <2>7. ASSUME NEW c \in Conns, RemovePeers(c) PROVE FALSE
    <3>1. c \notin Listed' /\ Listed' \subseteq Listed
          BY <2>7, RemovePeersIInv
    <3>2. d # c => task'[d] = task[d]
          BY <2>7 DEF IInv, TypeOK, RemovePeers
    <3> QED BY <3>1, <3>2, <2>1
  <2> QED BY <2>3, <2>4, <2>6, <2>7, <2>2a DEF Next
<1> QED BY Invariant, <1>1, PTL DEF Spec, GhostsOnlyByPush
=============================================================================
