--------------------------- MODULE FramingProofs ---------------------------
(* The framing of ConnectionLoop, for messages, headers and windows of any *)
(* size.  What an end has read of a message, what the stream holds for it  *)
(* and what the other has yet to write are, one after the other, whole     *)
(* consecutive messages; only a half-read header that is dropped ends it.  *)
EXTENDS ConnectionLoopProofs

(* s carries whole messages, the first of them after the n-th and the last *)
(* of them the t-th: the first Size units are a message, each unit is      *)
(* followed Size units later by that of the next message, and the last     *)
(* Size units are the last message.                                        *)
Consecutive(s, n, t) ==
    /\ n <= t
    /\ \A j \in 1..Len(s) : s[j][1] <= t /\ (j <= Size => s[j] = <<n + 1, j>>)
    /\ \A j \in 1..Len(s) :
           j + Size <= Len(s) => s[j + Size] = <<s[j][1] + 1, s[j][2]>>
    /\ IF Len(s) = 0 THEN n = t
       ELSE Len(s) >= Size /\ \A k \in 1..Size : s[Len(s) - Size + k] = <<t, k>>

(* What end e has read of the message that it is at, what the stream holds *)
(* for it, and what the other has yet to write.                            *)
Stream(e) == (header[e] \o body[e]) \o (pipe[Other(e)] \o left[Other(e)])

(* End e is at the right place in the stream of the other.                 *)
InStep(e) ==
    /\ Consecutive(Stream(e), Len(inbound[e]), taken[Other(e)])
    /\ \A k \in DOMAIN inbound[e] : inbound[e][k] = k
    /\ pc[e] = "body" => need[e] = Size - Header

OrderInv == \A e \in Ends : ~cut[e] => InStep(e)

(* An end that does not write has nothing left to write.                   *)
IdleInv == \A e \in Ends : pc[e] \in {"select", "body"} => left[e] = <<>>
-----------------------------------------------------------------------------
(* A message that is sent comes last.                                      *)
LEMMA ConsecutiveSend ==
    ASSUME NEW s \in Seq(Unit), NEW n \in Nat, NEW t \in Nat, Consecutive(s, n, t)
    PROVE  Consecutive(s \o Encode(t + 1), n, t + 1)
<1> DEFINE m == Encode(t + 1)
           z == s \o m
           l == Len(s)
<1>1. m \in Seq(Unit) /\ Len(m) = Size /\ Size \in Nat /\ Size > 0 /\ l \in Nat
      BY EncodeType, LoopAssumption
<1>2. \A k \in 1..Size : m[k] = <<t + 1, k>>
      BY DEF Encode
<1>3. /\ z \in Seq(Unit) /\ Len(z) = l + Size
      /\ \A j \in 1..l : z[j] = s[j]
      /\ \A k \in 1..Size : z[l + k] = m[k]
      BY <1>1
<1>4. \A j \in 1..l : s[j] \in Unit
      OBVIOUS
<1>5. /\ n <= t
      /\ \A j \in 1..l : s[j][1] <= t /\ (j <= Size => s[j] = <<n + 1, j>>)
      /\ \A j \in 1..l : j + Size <= l => s[j + Size] = <<s[j][1] + 1, s[j][2]>>
      /\ l = 0 => n = t
      /\ l # 0 => l >= Size /\ \A k \in 1..Size : s[l - Size + k] = <<t, k>>
      BY <1>1 DEF Consecutive
<1>6. Consecutive(z, n, t + 1) <=>
        /\ n <= t + 1
        /\ \A j \in 1..Len(z) : z[j][1] <= t + 1 /\ (j <= Size => z[j] = <<n + 1, j>>)
        /\ \A j \in 1..Len(z) :
               j + Size <= Len(z) => z[j + Size] = <<z[j][1] + 1, z[j][2]>>
        /\ IF Len(z) = 0 THEN n = t + 1
           ELSE /\ Len(z) >= Size
                /\ \A k \in 1..Size : z[Len(z) - Size + k] = <<t + 1, k>>
      BY DEF Consecutive
<1> HIDE DEF m, z, l
<1>7. ASSUME NEW j \in 1..Len(z)
      PROVE  z[j][1] <= t + 1 /\ (j <= Size => z[j] = <<n + 1, j>>)
  <2>1. CASE j \in 1..l
    <3>1. z[j] = s[j] /\ s[j] \in Unit /\ s[j][1] <= t
          BY <2>1, <1>3, <1>4, <1>5
    <3>2. s[j][1] \in Nat
          BY <3>1 DEF Unit
    <3> QED BY <2>1, <3>1, <3>2, <1>5
  <2>2. CASE j \notin 1..l
    <3>1. j - l \in 1..Size /\ j = l + (j - l)
          BY <2>2, <1>1, <1>3
    <3>2. z[j] = <<t + 1, j - l>>
          BY <3>1, <1>2, <1>3
    <3>3. j <= Size => l = 0
          BY <3>1, <1>1, <1>5
    <3> QED BY <3>1, <3>2, <3>3, <1>1, <1>5
  <2> QED BY <2>1, <2>2
<1>8. ASSUME NEW j \in 1..Len(z), j + Size <= Len(z)
      PROVE  z[j + Size] = <<z[j][1] + 1, z[j][2]>>
  <2>1. j \in 1..l /\ z[j] = s[j]
        BY <1>1, <1>3, <1>8
  <2>2. CASE j + Size <= l
    <3>1. j + Size \in 1..l
          BY <2>1, <2>2, <1>1
    <3> QED BY <2>1, <2>2, <3>1, <1>3, <1>5
  <2>3. CASE j + Size > l
    <3> DEFINE k == j + Size - l
    <3>1. k \in 1..Size /\ j + Size = l + k /\ j = l - Size + k /\ l # 0
          BY <2>1, <2>3, <1>1, <1>3, <1>8
    <3> HIDE DEF k
    <3>2. s[j] = <<t, k>>
          BY <3>1, <1>5
    <3>3. z[j + Size] = <<t + 1, k>>
          BY <3>1, <1>2, <1>3
    <3> QED BY <2>1, <3>2, <3>3
  <2> QED BY <2>1, <2>2, <2>3, <1>1
<1>9. Len(z) # 0 /\ Len(z) >= Size /\ Len(z) - Size = l
      BY <1>1, <1>3
<1>10. \A k \in 1..Size : z[Len(z) - Size + k] = <<t + 1, k>>
      BY <1>2, <1>3, <1>9
<1>11. n <= t + 1
      BY <1>5
<1>12. Consecutive(z, n, t + 1)
      BY <1>6, <1>7, <1>8, <1>9, <1>10, <1>11
<1> QED BY <1>12 DEF z, m

(* The first Size units are the next message, and what follows them is in  *)
(* step with the one after it.                                             *)
LEMMA ConsecutiveDeliver ==
    ASSUME NEW m \in Seq(Unit), NEW r \in Seq(Unit), NEW n \in Nat, NEW t \in Nat,
           Consecutive(m \o r, n, t), Len(m) = Size
    PROVE  m = Encode(n + 1) /\ Consecutive(r, n + 1, t)
<1> DEFINE z == m \o r
           l == Len(r)
<1>1. /\ Size \in Nat /\ Size > 0 /\ l \in Nat
      /\ z \in Seq(Unit) /\ Len(z) = Size + l
      /\ \A j \in 1..Size : z[j] = m[j]
      /\ \A j \in 1..l : z[j + Size] = r[j]
      BY LoopAssumption
<1>2. /\ n <= t
      /\ \A j \in 1..Len(z) : z[j][1] <= t /\ (j <= Size => z[j] = <<n + 1, j>>)
      /\ \A j \in 1..Len(z) :
             j + Size <= Len(z) => z[j + Size] = <<z[j][1] + 1, z[j][2]>>
      /\ IF Len(z) = 0 THEN n = t
         ELSE Len(z) >= Size /\ \A k \in 1..Size : z[Len(z) - Size + k] = <<t, k>>
      BY DEF Consecutive
<1>3. Consecutive(r, n + 1, t) <=>
        /\ n + 1 <= t
        /\ \A j \in 1..l : r[j][1] <= t /\ (j <= Size => r[j] = <<(n + 1) + 1, j>>)
        /\ \A j \in 1..l : j + Size <= l => r[j + Size] = <<r[j][1] + 1, r[j][2]>>
        /\ IF l = 0 THEN n + 1 = t
           ELSE l >= Size /\ \A k \in 1..Size : r[l - Size + k] = <<t, k>>
      BY DEF Consecutive
<1> HIDE DEF z, l
<1>4. m = Encode(n + 1)
  <2>1. \A j \in 1..Size : m[j] = <<n + 1, j>>
        BY <1>1, <1>2
  <2>2. \A j \in 1..Size : Encode(n + 1)[j] = <<n + 1, j>>
        BY DEF Encode
  <2>3. Encode(n + 1) \in Seq(Unit) /\ Len(Encode(n + 1)) = Size
        BY EncodeType
  <2> QED BY <2>1, <2>2, <2>3, SeqEqual
<1>5. \A k \in 1..Size : z[l + k] = <<t, k>>
  <2>1. Len(z) # 0 /\ Len(z) - Size = l
        BY <1>1
  <2> QED BY <2>1, <1>2
<1>6. n + 1 <= t
  <2>1. 1 \in 1..Len(z) /\ 1 <= Size
        BY <1>1
  <2>2. z[1] = <<n + 1, 1>> /\ z[1][1] <= t
        BY <2>1, <1>2
  <2> QED BY <2>2
<1>7. ASSUME NEW j \in 1..l
      PROVE  r[j][1] <= t /\ (j <= Size => r[j] = <<(n + 1) + 1, j>>)
  <2>1. j + Size \in 1..Len(z) /\ z[j + Size] = r[j] /\ j \in 1..Len(z)
        BY <1>1
  <2>2. r[j][1] <= t
        BY <2>1, <1>2
  <2>3. j + Size <= Len(z)
        BY <2>1, <1>1
  <2>4. z[j + Size] = <<z[j][1] + 1, z[j][2]>>
        BY <2>1, <2>3, <1>2
  <2>5. ASSUME j <= Size PROVE r[j] = <<(n + 1) + 1, j>>
    <3>1. z[j] = <<n + 1, j>>
          BY <2>1, <2>5, <1>2
    <3> QED BY <2>1, <2>4, <3>1
  <2> QED BY <2>2, <2>5
<1>8. ASSUME NEW j \in 1..l, j + Size <= l
      PROVE  r[j + Size] = <<r[j][1] + 1, r[j][2]>>
  <2>1. /\ j + Size \in 1..l /\ j + Size \in 1..Len(z)
        /\ (j + Size) + Size <= Len(z)
        BY <1>1, <1>8
  <2>2. z[(j + Size) + Size] = r[j + Size] /\ z[j + Size] = r[j]
        BY <2>1, <1>1
  <2> QED BY <2>1, <2>2, <1>2
<1>9. ASSUME l = 0 PROVE n + 1 = t
  <2>1. 1 \in 1..Size /\ 1 \in 1..Len(z) /\ l + 1 = 1
        BY <1>1, <1>9
  <2>2. z[1] = <<t, 1>> /\ z[1] = <<n + 1, 1>>
        BY <2>1, <1>1, <1>2, <1>5
  <2> QED BY <2>2
<1>10. ASSUME l # 0
       PROVE  l >= Size /\ \A k \in 1..Size : r[l - Size + k] = <<t, k>>
  <2>1. l >= Size
    <3> SUFFICES ASSUME l < Size PROVE FALSE
        BY <1>1
    <3>1. l + 1 \in 1..Len(z) /\ l + 1 <= Size /\ 1 \in 1..Size
          BY <1>1
    <3>2. z[l + 1] = <<t, 1>> /\ z[l + 1] = <<n + 1, l + 1>>
          BY <3>1, <1>2, <1>5
    <3>3. l + 1 = 1
          BY <3>2
    <3> QED BY <3>3, <1>1, <1>10
  <2>2. ASSUME NEW k \in 1..Size PROVE r[l - Size + k] = <<t, k>>
    <3>1. l - Size + k \in 1..l /\ (l - Size + k) + Size = l + k
          BY <2>1, <1>1
    <3>2. z[(l - Size + k) + Size] = r[l - Size + k]
          BY <3>1, <1>1
    <3> QED BY <3>1, <3>2, <1>5
  <2> QED BY <2>1, <2>2
<1> QED BY <1>3, <1>4, <1>6, <1>7, <1>8, <1>9, <1>10

(* A header is read in step.                                               *)
LEMMA ConsecutiveHeader ==
    ASSUME NEW h \in Seq(Unit), NEW r \in Seq(Unit), NEW n \in Nat, NEW t \in Nat,
           Consecutive(h \o r, n, t), Len(h) = Header
    PROVE  h[1][1] = n + 1 /\ h = HeaderOf(n + 1)
<1>1. /\ Header \in Nat /\ Header > 0 /\ Size \in Nat /\ Header < Size
      /\ \A j \in 1..Header : j \in 1..Len(h \o r) /\ (h \o r)[j] = h[j]
      BY LoopAssumption
<1>2. \A j \in 1..Header : h[j] = <<n + 1, j>>
      BY <1>1 DEF Consecutive
<1>3. Encode(n + 1) \in Seq(Unit) /\ Len(Encode(n + 1)) = Size
      BY EncodeType
<1>4. \A j \in 1..Header : Encode(n + 1)[j] = <<n + 1, j>>
      BY <1>1 DEF Encode
<1>5. /\ HeaderOf(n + 1) \in Seq(Unit) /\ Len(HeaderOf(n + 1)) = Header
      /\ \A j \in 1..Header : HeaderOf(n + 1)[j] = <<n + 1, j>>
  <2> DEFINE x == Encode(n + 1)
  <2>1. x \in Seq(Unit) /\ Len(x) = Size /\ \A j \in 1..Header : x[j] = <<n + 1, j>>
        BY <1>3, <1>4
  <2> HIDE DEF x
  <2>2. /\ SubSeq(x, 1, Header) \in Seq(Unit) /\ Len(SubSeq(x, 1, Header)) = Header
        /\ \A j \in 1..Header : SubSeq(x, 1, Header)[j] = x[j]
        BY <1>1, <2>1
  <2> QED BY <2>1, <2>2 DEF HeaderOf, x
<1>6. h = HeaderOf(n + 1)
      BY <1>2, <1>5, SeqEqual
<1>7. h[1] = <<n + 1, 1>>
      BY <1>1, <1>2
<1> QED BY <1>6, <1>7
-----------------------------------------------------------------------------
(* A sequence is its first n elements and what follows them.               *)
LEMMA SplitJoin ==
    ASSUME NEW S, NEW s \in Seq(S), NEW n \in 0..Len(s)
    PROVE  SubSeq(s, 1, n) \o SubSeq(s, n + 1, Len(s)) = s
<1> DEFINE u == SubSeq(s, 1, n)
           v == SubSeq(s, n + 1, Len(s))
           l == Len(s)
<1>1. l \in Nat /\ n \in Nat /\ n <= l
      OBVIOUS
<1>2. /\ u \in Seq(S) /\ Len(u) = n /\ v \in Seq(S) /\ Len(v) = l - n
      BY Split
<1>3. (\A i \in 1..n : u[i] = s[i]) /\ \A i \in 1..(l - n) : v[i] = s[n + i]
      BY <1>1
<1> HIDE DEF u, v, l
<1>4. /\ u \o v \in Seq(S) /\ Len(u \o v) = l
      /\ \A i \in 1..l : (u \o v)[i] = IF i <= n THEN u[i] ELSE v[i - n]
      BY <1>1, <1>2
<1>5. ASSUME NEW i \in 1..l PROVE (u \o v)[i] = s[i]
  <2>1. CASE i <= n
        BY <2>1, <1>1, <1>3, <1>4
  <2>2. CASE i > n
    <3>1. i - n \in 1..(l - n) /\ n + (i - n) = i
          BY <2>2, <1>1
    <3>2. ~(i <= n)
          BY <2>2, <1>1
    <3>3. (u \o v)[i] = v[i - n]
          BY <3>2, <1>4
    <3>4. v[i - n] = s[n + (i - n)]
          BY <3>1, <1>3
    <3>5. s[n + (i - n)] = s[i]
          BY <3>1
    <3> QED BY <3>3, <3>4, <3>5
  <2>3. i <= n \/ i > n
        BY <1>1
  <2> QED BY <2>1, <2>2, <2>3
<1>6. Len(u \o v) = Len(s)
      BY <1>4 DEF l
<1>7. u \o v = s
      BY <1>4, <1>5, <1>6, SeqEqual DEF l
<1> QED BY <1>7 DEF u, v

(* Reading moves units from the stream to the reader, in their order.      *)
LEMMA ReadSplits ==
    ASSUME TypeOK, NEW e \in Ends, NEW wanted \in Nat, Read(e, Available(e, wanted))
    PROVE  /\ Available(e, wanted) \in Seq(Unit)
           /\ pipe'[Other(e)] \in Seq(Unit)
           /\ pipe[Other(e)] = Available(e, wanted) \o pipe'[Other(e)]
           /\ pipe'[e] = pipe[e]
<1> DEFINE p == pipe[Other(e)]
           n == Smaller(wanted, Len(p))
<1>1. p \in Seq(Unit) /\ Len(p) \in Nat /\ n \in 0..Len(p)
      BY OtherEnd DEF TypeOK, Smaller
<1>2. Available(e, wanted) = SubSeq(p, 1, n)
      BY DEF Available
<1>3. /\ SubSeq(p, 1, n) \in Seq(Unit) /\ Len(SubSeq(p, 1, n)) = n
      /\ SubSeq(p, n + 1, Len(p)) \in Seq(Unit)
      BY <1>1, Split
<1>4. pipe' = [pipe EXCEPT ![Other(e)] = SubSeq(p, n + 1, Len(p))]
      BY <1>2, <1>3 DEF Read
<1>5. pipe'[Other(e)] = SubSeq(p, n + 1, Len(p)) /\ pipe'[e] = pipe[e]
      BY <1>4, OtherEnd DEF TypeOK
<1>6. SubSeq(p, 1, n) \o SubSeq(p, n + 1, Len(p)) = p
      BY <1>1, SplitJoin
<1> QED BY <1>2, <1>3, <1>5, <1>6

LEMMA Associative ==
    \A s, t, u \in Seq(Unit) : (s \o t) \o u = s \o (t \o u)
  BY ConcatAssociative

(* What has been read, q, grows by u, and the rest of the stream follows.  *)
Regrouped(q, u, p, l) == q \o ((u \o p) \o l) = (q \o u) \o (p \o l)

LEMMA Regroup ==
    ASSUME NEW q \in Seq(Unit), NEW u \in Seq(Unit), NEW p \in Seq(Unit),
           NEW l \in Seq(Unit)
    PROVE  Regrouped(q, u, p, l)
<1> DEFINE pl == p \o l
<1>1. pl \in Seq(Unit)
      BY ConcatProperties
<1>2. (u \o p) \o l = u \o pl
      BY Associative
<1> HIDE DEF pl
<1>3. ASSUME NEW y \in Seq(Unit) PROVE (q \o u) \o y = q \o (u \o y)
      BY ONLY q \in Seq(Unit), u \in Seq(Unit), Associative, <1>3
<1>4. (q \o u) \o pl = q \o (u \o pl)
      BY <1>1, <1>3
<1>5. q \o ((u \o p) \o l) = (q \o u) \o pl
      BY <1>2, <1>4
<1> QED BY <1>5 DEF pl, Regrouped

LEMMA StreamType ==
    ASSUME TypeOK, NEW e \in Ends
    PROVE  /\ header[e] \in Seq(Unit) /\ body[e] \in Seq(Unit)
           /\ header[e] \o body[e] \in Seq(Unit)
           /\ pipe[Other(e)] \in Seq(Unit) /\ left[Other(e)] \in Seq(Unit)
           /\ pipe[Other(e)] \o left[Other(e)] \in Seq(Unit)
           /\ Stream(e) \in Seq(Unit)
<1>1. /\ header[e] \in Seq(Unit) /\ body[e] \in Seq(Unit)
      /\ pipe[Other(e)] \in Seq(Unit) /\ left[Other(e)] \in Seq(Unit)
      BY OtherEnd DEF TypeOK
<1>2. ASSUME NEW s \in Seq(Unit), NEW t \in Seq(Unit) PROVE s \o t \in Seq(Unit)
      BY ConcatProperties
<1>3. header[e] \o body[e] \in Seq(Unit) /\ pipe[Other(e)] \o left[Other(e)] \in Seq(Unit)
      BY <1>1, <1>2
<1>4. Stream(e) \in Seq(Unit)
      BY <1>2, <1>3 DEF Stream
<1> QED BY <1>1, <1>3, <1>4

(* Whatever e has read by a poll, it has read of its own stream.           *)
LEMMA ReadKeepsStream ==
    ASSUME TypeOK, NEW e \in Ends, NEW wanted \in Nat, Read(e, Available(e, wanted)),
           left' = left,
           header'[e] \o body'[e] = (header[e] \o body[e]) \o Available(e, wanted)
    PROVE  Stream(e)' = Stream(e)
<1> DEFINE q == header[e] \o body[e]
           u == Available(e, wanted)
           p == pipe'[Other(e)]
           l == left[Other(e)]
<1>1. u \in Seq(Unit) /\ p \in Seq(Unit) /\ pipe[Other(e)] = u \o p
      BY ReadSplits
<1>2. q \in Seq(Unit) /\ l \in Seq(Unit)
      BY StreamType
<1>3. Stream(e) = q \o ((u \o p) \o l)
      BY <1>1 DEF Stream
<1>4. Stream(e)' = (q \o u) \o (p \o l)
      BY DEF Stream
<1> HIDE DEF q, u, p, l
<1>5. Regrouped(q, u, p, l)
      BY <1>1, <1>2, Regroup
<1> QED BY <1>3, <1>4, <1>5 DEF Regrouped

(* An end whose stream and whose place in it are the same is in step as it *)
(* was.                                                                    *)
LEMMA Frame ==
    ASSUME OrderInv, NEW f \in Ends, Stream(f)' = Stream(f),
           inbound'[f] = inbound[f], taken'[Other(f)] = taken[Other(f)],
           need'[f] = need[f], cut'[f] = cut[f], pc'[f] = "body" => pc[f] = "body"
    PROVE  ~cut'[f] => InStep(f)'
<1> SUFFICES ASSUME ~cut'[f] PROVE InStep(f)'
    OBVIOUS
<1>1. InStep(f)
      BY DEF OrderInv
<1>2. /\ Consecutive(Stream(f)', Len(inbound'[f]), taken'[Other(f)])
      /\ \A k \in DOMAIN inbound'[f] : inbound'[f][k] = k
      /\ pc'[f] = "body" => need'[f] = Size - Header
      BY <1>1 DEF InStep
<1> QED BY <1>2 DEF InStep

LEMMA SendMessageOrder ==
    ASSUME IInv, OrderInv, IdleInv, NEW e \in Ends, SendMessage(e)
    PROVE  OrderInv' /\ IdleInv'
<1>1. UNCHANGED <<taken, pc, header, body, need, left, pipe, inbound, cut>>
      BY DEF SendMessage
<1>2. \A f \in Ends : Stream(f)' = Stream(f)
      BY <1>1 DEF Stream
<1>3. OrderInv'
      BY <1>1, <1>2, Frame DEF OrderInv
<1> QED BY <1>1, <1>3 DEF IdleInv

LEMMA EndOrder ==
    ASSUME IInv, OrderInv, IdleInv, NEW e \in Ends, LoopFails(e) \/ NoticeEnd(e)
    PROVE  OrderInv' /\ IdleInv'
<1>1. /\ pc' = [pc EXCEPT ![e] = "ended"]
      /\ UNCHANGED <<queued, taken, header, body, need, left, pipe, inbound, cut>>
      BY DEF LoopFails, NoticeEnd
<1>2. \A f \in Ends : Stream(f)' = Stream(f)
      BY <1>1 DEF Stream
<1>3. \A f \in Ends : pc'[f] = "ended" \/ pc'[f] = pc[f]
      BY <1>1 DEF IInv, TypeOK
<1>4. OrderInv'
      BY <1>1, <1>2, <1>3, Frame DEF OrderInv
<1> QED BY <1>1, <1>3, <1>4 DEF IdleInv

(* The stream of the other end, which e does not read.                     *)
LEMMA OtherStream ==
    ASSUME NEW e \in Ends,
           header'[Other(e)] = header[Other(e)], body'[Other(e)] = body[Other(e)],
           pipe'[e] = pipe[e], left'[e] = left[e]
    PROVE  Stream(Other(e))' = Stream(Other(e))
<1>1. Other(Other(e)) = e
      BY DEF Ends, Other
<1>2. Stream(Other(e)) =
          (header[Other(e)] \o body[Other(e)]) \o (pipe[e] \o left[e])
      BY <1>1 DEF Stream
<1>3. Stream(Other(e))' =
          (header'[Other(e)] \o body'[Other(e)]) \o (pipe'[e] \o left'[e])
      BY <1>1 DEF Stream
<1> QED BY <1>2, <1>3

(* A poll of the header reads on in the stream of its end.                 *)
LEMMA PollKeepsStream ==
    ASSUME IInv, NEW e \in Ends, pc[e] = "select",
           Read(e, Available(e, Header - Len(header[e]))),
           header'[e] = Polled(e), body' = body, left' = left
    PROVE  Stream(e)' = Stream(e)
<1> DEFINE h == header[e]
           u == Available(e, Header - Len(header[e]))
<1>1. Header - Len(header[e]) \in Nat
      BY PolledType DEF IInv
<1>2. h \in Seq(Unit) /\ u \in Seq(Unit) /\ h \o u \in Seq(Unit)
      BY <1>1, AvailableType, PolledType DEF IInv, TypeOK, Polled
<1>3. body[e] = <<>> /\ body'[e] = <<>> /\ header'[e] = h \o u
      BY DEF IInv, StageInv, Polled
<1>4. ASSUME NEW s \in Seq(Unit) PROVE s \o <<>> = s
      BY ConcatEmptySeq
<1>5. header'[e] \o body'[e] = (header[e] \o body[e]) \o u
  <2> HIDE DEF u
  <2>1. (h \o u) \o <<>> = h \o u /\ h \o <<>> = h
        BY <1>2, <1>4
  <2> QED BY <2>1, <1>3
<1> QED BY <1>1, <1>5, ReadKeepsStream DEF IInv

(* A header that is read in step is a header, and its length is right.     *)
LEMMA SelectLeftOrder ==
    ASSUME IInv, OrderInv, IdleInv, NEW e \in Ends, SelectLeft(e)
    PROVE  OrderInv' /\ IdleInv'
<1>1. /\ pc[e] = "select"
      /\ Read(e, Available(e, Header - Len(header[e])))
      /\ UNCHANGED <<queued, taken, body, left, inbound, cut>>
      BY DEF SelectLeft
<1>2. /\ Polled(e) \in Seq(Unit) /\ Len(Polled(e)) = Header
      /\ Header - Len(header[e]) \in Nat
      BY PolledType DEF IInv, SelectLeft
<1>3. header'[e] = Polled(e) /\ \A f \in Ends : f # e => header'[f] = header[f]
      BY DEF IInv, TypeOK, SelectLeft
<1>4. pc'[e] = "body" /\ \A f \in Ends : f # e => pc'[f] = pc[f]
      BY DEF IInv, TypeOK, SelectLeft
<1>5. /\ need'[e] \in Lengths(Polled(e), Polled(e)[1][1])
      /\ \A f \in Ends : f # e => need'[f] = need[f]
      BY DEF IInv, TypeOK, SelectLeft
<1>6. Stream(e)' = Stream(e)
      BY <1>1, <1>3, PollKeepsStream
<1>7. pipe'[e] = pipe[e] /\ pipe'[Other(e)] \in Seq(Unit)
      BY <1>1, <1>2, ReadSplits DEF IInv
<1>8. Stream(Other(e))' = Stream(Other(e))
      BY <1>1, <1>3, <1>7, OtherEnd, OtherStream
<1>9. ~cut'[Other(e)] => InStep(Other(e))'
      BY <1>1, <1>4, <1>5, <1>8, OtherEnd, Frame
<1>10. ASSUME ~cut'[e] PROVE InStep(e)'
  <2>1. InStep(e)
        BY <1>1, <1>10 DEF OrderInv
  <2> DEFINE n == Len(inbound[e])
             t == taken[Other(e)]
             r == pipe'[Other(e)] \o left[Other(e)]
             h == Polled(e)
  <2>2. n \in Nat /\ t \in Nat /\ r \in Seq(Unit)
    <3>1. inbound[e] \in Seq(Nat) /\ t \in Nat /\ left[Other(e)] \in Seq(Unit)
          BY OtherEnd DEF IInv, TypeOK
    <3> QED BY <3>1, <1>7, ConcatProperties
  <2>3. Stream(e)' = h \o r
    <3>1. body'[e] = <<>>
          BY <1>1 DEF IInv, StageInv
    <3>2. h \o <<>> = h
          BY <1>2, ConcatEmptySeq
    <3> QED BY <3>1, <3>2, <1>1, <1>3 DEF Stream
  <2>4. Consecutive(h \o r, n, t)
        BY <2>1, <2>3, <1>6 DEF InStep
  <2> HIDE DEF n, t, r, h
  <2>5. h[1][1] = n + 1 /\ h = HeaderOf(n + 1)
        BY <2>2, <2>4, <1>2, ConsecutiveHeader DEF h
  <2>6. need'[e] = Size - Header
        BY <2>5, <1>5 DEF Lengths, h
  <2> QED BY <2>1, <2>6, <1>1, <1>6 DEF InStep
<1>11. OrderInv'
       BY <1>9, <1>10, OtherEnd DEF OrderInv
<1>12. IdleInv'
       BY <1>1, <1>4 DEF IdleInv
<1> QED BY <1>11, <1>12

LEMMA SelectPendingOrder ==
    ASSUME IInv, OrderInv, IdleInv, NEW e \in Ends, SelectPending(e)
    PROVE  OrderInv' /\ IdleInv'
<1>1. /\ pc[e] = "select"
      /\ Read(e, Available(e, Header - Len(header[e])))
      /\ UNCHANGED <<queued, taken, pc, body, need, left, inbound, cut>>
      BY DEF SelectPending
<1>2. Header - Len(header[e]) \in Nat
      BY PolledType DEF IInv
<1>3. header'[e] = Polled(e) /\ \A f \in Ends : f # e => header'[f] = header[f]
      BY DEF IInv, TypeOK, SelectPending
<1>4. Stream(e)' = Stream(e)
      BY <1>1, <1>3, PollKeepsStream
<1>5. pipe'[e] = pipe[e]
      BY <1>1, <1>2, ReadSplits DEF IInv
<1>6. Stream(Other(e))' = Stream(Other(e))
      BY <1>1, <1>3, <1>5, OtherEnd, OtherStream
<1>7. \A f \in Ends : Stream(f)' = Stream(f)
      BY <1>4, <1>6, OtherEnd
<1>8. OrderInv'
      BY <1>1, <1>7, Frame DEF OrderInv
<1> QED BY <1>1, <1>8 DEF IdleInv

(* An end that drops a header of which it has read nothing reads on where  *)
(* it was; the message it takes comes last in the stream of the other.     *)
LEMMA SelectRightOrder ==
    ASSUME IInv, OrderInv, IdleInv, NEW e \in Ends, SelectRight(e)
    PROVE  OrderInv' /\ IdleInv'
<1> DEFINE units == Available(e, Header - Len(header[e]))
           o == Other(e)
<1>1. /\ pc[e] = "select" /\ Read(e, units)
      /\ UNCHANGED <<queued, body, need, inbound>>
      BY DEF SelectRight
<1>2. /\ Header - Len(header[e]) \in Nat
      /\ Polled(e) = header[e] \o units
      /\ header[e] \in Seq(Unit)
      BY PolledType DEF IInv, TypeOK, Polled
<1>3. /\ units \in Seq(Unit) /\ pipe'[o] \in Seq(Unit)
      /\ pipe[o] = units \o pipe'[o] /\ pipe'[e] = pipe[e]
      BY <1>1, <1>2, ReadSplits DEF IInv
<1>4. header'[e] = <<>> /\ \A f \in Ends : f # e => header'[f] = header[f]
      BY DEF IInv, TypeOK, SelectRight
<1>5. pc'[e] = "write" /\ \A f \in Ends : f # e => pc'[f] = pc[f]
      BY DEF IInv, TypeOK, SelectRight
<1>6. taken'[e] = taken[e] + 1 /\ \A f \in Ends : f # e => taken'[f] = taken[f]
      BY DEF IInv, TypeOK, SelectRight
<1>7. left'[e] = Encode(taken[e] + 1) /\ \A f \in Ends : f # e => left'[f] = left[f]
      BY DEF IInv, TypeOK, SelectRight
<1>8. /\ cut'[e] = (cut[e] \/ Polled(e) # <<>>)
      /\ \A f \in Ends : f # e => cut'[f] = cut[f]
      BY DEF IInv, TypeOK, SelectRight
<1>9. o \in Ends /\ o # e /\ Other(o) = e
      BY DEF Ends, Other
<1> HIDE DEF units
<1>10. ASSUME ~cut'[e] PROVE InStep(e)'
  <2>1. header[e] \o units = <<>> /\ cut'[e] = cut[e]
    <3>1. Polled(e) = <<>> /\ ~cut[e]
          BY <1>8, <1>10
    <3>2. cut[e] \in BOOLEAN /\ cut'[e] \in BOOLEAN
          BY <1>8 DEF IInv, TypeOK
    <3> QED BY <3>1, <3>2, <1>2, <1>10
  <2>2. header[e] = <<>> /\ units = <<>>
    <3>1. ASSUME NEW s \in Seq(Unit), NEW t \in Seq(Unit), s \o t = <<>>
          PROVE  s = <<>> /\ t = <<>>
          BY <3>1, ConcatProperties
    <3> QED BY <3>1, <2>1, <1>2, <1>3
  <2>3. pipe'[o] = pipe[o]
    <3>1. <<>> \o pipe'[o] = pipe'[o]
          BY <1>3, ConcatEmptySeq
    <3> QED BY <3>1, <2>2, <1>3
  <2>4. Stream(e)' = Stream(e)
        BY <2>2, <2>3, <1>1, <1>4, <1>7, <1>9 DEF Stream
  <2> QED BY <2>1, <2>4, <1>1, <1>5, <1>6, <1>9, <1>10, Frame
<1>11. ASSUME ~cut'[o] PROVE InStep(o)'
  <2> DEFINE n == Len(inbound[o])
             t == taken[e]
             m == Encode(t + 1)
             q == header[o] \o body[o]
             p == pipe[e]
  <2>1. InStep(o)
        BY <1>8, <1>9, <1>11 DEF OrderInv
  <2>2. /\ n \in Nat /\ t \in Nat /\ p \in Seq(Unit)
        /\ header[o] \in Seq(Unit) /\ body[o] \in Seq(Unit)
    <3>1. inbound[o] \in Seq(Nat)
          BY <1>9 DEF IInv, TypeOK
    <3> QED BY <3>1, <1>9 DEF IInv, TypeOK
  <2>3. q \in Seq(Unit) /\ m \in Seq(Unit)
        BY <2>2, ConcatProperties, EncodeType
  <2>4. left[e] = <<>>
        BY <1>1 DEF IdleInv
  <2>5. Stream(o) = q \o (p \o <<>>)
        BY <2>4, <1>9 DEF Stream
  <2>6. Stream(o)' = q \o (p \o m)
        BY <1>1, <1>3, <1>4, <1>7, <1>9 DEF Stream
  <2>7. Consecutive(Stream(o), n, t)
        BY <2>1, <1>9 DEF InStep
  <2> HIDE DEF n, t, m, q, p
  <2>8. Stream(o) = q \o p
    <3>1. p \o <<>> = p
          BY <2>2, ConcatEmptySeq
    <3> QED BY <2>5, <3>1
  <2>9. (q \o p) \o m = q \o (p \o m)
    <3>1. ASSUME NEW s \in Seq(Unit), NEW r \in Seq(Unit), NEW w \in Seq(Unit)
          PROVE  (s \o r) \o w = s \o (r \o w)
          BY ONLY <3>1, Associative
    <3> QED BY <3>1, <2>2, <2>3
  <2>10. q \o p \in Seq(Unit)
    <3>1. ASSUME NEW s \in Seq(Unit), NEW r \in Seq(Unit) PROVE s \o r \in Seq(Unit)
          BY ConcatProperties
    <3> QED BY <3>1, <2>2, <2>3
  <2>11. Consecutive((q \o p) \o m, n, t + 1)
    <3> DEFINE z == q \o p
    <3>1. z \in Seq(Unit) /\ Consecutive(z, n, t)
          BY <2>7, <2>8, <2>10
    <3> HIDE DEF z
    <3>2. Consecutive(z \o Encode(t + 1), n, t + 1)
          BY <3>1, <2>2, ConsecutiveSend
    <3> QED BY <3>2 DEF z, m
  <2>12. Consecutive(Stream(o)', Len(inbound'[o]), taken'[Other(o)])
        BY <2>6, <2>9, <2>11, <1>1, <1>6, <1>9 DEF n, t
  <2> QED BY <2>1, <2>12, <1>1, <1>5, <1>9 DEF InStep
<1>12. OrderInv'
       BY <1>10, <1>11, OtherEnd DEF OrderInv
<1>13. IdleInv'
       BY <1>5, <1>7 DEF IdleInv
<1> QED BY <1>12, <1>13

(* Writing moves units from the message to the stream, in their order.     *)
LEMMA WriteMessageOrder ==
    ASSUME IInv, OrderInv, IdleInv, NEW e \in Ends, WriteMessage(e)
    PROVE  OrderInv' /\ IdleInv'
<1> DEFINE o == Other(e)
<1>1. PICK n \in 1..Smaller(Len(left[e]), Room(e)) :
          /\ Write(e, SubSeq(left[e], 1, n))
          /\ left' = [left EXCEPT ![e] = SubSeq(@, n + 1, Len(@))]
          /\ pc' = [pc EXCEPT ![e] = IF n = Len(left[e]) THEN "select" ELSE "write"]
      BY DEF WriteMessage
<1>2. /\ pc[e] = "write"
      /\ UNCHANGED <<queued, taken, header, body, need, inbound, cut>>
      BY DEF WriteMessage
<1>3. /\ left[e] \in Seq(Unit) /\ Len(left[e]) \in Nat
      /\ pipe[e] \in Seq(Unit) /\ Len(pipe[e]) \in Nat
      BY DEF IInv, TypeOK
<1>4. n \in Nat /\ n <= Len(left[e]) /\ n \in 0..Len(left[e])
      BY <1>3, LoopAssumption DEF Smaller, Room
<1> DEFINE u == SubSeq(left[e], 1, n)
           r == SubSeq(left[e], n + 1, Len(left[e]))
<1>5. u \in Seq(Unit) /\ r \in Seq(Unit) /\ Len(r) = Len(left[e]) - n
      BY <1>3, <1>4, Split
<1>6. u \o r = left[e]
      BY <1>3, <1>4, SplitJoin
<1>7. /\ pipe' = [pipe EXCEPT ![e] = pipe[e] \o u]
      /\ left' = [left EXCEPT ![e] = r]
      BY <1>1 DEF Write
<1> HIDE DEF u, r
<1>8. /\ pipe'[e] = pipe[e] \o u /\ left'[e] = r
      /\ \A f \in Ends : f # e => pipe'[f] = pipe[f] /\ left'[f] = left[f]
      BY <1>7 DEF IInv, TypeOK
<1>9. /\ pc'[e] = IF n = Len(left[e]) THEN "select" ELSE "write"
      /\ \A f \in Ends : f # e => pc'[f] = pc[f]
      BY <1>1 DEF IInv, TypeOK
<1>10. o \in Ends /\ o # e /\ Other(o) = e
      BY DEF Ends, Other
<1>11. Stream(e)' = Stream(e)
      BY <1>2, <1>8, <1>10 DEF Stream
<1>12. Stream(o)' = Stream(o)
  <2>1. (pipe[e] \o u) \o r = pipe[e] \o (u \o r)
    <3>1. ASSUME NEW s \in Seq(Unit), NEW v \in Seq(Unit), NEW w \in Seq(Unit)
          PROVE  (s \o v) \o w = s \o (v \o w)
          BY ONLY <3>1, Associative
    <3> QED BY <3>1, <1>3, <1>5
  <2>2. pipe'[e] \o left'[e] = pipe[e] \o left[e]
        BY <2>1, <1>6, <1>8
  <2>3. Stream(o) = (header[o] \o body[o]) \o (pipe[e] \o left[e])
        BY <1>10 DEF Stream
  <2>4. Stream(o)' = (header'[o] \o body'[o]) \o (pipe'[e] \o left'[e])
        BY <1>10 DEF Stream
  <2> QED BY <2>2, <2>3, <2>4, <1>2
<1>13. \A f \in Ends : Stream(f)' = Stream(f) /\ (pc'[f] = "body" => pc[f] = "body")
      BY <1>9, <1>11, <1>12, OtherEnd
<1>14. OrderInv'
      BY <1>2, <1>13, Frame DEF OrderInv
<1>15. IdleInv'
  <2>1. n = Len(left[e]) => left'[e] = <<>>
    <3> SUFFICES ASSUME n = Len(left[e]) PROVE left'[e] = <<>>
        OBVIOUS
    <3>1. Len(r) = 0
          BY <1>3, <1>5
    <3> QED BY <3>1, <1>5, <1>8
  <2> QED BY <2>1, <1>8, <1>9 DEF IdleInv
<1> QED BY <1>14, <1>15

(* A message that is read in step is the next one, and the stream goes on  *)
(* with the one after it.                                                  *)
LEMMA ReadBodyOrder ==
    ASSUME IInv, OrderInv, IdleInv, NEW e \in Ends, ReadBody(e)
    PROVE  OrderInv' /\ IdleInv'
<1> DEFINE h == header[e]
           b == body[e]
           u == Available(e, need[e] - Len(body[e]))
           read == b \o u
           m == h \o read
           o == Other(e)
<1>1. /\ h \in Seq(Unit) /\ b \in Seq(Unit) /\ Len(b) \in Nat
      /\ need[e] \in Nat /\ Len(b) <= need[e] /\ inbound[e] \in Seq(Nat)
      BY DEF IInv, TypeOK
<1>2. need[e] - Len(body[e]) \in Nat
      BY <1>1
<1>3. /\ pc[e] = "body" /\ Read(e, u)
      /\ \/ /\ Len(read) < need[e]
            /\ body' = [body EXCEPT ![e] = read]
            /\ UNCHANGED <<pc, header, need, inbound>>
         \/ /\ Len(read) = need[e]
            /\ inbound' = [inbound EXCEPT ![e] = Append(@, Decoded(m))]
            /\ header' = [header EXCEPT ![e] = <<>>]
            /\ body' = [body EXCEPT ![e] = <<>>]
            /\ need' = [need EXCEPT ![e] = 0]
            /\ pc' = [pc EXCEPT ![e] = "select"]
      /\ UNCHANGED <<queued, taken, left, cut>>
      BY DEF ReadBody
<1>4. /\ u \in Seq(Unit) /\ pipe'[o] \in Seq(Unit)
      /\ pipe[o] = u \o pipe'[o] /\ pipe'[e] = pipe[e]
      BY <1>2, <1>3, ReadSplits DEF IInv
<1>5. Len(h) = Header /\ left[e] = <<>>
      BY <1>3 DEF IInv, StageInv, IdleInv
<1>6. o \in Ends /\ o # e /\ Other(o) = e
      BY DEF Ends, Other
<1>7. (h \o b) \o u = m
  <2> HIDE DEF u, h, b
  <2> QED BY <1>1, <1>4, Associative
<1>8. read \in Seq(Unit) /\ m \in Seq(Unit) /\ Len(m) = Len(h) + Len(read)
  <2>1. ASSUME NEW s \in Seq(Unit), NEW t \in Seq(Unit)
        PROVE  s \o t \in Seq(Unit) /\ Len(s \o t) = Len(s) + Len(t)
        BY ConcatProperties
  <2> HIDE DEF u, h, b
  <2> QED BY <2>1, <1>1, <1>4
<1>9. CASE /\ Len(read) < need[e]
           /\ body' = [body EXCEPT ![e] = read]
           /\ UNCHANGED <<pc, header, need, inbound>>
  <2>1. body'[e] = read /\ \A f \in Ends : f # e => body'[f] = body[f]
        BY <1>9 DEF IInv, TypeOK
  <2>2. header'[e] \o body'[e] = (header[e] \o body[e]) \o u
        BY <2>1, <1>7, <1>9
  <2>3. Stream(e)' = Stream(e)
        BY <2>2, <1>2, <1>3, ReadKeepsStream DEF IInv
  <2>4. Stream(o)' = Stream(o)
        BY <2>1, <1>3, <1>4, <1>6, <1>9, OtherStream
  <2>5. \A f \in Ends : Stream(f)' = Stream(f)
        BY <2>3, <2>4, OtherEnd
  <2>6. OrderInv'
        BY <2>5, <1>3, <1>9, Frame DEF OrderInv
  <2> QED BY <2>6, <1>3, <1>9 DEF IdleInv
<1>10. CASE /\ Len(read) = need[e]
            /\ inbound' = [inbound EXCEPT ![e] = Append(@, Decoded(m))]
            /\ header' = [header EXCEPT ![e] = <<>>]
            /\ body' = [body EXCEPT ![e] = <<>>]
            /\ need' = [need EXCEPT ![e] = 0]
            /\ pc' = [pc EXCEPT ![e] = "select"]
  <2>1. /\ inbound'[e] = Append(inbound[e], Decoded(m))
        /\ header'[e] = <<>> /\ body'[e] = <<>> /\ pc'[e] = "select"
        /\ \A f \in Ends : f # e =>
              /\ inbound'[f] = inbound[f] /\ header'[f] = header[f]
              /\ body'[f] = body[f] /\ need'[f] = need[f] /\ pc'[f] = pc[f]
        BY <1>10 DEF IInv, TypeOK
  <2>2. Stream(o)' = Stream(o)
        BY <2>1, <1>3, <1>4, <1>6, OtherStream
  <2>3. ~cut'[o] => InStep(o)'
        BY <2>1, <2>2, <1>3, <1>6, Frame
  <2>4. ASSUME ~cut'[e] PROVE InStep(e)'
    <3> DEFINE n == Len(inbound[e])
               t == taken[o]
               p == pipe'[o]
               l == left[o]
               q == h \o b
               r == p \o l
    <3>1. InStep(e)
          BY <2>4, <1>3 DEF OrderInv
    <3>2. n \in Nat /\ t \in Nat /\ l \in Seq(Unit)
          BY <1>1, <1>6 DEF IInv, TypeOK
    <3>3. q \in Seq(Unit) /\ r \in Seq(Unit)
          BY <3>2, <1>1, <1>4, ConcatProperties
    <3>4. Stream(e) = q \o ((u \o p) \o l)
          BY <1>4 DEF Stream
    <3>5. Stream(e)' = r
      <4>1. ASSUME NEW s \in Seq(Unit) PROVE <<>> \o s = s
            BY ConcatEmptySeq
      <4>2. Stream(e)' = (<<>> \o <<>>) \o r
            BY <2>1, <1>3 DEF Stream
      <4> HIDE DEF r
      <4>3. <<>> \o r = r /\ <<>> \o <<>> = <<>>
            BY <4>1, <3>3
      <4> QED BY <4>2, <4>3
    <3>6. Consecutive(Stream(e), n, t)
          BY <3>1 DEF InStep
    <3>7. need[e] = Size - Header
          BY <3>1, <1>3 DEF InStep
    <3>8. Len(m) = Size
      <4> HIDE DEF m, h, read
      <4> QED BY <3>7, <1>5, <1>8, <1>10, LoopAssumption
    <3>9. q \o ((u \o p) \o l) = m \o r
      <4>1. q \o u = m
            BY <1>7
      <4> HIDE DEF q, u, m, p, l
      <4>2. Regrouped(q, u, p, l)
            BY <3>2, <3>3, <1>4, Regroup DEF p
      <4> QED BY <4>1, <4>2 DEF Regrouped
    <3>10. Consecutive(m \o r, n, t)
          BY <3>4, <3>6, <3>9
    <3> HIDE DEF n, t, p, l, q, r, m
    <3>11. m = Encode(n + 1) /\ Consecutive(r, n + 1, t)
          BY <3>2, <3>3, <3>8, <3>10, <1>8, ConsecutiveDeliver
    <3>12. m[1][1] = n + 1
          BY <3>2, <3>11, LoopAssumption DEF Encode
    <3>13. Decoded(m) = n + 1
          BY <3>11, <3>12 DEF Decoded
    <3>14. /\ Len(inbound'[e]) = n + 1
           /\ \A k \in DOMAIN inbound'[e] : inbound'[e][k] = k
      <4> DEFINE i == inbound[e]
      <4>1. i \in Seq(Nat) /\ Len(i) = n /\ \A k \in 1..n : i[k] = k
            BY <3>1, <1>1 DEF InStep, n
      <4>2. inbound'[e] = Append(i, n + 1)
            BY <2>1, <3>13
      <4> HIDE DEF i
      <4>3. /\ Len(Append(i, n + 1)) = n + 1
            /\ DOMAIN Append(i, n + 1) = 1..(n + 1)
            /\ \A k \in 1..(n + 1) : Append(i, n + 1)[k] = k
            BY <3>2, <4>1
      <4> QED BY <4>2, <4>3
    <3>15. Consecutive(Stream(e)', Len(inbound'[e]), taken'[Other(e)])
          BY <3>5, <3>11, <3>14, <1>3 DEF t
    <3> QED BY <2>1, <3>14, <3>15 DEF InStep
  <2>5. OrderInv'
        BY <2>3, <2>4, OtherEnd DEF OrderInv
  <2>6. IdleInv'
        BY <2>1, <1>3, <1>5 DEF IdleInv
  <2> QED BY <2>5, <2>6
<1> QED BY <1>3, <1>9, <1>10
-----------------------------------------------------------------------------
LEMMA InitOrder == Init => OrderInv /\ IdleInv
<1> SUFFICES ASSUME Init PROVE OrderInv /\ IdleInv
    OBVIOUS
<1>1. \A e \in Ends : Stream(e) = <<>>
  <2>1. ASSUME NEW e \in Ends
        PROVE  /\ header[e] = <<>> /\ body[e] = <<>>
               /\ pipe[Other(e)] = <<>> /\ left[Other(e)] = <<>>
        BY OtherEnd DEF Init
  <2>2. <<>> \o <<>> = <<>>
        OBVIOUS
  <2> QED BY <2>1, <2>2 DEF Stream
<1>2. Consecutive(<<>>, 0, 0)
      BY DEF Consecutive
<1>3. \A e \in Ends : InStep(e)
  <2> TAKE e \in Ends
  <2>1. inbound[e] = <<>> /\ taken[Other(e)] = 0 /\ pc[e] = "select"
        BY OtherEnd DEF Init
  <2> QED BY <2>1, <1>1, <1>2 DEF InStep
<1> QED BY <1>3 DEF OrderInv, IdleInv, Init

LEMMA NextOrder ==
    IInv /\ OrderInv /\ IdleInv /\ [Next]_vars => OrderInv' /\ IdleInv'
<1> SUFFICES ASSUME IInv, OrderInv, IdleInv, [Next]_vars
             PROVE  OrderInv' /\ IdleInv'
    OBVIOUS
<1>1. CASE UNCHANGED vars
  <2>1. UNCHANGED <<taken, pc, header, body, need, left, pipe, inbound, cut>>
        BY <1>1 DEF vars, loopVars
  <2>2. \A f \in Ends : Stream(f)' = Stream(f)
        BY <2>1 DEF Stream
  <2>3. OrderInv'
        BY <2>1, <2>2, Frame DEF OrderInv
  <2> QED BY <2>1, <2>3 DEF IdleInv
<1>2. CASE Next
      BY <1>2, SendMessageOrder, SelectLeftOrder, SelectRightOrder, SelectPendingOrder,
         ReadBodyOrder, WriteMessageOrder, EndOrder DEF Next, Loop
<1> QED BY <1>1, <1>2

(* An end of connection_loop that never dropped a half-read header has     *)
(* received the other's messages, all and in order, up to some point: for  *)
(* messages, headers and windows of any size, however the writes and the   *)
(* reads are cut up, the two loops lose their place in no other way.       *)
THEOREM InOrder == Spec => []InOrderUnlessCut
<1>1. IInv /\ OrderInv => InOrderUnlessCut
  <2> SUFFICES ASSUME OrderInv, NEW e \in Ends, ~cut[e]
               PROVE  /\ Len(inbound[e]) <= taken[Other(e)]
                      /\ \A k \in DOMAIN inbound[e] : inbound[e][k] = k
      BY DEF InOrderUnlessCut
  <2>1. InStep(e)
        BY DEF OrderInv
  <2> QED BY <2>1 DEF InStep, Consecutive
<1>2. Spec => [](OrderInv /\ IdleInv)
      BY Invariant, InitOrder, NextOrder, PTL DEF Spec
<1> QED BY Invariant, <1>1, <1>2, PTL
=============================================================================
