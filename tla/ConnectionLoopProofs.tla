------------------------ MODULE ConnectionLoopProofs ------------------------
(* Theorems about ConnectionLoop, for messages, headers and windows of any *)
(* size: it is well typed, and two ends never wait for each other to read. *)
EXTENDS ConnectionLoop, SequenceTheorems, TLAPS

(* Where an end is says what it has read and what it has to write.         *)
StageInv ==
    \A e \in Ends : /\ pc[e] \in {"select", "write"} => body[e] = <<>>
                    /\ pc[e] = "body" => Len(header[e]) = Header
                    /\ pc[e] = "write" => Len(left[e]) > 0

(* What is left of the message of e fits into the stream as it is.         *)
Fits(e) == Len(pipe[e]) + Len(left[e]) <= Window

(* While both ends write, the message of one of them fits.                 *)
RoomInv ==
    Window >= Size /\ (\A e \in Ends : pc[e] = "write")
        => \E e \in Ends : Fits(e)

IInv == TypeOK /\ StageInv /\ RoomInv
-----------------------------------------------------------------------------
LEMMA OtherEnd ==
    ASSUME NEW e \in Ends
    PROVE  /\ Other(e) \in Ends
           /\ Other(e) # e
           /\ Ends = {e, Other(e)}
  BY DEF Ends, Other

LEMMA Split ==
    ASSUME NEW S, NEW s \in Seq(S), NEW n \in 0..Len(s)
    PROVE  /\ SubSeq(s, 1, n) \in Seq(S)
           /\ Len(SubSeq(s, 1, n)) = n
           /\ SubSeq(s, n + 1, Len(s)) \in Seq(S)
           /\ Len(SubSeq(s, n + 1, Len(s))) = Len(s) - n
<1>1. Len(s) \in Nat /\ n \in Nat /\ n <= Len(s) /\ n + 1 \in Nat
      OBVIOUS
<1>2. \A i \in 1..Len(s) : s[i] \in S
      OBVIOUS
<1>3. (\A i \in 1..n : s[i] \in S) /\ (\A i \in (n + 1)..Len(s) : s[i] \in S)
      BY <1>1, <1>2
<1>4. /\ SubSeq(s, 1, n) \in Seq(S)
      /\ Len(SubSeq(s, 1, n)) = IF 1 <= n THEN n - 1 + 1 ELSE 0
      BY <1>1, <1>3, SubSeqProperties
<1>5. /\ SubSeq(s, n + 1, Len(s)) \in Seq(S)
      /\ Len(SubSeq(s, n + 1, Len(s))) =
             IF n + 1 <= Len(s) THEN Len(s) - (n + 1) + 1 ELSE 0
      BY <1>1, <1>3, SubSeqProperties
<1> QED BY <1>1, <1>4, <1>5

LEMMA EncodeType ==
    ASSUME NEW i \in Nat
    PROVE  Encode(i) \in Seq(Unit) /\ Len(Encode(i)) = Size /\ Size > 0
  BY LoopAssumption DEF Encode, Unit

LEMMA AvailableType ==
    ASSUME TypeOK, NEW e \in Ends, NEW wanted \in Nat
    PROVE  /\ Available(e, wanted) \in Seq(Unit)
           /\ Len(Available(e, wanted)) <= wanted
           /\ Len(Available(e, wanted)) <= Len(pipe[Other(e)])
           /\ Len(Available(e, wanted)) < wanted =>
                 Len(Available(e, wanted)) = Len(pipe[Other(e)])
<1>1. pipe[Other(e)] \in Seq(Unit)
      BY OtherEnd DEF TypeOK
<1>2. Smaller(wanted, Len(pipe[Other(e)])) \in 0..Len(pipe[Other(e)])
      BY <1>1 DEF Smaller
<1>3. /\ Available(e, wanted) \in Seq(Unit)
      /\ Len(Available(e, wanted)) = Smaller(wanted, Len(pipe[Other(e)]))
      BY <1>1, <1>2, Split DEF Available
<1> QED BY <1>1, <1>3 DEF Smaller

LEMMA ReadType ==
    ASSUME TypeOK, NEW e \in Ends, NEW units \in Seq(Unit), Read(e, units),
           Len(units) <= Len(pipe[Other(e)])
    PROVE  /\ pipe' \in [Ends -> Seq(Unit)]
           /\ pipe'[e] = pipe[e]
           /\ Len(pipe'[Other(e)]) = Len(pipe[Other(e)]) - Len(units)
           /\ \A f \in Ends : Len(pipe'[f]) <= Window
<1>1. pipe[Other(e)] \in Seq(Unit) /\ Len(units) \in 0..Len(pipe[Other(e)])
      BY OtherEnd DEF TypeOK
<1> DEFINE rest == SubSeq(pipe[Other(e)], Len(units) + 1, Len(pipe[Other(e)]))
<1>2. rest \in Seq(Unit) /\ Len(rest) = Len(pipe[Other(e)]) - Len(units)
      BY <1>1, Split
<1>3. pipe' = [pipe EXCEPT ![Other(e)] = rest]
      BY DEF Read
<1> HIDE DEF rest
<1>4. Len(pipe[Other(e)]) <= Window /\ Len(pipe[e]) <= Window
      BY OtherEnd DEF TypeOK
<1>5. Len(units) \in Nat /\ Len(pipe[Other(e)]) \in Nat
      BY <1>1
<1>6. pipe' \in [Ends -> Seq(Unit)] /\ pipe'[e] = pipe[e] /\ pipe'[Other(e)] = rest
      BY <1>2, <1>3, OtherEnd DEF TypeOK
<1>7. Len(pipe'[Other(e)]) <= Window /\ Len(pipe'[e]) <= Window
      BY <1>2, <1>4, <1>5, <1>6, LoopAssumption
<1> QED BY <1>2, <1>6, <1>7, OtherEnd

LEMMA PolledType ==
    ASSUME TypeOK, NEW e \in Ends
    PROVE  /\ Header - Len(header[e]) \in Nat
           /\ Polled(e) \in Seq(Unit)
           /\ Len(Polled(e)) = Len(header[e])
                  + Len(Available(e, Header - Len(header[e])))
           /\ Len(Polled(e)) <= Header
<1>1. header[e] \in Seq(Unit) /\ Len(header[e]) \in Nat /\ Len(header[e]) <= Header
      BY DEF TypeOK
<1>2. Header - Len(header[e]) \in Nat
      BY <1>1, LoopAssumption
<1>3. /\ Available(e, Header - Len(header[e])) \in Seq(Unit)
      /\ Len(Available(e, Header - Len(header[e]))) <= Header - Len(header[e])
      BY <1>2, AvailableType
<1>4. /\ Polled(e) \in Seq(Unit)
      /\ Len(Polled(e)) = Len(header[e]) + Len(Available(e, Header - Len(header[e])))
      BY <1>1, <1>3, ConcatProperties DEF Polled
<1>5. ASSUME NEW h \in Nat, NEW a \in Nat, a <= Header - h PROVE h + a <= Header
      BY <1>5, LoopAssumption
<1>6. Len(Available(e, Header - Len(header[e]))) \in Nat
      BY <1>3
<1>7. Len(Polled(e)) <= Header
      BY <1>1, <1>3, <1>4, <1>5, <1>6
<1> QED BY <1>2, <1>4, <1>7
-----------------------------------------------------------------------------
LEMMA InitIInv == Init => IInv
  BY LoopAssumption DEF Init, IInv, TypeOK, StageInv, RoomInv, Fits, Ends, Unit

LEMMA SendMessageIInv ==
    ASSUME IInv, NEW e \in Ends, SendMessage(e)
    PROVE  IInv'
<1>1. TypeOK'
      BY DEF IInv, TypeOK, SendMessage
<1>2. StageInv' /\ RoomInv'
      BY DEF IInv, StageInv, RoomInv, Fits, SendMessage
<1> QED BY <1>1, <1>2 DEF IInv

(* A header that is read names a length, whatever it was.                  *)
LEMMA SelectLeftIInv ==
    ASSUME IInv, NEW e \in Ends, SelectLeft(e)
    PROVE  IInv'
<1> DEFINE units == Available(e, Header - Len(header[e]))
<1>1. /\ Polled(e) \in Seq(Unit)
      /\ Len(Polled(e)) = Header
      /\ Header - Len(header[e]) \in Nat
      BY PolledType DEF IInv, SelectLeft
<1>2. units \in Seq(Unit) /\ Len(units) <= Len(pipe[Other(e)])
      BY <1>1, AvailableType DEF IInv
<1>3. Read(e, units)
      BY DEF SelectLeft
<1> HIDE DEF units
<1>4. pipe' \in [Ends -> Seq(Unit)] /\ \A f \in Ends : Len(pipe'[f]) <= Window
      BY <1>2, <1>3, ReadType DEF IInv
<1>5. need' \in [Ends -> Nat] /\ \A f \in Ends : f # e => need'[f] = need[f]
  <2>1. Lengths(Polled(e), Polled(e)[1][1]) \subseteq Nat
        BY LoopAssumption DEF Lengths
  <2> QED BY <2>1 DEF IInv, TypeOK, SelectLeft
<1>6. /\ header' \in [Ends -> Seq(Unit)]
      /\ header'[e] = Polled(e)
      /\ \A f \in Ends : f # e => header'[f] = header[f]
      BY <1>1 DEF IInv, TypeOK, SelectLeft
<1>7. body' = body /\ body[e] = <<>>
      BY DEF IInv, StageInv, SelectLeft
<1>8. /\ pc' \in [Ends -> {"select", "body", "write", "ended"}]
      /\ pc'[e] = "body"
      /\ \A f \in Ends : f # e => pc'[f] = pc[f]
      BY DEF IInv, TypeOK, SelectLeft
<1>9. UNCHANGED <<queued, taken, body, left, inbound, cut>>
      BY DEF SelectLeft
<1>10. \A f \in Ends : Len(header'[f]) <= Header
  <2>1. \A f \in Ends : Len(header[f]) <= Header
        BY DEF IInv, TypeOK
  <2>2. Len(header'[e]) <= Header
        BY <1>1, <1>6, LoopAssumption
  <2> QED BY <2>1, <2>2, <1>6
<1>11. \A f \in Ends : Len(body'[f]) <= need'[f]
  <2>1. \A f \in Ends : Len(body[f]) <= need[f]
        BY DEF IInv, TypeOK
  <2>2. Len(body'[e]) <= need'[e]
        BY <1>5, <1>7
  <2> QED BY <2>1, <2>2, <1>5, <1>7
<1>12. TypeOK'
       BY <1>4, <1>5, <1>6, <1>8, <1>9, <1>10, <1>11 DEF IInv, TypeOK
<1>13. StageInv'
       BY <1>1, <1>6, <1>8, <1>9 DEF IInv, StageInv
<1>14. RoomInv'
       BY <1>8 DEF RoomInv
<1> QED BY <1>12, <1>13, <1>14 DEF IInv

(* The end that begins to write has read all that the other had written,   *)
(* so what the other has left to write fits.                               *)
LEMMA SelectRightIInv ==
    ASSUME IInv, NEW e \in Ends, SelectRight(e)
    PROVE  IInv'
<1> DEFINE units == Available(e, Header - Len(header[e]))
<1>1. /\ Header - Len(header[e]) \in Nat
      /\ Len(Polled(e)) = Len(header[e]) + Len(units)
      /\ Len(header[e]) \in Nat
      BY PolledType DEF IInv, TypeOK
<1>2. /\ units \in Seq(Unit)
      /\ Len(units) <= Len(pipe[Other(e)])
      /\ Len(units) < Header - Len(header[e]) => Len(units) = Len(pipe[Other(e)])
      BY <1>1, AvailableType DEF IInv
<1>3. Read(e, units) /\ Len(Polled(e)) < Header
      BY DEF SelectRight
<1> HIDE DEF units
<1>4. /\ pipe' \in [Ends -> Seq(Unit)]
      /\ \A f \in Ends : Len(pipe'[f]) <= Window
      /\ Len(pipe'[Other(e)]) = Len(pipe[Other(e)]) - Len(units)
      BY <1>2, <1>3, ReadType DEF IInv
<1>5. Len(units) \in Nat
      BY <1>2
<1>6. Len(units) = Len(pipe[Other(e)])
      BY <1>1, <1>2, <1>3, <1>5, LoopAssumption
<1>7. Len(pipe'[Other(e)]) = 0
      BY <1>4, <1>5, <1>6
<1>8. taken[e] + 1 \in Nat /\ taken[e] + 1 <= queued[e]
      BY DEF IInv, TypeOK, SelectRight
<1>9. Encode(taken[e] + 1) \in Seq(Unit) /\ Len(Encode(taken[e] + 1)) = Size /\ Size > 0
      BY <1>8, EncodeType
<1>10. /\ left' \in [Ends -> Seq(Unit)]
       /\ left'[e] = Encode(taken[e] + 1)
       /\ \A f \in Ends : f # e => left'[f] = left[f]
      BY <1>9 DEF IInv, TypeOK, SelectRight
<1>11. /\ header' \in [Ends -> Seq(Unit)]
       /\ header'[e] = <<>>
       /\ \A f \in Ends : f # e => header'[f] = header[f]
      BY DEF IInv, TypeOK, SelectRight
<1>12. /\ pc' \in [Ends -> {"select", "body", "write", "ended"}]
       /\ pc'[e] = "write"
       /\ \A f \in Ends : f # e => pc'[f] = pc[f]
      BY DEF IInv, TypeOK, SelectRight
<1>13. /\ taken' \in [Ends -> Nat]
       /\ \A f \in Ends : taken'[f] <= queued[f]
      BY <1>8 DEF IInv, TypeOK, SelectRight
<1>14. cut' \in [Ends -> BOOLEAN]
       BY DEF IInv, TypeOK, SelectRight
<1>15. UNCHANGED <<queued, body, need, inbound>> /\ pc[e] = "select"
       BY DEF SelectRight
<1>16. \A f \in Ends : Len(header'[f]) <= Header /\ Len(left'[f]) <= Size
  <2>1. \A f \in Ends : Len(header[f]) <= Header /\ Len(left[f]) <= Size
        BY DEF IInv, TypeOK
  <2>2. Len(header'[e]) <= Header /\ Len(left'[e]) <= Size
        BY <1>9, <1>10, <1>11, LoopAssumption
  <2> QED BY <2>1, <2>2, <1>10, <1>11
<1>17. TypeOK'
       BY <1>4, <1>10, <1>11, <1>12, <1>13, <1>14, <1>15, <1>16 DEF IInv, TypeOK
<1>18. StageInv'
       BY <1>9, <1>10, <1>11, <1>12, <1>15 DEF IInv, StageInv
<1>19. Window >= Size => Fits(Other(e))'
  <2>1. Len(left'[Other(e)]) <= Size /\ Len(left'[Other(e)]) \in Nat
        BY <1>10, <1>16, OtherEnd
  <2> QED BY <2>1, <1>7, LoopAssumption DEF Fits
<1>20. RoomInv'
       BY <1>19, OtherEnd DEF RoomInv
<1> QED BY <1>17, <1>18, <1>20 DEF IInv

LEMMA SelectPendingIInv ==
    ASSUME IInv, NEW e \in Ends, SelectPending(e)
    PROVE  IInv'
<1> DEFINE units == Available(e, Header - Len(header[e]))
<1>1. /\ Polled(e) \in Seq(Unit)
      /\ Len(Polled(e)) <= Header
      /\ Header - Len(header[e]) \in Nat
      BY PolledType DEF IInv
<1>2. units \in Seq(Unit) /\ Len(units) <= Len(pipe[Other(e)])
      BY <1>1, AvailableType DEF IInv
<1>3. Read(e, units)
      BY DEF SelectPending
<1> HIDE DEF units
<1>4. pipe' \in [Ends -> Seq(Unit)] /\ \A f \in Ends : Len(pipe'[f]) <= Window
      BY <1>2, <1>3, ReadType DEF IInv
<1>5. /\ header' \in [Ends -> Seq(Unit)]
      /\ header'[e] = Polled(e)
      /\ \A f \in Ends : f # e => header'[f] = header[f]
      BY <1>1 DEF IInv, TypeOK, SelectPending
<1>6. /\ pc[e] = "select"
      /\ UNCHANGED <<queued, taken, pc, body, need, left, inbound, cut>>
      BY DEF SelectPending
<1>7. \A f \in Ends : Len(header'[f]) <= Header
      BY <1>1, <1>5 DEF IInv, TypeOK
<1>8. TypeOK'
      BY <1>4, <1>5, <1>6, <1>7 DEF IInv, TypeOK
<1>9. StageInv'
      BY <1>5, <1>6 DEF IInv, StageInv
<1>10. RoomInv'
       BY <1>6 DEF RoomInv
<1> QED BY <1>8, <1>9, <1>10 DEF IInv

LEMMA ReadBodyIInv ==
    ASSUME IInv, NEW e \in Ends, ReadBody(e)
    PROVE  IInv'
<1> DEFINE units == Available(e, need[e] - Len(body[e]))
           read == body[e] \o units
<1>1. /\ body[e] \in Seq(Unit) /\ Len(body[e]) \in Nat
      /\ need[e] \in Nat /\ Len(body[e]) <= need[e]
      BY DEF IInv, TypeOK
<1>2. need[e] - Len(body[e]) \in Nat
      BY <1>1
<1>3. units \in Seq(Unit) /\ Len(units) <= Len(pipe[Other(e)])
      BY <1>2, AvailableType DEF IInv
<1>4. read \in Seq(Unit) /\ Len(read) \in Nat
  <2>1. read \in Seq(Unit)
        BY <1>1, <1>3, ConcatProperties
  <2> HIDE DEF read
  <2> QED BY <2>1
<1>5. /\ Read(e, units)
      /\ pc[e] = "body"
      /\ \/ /\ Len(read) < need[e]
            /\ body' = [body EXCEPT ![e] = read]
            /\ UNCHANGED <<pc, header, need, inbound>>
         \/ /\ inbound' = [inbound EXCEPT ![e] = Append(@, Decoded(header[e] \o read))]
            /\ header' = [header EXCEPT ![e] = <<>>]
            /\ body' = [body EXCEPT ![e] = <<>>]
            /\ need' = [need EXCEPT ![e] = 0]
            /\ pc' = [pc EXCEPT ![e] = "select"]
      /\ UNCHANGED <<queued, taken, left, cut>>
      BY DEF ReadBody
<1>6. Decoded(header[e] \o read) \in Nat
  <2>1. header[e] \in Seq(Unit) /\ Len(header[e]) = Header
        BY <1>5 DEF IInv, TypeOK, StageInv
  <2> DEFINE message == header[e] \o read
  <2> HIDE DEF read
  <2>2. message \in Seq(Unit) /\ Len(message) = Header + Len(read)
        BY <2>1, <1>4, ConcatProperties
  <2> HIDE DEF message
  <2>3. 1 \in 1..Len(message)
        BY <2>2, <1>4, LoopAssumption
  <2>4. message[1] \in Unit
        BY <2>2, <2>3
  <2>5. Decoded(message) \in Nat
        BY <2>4 DEF Decoded, Unit
  <2> QED BY <2>5 DEF message
<1> HIDE DEF units, read
<1>7. pipe' \in [Ends -> Seq(Unit)] /\ \A f \in Ends : Len(pipe'[f]) <= Window
      BY <1>3, <1>5, ReadType DEF IInv
<1>8. CASE body' = [body EXCEPT ![e] = read] /\ Len(read) < need[e]
           /\ UNCHANGED <<pc, header, need, inbound>>
  <2>1. body' \in [Ends -> Seq(Unit)] /\ \A f \in Ends : Len(body'[f]) <= need[f]
        BY <1>1, <1>4, <1>8 DEF IInv, TypeOK
  <2>2. TypeOK'
        BY <2>1, <1>5, <1>7, <1>8 DEF IInv, TypeOK
  <2>3. StageInv' /\ RoomInv'
        BY <1>5, <1>8 DEF IInv, TypeOK, StageInv, RoomInv
  <2> QED BY <2>2, <2>3 DEF IInv
<1>9. CASE /\ inbound' = [inbound EXCEPT ![e] = Append(@, Decoded(header[e] \o read))]
           /\ header' = [header EXCEPT ![e] = <<>>]
           /\ body' = [body EXCEPT ![e] = <<>>]
           /\ need' = [need EXCEPT ![e] = 0]
           /\ pc' = [pc EXCEPT ![e] = "select"]
  <2>1. inbound' \in [Ends -> Seq(Nat)]
        BY <1>6, <1>9 DEF IInv, TypeOK
  <2>2. /\ header' \in [Ends -> Seq(Unit)] /\ body' \in [Ends -> Seq(Unit)]
        /\ need' \in [Ends -> Nat]
        /\ pc' \in [Ends -> {"select", "body", "write", "ended"}]
        BY <1>9 DEF IInv, TypeOK
  <2>3. \A f \in Ends : Len(header'[f]) <= Header /\ Len(body'[f]) <= need'[f]
        BY <1>9, LoopAssumption DEF IInv, TypeOK
  <2>4. TypeOK'
        BY <2>1, <2>2, <2>3, <1>5, <1>7 DEF IInv, TypeOK
  <2>5. StageInv' /\ RoomInv'
        BY <1>5, <1>9 DEF IInv, TypeOK, StageInv, RoomInv
  <2> QED BY <2>4, <2>5 DEF IInv
<1> QED BY <1>5, <1>8, <1>9

(* Writing moves units from the message to the stream, and reads nothing.  *)
LEMMA WriteMessageIInv ==
    ASSUME IInv, NEW e \in Ends, WriteMessage(e)
    PROVE  IInv'
<1>1. /\ left[e] \in Seq(Unit) /\ Len(left[e]) \in Nat /\ Len(left[e]) <= Size
      /\ pipe[e] \in Seq(Unit) /\ Len(pipe[e]) \in Nat /\ Len(pipe[e]) <= Window
      BY DEF IInv, TypeOK
<1>2. PICK n \in 1..Smaller(Len(left[e]), Room(e)) :
          /\ Write(e, SubSeq(left[e], 1, n))
          /\ left' = [left EXCEPT ![e] = SubSeq(@, n + 1, Len(@))]
          /\ pc' = [pc EXCEPT ![e] = IF n = Len(left[e]) THEN "select" ELSE "write"]
      BY DEF WriteMessage
<1>3. n \in Nat /\ n <= Len(left[e]) /\ n <= Window - Len(pipe[e])
      BY <1>1, LoopAssumption DEF Smaller, Room
<1> DEFINE units == SubSeq(left[e], 1, n)
           rest == SubSeq(left[e], n + 1, Len(left[e]))
<1>4. /\ units \in Seq(Unit) /\ Len(units) = n
      /\ rest \in Seq(Unit) /\ Len(rest) = Len(left[e]) - n
      BY <1>1, <1>3, Split
<1>5. pipe[e] \o units \in Seq(Unit) /\ Len(pipe[e] \o units) = Len(pipe[e]) + n
      BY <1>1, <1>4, ConcatProperties
<1>6. /\ pipe' = [pipe EXCEPT ![e] = pipe[e] \o units]
      /\ left' = [left EXCEPT ![e] = rest]
      BY <1>2 DEF Write
<1> HIDE DEF units, rest
<1>7. /\ pipe' \in [Ends -> Seq(Unit)] /\ left' \in [Ends -> Seq(Unit)]
      /\ pipe'[e] = pipe[e] \o units /\ left'[e] = rest
      /\ \A f \in Ends : f # e => pipe'[f] = pipe[f] /\ left'[f] = left[f]
      BY <1>4, <1>5, <1>6 DEF IInv, TypeOK
<1>8. UNCHANGED <<queued, taken, header, body, need, inbound, cut>> /\ pc[e] = "write"
      BY DEF WriteMessage
<1>9. /\ pc' \in [Ends -> {"select", "body", "write", "ended"}]
      /\ pc'[e] = IF n = Len(left[e]) THEN "select" ELSE "write"
      /\ \A f \in Ends : f # e => pc'[f] = pc[f]
      BY <1>2 DEF IInv, TypeOK
<1>10. Len(pipe'[e]) <= Window /\ Len(left'[e]) <= Size
       BY <1>1, <1>3, <1>4, <1>5, <1>7, LoopAssumption
<1>11. \A f \in Ends : Len(pipe'[f]) <= Window /\ Len(left'[f]) <= Size
  <2>1. \A f \in Ends : Len(pipe[f]) <= Window /\ Len(left[f]) <= Size
        BY DEF IInv, TypeOK
  <2> QED BY <2>1, <1>7, <1>10
<1>12. TypeOK'
       BY <1>7, <1>8, <1>9, <1>11 DEF IInv, TypeOK
<1>13. Len(pipe'[e]) + Len(left'[e]) = Len(pipe[e]) + Len(left[e])
  <2>1. ASSUME NEW p \in Nat, NEW l \in Nat, NEW k \in Nat
        PROVE  (p + k) + (l - k) = p + l
        OBVIOUS
  <2>2. Len(pipe'[e]) = Len(pipe[e]) + n /\ Len(left'[e]) = Len(left[e]) - n
        BY <1>4, <1>5, <1>7
  <2>3. (Len(pipe[e]) + n) + (Len(left[e]) - n) = Len(pipe[e]) + Len(left[e])
        BY <2>1, <1>1, <1>3
  <2> QED BY <2>2, <2>3
<1>14. \A f \in Ends : Fits(f) => Fits(f)'
       BY <1>7, <1>13 DEF Fits
<1>15. RoomInv'
       BY <1>8, <1>9, <1>14 DEF IInv, RoomInv
<1>16. StageInv'
  <2>1. body[e] = <<>>
        BY <1>8 DEF IInv, StageInv
  <2>2. pc'[e] = "write" => Len(left'[e]) > 0
        BY <1>1, <1>3, <1>4, <1>7, <1>9
  <2> QED BY <2>1, <2>2, <1>7, <1>8, <1>9 DEF IInv, StageInv
<1> QED BY <1>12, <1>15, <1>16 DEF IInv

(* An end that is gone does not write.                                     *)
LEMMA EndIInv ==
    ASSUME IInv, NEW e \in Ends, LoopFails(e) \/ NoticeEnd(e)
    PROVE  IInv'
<1>1. /\ pc' = [pc EXCEPT ![e] = "ended"]
      /\ UNCHANGED <<queued, taken, header, body, need, left, pipe, inbound, cut>>
      BY DEF LoopFails, NoticeEnd
<1>2. TypeOK'
      BY <1>1 DEF IInv, TypeOK
<1>3. StageInv' /\ RoomInv'
      BY <1>1 DEF IInv, TypeOK, StageInv, RoomInv
<1> QED BY <1>2, <1>3 DEF IInv

LEMMA NextIInv == IInv /\ [Next]_vars => IInv'
<1> SUFFICES ASSUME IInv, [Next]_vars PROVE IInv'
    OBVIOUS
<1>1. CASE UNCHANGED vars
      BY <1>1 DEF IInv, TypeOK, StageInv, RoomInv, Fits, vars, loopVars
<1>2. CASE Next
      BY <1>2, SendMessageIInv, SelectLeftIInv, SelectRightIInv, SelectPendingIInv,
         ReadBodyIInv, WriteMessageIInv, EndIInv DEF Next, Loop
<1> QED BY <1>1, <1>2

LEMMA Invariant == Spec => []IInv
  BY InitIInv, NextIInv, PTL DEF Spec

(* Every reachable state of the two loops is well typed: no buffer holds   *)
(* more than was asked for, and no direction more than its window.         *)
THEOREM TypeCorrect == Spec => []TypeOK
<1>1. IInv => TypeOK
      BY DEF IInv
<1> QED BY Invariant, <1>1, PTL

(* Two ends of a stream that holds a message never wait for each other to  *)
(* read (connection_loop), however long the header and the messages are.   *)
THEOREM NeverBothWaiting == Spec => []NeverJammed
<1>1. IInv => NeverJammed
  <2> SUFFICES ASSUME IInv, Window >= Size, Jammed PROVE FALSE
      BY DEF NeverJammed
  <2>1. PICK e \in Ends : Fits(e)
        BY DEF IInv, RoomInv, Jammed
  <2>2. Len(pipe[e]) = Window /\ Len(left[e]) > 0 /\ Len(left[e]) \in Nat
        BY DEF IInv, TypeOK, StageInv, Jammed
  <2> QED BY <2>1, <2>2, LoopAssumption DEF Fits
<1> QED BY Invariant, <1>1, PTL
=============================================================================
