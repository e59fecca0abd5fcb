--------------------------- MODULE ConnectionLoop ---------------------------
(***************************************************************************)
(* connection_loop of examples/hyperchat.rs, run by the two ends of one    *)
(* HyperswarmStream.  Each end selects between the next header and the     *)
(* next outgoing message; a header is followed by reading the body, and a  *)
(* message by writing it out.  The stream carries units (bytes) in order,  *)
(* and holds so many of them per direction that nobody has read yet.       *)
(*                                                                         *)
(* select drops the future that lost.  The future of read_exact takes what *)
(* units it has read with it, and the other end's messages are then out of *)
(* step: what is read as a header is no header, and its length anything.   *)
(***************************************************************************)
EXTENDS Naturals, Sequences

CONSTANTS
    Header,       \* units of a header
    Size,         \* units of a message, its header included
    Window,       \* units in flight per direction before a write must wait
    MaxMessages,  \* bound on the messages each end sends
    MaxGarbled    \* bound on the length that a garbled header may give

ASSUME LoopAssumption ==
    /\ Header \in Nat \ {0}
    /\ Size \in Nat /\ Size > Header
    /\ Window \in Nat \ {0}
    /\ MaxMessages \in Nat
    /\ MaxGarbled \in Nat

Ends == {"a", "b"}
Other(e) == IF e = "a" THEN "b" ELSE "a"

VARIABLES
    queued,    \* how many messages were sent to outbound_tx at each end
    taken,     \* how many of them the loop has received from outbound_rx
    pc,        \* the await at which the loop of each end is
    header,    \* what the read_exact of len_buf has read
    body,      \* what the read_exact of buf has read
    need,      \* the length of buf
    left,      \* what write_all has yet to write
    pipe,      \* the units of each end that the other has not read
    inbound,   \* the messages given to inbound_tx; 0 is garbage
    cut        \* history: a read_exact that had read something was dropped

loopVars == <<queued, taken, pc, header, body, need, left, inbound, cut>>
vars == <<loopVars, pipe>>

Unit == Nat \X Nat

(* Message i on the wire.                                                  *)
Encode(i) == [k \in 1..Size |-> <<i, k>>]

HeaderOf(i) == SubSeq(Encode(i), 1, Header)

TypeOK ==
    /\ queued \in [Ends -> Nat]
    /\ taken \in [Ends -> Nat]
    /\ pc \in [Ends -> {"select", "body", "write", "ended"}]
    /\ header \in [Ends -> Seq(Unit)]
    /\ body \in [Ends -> Seq(Unit)]
    /\ need \in [Ends -> Nat]
    /\ left \in [Ends -> Seq(Unit)]
    /\ pipe \in [Ends -> Seq(Unit)]
    /\ inbound \in [Ends -> Seq(Nat)]
    /\ cut \in [Ends -> BOOLEAN]
    /\ \A e \in Ends : /\ Len(header[e]) <= Header
                       /\ Len(body[e]) <= need[e]
                       /\ Len(left[e]) <= Size
                       /\ Len(pipe[e]) <= Window
                       /\ taken[e] <= queued[e]

Init ==
    /\ queued = [e \in Ends |-> 0]
    /\ taken = [e \in Ends |-> 0]
    /\ pc = [e \in Ends |-> "select"]
    /\ header = [e \in Ends |-> <<>>]
    /\ body = [e \in Ends |-> <<>>]
    /\ need = [e \in Ends |-> 0]
    /\ left = [e \in Ends |-> <<>>]
    /\ pipe = [e \in Ends |-> <<>>]
    /\ inbound = [e \in Ends |-> <<>>]
    /\ cut = [e \in Ends |-> FALSE]
-----------------------------------------------------------------------------
Smaller(m, n) == IF m < n THEN m ELSE n

(* A poll of read_exact takes what is there, up to wanted units.           *)
Available(e, wanted) ==
    SubSeq(pipe[Other(e)], 1, Smaller(wanted, Len(pipe[Other(e)])))

Read(e, units) ==
    pipe' = [pipe EXCEPT ![Other(e)] = SubSeq(@, Len(units) + 1, Len(@))]

(* A poll of write takes as many units as there is room for.               *)
Room(e) == Window - Len(pipe[e])

Write(e, units) == pipe' = [pipe EXCEPT ![e] = @ \o units]

(* What the header's future has read once select has polled it.            *)
Polled(e) == header[e] \o Available(e, Header - Len(header[e]))

(* The length in a header; that of a garbled one is anything.              *)
Lengths(h, i) == IF h = HeaderOf(i) THEN {Size - Header} ELSE 0..MaxGarbled

(* The application sends a message to outbound_tx.                         *)
SendMessage(e) ==
    /\ queued[e] < MaxMessages
    /\ queued' = [queued EXCEPT ![e] = @ + 1]
    /\ UNCHANGED <<taken, pc, header, body, need, left, pipe, inbound, cut>>

(* select polls the header first.  It is complete: the body is read next.  *)
SelectLeft(e) ==
    /\ pc[e] = "select"
    /\ Len(Polled(e)) = Header
    /\ Read(e, Available(e, Header - Len(header[e])))
    /\ header' = [header EXCEPT ![e] = Polled(e)]
    /\ \E n \in Lengths(Polled(e), Polled(e)[1][1]) : need' = [need EXCEPT ![e] = n]
    /\ pc' = [pc EXCEPT ![e] = "body"]
    /\ UNCHANGED <<queued, taken, body, left, inbound, cut>>

(* Mutated form: the outgoing message is polled first.                     *)
SelectRightFirst(e) ==
    /\ pc[e] = "select"
    /\ taken[e] < queued[e]
    /\ header' = [header EXCEPT ![e] = <<>>]
    /\ cut' = [cut EXCEPT ![e] = @ \/ header[e] # <<>>]
    /\ taken' = [taken EXCEPT ![e] = @ + 1]
    /\ left' = [left EXCEPT ![e] = Encode(taken[e] + 1)]
    /\ pc' = [pc EXCEPT ![e] = "write"]
    /\ UNCHANGED <<queued, body, need, pipe, inbound>>

(* The header is not complete, and a message waits to be sent: the future  *)
(* of the header is dropped with what it has read.                         *)
SelectRight(e) ==
    /\ pc[e] = "select"
    /\ Len(Polled(e)) < Header
    /\ taken[e] < queued[e]
    /\ Read(e, Available(e, Header - Len(header[e])))
    /\ header' = [header EXCEPT ![e] = <<>>]
    /\ cut' = [cut EXCEPT ![e] = @ \/ Polled(e) # <<>>]
    /\ taken' = [taken EXCEPT ![e] = @ + 1]
    /\ left' = [left EXCEPT ![e] = Encode(taken[e] + 1)]
    /\ pc' = [pc EXCEPT ![e] = "write"]
    /\ UNCHANGED <<queued, body, need, inbound>>

(* Mutated form: each poll makes a new future of the header.               *)
SelectPendingAfresh(e) ==
    /\ pc[e] = "select"
    /\ Len(Polled(e)) < Header
    /\ taken[e] = queued[e]
    /\ Available(e, Header - Len(header[e])) # <<>>
    /\ Read(e, Available(e, Header - Len(header[e])))
    /\ header' = [header EXCEPT ![e] = <<>>]
    /\ UNCHANGED <<queued, taken, pc, body, need, left, inbound, cut>>

(* Neither is ready; the same futures are polled again later.              *)
SelectPending(e) ==
    /\ pc[e] = "select"
    /\ Len(Polled(e)) < Header
    /\ taken[e] = queued[e]
    /\ Available(e, Header - Len(header[e])) # <<>>
    /\ Read(e, Available(e, Header - Len(header[e])))
    /\ header' = [header EXCEPT ![e] = Polled(e)]
    /\ UNCHANGED <<queued, taken, pc, body, need, left, inbound, cut>>

(* The message that was read, if it is one.                                *)
Decoded(units) == IF units = Encode(units[1][1]) THEN units[1][1] ELSE 0

(* Mutated form: the buffer of the body is used again as it is.            *)
ReadBodyIntoOld(e) ==
    LET units == Available(e, need[e] - Len(body[e]))
        read == body[e] \o units
    IN
    /\ pc[e] = "body"
    /\ Len(read) = need[e]
    /\ Read(e, units)
    /\ inbound' = [inbound EXCEPT ![e] = Append(@, Decoded(header[e] \o read))]
    /\ body' = [body EXCEPT ![e] = read]
    /\ header' = [header EXCEPT ![e] = <<>>]
    /\ need' = [need EXCEPT ![e] = 0]
    /\ pc' = [pc EXCEPT ![e] = "select"]
    /\ UNCHANGED <<queued, taken, left, cut>>

(* The body is read to its end, and the message passed on.                 *)
ReadBody(e) ==
    LET units == Available(e, need[e] - Len(body[e]))
        read == body[e] \o units
    IN
    /\ pc[e] = "body"
    /\ Read(e, units)
    /\ \/ /\ Len(read) < need[e]
          /\ units # <<>>
          /\ body' = [body EXCEPT ![e] = read]
          /\ UNCHANGED <<pc, header, need, inbound>>
       \/ /\ Len(read) = need[e]
          /\ inbound' = [inbound EXCEPT ![e] = Append(@, Decoded(header[e] \o read))]
          /\ header' = [header EXCEPT ![e] = <<>>]
          /\ body' = [body EXCEPT ![e] = <<>>]
          /\ need' = [need EXCEPT ![e] = 0]
          /\ pc' = [pc EXCEPT ![e] = "select"]
    /\ UNCHANGED <<queued, taken, left, cut>>

(* write_all writes what the stream takes, until it has written all.       *)
WriteMessage(e) ==
    /\ pc[e] = "write"
    /\ \E n \in 1..Smaller(Len(left[e]), Room(e)) :
          /\ Write(e, SubSeq(left[e], 1, n))
          /\ left' = [left EXCEPT ![e] = SubSeq(@, n + 1, Len(@))]
          /\ pc' = [pc EXCEPT ![e] = IF n = Len(left[e]) THEN "select" ELSE "write"]
    /\ UNCHANGED <<queued, taken, header, body, need, inbound, cut>>

(* The loop returns an error and drops the stream, because the stream is   *)
(* broken or the peer has been removed, which closes outbound_rx.          *)
LoopFails(e) ==
    /\ pc[e] # "ended"
    /\ pc' = [pc EXCEPT ![e] = "ended"]
    /\ UNCHANGED <<queued, taken, header, body, need, left, pipe, inbound, cut>>

(* Mutated form: the end of the stream is noticed by select only.          *)
NoticeEndInSelect(e) ==
    /\ pc[Other(e)] = "ended"
    /\ pc[e] = "select" /\ pipe[Other(e)] = <<>>
    /\ pc' = [pc EXCEPT ![e] = "ended"]
    /\ UNCHANGED <<queued, taken, header, body, need, left, pipe, inbound, cut>>

(* The other end has dropped the stream: a read that finds nothing more,   *)
(* or a write, returns an error.                                           *)
NoticeEnd(e) ==
    /\ pc[Other(e)] = "ended"
    /\ \/ pc[e] \in {"select", "body"} /\ pipe[Other(e)] = <<>>
       \/ pc[e] = "write"
    /\ pc' = [pc EXCEPT ![e] = "ended"]
    /\ UNCHANGED <<queued, taken, header, body, need, left, pipe, inbound, cut>>

Loop(e) ==
    \/ SelectLeft(e)
    \/ SelectRight(e)
    \/ SelectPending(e)
    \/ ReadBody(e)
    \/ WriteMessage(e)
    \/ NoticeEnd(e)

Next == \E e \in Ends : SendMessage(e) \/ Loop(e) \/ LoopFails(e)

Spec == Init /\ [][Next]_vars

(* A loop whose future can go on is polled: the stream and the channel     *)
(* wake its task.  Nobody has to send a message or to fail.                *)
FairSpec == Spec /\ \A e \in Ends : WF_vars(Loop(e))
-----------------------------------------------------------------------------
(* An end that never dropped a half-read header has received the other's   *)
(* messages, all and in order, up to some point: nothing else can make the *)
(* loop lose its place in the stream.                                      *)
InOrderUnlessCut ==
    \A e \in Ends : ~cut[e] =>
        /\ Len(inbound[e]) <= taken[Other(e)]
        /\ \A k \in DOMAIN inbound[e] : inbound[e][k] = k

(* Both ends wait for the other to read, and read nothing while they do.   *)
Jammed ==
    \A e \in Ends : pc[e] = "write" /\ Len(pipe[e]) = Window

(* Though an end does not read while it writes, the two never wait for     *)
(* each other: select polls the stream first, so the end that began to     *)
(* write last had emptied it.  Holds if a message fits into the window.    *)
NeverJammed == Window >= Size => ~Jammed

(* When one end is gone, the loop of the other ends, too, wherever it was; *)
(* only then is the peer removed.                                          *)
EndIsNoticed ==
    \A e \in Ends : pc[e] = "ended" ~> pc[Other(e)] = "ended"

(* While no end fails or drops a half-read header, each message arrives.   *)
Clean == \A e \in Ends : ~cut[e] /\ pc[e] # "ended"
CleanRunDelivers ==
    []Clean => \A e \in Ends, k \in 1..MaxMessages :
                   queued[e] >= k ~> Len(inbound[Other(e)]) >= k
=============================================================================
