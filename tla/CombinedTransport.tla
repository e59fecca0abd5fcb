------------------------- MODULE CombinedTransport -------------------------
(***************************************************************************)
(* CombinedTransport over TcpTransport and UtpTransport                    *)
(* (src/src/transport/{combined,tcp,utp}.rs).                              *)
(*                                                                         *)
(* connect(addr) pushes one connect future per protocol into that          *)
(* protocol's FuturesUnordered; dials keeps, in order, the address of each *)
(* connect() call and how far its futures have got:                        *)
(*    "new"      pushed, never polled: no packet has been sent             *)
(*    "flying"   polled once, waiting for the network                      *)
(*    "ok"       connected, not yet polled                                 *)
(*    "refused"  failed, not yet polled                                    *)
(*    "taken"    handed to the consumer as a Connection                    *)
(*    "skipped"  dropped as a double connection                            *)
(*    "failed"   handed out as an io::Error                                *)
(*    "closed"   handed to the consumer and closed since                   *)
(* FuturesUnordered takes the parent's waker at the start of every poll,   *)
(* and a future that becomes ready fires it; a push fires nothing.         *)
(*                                                                         *)
(* backlog holds what the listening sockets will return: a connection, a   *)
(* connection the remote has already reset, or an error of accept().       *)
(***************************************************************************)
EXTENDS SwarmBase

CONSTANTS
    Protocols,   \* {"tcp", "utp"}, or {"tcp"} without feature transport_utp
    Faults,      \* what may go wrong: refused dials, resets, accept errors,
                 \* and connections that close
    MaxIncoming  \* bound on the incoming connections of each protocol

ASSUME TransportAssumption ==
    /\ "tcp" \in Protocols /\ Protocols \subseteq {"tcp", "utp"}
    /\ Faults \subseteq {"refused", "reset", "accept", "close"}
    /\ MaxIncoming \in Nat

VARIABLES
    dials,      \* the connect() calls and the state of their futures
    backlog,    \* what each listener returns next
    accepted,   \* how many incoming connections each listener handed out
    connected   \* the HashSet of addresses dialled with success

transportVars == <<dials, backlog, accepted, connected>>

FutureState == {"new", "flying", "ok", "refused",
                "taken", "skipped", "failed", "closed"}
Dial == [addr : Peers, fut : [Protocols -> FutureState]]
Arrival == {"conn", "reset", "error"}

TransportTypeOK ==
    /\ dials \in Seq(Dial)
    /\ backlog \in [Protocols -> Seq(Arrival)]
    /\ accepted \in [Protocols -> Nat]
    /\ connected \subseteq Peers

TransportInit ==
    /\ dials = <<>>
    /\ backlog = [x \in Protocols |-> <<>>]
    /\ accepted = [x \in Protocols |-> 0]
    /\ connected = {}

Incoming(x) == IF x = "tcp" THEN "tcp_incoming" ELSE "utp_incoming"
Connects(x) == IF x = "tcp" THEN "tcp_connects" ELSE "utp_connects"

SetFuture(i, x, state) == dials' = [dials EXCEPT ![i].fut[x] = state]

(* The futures that a poll of FuturesUnordered would run.                  *)
Runnable(i, x) == dials[i].fut[x] \in {"new", "ok", "refused"}
-----------------------------------------------------------------------------
(* Mutated forms: uTP is forgotten; the address counts as connected as     *)
(* soon as it is dialled.                                                  *)
ConnectTcpOnly(peer) ==
    /\ dials' = Append(dials, [addr |-> peer, fut |-> [x \in {"tcp"} |-> "new"]])
    /\ UNCHANGED <<backlog, accepted, connected>>

ConnectMarks(peer) ==
    /\ dials' = Append(dials, [addr |-> peer,
                               fut |-> [x \in Protocols |-> "new"]])
    /\ connected' = connected \cup {peer}
    /\ UNCHANGED <<backlog, accepted>>

(* CombinedTransport::connect: one new future per protocol.                *)
Connect(peer) ==
    /\ dials' = Append(dials, [addr |-> peer,
                               fut |-> [x \in Protocols |-> "new"]])
    /\ UNCHANGED <<backlog, accepted, connected>>

(* The listener returns something; its next accept() has not been polled,  *)
(* so the listener keeps no waker.                                         *)
Accept(x, arrival) ==
    /\ backlog[x] # <<>>
    /\ arrival = Head(backlog[x])
    /\ backlog' = [backlog EXCEPT ![x] = Tail(@)]
    /\ accepted' = IF arrival = "conn" THEN [accepted EXCEPT ![x] = @ + 1]
                                       ELSE accepted
    /\ UNCHANGED <<dials, connected, wakerVars>>

(* Mutated form: the listener does not keep the waker.                     *)
IncomingPendingUnarmed(x) ==
    /\ backlog[x] = <<>>
    /\ UNCHANGED <<transportVars, wakerVars>>

IncomingPending(x) ==
    /\ backlog[x] = <<>>
    /\ Register(Incoming(x))
    /\ UNCHANGED transportVars

(* FuturesUnordered polls a connect future for the first time, and it      *)
(* waits for the network.                                                  *)
StartDial(i, x) ==
    /\ dials[i].fut[x] = "new"
    /\ SetFuture(i, x, "flying")
    /\ Register(Connects(x))
    /\ UNCHANGED <<backlog, accepted, connected>>

(* Mutated form: the address is not remembered.                            *)
TakeDialForgets(i, x) ==
    /\ dials[i].fut[x] = "ok"
    /\ dials[i].addr \notin connected
    /\ SetFuture(i, x, "taken")
    /\ Register(Connects(x))
    /\ UNCHANGED <<backlog, accepted, connected>>

(* An established outgoing connection is handed out if none has been to    *)
(* this address, over either protocol, and dropped otherwise.              *)
TakeDial(i, x) ==
    /\ dials[i].fut[x] = "ok"
    /\ dials[i].addr \notin connected
    /\ connected' = connected \cup {dials[i].addr}
    /\ SetFuture(i, x, "taken")
    /\ Register(Connects(x))
    /\ UNCHANGED <<backlog, accepted>>

SkipDial(i, x) ==
    /\ dials[i].fut[x] = "ok"
    /\ dials[i].addr \in connected
    /\ SetFuture(i, x, "skipped")
    /\ Register(Connects(x))
    /\ UNCHANGED <<backlog, accepted, connected>>

(* A connect future ends with an error, perhaps at its first poll.         *)
FailDial(i, x) ==
    /\ \/ dials[i].fut[x] = "refused"
       \/ dials[i].fut[x] = "new" /\ "refused" \in Faults
    /\ SetFuture(i, x, "failed")
    /\ Register(Connects(x))
    /\ UNCHANGED <<backlog, accepted, connected>>

(* tcp::into_connection unwraps peer_addr(), which fails if the remote     *)
(* resets the connection after the future has checked it for errors.  Only *)
(* TCP asks the socket for its peer address.                               *)
ResetDial(i, x) ==
    /\ x = "tcp"
    /\ "reset" \in Faults
    /\ dials[i].fut[x] = "ok"
    /\ UNCHANGED <<transportVars, wakerVars>>

(* No future is runnable: Pending, or Ready(None) when there are none.     *)
ConnectsPending(x) ==
    /\ \A i \in DOMAIN dials : ~Runnable(i, x)
    /\ Register(Connects(x))
    /\ UNCHANGED transportVars
-----------------------------------------------------------------------------
(* The environment: the network answers a dial, or brings a connection,    *)
(* and an established connection closes.  A TCP connection that the remote *)
(* resets while it waits in the backlog is still returned by accept().     *)
Answer(i, x, state) ==
    /\ dials[i].fut[x] = "flying"
    /\ \/ state = "ok"
       \/ state = "refused" /\ "refused" \in Faults
    /\ SetFuture(i, x, state)
    /\ Fire(Connects(x))
    /\ UNCHANGED <<backlog, accepted, connected>>

Arrive(x, arrival) ==
    /\ accepted[x] + Len(backlog[x]) < MaxIncoming
    /\ \/ arrival = "conn"
       \/ arrival = "reset" /\ "reset" \in Faults /\ x = "tcp"
       \/ arrival = "error" /\ "accept" \in Faults
    /\ backlog' = [backlog EXCEPT ![x] = Append(@, arrival)]
    /\ Fire(Incoming(x))
    /\ UNCHANGED <<dials, accepted, connected>>

Close(i, x) ==
    /\ "close" \in Faults
    /\ dials[i].fut[x] = "taken"
    /\ SetFuture(i, x, "closed")
    /\ UNCHANGED <<backlog, accepted, connected, wakerVars>>
=============================================================================
