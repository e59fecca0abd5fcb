--------------------------- MODULE HyperBroadcast ---------------------------
(***************************************************************************)
(* HyperBroadcast of examples/hyperchat.rs: an application of the crate.   *)
(* The run task takes connections from the swarm, spawns a connection_loop *)
(* for each and then enters its Peer in a list behind an async Mutex.      *)
(* The reader of stdin sends each line to every listed peer, holding the   *)
(* lock; the task of a connection that failed takes the lock to remove     *)
(* whatever has its id.  A Peer owns the only sender of its connection's   *)
(* channel, so a connection that is removed has nobody left to send to it. *)
(*                                                                         *)
(* What a connection_loop does with its stream is ConnectionLoop; here it  *)
(* is at its select, or busy with its stream (it reads a body or writes a  *)
(* message), until it fails.  Only the select looks at the channel.        *)
(***************************************************************************)
EXTENDS Naturals, Sequences

CONSTANTS
    Conns,     \* the connections that the swarm hands out
    Ids,       \* what Peer::id returns: a protocol and a remote address
    IdOf,      \* the id of each connection
    MaxLines   \* bound on the lines that are typed

ASSUME BroadcastAssumption == /\ IdOf \in [Conns -> Ids]
                              /\ MaxLines \in Nat

VARIABLES
    alive,     \* the process; it ends with the run task
    pushing,   \* the connection that run has spawned and not yet listed
    peers,     \* Vec<Peer>
    task,      \* where the task of each connection_loop is
    outbox,    \* its channel; 0 is the initial message, n the n-th line
    sent,      \* what it has taken off its channel to write
    line,      \* the lines typed so far
    at,        \* where the broadcast of the last one is; 0: it is over
    since      \* history: the lines typed before the connection was listed

vars == <<alive, pushing, peers, task, outbox, sent, line, at, since>>

(* The connection_loop of c has not returned.                              *)
Running(c) == task[c] \in {"select", "busy"}

Listed == {peers[i] : i \in DOMAIN peers}

TypeOK ==
    /\ alive \in BOOLEAN
    /\ pushing \subseteq Conns
    /\ peers \in Seq(Conns)
    /\ task \in [Conns -> {"none", "select", "busy", "failed", "done"}]
    /\ outbox \in [Conns -> Seq(0..MaxLines)]
    /\ sent \in [Conns -> Seq(0..MaxLines)]
    /\ line \in 0..MaxLines
    /\ since \in [Conns -> 0..MaxLines]
    /\ at \in 0..(Len(peers) + 1)

Init ==
    /\ alive = TRUE
    /\ pushing = {}
    /\ peers = <<>>
    /\ task = [c \in Conns |-> "none"]
    /\ outbox = [c \in Conns |-> <<>>]
    /\ sent = [c \in Conns |-> <<>>]
    /\ line = 0
    /\ at = 0
    /\ since = [c \in Conns |-> 0]
-----------------------------------------------------------------------------
(* The broadcast keeps the lock from its first peer to its last.           *)
LockFree == at = 0

(* run takes the next connection, queues the initial message and spawns    *)
(* the loop, which may run before anything else happens here.              *)
TakeConnection(c) ==
    /\ alive
    /\ pushing = {}
    /\ task[c] = "none"
    /\ task' = [task EXCEPT ![c] = "select"]
    /\ outbox' = [outbox EXCEPT ![c] = <<0>>]
    /\ pushing' = {c}
    /\ UNCHANGED <<alive, peers, sent, line, at, since>>

(* Mutated form: the list has one entry per id.                            *)
PushPeerById(c) ==
    /\ alive
    /\ c \in pushing
    /\ LockFree
    /\ peers' = Append(SelectSeq(peers, LAMBDA p : IdOf[p] # IdOf[c]), c)
    /\ since' = [since EXCEPT ![c] = line]
    /\ pushing' = {}
    /\ UNCHANGED <<alive, task, outbox, sent, line, at>>

PushPeer(c) ==
    /\ alive
    /\ c \in pushing
    /\ LockFree
    /\ peers' = Append(peers, c)
    /\ since' = [since EXCEPT ![c] = line]
    /\ pushing' = {}
    /\ UNCHANGED <<alive, task, outbox, sent, line, at>>

(* The swarm yields an error, which run passes on, or ends: main returns,  *)
(* and the process takes its tasks, its list and its channels with it.     *)
RunEnds ==
    /\ alive
    /\ pushing = {}
    /\ alive' = FALSE
    /\ peers' = <<>>
    /\ task' = [c \in Conns |-> "none"]
    /\ outbox' = [c \in Conns |-> <<>>]
    /\ at' = 0
    /\ UNCHANGED <<pushing, sent, line, since>>
-----------------------------------------------------------------------------
(* A line is typed, and broadcast locks the list.                          *)
Broadcast ==
    /\ alive
    /\ LockFree
    /\ line < MaxLines
    /\ line' = line + 1
    /\ at' = 1
    /\ UNCHANGED <<alive, pushing, peers, task, outbox, sent, since>>

(* Mutated form: the first error ends the broadcast.                       *)
SendToPeerOrReturn ==
    /\ alive
    /\ at \in DOMAIN peers
    /\ IF Running(peers[at])
       THEN /\ outbox' = [outbox EXCEPT ![peers[at]] = Append(@, line)]
            /\ at' = at + 1
       ELSE at' = 0 /\ UNCHANGED outbox
    /\ UNCHANGED <<alive, pushing, peers, task, sent, line, since>>

(* One turn of the loop of broadcast.  The error of a channel whose        *)
(* receiver is gone is logged.                                             *)
SendToPeer ==
    /\ alive
    /\ at \in DOMAIN peers
    /\ outbox' = IF Running(peers[at])
                 THEN [outbox EXCEPT ![peers[at]] = Append(@, line)]
                 ELSE outbox
    /\ at' = at + 1
    /\ UNCHANGED <<alive, pushing, peers, task, sent, line, since>>

BroadcastDone ==
    /\ alive
    /\ at > Len(peers)
    /\ at' = 0
    /\ UNCHANGED <<alive, pushing, peers, task, outbox, sent, line, since>>
-----------------------------------------------------------------------------
(* select finds a header, which it looks for first: the loop goes on with  *)
(* the body.                                                               *)
ReadHeader(c) ==
    /\ alive
    /\ task[c] = "select"
    /\ task' = [task EXCEPT ![c] = "busy"]
    /\ UNCHANGED <<alive, pushing, peers, outbox, sent, line, at, since>>

(* select finds a message on the channel: the loop goes on to write it.    *)
TakeMessage(c) ==
    /\ alive
    /\ task[c] = "select"
    /\ outbox[c] # <<>>
    /\ task' = [task EXCEPT ![c] = "busy"]
    /\ sent' = [sent EXCEPT ![c] = Append(@, Head(outbox[c]))]
    /\ outbox' = [outbox EXCEPT ![c] = Tail(@)]
    /\ UNCHANGED <<alive, pushing, peers, line, at, since>>

(* The whole body has come, or the whole message has gone.                 *)
StreamDone(c) ==
    /\ alive
    /\ task[c] = "busy"
    /\ task' = [task EXCEPT ![c] = "select"]
    /\ UNCHANGED <<alive, pushing, peers, outbox, sent, line, at, since>>

(* The loop returns an error: its receiver is dropped, and what it held.   *)
Return(c) ==
    /\ task' = [task EXCEPT ![c] = "failed"]
    /\ outbox' = [outbox EXCEPT ![c] = <<>>]
    /\ UNCHANGED <<alive, pushing, peers, sent, line, at, since>>

StreamFails(c) ==
    /\ alive
    /\ Running(c)
    /\ Return(c)

(* Mutated form: a closed channel is taken for an empty one.               *)
ChannelClosedIgnored(c) ==
    /\ alive
    /\ task[c] = "select"
    /\ outbox[c] = <<>>
    /\ c \notin Listed \cup pushing
    /\ UNCHANGED vars

(* Its Peer was removed, and the channel is empty: select finds that the   *)
(* channel is closed.                                                      *)
ChannelClosed(c) ==
    /\ alive
    /\ task[c] = "select"
    /\ outbox[c] = <<>>
    /\ c \notin Listed \cup pushing
    /\ Return(c)

(* Vec::retain: the peers that have another id stay, in their order.       *)
Retain(id) ==
    LET kept == {i \in DOMAIN peers : IdOf[peers[i]] # id} IN
    \E n \in 0..Len(peers) : \E f \in [1..n -> kept] :
        /\ \A j, k \in 1..n : j < k => f[j] < f[k]
        /\ kept = {f[k] : k \in 1..n}
        /\ peers' = [k \in 1..n |-> peers[f[k]]]

(* Mutated form: the list is not locked for the whole of a broadcast.      *)
RemovePeersUnlocked(c) ==
    /\ alive
    /\ task[c] = "failed"
    /\ Retain(IdOf[c])
    /\ task' = [task EXCEPT ![c] = "done"]
    /\ UNCHANGED <<alive, pushing, outbox, sent, line, at, since>>

(* Mutated form: the first peer with the id is removed.                    *)
RemoveFirstPeer(c) ==
    LET same == {i \in DOMAIN peers : IdOf[peers[i]] = IdOf[c]} IN
    /\ alive
    /\ task[c] = "failed"
    /\ LockFree
    /\ peers' = IF same = {} THEN peers
                ELSE LET i == CHOOSE i \in same : \A j \in same : i <= j IN
                     SubSeq(peers, 1, i - 1) \o SubSeq(peers, i + 1, Len(peers))
    /\ task' = [task EXCEPT ![c] = "done"]
    /\ UNCHANGED <<alive, pushing, outbox, sent, line, at, since>>

(* The task locks the list and keeps the peers that have another id.       *)
RemovePeers(c) ==
    /\ alive
    /\ task[c] = "failed"
    /\ LockFree
    /\ Retain(IdOf[c])
    /\ task' = [task EXCEPT ![c] = "done"]
    /\ UNCHANGED <<alive, pushing, outbox, sent, line, at, since>>

Stdin == SendToPeer \/ BroadcastDone
Channel(c) == TakeMessage(c) \/ ChannelClosed(c)
Stream(c) == ReadHeader(c) \/ StreamDone(c) \/ StreamFails(c)

Next ==
    \/ RunEnds
    \/ Broadcast
    \/ Stdin
    \/ \E c \in Conns : \/ TakeConnection(c)
                        \/ PushPeer(c)
                        \/ Channel(c)
                        \/ Stream(c)
                        \/ RemovePeers(c)

Spec == Init /\ [][Next]_vars

(***************************************************************************)
(* The reader of stdin, run and the removals go on when they can, and get  *)
(* the lock in the end: the lines are bounded, so weak fairness says what  *)
(* the Mutex of async_std ensures.  Nothing is assumed of a                *)
(* connection_loop, which depends on its remote.  No connection, line or   *)
(* failure has to come.                                                    *)
(***************************************************************************)
FairSpec ==
    /\ Spec
    /\ WF_vars(Stdin)
    /\ \A c \in Conns : /\ WF_vars(PushPeer(c))
                        /\ WF_vars(RemovePeers(c))
-----------------------------------------------------------------------------
(* The lines that the broadcasts have reached peers[i] with.               *)
Reached(i) == IF at # 0 /\ at <= i THEN line - 1 ELSE line

(* The initial message, and the lines typed after the connection was       *)
(* listed, up to the n-th.                                                 *)
Due(c, n) == <<0>> \o [k \in 1..(n - since[c]) |-> since[c] + k]

(* A listed connection that runs has been sent the initial message first   *)
(* and then every line typed since it was listed, once and in order,       *)
(* whichever peers come and go between the lines or fail during one        *)
(* (broadcast, and the removal in run).                                    *)
NoLineMissed ==
    \A i \in DOMAIN peers :
        Running(peers[i]) =>
            sent[peers[i]] \o outbox[peers[i]] = Due(peers[i], Reached(i))

(* A connection that runs is cut off from the broadcasts only because      *)
(* another with its id failed (retain in run, which goes by id).           *)
CutOffByNamesake ==
    \A c \in Conns :
        Running(c) /\ c \notin Listed \cup pushing =>
            \E d \in Conns \ {c} : IdOf[d] = IdOf[c] /\ task[d] = "done"

Ghost(c) == task[c] = "done" /\ c \in Listed

(* A connection that is gone and still listed was listed after its task    *)
(* had tried to remove it: the removal itself overlooks nobody.            *)
GhostsOnlyByPush ==
    [][\A c \in Conns : Ghost(c)' => Ghost(c) \/ c \in pushing]_vars

(* The loop of c gets back to its select each time, and headers do not     *)
(* come before the channel for ever.  connection_loop ensures neither: it  *)
(* is up to the remote.                                                    *)
Served(c) == []<>(task[c] # "busy") /\ SF_vars(Channel(c))

(* The last line that is typed while a connection is listed is written to  *)
(* its stream, and with it those before (NoLineMissed), unless that or the *)
(* process ends first, provided that the remote lets the loop get to its   *)
(* channel (broadcast).                                                    *)
LinesArrive ==
    \A c \in Conns :
        Served(c) =>
            ((c \in Listed /\ since[c] < line)
                ~> \/ /\ line \in {sent[c][k] : k \in DOMAIN sent[c]}
                      /\ task[c] = "select"
                   \/ ~Running(c) \/ ~alive)

(* A connection that is cut off ends and is removed, provided that the     *)
(* remote lets the loop get to its channel: it does not stay open beside   *)
(* the application (connection_loop returns when its channel is closed).   *)
CutOffEnds ==
    \A c \in Conns :
        Served(c) =>
            ((Running(c) /\ c \notin Listed \cup pushing)
                ~> (task[c] = "done" \/ ~alive))

(* "On error in peer connection, remove from active peers." (hyperchat.rs) *)
FailedIsRemoved == \A c \in Conns : ~Ghost(c)
=============================================================================
