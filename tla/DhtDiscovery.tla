---------------------------- MODULE DhtDiscovery ----------------------------
(***************************************************************************)
(* DhtDiscovery (src/src/discovery/dht.rs): commands wait in               *)
(* pending_commands until the DHT has bootstrapped, and the peers of a     *)
(* LookupResult wait in pending_events until poll_next hands them out, one *)
(* per call.  Each iteration of the loop of poll_next is one action.       *)
(*                                                                         *)
(* HyperDht itself is another crate; it is modelled as the code uses it: a *)
(* sink of lookup and announce queries and a stream of events.             *)
(***************************************************************************)
EXTENDS SwarmBase

CONSTANTS
    Topics,    \* the 32-byte topic keys
    Answers    \* the lists of remotes that a lookup can return

ASSUME AnswersAssumption == Answers \subseteq Seq(Peers)

VARIABLES
    bootstrapped,      \* the Bootstrapped event has been seen
    pending_commands,  \* VecDeque<Command>
    pending_events,    \* VecDeque<PeerInfo>, each by its address
    issued,            \* queries handed to HyperDht so far, per command
    answered,          \* queries HyperDht has finished so far, per command
    dht_events         \* events HyperDht has ready to be polled

dhtVars == <<bootstrapped, pending_commands, pending_events,
             issued, answered, dht_events>>

Command == [kind : {"Announce", "Lookup"}, topic : Topics]
Announce(t) == [kind |-> "Announce", topic |-> t]
Lookup(t)   == [kind |-> "Lookup", topic |-> t]

DhtEvent == [kind : {"Bootstrapped", "LookupResult", "AnnounceResult"},
             remotes : Seq(Peers)]

DhtTypeOK ==
    /\ bootstrapped \in BOOLEAN
    /\ pending_commands \in Seq(Command)
    /\ pending_events \in Seq(Peers)
    /\ issued \in [Command -> Nat]
    /\ answered \in [Command -> Nat]
    /\ dht_events \in Seq(DhtEvent)

DhtInit ==
    /\ bootstrapped = FALSE
    /\ pending_commands = <<>>
    /\ pending_events = <<>>
    /\ issued = [c \in Command |-> 0]
    /\ answered = [c \in Command |-> 0]
    /\ dht_events = <<>>
-----------------------------------------------------------------------------
(* Mutated form: before the bootstrap a command has nowhere to go.         *)
DhtSubmitUnqueued(cmds) ==
    /\ pending_commands' = IF bootstrapped THEN pending_commands \o cmds
                                           ELSE pending_commands
    /\ UNCHANGED <<bootstrapped, pending_events, issued, answered, dht_events>>

(* lookup() and announce(): queue the commands, in order.  No waker fires. *)
DhtSubmit(cmds) ==
    /\ pending_commands' = pending_commands \o cmds
    /\ UNCHANGED <<bootstrapped, pending_events, issued, answered, dht_events>>

(* Mutated form: one peer per lookup goes out.                             *)
DhtReadyFirstOnly(peer) ==
    /\ pending_events # <<>>
    /\ peer = Head(pending_events)
    /\ pending_events' = <<>>
    /\ UNCHANGED <<bootstrapped, pending_commands, issued, answered, dht_events>>

(* A waiting peer goes out before anything else is looked at: neither the  *)
(* pending commands nor HyperDht are touched by this call.                 *)
DhtReady(peer) ==
    /\ pending_events # <<>>
    /\ peer = Head(pending_events)
    /\ pending_events' = Tail(pending_events)
    /\ UNCHANGED <<bootstrapped, pending_commands, issued, answered, dht_events>>

(* One turn of execute_pending_commands.                                   *)
DhtExecute ==
    /\ pending_events = <<>>
    /\ bootstrapped
    /\ pending_commands # <<>>
    /\ pending_commands' = Tail(pending_commands)
    /\ issued' = [issued EXCEPT ![Head(pending_commands)] = @ + 1]
    /\ UNCHANGED <<bootstrapped, pending_events, answered, dht_events>>

(* The loop reaches HyperDht::poll_next when nothing is left before it.    *)
ReachesHyperDht ==
    /\ pending_events = <<>>
    /\ bootstrapped => pending_commands = <<>>

(* HyperDht had an event: remember it and go round the loop again.  Only a *)
(* LookupResult has remotes.                                               *)
DhtHandleEvent ==
    /\ ReachesHyperDht
    /\ dht_events # <<>>
    /\ LET event == Head(dht_events) IN
       /\ bootstrapped' = (bootstrapped \/ event.kind = "Bootstrapped")
       /\ pending_events' = pending_events \o event.remotes
    /\ dht_events' = Tail(dht_events)
    /\ UNCHANGED <<pending_commands, issued, answered>>

(* HyperDht had none: the whole poll is Pending.                           *)
DhtPending ==
    /\ ReachesHyperDht
    /\ dht_events = <<>>
    /\ Register("dht")
    /\ UNCHANGED dhtVars
-----------------------------------------------------------------------------
(* The environment: HyperDht announces that it has bootstrapped, once, and *)
(* finishes the queries it was given, in any order.                        *)
Emit(event) ==
    /\ dht_events' = Append(dht_events, event)
    /\ Fire("dht")
    /\ UNCHANGED <<bootstrapped, pending_commands, pending_events, issued>>

DhtBootstraps ==
    /\ ~bootstrapped
    /\ \A i \in DOMAIN dht_events : dht_events[i].kind # "Bootstrapped"
    /\ Emit([kind |-> "Bootstrapped", remotes |-> <<>>])
    /\ UNCHANGED answered

DhtAnswers(c) ==
    /\ answered[c] < issued[c]
    /\ answered' = [answered EXCEPT ![c] = @ + 1]
    /\ \/ /\ c.kind = "Announce"
          /\ Emit([kind |-> "AnnounceResult", remotes |-> <<>>])
       \/ /\ c.kind = "Lookup"
          /\ \E remotes \in Answers :
                Emit([kind |-> "LookupResult", remotes |-> remotes])
=============================================================================
