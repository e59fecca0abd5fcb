----------------------------- MODULE SwarmBase -----------------------------
(***************************************************************************)
(* What the components share: the addresses of other peers, and the        *)
(* wake-up contract between one async task and the sources that its        *)
(* poll_next reads.  The executor and the futures crates are not under     *)
(* src/; what is modelled here is the contract every poll_next in src/     *)
(* relies on: a source that answers Poll::Pending keeps the task's waker,  *)
(* and fires it once when it next has something to say.  A source that     *)
(* answered Poll::Ready keeps no waker.                                    *)
(***************************************************************************)
EXTENDS Naturals, Sequences

CONSTANTS
    Peers   \* the socket addresses that can be discovered and dialled

(* One entry per stream or queue that Hyperswarm::poll_next polls.         *)
Sources == {"command", "dht", "mdns_commands", "locator",
            "tcp_incoming", "tcp_connects", "utp_incoming", "utp_connects"}

VARIABLES
    woken,   \* the task has been scheduled for another poll
    wakers   \* the sources that hold the task's waker

wakerVars == <<woken, wakers>>

WakerTypeOK == /\ woken \in BOOLEAN
               /\ wakers \subseteq Sources

WakerInit == /\ woken = FALSE
             /\ wakers = {}

(* Source s answered Pending: it now holds the task's waker.               *)
Register(s) == /\ wakers' = wakers \cup {s}
               /\ UNCHANGED woken

(* Source s has news: it fires the waker it holds, if it holds one.        *)
Fire(s) == /\ woken' = (woken \/ s \in wakers)
           /\ wakers' = wakers \ {s}
=============================================================================
