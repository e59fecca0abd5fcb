--------------------------- MODULE MdnsDiscovery ---------------------------
(***************************************************************************)
(* MdnsDiscovery (src/src/discovery/mdns.rs).  Lookup and announce         *)
(* commands go through an unbounded channel; poll_next takes at most one   *)
(* of them off the channel per call and drops it, since the code that      *)
(* would pass it on is commented out.  pending_future is therefore always  *)
(* None and poll_pending_future always falls through.                      *)
(*                                                                         *)
(* The Locator of colmeia-hyperswarm-mdns is modelled as the code uses it: *)
(* a stream of (topic, address) pairs, whose topic may not be 32 bytes     *)
(* long, and which may end.  The Announcer's answers are ignored by the    *)
(* code and left out.                                                      *)
(***************************************************************************)
EXTENDS DhtDiscovery

CONSTANTS
    MdnsKinds   \* the kinds of result the Locator can produce in this run

ASSUME MdnsAssumption == MdnsKinds \subseteq {"peer", "bad_topic", "end"}

VARIABLES
    mdns_commands,   \* the command channel
    located          \* results the Locator has ready to be polled

mdnsVars == <<mdns_commands, located>>

Located == [kind : {"peer", "bad_topic", "end"}, addr : Peers]

MdnsTypeOK == /\ mdns_commands \in Seq(Command)
              /\ located \in Seq(Located)

MdnsInit == /\ mdns_commands = <<>>
            /\ located = <<>>
-----------------------------------------------------------------------------
(* lookup() and announce(): try_send on the channel wakes its receiver.    *)
MdnsSubmit(cmds) ==
    /\ mdns_commands' = mdns_commands \o cmds
    /\ UNCHANGED located
    /\ IF cmds = <<>> THEN UNCHANGED wakerVars ELSE Fire("mdns_commands")

(* The part of poll_next before the Locator: one command is taken and      *)
(* dropped, or the channel keeps the waker.                                *)
DropOneCommand ==
    mdns_commands' = IF mdns_commands = <<>> THEN <<>> ELSE Tail(mdns_commands)

ChannelWaker == IF mdns_commands = <<>> THEN {"mdns_commands"} ELSE {}

LocatorHas(kind) == located # <<>> /\ Head(located).kind = kind

(* The Locator found a peer.                                               *)
MdnsReady(peer) ==
    /\ LocatorHas("peer")
    /\ peer = Head(located).addr
    /\ DropOneCommand
    /\ located' = Tail(located)
    /\ wakers' = wakers \cup ChannelWaker
    /\ UNCHANGED woken

(* The Locator reported a topic that is not a topic key: an io::Error.     *)
MdnsError ==
    /\ LocatorHas("bad_topic")
    /\ DropOneCommand
    /\ located' = Tail(located)
    /\ wakers' = wakers \cup ChannelWaker
    /\ UNCHANGED woken

(* Nothing located, or the Locator has ended: Pending.  A Locator that has *)
(* ended does not keep the waker.                                          *)
MdnsPending ==
    /\ located = <<>> \/ LocatorHas("end")
    /\ DropOneCommand
    /\ wakers' = wakers \cup ChannelWaker
                        \cup (IF located = <<>> THEN {"locator"} ELSE {})
    /\ UNCHANGED <<woken, located>>
-----------------------------------------------------------------------------
(* The environment: the Locator hears from the local network.  A Locator   *)
(* that has ended stays ended.                                             *)
LocatorYields(kind, peer) ==
    /\ \A i \in DOMAIN located : located[i].kind # "end"
    /\ located' = Append(located, [kind |-> kind, addr |-> peer])
    /\ Fire("locator")
    /\ UNCHANGED mdns_commands
=============================================================================
