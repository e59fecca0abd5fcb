------------------------ MODULE SwarmNetworkProofs --------------------------
(***************************************************************************)
(* Safety of SwarmNetwork for any number of swarms and any protocols.      *)
(***************************************************************************)
EXTENDS SwarmNetwork, TLAPS

(* The lookup of a swarm comes before its first dial.                      *)
LookupBeforeDial ==
    \A l \in Links :
        l.from \notin wanted \/ "lookup" \in queries[l.from] => near[l] = "none"

(* Only a configured swarm has a query.                                    *)
QueriesAreWanted == \A s \in Swarms : queries[s] # {} => s \in wanted

(* The states of a link that the dialling swarm has handed out.            *)
Handed == {"taken", "closed", "ended"}

(* An address is in connected iff a link to it was handed out; that the    *)
(* link was closed since does not matter.                                  *)
ConnectedHanded ==
    /\ \A l \in Links : near[l] \in Handed \cup {"skipped"} => l.to \in connected[l.from]
    /\ \A s, t \in Swarms :
           t \in connected[s] =>
               \E l \in Links : l.from = s /\ l.to = t /\ near[l] \in Handed

(* One link to an address at most is handed out.                           *)
HandedOnce ==
    \A k, l \in Links :
        SameWay(k, l) /\ near[k] \in Handed /\ near[l] \in Handed => k = l

(* A side ends a link only when the other has dropped or closed it.        *)
EndedByOther ==
    \A l \in Links : /\ far[l] = "ended" => near[l] \in {"skipped", "closed"}
                     /\ near[l] = "ended" => far[l] = "closed"

(* The inductive invariant.                                                *)
IInv ==
    /\ TypeOK
    /\ LookupBeforeDial
    /\ QueriesAreWanted
    /\ ConnectedHanded
    /\ HandedOnce
    /\ EndedByOther

LEMMA InitIInv == Init => IInv
  BY DEF Init, IInv, TypeOK, LookupBeforeDial, QueriesAreWanted, ConnectedHanded,
         HandedOnce, EndedByOther, NearState, FarState, Handed

LEMMA LinkType ==
    ASSUME NEW l \in Links
    PROVE  l.from \in Swarms /\ l.to \in Swarms /\ l.over \in Protocols
  BY DEF Links

LEMMA NextIInv == IInv /\ [Next]_vars => IInv'
<1> SUFFICES ASSUME IInv, [Next]_vars PROVE IInv'
    OBVIOUS
<1> USE LinkType
<1> USE DEF IInv, TypeOK, LookupBeforeDial, QueriesAreWanted, ConnectedHanded,
            HandedOnce, EndedByOther, NearState, FarState, Handed, SameWay
<1>1. ASSUME NEW s \in Swarms, Configure(s) PROVE IInv'
      BY <1>1 DEF Configure
<1>2. ASSUME NEW s \in Swarms, AnnounceDone(s) PROVE IInv'
      BY <1>2 DEF AnnounceDone
<1>3. ASSUME NEW s \in Swarms, LookupDone(s) PROVE IInv'
  <2>1. \A l \in Links : near'[l] = near[l] \/ (near[l] = "none" /\ near'[l] = "flying")
        BY <1>3 DEF LookupDone
  <2>2. TypeOK'
        BY <1>3, <2>1 DEF LookupDone
  <2>3. LookupBeforeDial' /\ QueriesAreWanted'
        BY <1>3 DEF LookupDone
  <2>4. ConnectedHanded' /\ HandedOnce' /\ EndedByOther'
        BY <1>3, <2>1 DEF LookupDone
  <2> QED BY <2>2, <2>3, <2>4
<1>4. ASSUME NEW l \in Links, Establish(l) PROVE IInv'
      BY <1>4 DEF Establish
<1>5. ASSUME NEW l \in Links, Fail(l) PROVE IInv'
      BY <1>5 DEF Fail
<1>6. ASSUME NEW l \in Links, TakeIncoming(l) PROVE IInv'
      BY <1>6 DEF TakeIncoming
<1>7. ASSUME NEW l \in Links, TakeOutgoing(l) PROVE IInv'
      BY <1>7 DEF TakeOutgoing
<1>8. ASSUME NEW l \in Links, SkipOutgoing(l) PROVE IInv'
      BY <1>8 DEF SkipOutgoing
<1>9. ASSUME NEW l \in Links, CloseNear(l) PROVE IInv'
      BY <1>9 DEF CloseNear
<1>10. ASSUME NEW l \in Links, CloseFar(l) PROVE IInv'
      BY <1>10 DEF CloseFar
<1>11. ASSUME NEW l \in Links, EndNear(l) PROVE IInv'
      BY <1>11 DEF EndNear
<1>12. ASSUME NEW l \in Links, EndFar(l) PROVE IInv'
      BY <1>12 DEF EndFar
<1>13. CASE UNCHANGED vars
      BY <1>13 DEF vars
<1> QED BY <1>1, <1>2, <1>3, <1>4, <1>5, <1>6, <1>7, <1>8, <1>9, <1>10,
           <1>11, <1>12, <1>13
        DEF Next, Dht, Network, Transport, Application

LEMMA Invariance == Spec => []IInv
  BY InitIInv, NextIInv, PTL DEF Spec

(* Every reachable state is well typed, and the dialled side sees a link   *)
(* only if the dialling side has opened it.                                *)
THEOREM TypeCorrect == Spec => []TypeOK
<1>1. IInv => TypeOK BY DEF IInv
<1> QED BY <1>1, Invariance, PTL

(* Two swarms that dial each other over every protocol, in any order of    *)
(* arrival, never cancel each other's links: only an application closes    *)
(* the link for which a double was dropped (on_connection).                *)
THEOREM NoLinkCancelled == Spec => []DropLeavesALink
<1>1. IInv => DropLeavesALink
  <2> SUFFICES ASSUME IInv, NEW l \in Links, near[l] = "skipped"
               PROVE  \E k \in Links :
                          /\ SameWay(k, l)
                          /\ \/ near[k] = "taken" /\ far[k] \in {"backlog", "taken"}
                             \/ near[k] = "closed"
                             \/ near[k] \in {"taken", "ended"} /\ far[k] = "closed"
      BY DEF DropLeavesALink
  <2>1. PICK k \in Links : k.from = l.from /\ k.to = l.to /\ near[k] \in Handed
        BY LinkType DEF IInv, ConnectedHanded
  <2>2. CASE near[k] = "taken"
    <3>1. far[k] \in {"backlog", "taken", "closed"}
          BY <2>2 DEF IInv, TypeOK, EndedByOther, FarState
    <3> QED BY <2>1, <2>2, <3>1 DEF SameWay
  <2>3. CASE near[k] \in {"closed", "ended"}
        BY <2>1, <2>3 DEF SameWay, IInv, EndedByOther
  <2> QED BY <2>1, <2>2, <2>3 DEF Handed
<1> QED BY <1>1, Invariance, PTL

(* When the network has settled, a swarm holds one link at most from each  *)
(* swarm that dialled it, although it took every connection                *)
(* (on_connection).                                                        *)
THEOREM AcceptorKeepsOne == Spec => []OneLinkEachWay
<1>1. IInv => OneLinkEachWay
      BY DEF IInv, OneLinkEachWay, Settled, TypeOK, HandedOnce, EndedByOther, Handed,
             FarState, NearState
<1> QED BY <1>1, Invariance, PTL
=============================================================================
