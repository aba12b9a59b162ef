------------------------------ MODULE WiseRoute ------------------------------
(***************************************************************************)
(* WiseRoute: every sink floods the network from time to time; a node      *)
(* takes the neighbour it hears a route flood from first, if it hears it   *)
(* well, for its next hop towards the sink, for good.  Data is sent along  *)
(* the routes, or flooded where its origin has none.                       *)
(*                                                                         *)
(* The MAC is external: a packet makes a copy for every neighbour that its *)
(* MAC address names, which arrives in any order and at any power of the   *)
(* link, or is lost.                                                       *)
(***************************************************************************)
EXTENDS Integers

CONSTANTS
    Node,
    Sink,            \* the nodes with a positive routeFloodsInterval
    Rssi,            \* Rssi[s][r]: the powers at which r may receive s; {}: out of range
    rssiThreshold,
    NET_BROADCAST,
    Root,            \* the sink whose routes the properties look at
    Dest,            \* Dest[n]: where the application of n sends to
    MaxFloods,       \* bound: floods of one node
    MaxData          \* bound: packets of the applications

ASSUME RouteAssumption ==
    /\ Sink \subseteq Node /\ Root \in Node
    /\ Rssi \in [Node -> [Node -> SUBSET Nat]] /\ \A n \in Node : Rssi[n][n] = {}
    /\ rssiThreshold \in Nat
    /\ NET_BROADCAST \notin Node
    /\ Dest \in [Node -> SUBSET (Node \cup {NET_BROADCAST})]
    /\ MaxFloods \in Nat /\ MaxData \in Nat

VARIABLES
    routeTable,      \* routeTable[n][o]: next hop from n towards o, or NET_BROADCAST
    floodTable,      \* floodTable[n]: the floods that n knows
    floodSeqNumber,
    air              \* copies on their way

VARIABLES            \* history, read by properties only
    sent,            \* number of packets of the applications
    got,             \* got[n][i]: how often packet i was passed up at n
    damaged          \* packets that have lost a copy

vars == <<routeTable, floodTable, floodSeqNumber, air, sent, got, damaged>>

Address == Node \cup {NET_BROADCAST}

Packet == [kind : {"DATA", "ROUTE_FLOOD"}, id : 0..MaxData, initialSrc : Node,
           finalDest : Address, isFlood : BOOLEAN, seqNum : Nat, src : Node, to : Node]

TypeOK ==
    /\ routeTable \in [Node -> [Node -> Address]]
    /\ floodTable \in [Node -> SUBSET (Node \X Nat)]
    /\ floodSeqNumber \in [Node -> 0..MaxFloods]
    /\ air \subseteq Packet
    /\ sent \in 0..MaxData
    /\ got \in [Node -> [1..MaxData -> Nat]]
    /\ damaged \subseteq 0..MaxData

Init ==
    /\ routeTable = [n \in Node |-> [o \in Node |-> NET_BROADCAST]]
    /\ floodTable = [n \in Node |-> {}]
    /\ floodSeqNumber = [n \in Node |-> 0]
    /\ air = {}
    /\ sent = 0
    /\ got = [n \in Node |-> [i \in 1..MaxData |-> 0]]
    /\ damaged = {}

-----------------------------------------------------------------------------

Nbr(n) == {r \in Node : Rssi[n][r] # {}}

\* sendDown of p by n to the network address hop
Copies(n, p, hop) ==
    {[p EXCEPT !.src = n, !.to = r] : r \in IF hop = NET_BROADCAST THEN Nbr(n)
                                            ELSE Nbr(n) \cap {hop}}

getRoute(n, d) == routeTable[n][d]

NewPacket(n, kind, id, d, isFlood) ==
    [kind |-> kind, id |-> id, initialSrc |-> n, finalDest |-> d, isFlood |-> isFlood,
     seqNum |-> IF isFlood THEN floodSeqNumber[n] ELSE 0, src |-> n, to |-> n]

\* n starts a flood: the number is taken, and n knows its own flood.
StartFlood(n) ==
    /\ floodSeqNumber[n] < MaxFloods
    /\ floodTable' = [floodTable EXCEPT ![n] = @ \cup {<<n, floodSeqNumber[n]>>}]
    /\ floodSeqNumber' = [floodSeqNumber EXCEPT ![n] = @ + 1]

\* handleSelfMsg
SendRouteFlood(n) ==
    /\ n \in Sink
    /\ StartFlood(n)
    /\ air' = air \cup Copies(n, NewPacket(n, "ROUTE_FLOOD", 0, NET_BROADCAST, TRUE), NET_BROADCAST)
    /\ UNCHANGED <<routeTable, sent, got, damaged>>

\* A packet to everybody is flooded, and one without a route.
handleUpperMsg(n, d) ==
    LET hop == IF d = NET_BROADCAST THEN NET_BROADCAST ELSE getRoute(n, d)
        flood == hop = NET_BROADCAST
    IN  /\ d \in Dest[n]
        /\ sent < MaxData
        /\ sent' = sent + 1
        /\ IF flood THEN StartFlood(n) ELSE UNCHANGED <<floodTable, floodSeqNumber>>
        /\ air' = air \cup Copies(n, NewPacket(n, "DATA", sent + 1, d, flood), hop)
        /\ UNCHANGED <<routeTable, got, damaged>>

\* Seeded fault: a flood is looked up under the address of the node itself
FloodIdHere(p) == <<p.to, p.seqNum>>

FloodId(p) == <<p.initialSrc, p.seqNum>>

\* The verdict of updateFloodTable
FloodType(n, p) ==
    CASE ~p.isFlood -> "NOTAFLOOD"
      [] p.isFlood /\ FloodId(p) \in floodTable[n] -> "DUPLICATE"
      [] p.isFlood /\ FloodId(p) \notin floodTable[n] -> IF p.finalDest = n THEN "FORME" ELSE "FORWARD"

\* Seeded fault: only the last flood of an origin is remembered
updateFloodTableLast(n, p) ==
    IF p.isFlood THEN {f \in floodTable[n] : f[1] # p.initialSrc} \cup {FloodId(p)}
                 ELSE floodTable[n]

updateFloodTable(n, p) == IF p.isFlood THEN floodTable[n] \cup {FloodId(p)} ELSE floodTable[n]

\* Seeded fault: a stronger route flood replaces the route, as it was meant to
updateRouteTableStronger(n, p, rssi) ==
    IF p.kind = "ROUTE_FLOOD" /\ rssi > rssiThreshold
    THEN [routeTable[n] EXCEPT ![p.initialSrc] = p.src] ELSE routeTable[n]

updateRouteTable(n, p, rssi) ==
    IF /\ p.kind = "ROUTE_FLOOD"
       /\ routeTable[n][p.initialSrc] = NET_BROADCAST
       /\ rssi > rssiThreshold
    THEN [routeTable[n] EXCEPT ![p.initialSrc] = p.src] ELSE routeTable[n]

\* A flood goes on to all neighbours, other data to the next hop, or straight to
\* its destination where there is none.
Forwarded(n, p) ==
    CASE FloodType(n, p) = "FORWARD" -> Copies(n, p, NET_BROADCAST)
      [] FloodType(n, p) = "NOTAFLOOD" /\ p.finalDest # n ->
           Copies(n, p, IF getRoute(n, p.finalDest) = NET_BROADCAST THEN p.finalDest
                        ELSE getRoute(n, p.finalDest))
      [] OTHER -> {}

handleLowerMsg(p, rssi) ==
    LET n == p.to
        new == FloodType(n, p) # "DUPLICATE"
    IN  /\ p \in air /\ rssi \in Rssi[p.src][n]
        /\ floodTable' = [floodTable EXCEPT ![n] = updateFloodTable(n, p)]
        /\ routeTable' = IF new THEN [routeTable EXCEPT ![n] = updateRouteTable(n, p, rssi)]
                         ELSE routeTable
        /\ air' = (air \ {p}) \cup IF new THEN Forwarded(n, p) ELSE {}
        /\ got' = IF new /\ p.kind = "DATA" /\ p.finalDest \in {n, NET_BROADCAST}
                  THEN [got EXCEPT ![n][p.id] = @ + 1] ELSE got
        /\ UNCHANGED <<floodSeqNumber, sent, damaged>>

\* The MAC or the medium loses a copy.
Lose(p) ==
    /\ p \in air
    /\ air' = air \ {p}
    /\ damaged' = damaged \cup {p.id}
    /\ UNCHANGED <<routeTable, floodTable, floodSeqNumber, sent, got>>

Next ==
    \/ \E n \in Node : SendRouteFlood(n) \/ \E d \in Dest[n] : handleUpperMsg(n, d)
    \/ \E p \in air : Lose(p) \/ \E rssi \in Rssi[p.src][p.to] : handleLowerMsg(p, rssi)

Spec == Init /\ [][Next]_vars

-----------------------------------------------------------------------------
(* Properties *)

Tree == INSTANCE SpanningTree
            WITH NoParent <- NET_BROADCAST, parent <- [n \in Node |-> getRoute(n, Root)]

\* Where every link is strong enough for a route, the next hops towards a sink grow
\* as a tree does: whatever is lost and in whatever order the copies of several
\* floods come, a node takes for its next hop one that has a route already.
RoutesGrowTree == Tree!Spec

\* The next hops towards the sink make no loop: WiseRoute.h says that they are
\* "spanning trees with the sink node as root node".
RoutesLoopFree == Tree!LoopFree

\* A packet is passed up once at its destination, and nowhere else.
DeliveredOnce ==
    \A n \in Node, i \in 1..sent : got[n][i] <= 1

OnItsWay(i) == \E p \in air : p.kind = "DATA" /\ p.id = i

\* Data for one node that has lost no copy and has none on its way any more has arrived:
\* at every hop of a route there was a next one, and a flood came everywhere.
DataArrives ==
    [][\A p \in air : (/\ p.kind = "DATA" /\ p.finalDest # NET_BROADCAST
                      /\ ~OnItsWay(p.id)' /\ p.id \notin damaged')
                     => got'[p.finalDest][p.id] = 1]_vars
=============================================================================
