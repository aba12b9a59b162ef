----------------------- MODULE WiseRouteMobilityProofs -----------------------
(***************************************************************************)
(* Proofs about two components that have nothing to do with each other.    *)
(*                                                                         *)
(* WiseRoute, for any network, any number of floods and packets, any loss  *)
(* and any order of arrival: a packet is passed up once at most; where     *)
(* every link is strong the routes grow as a tree; and where the links are *)
(* strong, go both ways and connect the network, data arrives unless a     *)
(* copy of it is lost.                                                     *)
(*                                                                         *)
(* Mobility, for a host of any kind, on a playground of any even size,     *)
(* with any interval that is not longer than a side, under any script.     *)
(***************************************************************************)
EXTENDS WiseRoute, Mobility, TLAPS

HasRoute(n, d) == getRoute(n, d) # NET_BROADCAST

Data(p) == p.kind = "DATA"

-----------------------------------------------------------------------------
(* What a step changes *)

LEMMA CopyType ==
  ASSUME NEW n \in Node, NEW p \in Packet, NEW hop, NEW q \in Copies(n, p, hop)
  PROVE  /\ q \in Packet
         /\ q.kind = p.kind /\ q.id = p.id /\ q.initialSrc = p.initialSrc
         /\ q.finalDest = p.finalDest /\ q.isFlood = p.isFlood /\ q.seqNum = p.seqNum
         /\ FloodId(q) = FloodId(p)
         /\ q.src = n /\ q.to \in Nbr(n) /\ (hop # NET_BROADCAST => q.to = hop)
<1>1. PICK r \in Nbr(n) : q = [p EXCEPT !.src = n, !.to = r] /\ (hop # NET_BROADCAST => r = hop)
  BY DEF Copies
<1>2. r \in Node
  BY DEF Nbr
<1>. QED  BY <1>1, <1>2 DEF Packet, FloodId

\* A packet to one next hop is one copy
LEMMA OneCopy ==
  ASSUME NEW n \in Node, NEW p \in Packet, NEW hop \in Node,
         NEW q \in Copies(n, p, hop), NEW r \in Copies(n, p, hop)
  PROVE  q = r
BY RouteAssumption DEF Copies

\* A packet to everybody has a copy for every neighbour, one to a neighbour has one.
LEMMA CopyMade ==
  ASSUME NEW n \in Node, NEW p \in Packet, NEW hop, NEW r \in Nbr(n),
         hop = NET_BROADCAST \/ hop = r
  PROVE  \E q \in Copies(n, p, hop) : q.to = r
<1>1. [p EXCEPT !.src = n, !.to = r] \in Copies(n, p, hop)
  BY DEF Copies
<1>2. [p EXCEPT !.src = n, !.to = r].to = r
  BY DEF Packet
<1>. QED  BY <1>1, <1>2

LEMMA NewPacketType ==
  ASSUME TypeOK, NEW n \in Node, NEW kind \in {"DATA", "ROUTE_FLOOD"}, NEW id \in 0..MaxData,
         NEW d \in Address, NEW flood \in BOOLEAN
  PROVE  NewPacket(n, kind, id, d, flood) \in Packet
BY DEF TypeOK, NewPacket, Packet

LEMMA StartFloodStep ==
  ASSUME TypeOK, NEW n \in Node, StartFlood(n)
  PROVE  /\ floodTable' \in [Node -> SUBSET (Node \X Nat)]
         /\ floodSeqNumber' \in [Node -> 0..MaxFloods]
         /\ \A k \in Node : floodTable[k] \subseteq floodTable'[k]
         /\ \A k \in Node : \A f \in floodTable'[k] :
               f \in floodTable[k] \/ (k = n /\ f = <<n, floodSeqNumber[n]>>)
         /\ <<n, floodSeqNumber[n]>> \in floodTable'[n]
         /\ floodSeqNumber'[n] = floodSeqNumber[n] + 1
         /\ \A k \in Node \ {n} : floodSeqNumber'[k] = floodSeqNumber[k]
<1>1. floodSeqNumber[n] \in Nat /\ floodSeqNumber[n] + 1 \in 0..MaxFloods
  BY RouteAssumption DEF TypeOK, StartFlood
<1>2. \A k \in Node : floodTable'[k] = IF k = n THEN floodTable[k] \cup {<<n, floodSeqNumber[n]>>}
                                      ELSE floodTable[k]
  BY DEF TypeOK, StartFlood
<1>3. floodTable' \in [Node -> SUBSET (Node \X Nat)]
  BY <1>1 DEF TypeOK, StartFlood
<1>4. /\ floodSeqNumber' \in [Node -> 0..MaxFloods]
      /\ floodSeqNumber'[n] = floodSeqNumber[n] + 1
      /\ \A k \in Node \ {n} : floodSeqNumber'[k] = floodSeqNumber[k]
  BY <1>1 DEF TypeOK, StartFlood
<1>. QED  BY <1>2, <1>3, <1>4

\* A sink starts a flood
LEMMA RouteFloodEffect ==
  ASSUME TypeOK, NEW n \in Node, SendRouteFlood(n)
  PROVE  /\ StartFlood(n)
         /\ air \subseteq air'
         /\ \A q \in air' : \/ q \in air
                            \/ /\ q \in Packet /\ q.kind = "ROUTE_FLOOD" /\ q.isFlood
                               /\ q.initialSrc = n /\ q.seqNum = floodSeqNumber[n]
                               /\ FloodId(q) = <<n, floodSeqNumber[n]>>
                               /\ q.src = n /\ q.to \in Nbr(n)
         /\ UNCHANGED <<routeTable, sent, got, damaged>>
<1>. DEFINE pkt == NewPacket(n, "ROUTE_FLOOD", 0, NET_BROADCAST, TRUE)
<1>0. 0 \in 0..MaxData /\ NET_BROADCAST \in Address
  BY RouteAssumption DEF Address
<1>1. pkt \in Packet
  BY <1>0, NewPacketType
<1>2. /\ pkt.kind = "ROUTE_FLOOD" /\ pkt.isFlood /\ pkt.initialSrc = n
      /\ pkt.seqNum = floodSeqNumber[n] /\ FloodId(pkt) = <<n, floodSeqNumber[n]>>
  BY DEF NewPacket, FloodId
<1>3. air' = air \cup Copies(n, pkt, NET_BROADCAST)
  BY DEF SendRouteFlood
<1>. HIDE DEF pkt
<1>4. ASSUME NEW q \in Copies(n, pkt, NET_BROADCAST)
      PROVE  /\ q \in Packet /\ q.kind = "ROUTE_FLOOD" /\ q.isFlood
             /\ q.initialSrc = n /\ q.seqNum = floodSeqNumber[n]
             /\ FloodId(q) = <<n, floodSeqNumber[n]>>
             /\ q.src = n /\ q.to \in Nbr(n)
  BY <1>1, <1>2, CopyType
<1>5. StartFlood(n) /\ UNCHANGED <<routeTable, sent, got, damaged>>
  BY DEF SendRouteFlood
<1>. QED  BY <1>3, <1>4, <1>5

\* The packet that the application of n sends to d, as the first node sends it
Fresh(q, n, d) ==
  /\ q \in Packet /\ Data(q) /\ q.id = sent + 1 /\ q.initialSrc = n /\ q.finalDest = d
  /\ q.src = n /\ q.to \in Nbr(n)
  /\ q.isFlood <=> d = NET_BROADCAST \/ ~HasRoute(n, d)
  /\ q.isFlood => q.seqNum = floodSeqNumber[n] /\ FloodId(q) = <<n, floodSeqNumber[n]>>
  /\ ~q.isFlood => q.seqNum = 0 /\ q.to = getRoute(n, d)

LEMMA UpperMsgEffect ==
  ASSUME TypeOK, NEW n \in Node, NEW d \in Dest[n], handleUpperMsg(n, d)
  PROVE  /\ d \in Address /\ sent \in Nat /\ sent + 1 \in 1..MaxData /\ sent' = sent + 1
         /\ \/ StartFlood(n) /\ (d = NET_BROADCAST \/ ~HasRoute(n, d))
            \/ /\ UNCHANGED <<floodTable, floodSeqNumber>>
               /\ d \in Node /\ HasRoute(n, d) /\ getRoute(n, d) \in Node
         /\ air \subseteq air'
         /\ \A q \in air' : q \in air \/ Fresh(q, n, d)
         /\ \A q, r \in air' : Fresh(q, n, d) /\ Fresh(r, n, d) /\ ~q.isFlood
                                 /\ q \notin air /\ r \notin air => q = r
         /\ d = NET_BROADCAST \/ ~HasRoute(n, d)
              => \A r \in Nbr(n) : \E q \in air' : Data(q) /\ q.id = sent + 1 /\ q.to = r
         /\ UNCHANGED <<routeTable, got, damaged>>
<1>. DEFINE hop == IF d = NET_BROADCAST THEN NET_BROADCAST ELSE getRoute(n, d)
            flood == hop = NET_BROADCAST
            pkt == NewPacket(n, "DATA", sent + 1, d, flood)
<1>1. d \in Address /\ sent + 1 \in 0..MaxData /\ flood \in BOOLEAN
      /\ sent \in Nat /\ sent + 1 \in 1..MaxData
  BY RouteAssumption DEF Address, handleUpperMsg, TypeOK
<1>2. pkt \in Packet
  <2>. HIDE DEF flood
  <2>. QED  BY <1>1, NewPacketType
<1>3. /\ pkt.kind = "DATA" /\ pkt.id = sent + 1 /\ pkt.initialSrc = n /\ pkt.finalDest = d
      /\ pkt.isFlood = flood /\ pkt.seqNum = (IF flood THEN floodSeqNumber[n] ELSE 0)
      /\ FloodId(pkt) = <<n, pkt.seqNum>>
  <2>. HIDE DEF flood
  <2>. QED  BY DEF NewPacket, FloodId
<1>4. air' = air \cup Copies(n, pkt, hop)
  BY DEF handleUpperMsg
<1>5. flood <=> d = NET_BROADCAST \/ ~HasRoute(n, d)
  BY DEF HasRoute
<1>6. ~flood => d \in Node /\ hop = getRoute(n, d) /\ hop \in Node
  BY <1>1 DEF Address, TypeOK, getRoute
<1>7. IF flood THEN StartFlood(n) ELSE UNCHANGED <<floodTable, floodSeqNumber>>
  BY DEF handleUpperMsg
<1>8. flood => hop = NET_BROADCAST
  OBVIOUS
<1>9. sent' = sent + 1 /\ UNCHANGED <<routeTable, got, damaged>>
  BY DEF handleUpperMsg
<1>. HIDE DEF pkt, hop, flood
<1>10. \A q \in Copies(n, pkt, hop) : Fresh(q, n, d)
  <2>. SUFFICES ASSUME NEW q \in Copies(n, pkt, hop) PROVE Fresh(q, n, d)
    OBVIOUS
  <2>1. /\ q \in Packet /\ q.kind = "DATA" /\ q.id = sent + 1 /\ q.initialSrc = n
        /\ q.finalDest = d /\ q.isFlood = flood /\ q.seqNum = pkt.seqNum
        /\ FloodId(q) = <<n, pkt.seqNum>>
        /\ q.src = n /\ q.to \in Nbr(n) /\ (hop # NET_BROADCAST => q.to = hop)
    BY <1>2, <1>3, CopyType
  <2>. QED  BY <2>1, <1>3, <1>5, <1>6, RouteAssumption DEF Fresh, Data
<1>11. \A q \in air' : q \in air \/ Fresh(q, n, d)
  BY <1>4, <1>10
<1>12. ASSUME NEW q \in air', NEW r \in air', Fresh(q, n, d), ~q.isFlood, q \notin air, r \notin air
       PROVE  q = r
  <2>1. hop \in Node
    BY <1>5, <1>6, <1>12 DEF Fresh
  <2>. QED  BY <2>1, <1>2, <1>4, <1>12, OneCopy
<1>13. ASSUME flood, NEW r \in Nbr(n)
       PROVE  \E q \in air' : Data(q) /\ q.id = sent + 1 /\ q.to = r
  <2>1. PICK q \in Copies(n, pkt, hop) : q.to = r
    BY <1>2, <1>8, <1>13, CopyMade
  <2>. QED  BY <2>1, <1>4, <1>10 DEF Fresh
<1>14. \/ StartFlood(n) /\ (d = NET_BROADCAST \/ ~HasRoute(n, d))
       \/ /\ UNCHANGED <<floodTable, floodSeqNumber>>
          /\ d \in Node /\ HasRoute(n, d) /\ getRoute(n, d) \in Node
  BY <1>5, <1>6, <1>7
<1>. QED  BY <1>1, <1>4, <1>5, <1>9, <1>11, <1>12, <1>13, <1>14

\* The node that gets p has not seen its flood yet.
New(p) == ~(p.isFlood /\ FloodId(p) \in floodTable[p.to])

\* The hop that data for one node takes from n
NextHop(n, d) == IF HasRoute(n, d) THEN getRoute(n, d) ELSE d

\* A copy that p.to sends on of p
Relay(q, p) ==
  /\ q \in Packet /\ q.kind = p.kind /\ q.id = p.id /\ q.initialSrc = p.initialSrc
  /\ q.finalDest = p.finalDest /\ q.isFlood = p.isFlood /\ q.seqNum = p.seqNum
  /\ FloodId(q) = FloodId(p)
  /\ q.src = p.to /\ q.to \in Nbr(p.to)
  /\ p.to # p.finalDest
  /\ ~p.isFlood => (p.finalDest # NET_BROADCAST => q.to = NextHop(p.to, p.finalDest))

LEMMA ForwardedIsRelay ==
  ASSUME TypeOK, NEW p \in air
  PROVE  /\ New(p) <=> FloodType(p.to, p) # "DUPLICATE"
         /\ \A q \in Forwarded(p.to, p) : Relay(q, p)
         /\ ~p.isFlood /\ p.finalDest # NET_BROADCAST
              => \A q, r \in Forwarded(p.to, p) : q = r
         /\ p.isFlood /\ New(p) /\ p.to # p.finalDest
              => \A r \in Nbr(p.to) : \E q \in Forwarded(p.to, p) : q.to = r
         /\ ~p.isFlood /\ p.finalDest # NET_BROADCAST /\ p.to # p.finalDest
              /\ NextHop(p.to, p.finalDest) \in Nbr(p.to)
              => \E q \in Forwarded(p.to, p) : q.to = NextHop(p.to, p.finalDest)
<1>. DEFINE n == p.to
            hop == IF getRoute(n, p.finalDest) = NET_BROADCAST THEN p.finalDest
                   ELSE getRoute(n, p.finalDest)
<1>1. p \in Packet /\ n \in Node /\ p.isFlood \in BOOLEAN /\ p.finalDest \in Address
  BY DEF TypeOK, Packet
<1>2. New(p) <=> FloodType(n, p) # "DUPLICATE"
  BY <1>1 DEF New, FloodType
<1>3. p.isFlood /\ New(p) /\ n # p.finalDest => Forwarded(n, p) = Copies(n, p, NET_BROADCAST)
  BY <1>1 DEF Forwarded, FloodType, New
<1>4. p.isFlood /\ ~(New(p) /\ n # p.finalDest) => Forwarded(n, p) = {}
  BY <1>1 DEF Forwarded, FloodType, New
<1>5. ~p.isFlood /\ n # p.finalDest => Forwarded(n, p) = Copies(n, p, hop)
  BY <1>1 DEF Forwarded, FloodType
<1>6. ~p.isFlood /\ n = p.finalDest => Forwarded(n, p) = {}
  BY <1>1 DEF Forwarded, FloodType
<1>7. p.finalDest # NET_BROADCAST => hop = NextHop(n, p.finalDest) /\ hop \in Node
  BY <1>1 DEF NextHop, HasRoute, getRoute, TypeOK, Address
<1>. HIDE DEF hop
<1>8. \A q \in Forwarded(n, p) : Relay(q, p)
  <2>. SUFFICES ASSUME NEW q \in Forwarded(n, p) PROVE Relay(q, p)
    OBVIOUS
  <2>1. n # p.finalDest
    BY <1>1, <1>4, <1>6
  <2>2. PICK h : q \in Copies(n, p, h) /\ (~p.isFlood => h = hop)
    BY <2>1, <1>3, <1>4, <1>5
  <2>3. /\ q \in Packet /\ q.kind = p.kind /\ q.id = p.id /\ q.initialSrc = p.initialSrc
        /\ q.finalDest = p.finalDest /\ q.isFlood = p.isFlood /\ q.seqNum = p.seqNum
        /\ FloodId(q) = FloodId(p)
        /\ q.src = n /\ q.to \in Nbr(n) /\ (h # NET_BROADCAST => q.to = h)
    BY <1>1, <2>2, CopyType
  <2>. QED  BY <2>1, <2>2, <2>3, <1>7, RouteAssumption DEF Relay
<1>9. ASSUME ~p.isFlood, p.finalDest # NET_BROADCAST, NEW q \in Forwarded(n, p), NEW r \in Forwarded(n, p)
      PROVE  q = r
  BY <1>1, <1>5, <1>6, <1>7, <1>9, OneCopy
<1>10. ASSUME p.isFlood, New(p), n # p.finalDest, NEW r \in Nbr(n)
       PROVE  \E q \in Forwarded(n, p) : q.to = r
  BY <1>1, <1>3, <1>10, CopyMade
<1>11. ASSUME ~p.isFlood, p.finalDest # NET_BROADCAST, n # p.finalDest, NextHop(n, p.finalDest) \in Nbr(n)
       PROVE  \E q \in Forwarded(n, p) : q.to = NextHop(n, p.finalDest)
  BY <1>1, <1>5, <1>7, <1>11, CopyMade
<1>. QED  BY <1>2, <1>8, <1>9, <1>10, <1>11

\* What the reception of copy p changes
LEMMA LowerMsgEffect ==
  ASSUME TypeOK, NEW p \in air, NEW rssi \in Rssi[p.src][p.to], handleLowerMsg(p, rssi)
  PROVE  /\ p \in Packet /\ p.to \in Node /\ p.src \in Node /\ p.isFlood \in BOOLEAN
         /\ \A k \in Node \ {p.to} : floodTable'[k] = floodTable[k]
         /\ floodTable'[p.to] = IF p.isFlood THEN floodTable[p.to] \cup {FloodId(p)}
                                ELSE floodTable[p.to]
         /\ \A q \in air' : (q \in air /\ q # p) \/ (New(p) /\ Relay(q, p))
         /\ air \ {p} \subseteq air'
         /\ New(p) => Forwarded(p.to, p) \subseteq air'
         /\ got' = IF New(p) /\ Data(p) /\ p.finalDest \in {p.to, NET_BROADCAST}
                   THEN [got EXCEPT ![p.to][p.id] = @ + 1] ELSE got
         /\ UNCHANGED <<floodSeqNumber, sent, damaged>>
<1>1. p \in Packet /\ p.to \in Node /\ p.src \in Node /\ p.isFlood \in BOOLEAN
  BY DEF TypeOK, Packet
<1>2. New(p) <=> FloodType(p.to, p) # "DUPLICATE"
  BY ForwardedIsRelay
<1>3. air' = (air \ {p}) \cup IF New(p) THEN Forwarded(p.to, p) ELSE {}
  BY <1>2 DEF handleLowerMsg
<1>4. /\ \A q \in air' : (q \in air /\ q # p) \/ (New(p) /\ Relay(q, p))
      /\ air \ {p} \subseteq air'
      /\ New(p) => Forwarded(p.to, p) \subseteq air'
  BY <1>3, ForwardedIsRelay
<1>5. floodTable' = [floodTable EXCEPT ![p.to] = updateFloodTable(p.to, p)]
  BY DEF handleLowerMsg
<1>6. /\ \A k \in Node \ {p.to} : floodTable'[k] = floodTable[k]
      /\ floodTable'[p.to] = updateFloodTable(p.to, p)
  BY <1>1, <1>5 DEF TypeOK
<1>7. got' = IF New(p) /\ Data(p) /\ p.finalDest \in {p.to, NET_BROADCAST}
             THEN [got EXCEPT ![p.to][p.id] = @ + 1] ELSE got
  BY <1>2 DEF handleLowerMsg, Data
<1>8. UNCHANGED <<floodSeqNumber, sent, damaged>>
  BY DEF handleLowerMsg
<1>. QED  BY <1>1, <1>4, <1>6, <1>7, <1>8 DEF updateFloodTable

-----------------------------------------------------------------------------
(* Types *)

\* Only a route flood that is heard well changes a route, and only where there was none.
LEMMA RouteEntry ==
  ASSUME TypeOK, NEW n \in Node, NEW p \in Packet, NEW rssi
  PROVE  /\ updateRouteTable(n, p, rssi) \in [Node -> Address]
         /\ \A d \in Node : HasRoute(n, d) => updateRouteTable(n, p, rssi)[d] = getRoute(n, d)
         /\ \A d \in Node :
              \/ updateRouteTable(n, p, rssi)[d] = getRoute(n, d)
              \/ /\ p.kind = "ROUTE_FLOOD" /\ p.initialSrc = d
                 /\ updateRouteTable(n, p, rssi)[d] = p.src
         /\ p.kind = "ROUTE_FLOOD" /\ rssi > rssiThreshold
              => updateRouteTable(n, p, rssi)[p.initialSrc] # NET_BROADCAST
BY RouteAssumption DEF TypeOK, updateRouteTable, HasRoute, getRoute, Packet, Address

\* What p.to learns from copy p of the way to d
LEMMA LowerMsgRoutes ==
  ASSUME TypeOK, NEW p \in air, NEW rssi \in Rssi[p.src][p.to], handleLowerMsg(p, rssi)
  PROVE  /\ routeTable' \in [Node -> [Node -> Address]]
         /\ \A k, d \in Node : HasRoute(k, d) => HasRoute(k, d)' /\ getRoute(k, d)' = getRoute(k, d)
         /\ \A k, d \in Node :
              \/ getRoute(k, d)' = getRoute(k, d)
              \/ /\ k = p.to /\ p.kind = "ROUTE_FLOOD" /\ p.initialSrc = d /\ New(p)
                 /\ getRoute(k, d)' = p.src
         /\ New(p) /\ p.kind = "ROUTE_FLOOD" /\ rssi > rssiThreshold
              => HasRoute(p.to, p.initialSrc)'
<1>1. p \in Packet /\ p.to \in Node /\ p.initialSrc \in Node
  BY DEF TypeOK, Packet
<1>0. New(p) <=> FloodType(p.to, p) # "DUPLICATE"
  BY ForwardedIsRelay
<1>2. CASE ~New(p)
  <2>1. routeTable' = routeTable
    BY <1>0, <1>2 DEF handleLowerMsg
  <2>. QED  BY <1>2, <2>1 DEF TypeOK, HasRoute, getRoute
<1>3. CASE New(p)
  <2>1. routeTable' = [routeTable EXCEPT ![p.to] = updateRouteTable(p.to, p, rssi)]
    BY <1>0, <1>3 DEF handleLowerMsg
  <2>2. TypeOK /\ routeTable \in [Node -> [Node -> Address]]
    BY DEF TypeOK
  <2>3. routeTable'[p.to] = updateRouteTable(p.to, p, rssi)
    BY <1>1, <2>1, <2>2
  <2>4. \A k \in Node \ {p.to} : routeTable'[k] = routeTable[k]
    BY <1>1, <2>1, <2>2
  <2>5. routeTable' \in [Node -> [Node -> Address]]
    BY <1>1, <2>1, <2>2, RouteEntry
  <2>. QED  BY <1>1, <1>3, <2>2, <2>3, <2>4, <2>5, RouteEntry DEF HasRoute, getRoute
<1>. QED  BY <1>2, <1>3

LEMMA OneMore ==
  ASSUME NEW S, NEW f \in [S -> Nat], NEW i
  PROVE  [f EXCEPT ![i] = @ + 1] \in [S -> Nat]
<1>1. ASSUME NEW k \in S PROVE [f EXCEPT ![i] = @ + 1][k] \in Nat
  <2>1. CASE k = i
    BY <2>1
  <2>2. CASE k # i
    BY <2>2
  <2>. QED  BY <2>1, <2>2
<1>. QED  BY <1>1

LEMMA LowerMsgType ==
  ASSUME TypeOK, NEW p \in air, NEW rssi \in Rssi[p.src][p.to], handleLowerMsg(p, rssi)
  PROVE  TypeOK'
<1>1. p \in Packet /\ p.to \in Node
  BY DEF TypeOK, Packet
<1>2. got' \in [Node -> [1..MaxData -> Nat]]
  <2>1. got[p.to] \in [1..MaxData -> Nat]
    BY <1>1 DEF TypeOK
  <2>2. [got[p.to] EXCEPT ![p.id] = @ + 1] \in [1..MaxData -> Nat]
    BY <2>1, OneMore
  <2>3. [got EXCEPT ![p.to][p.id] = @ + 1] \in [Node -> [1..MaxData -> Nat]]
    BY <1>1, <2>2 DEF TypeOK
  <2>. QED  BY <2>3 DEF TypeOK, handleLowerMsg
<1>3. floodTable' \in [Node -> SUBSET (Node \X Nat)]
  BY DEF TypeOK, handleLowerMsg, updateFloodTable, FloodId, Packet
<1>4. air' \subseteq Packet
  BY LowerMsgEffect DEF Relay, TypeOK
<1>5. routeTable' \in [Node -> [Node -> Address]]
  BY LowerMsgRoutes
<1>. QED  BY <1>2, <1>3, <1>4, <1>5, LowerMsgEffect DEF TypeOK

LEMMA TypeStep ==
  ASSUME TypeOK, [Next]_vars
  PROVE  TypeOK'
<1>1. ASSUME NEW n \in Node, SendRouteFlood(n) PROVE TypeOK'
  <2>1. air' \subseteq Packet
    BY <1>1, RouteFloodEffect DEF TypeOK
  <2>. QED  BY <1>1, <2>1, RouteFloodEffect, StartFloodStep DEF TypeOK
<1>2. ASSUME NEW n \in Node, NEW d \in Dest[n], handleUpperMsg(n, d) PROVE TypeOK'
  <2>1. air' \subseteq Packet
    BY <1>2, UpperMsgEffect DEF TypeOK, Fresh
  <2>2. sent' \in 0..MaxData
    BY <1>2, UpperMsgEffect
  <2>. QED  BY <1>2, <2>1, <2>2, UpperMsgEffect, StartFloodStep DEF TypeOK
<1>3. ASSUME NEW p \in air, Lose(p) PROVE TypeOK'
  BY <1>3 DEF TypeOK, Lose, Packet
<1>4. CASE UNCHANGED vars
  BY <1>4 DEF vars, TypeOK
<1>. QED  BY <1>1, <1>2, <1>3, <1>4, LowerMsgType DEF Next

LEMMA InitType == Init => TypeOK
BY RouteAssumption DEF Init, TypeOK, Address

\* Types, on any network
THEOREM TypeCorrect == Spec => []TypeOK
BY InitType, TypeStep, PTL DEF Spec

-----------------------------------------------------------------------------
(* A packet is passed up once at most *)

\* Only data that was sent is on its way or was passed up.
Numbered ==
  /\ \A p \in air : Data(p) => p.id \in 1..sent
  /\ \A n \in Node, i \in 1..MaxData : i > sent => got[n][i] = 0

\* The copies of one packet tell the same of it.
Alike ==
  \A p, q \in air : Data(p) /\ Data(q) /\ p.id = q.id =>
      /\ q.initialSrc = p.initialSrc /\ q.finalDest = p.finalDest
      /\ q.isFlood = p.isFlood /\ q.seqNum = p.seqNum

\* Who has passed up a flooded packet knows its flood, as long as a copy comes.
FloodsKnown ==
  \A p \in air, n \in Node :
      Data(p) /\ p.isFlood /\ got[n][p.id] # 0 => FloodId(p) \in floodTable[n]

\* A packet that follows the routes is one copy, until it is passed up.
RoutedAlone ==
  \A p \in air : Data(p) /\ ~p.isFlood =>
      /\ p.finalDest \in Node
      /\ \A q \in air : Data(q) /\ q.id = p.id => q = p
      /\ \A n \in Node : got[n][p.id] = 0

OnceInv ==
  /\ TypeOK
  /\ Numbered
  /\ Alike
  /\ FloodsKnown
  /\ RoutedAlone
  /\ DeliveredOnce

LEMMA InitOnce == Init => OnceInv
BY InitType, RouteAssumption DEF Init, OnceInv, Numbered, Alike, FloodsKnown, RoutedAlone, DeliveredOnce

\* Copies that are lost, or join in without data, change nothing.
LEMMA OnceKept ==
  ASSUME OnceInv, UNCHANGED <<sent, got>>,
         \A q \in air' : Data(q) => q \in air,
         \A n \in Node : floodTable[n] \subseteq floodTable'[n]
  PROVE  Numbered' /\ Alike' /\ FloodsKnown' /\ RoutedAlone' /\ DeliveredOnce'
<1>1. Numbered'
  BY DEF OnceInv, Numbered, Data
<1>2. Alike'
  BY DEF OnceInv, Alike, Data
<1>3. FloodsKnown'
  BY DEF OnceInv, FloodsKnown, Data, FloodId
<1>4. RoutedAlone'
  BY DEF OnceInv, RoutedAlone, Data
<1>5. DeliveredOnce'
  BY DEF OnceInv, DeliveredOnce
<1>. QED  BY <1>1, <1>2, <1>3, <1>4, <1>5

LEMMA OnceUpper ==
  ASSUME OnceInv, NEW n \in Node, NEW d \in Dest[n], handleUpperMsg(n, d)
  PROVE  Numbered' /\ Alike' /\ FloodsKnown' /\ RoutedAlone' /\ DeliveredOnce'
<1>1. TypeOK /\ Numbered /\ Alike /\ FloodsKnown /\ RoutedAlone /\ DeliveredOnce
  BY DEF OnceInv
<1>2. /\ sent \in Nat /\ sent + 1 \in 1..MaxData /\ sent' = sent + 1 /\ got' = got
      /\ \A q \in air' : q \in air \/ Fresh(q, n, d)
      /\ \A q, r \in air' : Fresh(q, n, d) /\ Fresh(r, n, d) /\ ~q.isFlood
                              /\ q \notin air /\ r \notin air => q = r
  BY <1>1, UpperMsgEffect
<1>3. \A k \in Node : floodTable[k] \subseteq floodTable'[k]
  BY <1>1, UpperMsgEffect, StartFloodStep
<1>4. \A k \in Node : got[k][sent + 1] = 0
  BY <1>1, <1>2 DEF Numbered
<1>5. \A q \in air : Data(q) => q.id \in 1..sent /\ q.id # sent + 1
  BY <1>1, <1>2 DEF Numbered
<1>6. \A q \in air' : Data(q) /\ q.id = sent + 1 => q \notin air /\ Fresh(q, n, d)
  BY <1>2, <1>5
<1>7. \A q \in air' : Data(q) /\ q.id # sent + 1 => q \in air
  BY <1>2 DEF Fresh
<1>8. Numbered'
  <2>1. \A q \in air' : Data(q) => q.id \in 1..sent + 1
    BY <1>2, <1>5, <1>7
  <2>2. \A k \in Node, i \in 1..MaxData : i > sent + 1 => got[k][i] = 0
    BY <1>1, <1>2 DEF Numbered
  <2>. QED  BY <1>2, <2>1, <2>2 DEF Numbered, Data
<1>9. Alike'
  <2>. SUFFICES ASSUME NEW p \in air', NEW q \in air', Data(p), Data(q), p.id = q.id
                PROVE  /\ q.initialSrc = p.initialSrc /\ q.finalDest = p.finalDest
                       /\ q.isFlood = p.isFlood /\ q.seqNum = p.seqNum
    BY DEF Alike, Data
  <2>1. CASE p.id # sent + 1
    BY <1>1, <1>7, <2>1 DEF Alike
  <2>2. CASE p.id = sent + 1
    <3>1. Fresh(p, n, d) /\ Fresh(q, n, d)
      BY <1>6, <2>2
    <3>2. p.isFlood \in BOOLEAN /\ q.isFlood \in BOOLEAN
      BY <3>1 DEF Fresh, Packet
    <3>. QED  BY <3>1, <3>2 DEF Fresh
  <2>. QED  BY <2>1, <2>2
<1>10. FloodsKnown'
  <2>. SUFFICES ASSUME NEW p \in air', NEW k \in Node, Data(p), p.isFlood, got[k][p.id] # 0
                PROVE  FloodId(p) \in floodTable'[k]
    BY <1>2 DEF FloodsKnown, Data, FloodId
  <2>1. p.id # sent + 1
    BY <1>4
  <2>. QED  BY <1>1, <1>3, <1>7, <2>1 DEF FloodsKnown
<1>11. RoutedAlone'
  <2>. SUFFICES ASSUME NEW p \in air', Data(p), ~p.isFlood
                PROVE  /\ p.finalDest \in Node
                       /\ \A q \in air' : Data(q) /\ q.id = p.id => q = p
                       /\ \A k \in Node : got[k][p.id] = 0
    BY <1>2 DEF RoutedAlone, Data
  <2>1. CASE p.id # sent + 1
    BY <1>1, <1>7, <2>1 DEF RoutedAlone
  <2>2. CASE p.id = sent + 1
    <3>1. Fresh(p, n, d) /\ p \notin air
      BY <1>6, <2>2
    <3>2. p.finalDest \in Node
      <4>1. p.finalDest = d /\ d # NET_BROADCAST /\ d \in Address
        BY <1>1, <3>1, UpperMsgEffect DEF Fresh
      <4>. QED  BY <4>1 DEF Address
    <3>3. ASSUME NEW q \in air', Data(q), q.id = p.id PROVE q = p
      BY <1>2, <1>6, <2>2, <3>1, <3>3
    <3>. QED  BY <1>4, <2>2, <3>2, <3>3
  <2>. QED  BY <2>1, <2>2
<1>12. DeliveredOnce'
  <2>. SUFFICES ASSUME NEW k \in Node, NEW i \in 1..sent + 1 PROVE got[k][i] <= 1
    BY <1>2 DEF DeliveredOnce
  <2>. QED  BY <1>1, <1>2, <1>4 DEF DeliveredOnce
<1>. QED  BY <1>8, <1>9, <1>10, <1>11, <1>12

\* What is passed up in the reception of copy p
LEMMA PassedUp ==
  ASSUME TypeOK, NEW p \in air, NEW rssi \in Rssi[p.src][p.to], handleLowerMsg(p, rssi)
  PROVE  /\ \A n \in Node, i \in 1..MaxData :
              \/ got'[n][i] = got[n][i]
              \/ /\ n = p.to /\ i = p.id /\ New(p) /\ Data(p)
                 /\ p.finalDest \in {p.to, NET_BROADCAST} /\ got'[n][i] = got[n][i] + 1
         /\ New(p) /\ Data(p) /\ p.finalDest = p.to /\ p.id \in 1..MaxData
              => got'[p.to][p.id] = got[p.to][p.id] + 1
<1>. DEFINE up == New(p) /\ Data(p) /\ p.finalDest \in {p.to, NET_BROADCAST}
<1>1. got \in [Node -> [1..MaxData -> Nat]] /\ p.to \in Node
  BY LowerMsgEffect DEF TypeOK
<1>2. got' = IF up THEN [got EXCEPT ![p.to][p.id] = @ + 1] ELSE got
  BY LowerMsgEffect
<1>. HIDE DEF up
<1>3. CASE ~up
  BY <1>2, <1>3 DEF up
<1>4. CASE up
  <2>1. \A n \in Node \ {p.to} : got'[n] = got[n]
    BY <1>1, <1>2, <1>4
  <2>2. got'[p.to] = [got[p.to] EXCEPT ![p.id] = @ + 1]
    BY <1>1, <1>2, <1>4
  <2>3. \A i \in 1..MaxData : got'[p.to][i] = IF i = p.id THEN got[p.to][i] + 1 ELSE got[p.to][i]
    BY <1>1, <2>2
  <2>. QED  BY <1>4, <2>1, <2>3 DEF up
<1>. QED  BY <1>3, <1>4

LEMMA OnceLower ==
  ASSUME OnceInv, NEW p \in air, NEW rssi \in Rssi[p.src][p.to], handleLowerMsg(p, rssi)
  PROVE  Numbered' /\ Alike' /\ FloodsKnown' /\ RoutedAlone' /\ DeliveredOnce'
<1>1. TypeOK /\ Numbered /\ Alike /\ FloodsKnown /\ RoutedAlone /\ DeliveredOnce
  BY DEF OnceInv
<1>2. /\ p \in Packet /\ p.to \in Node /\ sent' = sent
      /\ \A q \in air' : (q \in air /\ q # p) \/ (New(p) /\ Relay(q, p))
  BY <1>1, LowerMsgEffect
<1>0. sent \in 0..MaxData /\ MaxData \in Nat /\ got \in [Node -> [1..MaxData -> Nat]]
  BY <1>1, RouteAssumption DEF TypeOK
<1>3. /\ \A k \in Node : floodTable[k] \subseteq floodTable'[k]
      /\ p.isFlood => FloodId(p) \in floodTable'[p.to]
  BY <1>1, LowerMsgEffect
\* every copy that is left tells what one of before told
<1>4. \A q \in air' : \E r \in air : /\ r.kind = q.kind /\ r.id = q.id /\ r.isFlood = q.isFlood
                                     /\ r.initialSrc = q.initialSrc /\ r.seqNum = q.seqNum
                                     /\ r.finalDest = q.finalDest
                                     /\ q = r \/ (r = p /\ New(p) /\ Relay(q, p))
  BY <1>2 DEF Relay
<1>5. Alike'
  <2>. SUFFICES ASSUME NEW x \in air', NEW y \in air', Data(x), Data(y), x.id = y.id
                PROVE  /\ y.initialSrc = x.initialSrc /\ y.finalDest = x.finalDest
                       /\ y.isFlood = x.isFlood /\ y.seqNum = x.seqNum
    BY DEF Alike, Data
  <2>. QED  BY <1>1, <1>4 DEF Alike, Data
<1>6. Numbered'
  <2>1. \A q \in air' : Data(q) => q.id \in 1..sent
    BY <1>1, <1>4 DEF Numbered, Data
  <2>2. ASSUME NEW n \in Node, NEW i \in 1..MaxData, i > sent PROVE got'[n][i] = 0
    <3>1. ~(Data(p) /\ i = p.id)
      BY <1>0, <1>1, <2>2 DEF Numbered
    <3>. QED  BY <1>1, <2>2, <3>1, PassedUp DEF Numbered
  <2>. QED  BY <1>2, <2>1, <2>2 DEF Numbered, Data
<1>7. FloodsKnown'
  <2>. SUFFICES ASSUME NEW x \in air', NEW n \in Node, Data(x), x.isFlood, got'[n][x.id] # 0
                PROVE  FloodId(x) \in floodTable'[n]
    BY DEF FloodsKnown, Data, FloodId
  <2>1. PICK r \in air : /\ r.kind = x.kind /\ r.id = x.id /\ r.isFlood = x.isFlood
                         /\ r.initialSrc = x.initialSrc /\ r.seqNum = x.seqNum
    BY <1>4
  <2>2. Data(r) /\ FloodId(r) = FloodId(x) /\ r.id \in 1..MaxData
    BY <1>0, <1>1, <2>1 DEF Data, FloodId, Numbered
  <2>3. CASE got[n][x.id] # 0
    BY <1>1, <1>3, <2>1, <2>2, <2>3 DEF FloodsKnown
  <2>4. CASE got[n][x.id] = 0
    <3>1. n = p.to /\ x.id = p.id /\ Data(p)
      BY <1>1, <2>1, <2>2, <2>4, PassedUp
    <3>2. p.isFlood /\ FloodId(p) = FloodId(r)
      BY <1>1, <2>1, <2>2, <3>1 DEF Alike, FloodId
    <3>. QED  BY <1>3, <2>2, <3>1, <3>2
  <2>. QED  BY <2>3, <2>4
<1>8. RoutedAlone'
  <2>. SUFFICES ASSUME NEW x \in air', Data(x), ~x.isFlood
                PROVE  /\ x.finalDest \in Node
                       /\ \A y \in air' : Data(y) /\ y.id = x.id => y = x
                       /\ \A n \in Node : got'[n][x.id] = 0
    BY DEF RoutedAlone, Data
  <2>1. PICK r \in air : /\ r.kind = x.kind /\ r.id = x.id /\ r.isFlood = x.isFlood
                         /\ r.finalDest = x.finalDest
                         /\ x = r \/ (r = p /\ New(p) /\ Relay(x, p))
    BY <1>4
  <2>2. Data(r) /\ ~r.isFlood /\ r.id \in 1..MaxData
    BY <1>0, <1>1, <2>1 DEF Data, Numbered
  <2>3. /\ r.finalDest \in Node
        /\ \A q \in air : Data(q) /\ q.id = r.id => q = r
        /\ \A n \in Node : got[n][r.id] = 0
    BY <1>1, <2>2 DEF RoutedAlone
  <2>4. CASE r # p
    <3>1. ~(Data(p) /\ p.id = x.id)
      BY <2>1, <2>3, <2>4
    <3>2. x = r
      BY <2>1, <2>4
    <3>3. \A n \in Node : got'[n][x.id] = 0
      BY <1>1, <2>1, <2>2, <2>3, <3>1, PassedUp
    <3>4. ASSUME NEW y \in air', Data(y), y.id = x.id PROVE y = x
      BY <1>2, <2>3, <3>1, <3>2, <3>4 DEF Relay, Data
    <3>. QED  BY <2>1, <2>3, <3>3, <3>4
  <2>5. CASE r = p
    <3>1. New(p) /\ Relay(x, p)
      BY <1>2, <2>1, <2>2, <2>3, <2>5
    <3>2. p.to # p.finalDest /\ p.finalDest \in Node /\ ~p.isFlood
      BY <2>1, <2>2, <2>3, <2>5, <3>1 DEF Relay
    <3>3. \A n \in Node : got'[n][x.id] = 0
      BY <1>1, <2>1, <2>2, <2>3, <3>2, RouteAssumption, PassedUp
    <3>4. ASSUME NEW y \in air', Data(y), y.id = x.id PROVE y = x
      <4>1. ~(y \in air /\ y # p)
        BY <2>1, <2>3, <2>5, <3>4
      <4>2. x \in Forwarded(p.to, p) /\ y \in Forwarded(p.to, p)
        <5>1. ~(x \in air /\ x # p)
          BY <2>1, <2>2, <2>3, <2>5 DEF Data
        <5>. QED  BY <4>1, <5>1, <3>1 DEF handleLowerMsg
      <4>. QED  BY <1>1, <3>2, <4>2, ForwardedIsRelay, RouteAssumption
    <3>. QED  BY <2>1, <2>3, <3>3, <3>4
  <2>. QED  BY <2>4, <2>5
<1>9. DeliveredOnce'
  <2>. SUFFICES ASSUME NEW n \in Node, NEW i \in 1..sent PROVE got'[n][i] <= 1
    BY <1>2 DEF DeliveredOnce
  <2>0. i \in 1..MaxData /\ got[n][i] <= 1 /\ got[n][i] \in Nat
    BY <1>0, <1>1 DEF DeliveredOnce
  <2>1. CASE got'[n][i] = got[n][i]
    BY <2>0, <2>1
  <2>2. CASE got'[n][i] # got[n][i]
    <3>1. n = p.to /\ i = p.id /\ New(p) /\ Data(p) /\ got'[n][i] = got[n][i] + 1
      BY <1>1, <2>0, <2>2, PassedUp
    <3>2. got[n][i] = 0
      <4>1. CASE p.isFlood
        BY <1>1, <3>1, <4>1 DEF FloodsKnown, New
      <4>2. CASE ~p.isFlood
        BY <1>1, <1>2, <3>1, <4>2 DEF RoutedAlone
      <4>. QED  BY <4>1, <4>2
    <3>. QED  BY <3>1, <3>2
  <2>. QED  BY <2>1, <2>2
<1>. QED  BY <1>5, <1>6, <1>7, <1>8, <1>9

LEMMA OnceStep ==
  ASSUME OnceInv, [Next]_vars
  PROVE  OnceInv'
<1>0. TypeOK /\ TypeOK'
  BY TypeStep DEF OnceInv
<1>. DEFINE Goal == Numbered' /\ Alike' /\ FloodsKnown' /\ RoutedAlone' /\ DeliveredOnce'
<1>1. ASSUME NEW n \in Node, SendRouteFlood(n) PROVE Goal
  BY <1>0, <1>1, RouteFloodEffect, StartFloodStep, OnceKept DEF Data
<1>2. ASSUME NEW p \in air, Lose(p) PROVE Goal
  BY <1>2, OnceKept DEF Lose
<1>3. ASSUME UNCHANGED vars PROVE Goal
  <2>1. UNCHANGED <<floodTable, air, sent, got>>
    BY <1>3 DEF vars
  <2>2. /\ UNCHANGED <<sent, got>>
        /\ \A q \in air' : Data(q) => q \in air
        /\ \A n \in Node : floodTable[n] \subseteq floodTable'[n]
    BY <2>1
  <2>. QED  BY <2>2, OnceKept
<1>. QED  BY <1>0, <1>1, <1>2, <1>3, OnceUpper, OnceLower DEF Next, OnceInv

\* On any network, whatever is lost and in whatever order the copies arrive, the network
\* layer passes a packet up once at most at every node (WiseRoute::handleLowerMsg).
THEOREM ArrivesOnce == Spec => []DeliveredOnce
<1>1. OnceInv => DeliveredOnce
  BY DEF OnceInv
<1>. QED  BY <1>1, InitOnce, OnceStep, PTL DEF Spec

-----------------------------------------------------------------------------
(* The routes *)

\* Every signal that is received at all is good enough for a route.
StrongLinks == \A s, r \in Node : \A x \in Rssi[s][r] : x > rssiThreshold

\* A route flood is sent by its sink or by a node that has a route there, and the sink
\* knows it for its own.
CarriersRouted ==
  \A p \in air : p.kind = "ROUTE_FLOOD" =>
      /\ p.isFlood
      /\ p.src = p.initialSrc \/ HasRoute(p.src, p.initialSrc)
      /\ FloodId(p) \in floodTable[p.initialSrc]

\* The next hop was heard, and is the sink or has a route.
NextHops ==
  \A n, d \in Node : HasRoute(n, d) =>
      /\ getRoute(n, d) \in Node /\ n \in Nbr(getRoute(n, d))
      /\ getRoute(n, d) = d \/ HasRoute(getRoute(n, d), d)

OnLinks == \A p \in air : p.to \in Nbr(p.src)

RouteInv ==
  /\ TypeOK
  /\ CarriersRouted
  /\ NextHops
  /\ OnLinks

LEMMA InitRoutes == Init => RouteInv
BY InitType, RouteAssumption
   DEF Init, RouteInv, CarriersRouted, NextHops, OnLinks, HasRoute, getRoute

\* Copies that are no route floods, and floods that are known, change nothing.
LEMMA RoutesKept ==
  ASSUME RouteInv, routeTable' = routeTable,
         \A n \in Node : floodTable[n] \subseteq floodTable'[n],
         \A q \in air' : \/ q \in air
                         \/ /\ q \in Packet /\ q.to \in Nbr(q.src)
                            /\ q.kind = "ROUTE_FLOOD" =>
                                 /\ q.isFlood /\ q.src = q.initialSrc
                                 /\ FloodId(q) \in floodTable'[q.initialSrc]
  PROVE  CarriersRouted' /\ NextHops' /\ OnLinks'
<1>1. TypeOK /\ CarriersRouted /\ NextHops /\ OnLinks
  BY DEF RouteInv
<1>2. \A n, d \in Node : HasRoute(n, d)' = HasRoute(n, d) /\ getRoute(n, d)' = getRoute(n, d)
  BY DEF HasRoute, getRoute
<1>3. NextHops'
  BY <1>1, <1>2 DEF NextHops, HasRoute, getRoute
<1>4. OnLinks'
  BY <1>1 DEF OnLinks
<1>5. ASSUME NEW q \in air', q.kind = "ROUTE_FLOOD"
      PROVE  /\ q.isFlood
             /\ q.src = q.initialSrc \/ HasRoute(q.src, q.initialSrc)'
             /\ FloodId(q) \in floodTable'[q.initialSrc]
  <2>1. CASE q \in air
    <3>1. q.src \in Node /\ q.initialSrc \in Node
      BY <1>1, <2>1 DEF TypeOK, Packet
    <3>. QED  BY <1>1, <1>2, <1>5, <2>1, <3>1 DEF CarriersRouted
  <2>2. CASE q \notin air
    BY <1>5, <2>2
  <2>. QED  BY <2>1, <2>2
<1>6. CarriersRouted'
  BY <1>5 DEF CarriersRouted, HasRoute, getRoute, FloodId
<1>. QED  BY <1>3, <1>4, <1>6

LEMMA RoutesLower ==
  ASSUME StrongLinks, RouteInv, NEW p \in air, NEW rssi \in Rssi[p.src][p.to], handleLowerMsg(p, rssi)
  PROVE  CarriersRouted' /\ NextHops' /\ OnLinks'
<1>1. TypeOK /\ CarriersRouted /\ NextHops /\ OnLinks
  BY DEF RouteInv
<1>2. p \in Packet /\ p.to \in Node /\ p.src \in Node /\ p.initialSrc \in Node
  BY <1>1 DEF TypeOK, Packet
<1>3. rssi > rssiThreshold
  BY <1>2 DEF StrongLinks
<1>4. \A q \in air' : (q \in air /\ q # p) \/ (New(p) /\ Relay(q, p))
  BY <1>1, LowerMsgEffect
<1>5. \A k \in Node : floodTable[k] \subseteq floodTable'[k]
  BY <1>1, LowerMsgEffect
<1>6. /\ \A k, d \in Node : HasRoute(k, d) => HasRoute(k, d)' /\ getRoute(k, d)' = getRoute(k, d)
      /\ \A k, d \in Node :
           \/ getRoute(k, d)' = getRoute(k, d)
           \/ /\ k = p.to /\ p.kind = "ROUTE_FLOOD" /\ p.initialSrc = d /\ New(p)
              /\ getRoute(k, d)' = p.src
      /\ New(p) /\ p.kind = "ROUTE_FLOOD" => HasRoute(p.to, p.initialSrc)'
  BY <1>1, <1>3, LowerMsgRoutes
<1>7. OnLinks'
  BY <1>1, <1>4 DEF OnLinks, Relay
<1>8. ASSUME NEW q \in air', q.kind = "ROUTE_FLOOD"
      PROVE  /\ q.isFlood
             /\ q.src = q.initialSrc \/ HasRoute(q.src, q.initialSrc)'
             /\ FloodId(q) \in floodTable'[q.initialSrc]
  <2>1. CASE q \in air
    <3>1. q.src \in Node /\ q.initialSrc \in Node
      BY <1>1, <2>1 DEF TypeOK, Packet
    <3>. QED  BY <1>1, <1>5, <1>6, <1>8, <2>1, <3>1 DEF CarriersRouted
  <2>2. CASE New(p) /\ Relay(q, p)
    <3>1. /\ p.kind = "ROUTE_FLOOD" /\ q.src = p.to /\ q.initialSrc = p.initialSrc
          /\ q.isFlood = p.isFlood /\ FloodId(q) = FloodId(p)
      BY <1>8, <2>2 DEF Relay
    <3>2. p.isFlood /\ FloodId(p) \in floodTable'[p.initialSrc]
      BY <1>1, <1>2, <1>5, <3>1 DEF CarriersRouted
    <3>. QED  BY <1>6, <2>2, <3>1, <3>2
  <2>. QED  BY <1>4, <2>1, <2>2
<1>9. CarriersRouted'
  BY <1>8 DEF CarriersRouted, HasRoute, getRoute, FloodId
<1>10. ASSUME NEW n \in Node, NEW d \in Node, HasRoute(n, d)'
       PROVE  \E h \in Node : h = getRoute(n, d)' /\ n \in Nbr(h) /\ (h = d \/ HasRoute(h, d)')
  <2>1. CASE getRoute(n, d)' = getRoute(n, d)
    <3>1. HasRoute(n, d)
      BY <1>10, <2>1 DEF HasRoute
    <3>2. PICK h \in Node : h = getRoute(n, d) /\ n \in Nbr(h) /\ (h = d \/ HasRoute(h, d))
      BY <1>1, <3>1 DEF NextHops
    <3>3. HasRoute(h, d) => HasRoute(h, d)'
      BY <1>6
    <3>. QED  BY <2>1, <3>2, <3>3
  <2>2. CASE getRoute(n, d)' # getRoute(n, d)
    <3>1. n = p.to /\ p.kind = "ROUTE_FLOOD" /\ p.initialSrc = d /\ getRoute(n, d)' = p.src
      BY <1>6, <2>2
    <3>2. p.to \in Nbr(p.src) /\ (p.src = d \/ HasRoute(p.src, d))
      BY <1>1, <3>1 DEF OnLinks, CarriersRouted
    <3>3. HasRoute(p.src, d) => HasRoute(p.src, d)'
      BY <1>2, <1>6
    <3>. QED  BY <1>2, <3>1, <3>2, <3>3
  <2>. QED  BY <2>1, <2>2
<1>11. NextHops'
  BY <1>10 DEF NextHops, HasRoute, getRoute
<1>. QED  BY <1>7, <1>9, <1>11

LEMMA RoutesStep ==
  ASSUME StrongLinks, RouteInv, [Next]_vars
  PROVE  RouteInv'
<1>0. TypeOK /\ TypeOK'
  BY TypeStep DEF RouteInv
<1>. DEFINE Goal == CarriersRouted' /\ NextHops' /\ OnLinks'
<1>1. ASSUME NEW n \in Node, SendRouteFlood(n) PROVE Goal
  <2>1. /\ routeTable' = routeTable /\ StartFlood(n)
        /\ \A q \in air' : \/ q \in air
                           \/ /\ q \in Packet /\ q.isFlood /\ q.src = n /\ q.initialSrc = n
                              /\ FloodId(q) = <<n, floodSeqNumber[n]>> /\ q.to \in Nbr(n)
    BY <1>0, <1>1, RouteFloodEffect
  <2>2. /\ \A k \in Node : floodTable[k] \subseteq floodTable'[k]
        /\ <<n, floodSeqNumber[n]>> \in floodTable'[n]
    BY <1>0, <2>1, StartFloodStep
  <2>3. \A q \in air' : \/ q \in air
                        \/ /\ q \in Packet /\ q.to \in Nbr(q.src)
                           /\ q.isFlood /\ q.src = q.initialSrc
                           /\ FloodId(q) \in floodTable'[q.initialSrc]
    BY <2>1, <2>2
  <2>. QED  BY <2>1, <2>2, <2>3, RoutesKept
<1>2. ASSUME NEW n \in Node, NEW d \in Dest[n], handleUpperMsg(n, d) PROVE Goal
  <2>1. /\ routeTable' = routeTable
        /\ \A k \in Node : floodTable[k] \subseteq floodTable'[k]
    BY <1>0, <1>2, UpperMsgEffect, StartFloodStep
  <2>2. \A q \in air' : \/ q \in air
                        \/ q \in Packet /\ q.to \in Nbr(q.src) /\ q.kind # "ROUTE_FLOOD"
    BY <1>0, <1>2, UpperMsgEffect DEF Fresh, Data
  <2>. QED  BY <2>1, <2>2, RoutesKept
<1>3. ASSUME NEW p \in air, Lose(p) PROVE Goal
  BY <1>3, RoutesKept DEF Lose
<1>4. ASSUME UNCHANGED vars PROVE Goal
  <2>1. UNCHANGED <<routeTable, floodTable, air>>
    BY <1>4 DEF vars
  <2>. QED  BY <2>1, RoutesKept
<1>. QED  BY <1>0, <1>1, <1>2, <1>3, <1>4, RoutesLower DEF Next, RouteInv

\* In every state of a network of strong links a route flood is carried by its sink and
\* by nodes with a route only, and the next hops were heard and have a route.
THEOREM Invariance == ASSUME StrongLinks PROVE Spec => []RouteInv
<1>1. RouteInv /\ [Next]_vars => RouteInv'
  BY RoutesStep
<1>. QED  BY <1>1, InitRoutes, PTL DEF Spec

Parent == [n \in Node |-> getRoute(n, Root)]

\* One step of WiseRoute is one of the tree, or none.
LEMMA TreeStep ==
  ASSUME RouteInv, [Next]_vars
  PROVE  Tree!Next \/ UNCHANGED Parent
<1>1. CASE routeTable' = routeTable
  BY <1>1 DEF Parent, getRoute
<1>2. CASE routeTable' # routeTable
  <2>0. PICK p \in air : \E rssi \in Rssi[p.src][p.to] : handleLowerMsg(p, rssi)
    BY <1>2 DEF Next, vars, SendRouteFlood, handleUpperMsg, Lose
  <2>1. PICK rssi \in Rssi[p.src][p.to] : handleLowerMsg(p, rssi)
    BY <2>0
  <2>. DEFINE n == p.to
  <2>2. TypeOK /\ n \in Node /\ p.src \in Node /\ Root \in Node
    BY RouteAssumption DEF RouteInv, TypeOK, Packet
  <2>3. \A k \in Node : HasRoute(k, Root) => getRoute(k, Root)' = getRoute(k, Root)
    BY <2>1, <2>2, LowerMsgRoutes
  <2>4. \A k \in Node : \/ getRoute(k, Root)' = getRoute(k, Root)
                       \/ /\ k = n /\ p.kind = "ROUTE_FLOOD" /\ p.initialSrc = Root /\ New(p)
                          /\ getRoute(k, Root)' = p.src
    BY <2>1, <2>2, LowerMsgRoutes
  <2>5. CASE \A k \in Node : getRoute(k, Root)' = getRoute(k, Root)
    BY <2>5 DEF Parent
  <2>6. CASE \E k \in Node : getRoute(k, Root)' # getRoute(k, Root)
    <3>1. /\ p.kind = "ROUTE_FLOOD" /\ p.initialSrc = Root /\ New(p) /\ ~HasRoute(n, Root)
          /\ getRoute(n, Root)' = p.src
      BY <2>3, <2>4, <2>6
    <3>2. p.isFlood /\ (p.src = Root \/ HasRoute(p.src, Root)) /\ FloodId(p) \in floodTable[Root]
      BY <3>1 DEF RouteInv, CarriersRouted
    <3>3. n # Root
      BY <3>1, <3>2 DEF New
    <3>4. \A k \in Node \ {n} : getRoute(k, Root)' = getRoute(k, Root)
      BY <2>4
    <3>5. Parent' = [Parent EXCEPT ![n] = p.src]
      BY <3>1, <3>4, <2>2 DEF Parent
    <3>6. Tree!Join(n, p.src)
      BY <2>2, <3>1, <3>2, <3>3, <3>5 DEF Tree!Join, Tree!InTree, Parent, HasRoute
    <3>. QED  BY <2>2, <3>6 DEF Tree!Next
  <2>. QED  BY <2>5, <2>6
<1>. QED  BY <1>1, <1>2

\* With strong links, WiseRoute implements a tree that grows: whatever is lost and in
\* whatever order the copies of several floods arrive.
THEOREM RoutesAreATree == ASSUME StrongLinks PROVE Spec => RoutesGrowTree
<1>1. Init => Tree!Init
  BY RouteAssumption DEF Init, Tree!Init, getRoute
<1>2. RouteInv /\ [Next]_vars => [Tree!Next]_([n \in Node |-> getRoute(n, Root)])
  BY TreeStep DEF Parent
<1>. QED  BY <1>1, <1>2, Invariance, PTL DEF Spec, RoutesGrowTree, Tree!Spec

LoopFreeTree == Tree!TypeOK /\ Tree!NoOrphan /\ Tree!LoopFree

\* The new node is nobody's parent yet, so every loop would have been there before.
LEMMA JoinKeepsTree ==
    ASSUME NET_BROADCAST \notin Node, LoopFreeTree, NEW m \in Node, NEW p \in Node, Tree!Join(m, p)
    PROVE  LoopFreeTree'
<1>1. /\ Parent \in [Node -> Node \cup {NET_BROADCAST}] /\ Tree!InTree = {n \in Node : Parent[n] # NET_BROADCAST}
      /\ Parent' = [Parent EXCEPT ![m] = p] /\ Tree!InTree' = {n \in Node : Parent'[n] # NET_BROADCAST}
      /\ m \notin Tree!InTree /\ m # Root /\ p \in Tree!InTree \cup {Root}
  BY DEF LoopFreeTree, Tree!TypeOK, Tree!InTree, Tree!Join, Parent
<1>2. /\ \A n \in Tree!InTree : Parent[n] \in Tree!InTree \cup {Root}
      /\ \A S \in SUBSET Tree!InTree : S # {} => \E n \in S : Parent[n] \notin S
  BY Zenon DEF LoopFreeTree, Tree!NoOrphan, Tree!LoopFree, Parent
<1>. HIDE DEF Parent
<1>3. Tree!InTree' = Tree!InTree \cup {m} /\ p # m
  BY <1>1
<1>4. Tree!TypeOK'
  BY <1>1 DEF Tree!TypeOK, Parent
<1>5. Tree!NoOrphan'
  <2>1. \A n \in Tree!InTree' : Parent'[n] \in Tree!InTree' \cup {Root}
    BY <1>1, <1>2, <1>3
  <2>. QED  BY <2>1 DEF Tree!NoOrphan, Parent
<1>6. Tree!LoopFree'
  <2>1. ASSUME NEW S \in SUBSET Tree!InTree', S # {}
        PROVE  \E n \in S : Parent'[n] \notin S
    <3>1. CASE S = {m}
      BY <1>1, <1>3, <3>1
    <3>2. CASE S # {m}
      <4>1. S \ {m} \in SUBSET Tree!InTree /\ S \ {m} # {}
        BY <1>3, <2>1, <3>2
      <4>2. PICK n \in S \ {m} : Parent[n] \notin S \ {m}
        BY <1>2, <4>1
      <4>3. Parent[n] # m /\ Parent'[n] = Parent[n]
        BY <1>1, <1>2, <4>1, <4>2
      <4>. QED  BY <4>2, <4>3
    <3>. QED  BY <3>1, <3>2
  <2>. QED  BY <2>1 DEF Tree!LoopFree, Parent
<1>. QED  BY <1>4, <1>5, <1>6 DEF LoopFreeTree

LEMMA TreeNeverLoops == ASSUME NET_BROADCAST \notin Node PROVE Tree!Spec => []Tree!LoopFree
<1>1. Tree!Init => LoopFreeTree
  <2>1. Tree!Init => Tree!InTree = {} /\ Tree!TypeOK
    <3>1. Tree!Init => Parent = [n \in Node |-> NET_BROADCAST]
      BY Zenon DEF Tree!Init, Parent
    <3>2. Tree!InTree = {n \in Node : Parent[n] # NET_BROADCAST}
      BY DEF Tree!InTree, Parent
    <3>3. Tree!TypeOK <=> Parent \in [Node -> Node \cup {NET_BROADCAST}]
      BY DEF Tree!TypeOK, Parent
    <3>. HIDE DEF Parent
    <3>. QED  BY <3>1, <3>2, <3>3
  <2>2. Tree!InTree = {} => Tree!NoOrphan /\ Tree!LoopFree
    BY Zenon DEF Tree!NoOrphan, Tree!LoopFree
  <2>. QED  BY <2>1, <2>2 DEF LoopFreeTree
<1>2. LoopFreeTree /\ [Tree!Next]_([n \in Node |-> getRoute(n, Root)]) => LoopFreeTree'
  <2>1. ASSUME LoopFreeTree, UNCHANGED Parent PROVE LoopFreeTree'
    BY <2>1 DEF LoopFreeTree, Tree!TypeOK, Tree!NoOrphan, Tree!LoopFree, Tree!InTree, Parent
  <2>. QED  BY <2>1, JoinKeepsTree DEF Tree!Next, Parent
<1>3. LoopFreeTree => Tree!LoopFree
  BY DEF LoopFreeTree
<1>. QED  BY <1>1, <1>2, <1>3, PTL DEF Tree!Spec

\* With strong links, a packet that follows the next hops never comes back.
THEOREM NeverARoutingLoop == ASSUME StrongLinks PROVE Spec => []RoutesLoopFree
<1>1. Root \in Node /\ NET_BROADCAST \notin Node
  BY RouteAssumption
<1>2. Tree!Spec => []Tree!LoopFree
  BY <1>1, TreeNeverLoops
<1>. QED  BY <1>2, RoutesAreATree, PTL DEF RoutesGrowTree, RoutesLoopFree

-----------------------------------------------------------------------------
(* Data arrives *)

\* Links go both ways
BothWays == \A n \in Node : \A r \in Nbr(n) : n \in Nbr(r)

\* No part of the network is cut off.
Connected ==
  \A S \in SUBSET Node : S # {} /\ (\A n \in S : Nbr(n) \subseteq S) => S = Node

\* No application sends to its own node
NotToOneself == \A n \in Node : n \notin Dest[n]

\* No number of a flood is used before it is taken.
FloodsNumbered ==
  /\ \A n \in Node : \A f \in floodTable[n] : f[2] < floodSeqNumber[f[1]]
  /\ \A p \in air : p.isFlood => p.seqNum < floodSeqNumber[p.initialSrc]

\* No other packet has the flood of a data packet.
FloodsDistinct ==
  \A p, q \in air : p.isFlood /\ q.isFlood /\ FloodId(p) = FloodId(q) /\ Data(p)
                      => Data(q) /\ q.id = p.id

\* Where the flood of p has come it has been sent on: every neighbour knows it, or a
\* copy for it is on its way.
Spreads(p) ==
  Data(p) /\ p.isFlood /\ p.id \notin damaged =>
     /\ FloodId(p) \in floodTable[p.initialSrc]
     /\ \A n \in Node : FloodId(p) \in floodTable[n] =>
          \/ n = p.finalDest
          \/ \A r \in Nbr(n) : \/ FloodId(p) \in floodTable[r]
                               \/ \E q \in air : Data(q) /\ q.id = p.id /\ q.to = r

\* The flood of p is known at its destination only after p was passed up there.
Arrived(p) ==
  Data(p) /\ p.finalDest # NET_BROADCAST =>
     /\ p.finalDest # p.initialSrc
     /\ p.isFlood /\ FloodId(p) \in floodTable[p.finalDest] => got[p.finalDest][p.id] = 1

\* A packet that follows the routes never comes to a node without one.
OnRoute(p) ==
  Data(p) /\ ~p.isFlood => p.to = p.finalDest \/ HasRoute(p.to, p.finalDest)

Underway == \A p \in air : Spreads(p) /\ Arrived(p) /\ OnRoute(p)

ArriveInv ==
  /\ OnceInv
  /\ RouteInv
  /\ FloodsNumbered
  /\ FloodsDistinct
  /\ Underway

LEMMA InitArrive == Init => ArriveInv
BY InitOnce, InitRoutes DEF Init, ArriveInv, FloodsNumbered, FloodsDistinct, Underway

\* The flood that n would start is one that nobody knows.
LEMMA FreshFlood ==
  ASSUME ArriveInv, NEW n \in Node, StartFlood(n)
  PROVE  LET f == <<n, floodSeqNumber[n]>>
         IN  /\ \A k \in Node : f \notin floodTable[k]
             /\ \A p \in air : p.isFlood => FloodId(p) # f
             /\ \A k \in Node : floodTable'[k] \ floodTable[k] \subseteq {f}
             /\ \A k \in Node \ {n} : f \notin floodTable'[k]
             /\ f \in floodTable'[n]
<1>. DEFINE f == <<n, floodSeqNumber[n]>>
<1>1. TypeOK /\ FloodsNumbered
  BY DEF ArriveInv, OnceInv
<1>2. f[1] = n /\ f[2] = floodSeqNumber[n] /\ floodSeqNumber[n] \in Nat
  BY <1>1, RouteAssumption DEF TypeOK
<1>3. /\ \A k \in Node : \A g \in floodTable'[k] : g \in floodTable[k] \/ (k = n /\ g = f)
      /\ f \in floodTable'[n]
  BY <1>1, StartFloodStep
<1>. HIDE DEF f
<1>4. \A k \in Node : f \notin floodTable[k]
  BY <1>1, <1>2 DEF FloodsNumbered
<1>5. ASSUME NEW p \in air, p.isFlood, FloodId(p) = f PROVE FALSE
  <2>1. p.initialSrc = n /\ p.seqNum = floodSeqNumber[n]
    BY <1>5 DEF FloodId, f
  <2>. QED  BY <1>1, <1>2, <1>5, <2>1 DEF FloodsNumbered
<1>6. \A k \in Node : floodTable'[k] \ floodTable[k] \subseteq {f}
  BY <1>3
<1>7. \A k \in Node \ {n} : f \notin floodTable'[k]
  BY <1>3, <1>4
<1>. QED  BY <1>3, <1>4, <1>5, <1>6, <1>7 DEF f

\* The numbers of the floods stay below the next one.
LEMMA NumbersStep ==
  ASSUME ArriveInv,
         \A q \in air' : q.isFlood =>
            \E r \in air : r.isFlood /\ r.initialSrc = q.initialSrc /\ r.seqNum = q.seqNum,
         \A k \in Node : \A f \in floodTable'[k] :
            f \in floodTable[k] \/ \E r \in air : r.isFlood /\ f = FloodId(r),
         floodSeqNumber' = floodSeqNumber
  PROVE  FloodsNumbered'
<1>1. FloodsNumbered
  BY DEF ArriveInv
<1>2. ASSUME NEW k \in Node, NEW f \in floodTable'[k] PROVE f[2] < floodSeqNumber[f[1]]
  <2>1. CASE f \in floodTable[k]
    BY <1>1, <2>1 DEF FloodsNumbered
  <2>2. ASSUME NEW r \in air, r.isFlood, f = FloodId(r) PROVE f[2] < floodSeqNumber[f[1]]
    <3>1. f[1] = r.initialSrc /\ f[2] = r.seqNum
      BY <2>2 DEF FloodId
    <3>. QED  BY <1>1, <2>2, <3>1 DEF FloodsNumbered
  <2>. QED  BY <2>1, <2>2
<1>3. ASSUME NEW q \in air', q.isFlood PROVE q.seqNum < floodSeqNumber[q.initialSrc]
  BY <1>1, <1>3 DEF FloodsNumbered
<1>. QED  BY <1>2, <1>3 DEF FloodsNumbered

\* They do when a flood starts.
LEMMA NumbersStart ==
  ASSUME ArriveInv, NEW n \in Node, StartFlood(n),
         \A q \in air' : q \in air
             \/ (q.isFlood => q.initialSrc = n /\ q.seqNum = floodSeqNumber[n])
  PROVE  FloodsNumbered'
<1>1. TypeOK /\ FloodsNumbered
  BY DEF ArriveInv, OnceInv
<1>2. /\ \A k \in Node : floodSeqNumber[k] \in Nat /\ floodSeqNumber'[k] \in Nat
      /\ \A k \in Node : floodSeqNumber[k] <= floodSeqNumber'[k]
      /\ floodSeqNumber'[n] = floodSeqNumber[n] + 1
  <2>1. \A k \in Node : floodSeqNumber[k] \in Nat
    BY <1>1, RouteAssumption DEF TypeOK
  <2>2. /\ floodSeqNumber'[n] = floodSeqNumber[n] + 1
        /\ \A k \in Node \ {n} : floodSeqNumber'[k] = floodSeqNumber[k]
    BY <1>1, StartFloodStep
  <2>3. ASSUME NEW k \in Node
        PROVE  floodSeqNumber'[k] \in Nat /\ floodSeqNumber[k] <= floodSeqNumber'[k]
    <3>1. CASE k = n
      BY <2>1, <2>2, <3>1
    <3>2. CASE k # n
      BY <2>1, <2>2, <3>2
    <3>. QED  BY <3>1, <3>2
  <2>. QED  BY <2>1, <2>2, <2>3
<1>3. \A k \in Node : \A f \in floodTable'[k] :
         f \in floodTable[k] \/ (k = n /\ f = <<n, floodSeqNumber[n]>>)
  BY <1>1, StartFloodStep
<1>4. ASSUME NEW k \in Node, NEW f \in floodTable'[k] PROVE f[2] < floodSeqNumber'[f[1]]
  <2>1. CASE f \in floodTable[k]
    <3>1. f[1] \in Node /\ f[2] \in Nat
      BY <1>1, <2>1 DEF TypeOK
    <3>. QED  BY <1>1, <1>2, <2>1, <3>1 DEF FloodsNumbered
  <2>2. CASE f = <<n, floodSeqNumber[n]>>
    BY <1>2, <2>2
  <2>. QED  BY <1>3, <2>1, <2>2
<1>5. ASSUME NEW q \in air', q.isFlood PROVE q.seqNum < floodSeqNumber'[q.initialSrc]
  <2>1. CASE q \in air
    <3>1. q.initialSrc \in Node /\ q.seqNum \in Nat
      BY <1>1, <2>1 DEF TypeOK, Packet
    <3>. QED  BY <1>1, <1>2, <1>5, <2>1, <3>1 DEF FloodsNumbered
  <2>2. CASE q \notin air
    BY <1>2, <1>5, <2>2
  <2>. QED  BY <2>1, <2>2
<1>. QED  BY <1>4, <1>5 DEF FloodsNumbered

\* A packet that is on its way is not touched by a flood that starts.
LEMMA UnderwayKept ==
  ASSUME ArriveInv, NEW x \in air, air \subseteq air', UNCHANGED <<routeTable, got, damaged>>,
         \A k \in Node : floodTable[k] \subseteq floodTable'[k],
         x.isFlood => \A k \in Node : FloodId(x) \in floodTable'[k] => FloodId(x) \in floodTable[k]
  PROVE  Spreads(x)' /\ Arrived(x)' /\ OnRoute(x)'
<1>1. Spreads(x) /\ Arrived(x) /\ OnRoute(x) /\ x \in Packet
  BY DEF ArriveInv, Underway, OnceInv, TypeOK
<1>2. x.initialSrc \in Node /\ (x.finalDest = NET_BROADCAST \/ x.finalDest \in Node)
  BY <1>1 DEF Packet, Address
<1>3. Spreads(x)'
  <2>. SUFFICES ASSUME Data(x), x.isFlood, x.id \notin damaged
                PROVE  /\ FloodId(x) \in floodTable'[x.initialSrc]
                       /\ \A n \in Node : FloodId(x) \in floodTable'[n] =>
                            \/ n = x.finalDest
                            \/ \A r \in Nbr(n) : \/ FloodId(x) \in floodTable'[r]
                                                 \/ \E q \in air' : Data(q) /\ q.id = x.id /\ q.to = r
    BY DEF Spreads, Data, FloodId
  <2>1. FloodId(x) \in floodTable'[x.initialSrc]
    BY <1>1, <1>2 DEF Spreads
  <2>2. ASSUME NEW n \in Node, FloodId(x) \in floodTable'[n], n # x.finalDest, NEW r \in Nbr(n)
        PROVE  \/ FloodId(x) \in floodTable'[r]
               \/ \E q \in air' : Data(q) /\ q.id = x.id /\ q.to = r
    <3>1. FloodId(x) \in floodTable[n] /\ r \in Node
      BY <2>2 DEF Nbr
    <3>. QED  BY <1>1, <2>2, <3>1 DEF Spreads
  <2>. QED  BY <2>1, <2>2
<1>4. Arrived(x)'
  BY <1>1, <1>2 DEF Arrived, Data, FloodId
<1>5. OnRoute(x)'
  BY <1>1 DEF OnRoute, Data, HasRoute, getRoute
<1>. QED  BY <1>3, <1>4, <1>5

LEMMA ArriveRouteFlood ==
  ASSUME ArriveInv, NEW n \in Node, SendRouteFlood(n)
  PROVE  FloodsNumbered' /\ FloodsDistinct' /\ Underway'
<1>1. TypeOK /\ FloodsDistinct
  BY DEF ArriveInv, OnceInv
<1>. DEFINE f == <<n, floodSeqNumber[n]>>
<1>2. /\ StartFlood(n) /\ air \subseteq air' /\ UNCHANGED <<routeTable, got, damaged>>
      /\ \A q \in air' : \/ q \in air
                         \/ /\ ~Data(q) /\ q.isFlood /\ FloodId(q) = f
                            /\ q.initialSrc = n /\ q.seqNum = floodSeqNumber[n]
  BY <1>1, RouteFloodEffect DEF Data
<1>3. /\ \A p \in air : p.isFlood => FloodId(p) # f
      /\ \A k \in Node : floodTable'[k] \ floodTable[k] \subseteq {f}
  BY <1>2, FreshFlood
<1>4. \A k \in Node : floodTable[k] \subseteq floodTable'[k]
  BY <1>1, <1>2, StartFloodStep
<1>5. FloodsNumbered'
  BY <1>2, NumbersStart
<1>. HIDE DEF f
<1>6. FloodsDistinct'
  BY <1>1, <1>2, <1>3 DEF FloodsDistinct, Data, FloodId
<1>7. ASSUME NEW x \in air' PROVE Spreads(x)' /\ Arrived(x)' /\ OnRoute(x)'
  <2>1. CASE x \in air
    BY <1>2, <1>3, <1>4, <2>1, UnderwayKept
  <2>2. CASE ~Data(x)
    BY <2>2 DEF Spreads, Arrived, OnRoute, Data
  <2>. QED  BY <1>2, <2>1, <2>2
<1>8. Underway'
  BY <1>7 DEF Underway
<1>. QED  BY <1>5, <1>6, <1>8

LEMMA ArriveUpper ==
  ASSUME NotToOneself, ArriveInv, NEW n \in Node, NEW d \in Dest[n], handleUpperMsg(n, d)
  PROVE  FloodsNumbered' /\ FloodsDistinct' /\ Underway'
<1>. DEFINE f == <<n, floodSeqNumber[n]>>
            floods == d = NET_BROADCAST \/ ~HasRoute(n, d)
<1>1. TypeOK /\ FloodsDistinct /\ NextHops /\ Numbered
  BY DEF ArriveInv, OnceInv, RouteInv
<1>2. /\ d \in Address /\ sent \in Nat
      /\ \/ StartFlood(n) /\ floods
         \/ UNCHANGED <<floodTable, floodSeqNumber>> /\ ~floods
      /\ air \subseteq air' /\ UNCHANGED <<routeTable, got, damaged>>
      /\ \A q \in air' : q \in air \/ Fresh(q, n, d)
      /\ floods => \A r \in Nbr(n) : \E q \in air' : Data(q) /\ q.id = sent + 1 /\ q.to = r
  BY <1>1, UpperMsgEffect, RouteAssumption
<1>3. StartFlood(n) =>
         /\ \A p \in air : p.isFlood => FloodId(p) # f
         /\ \A k \in Node : floodTable'[k] \ floodTable[k] \subseteq {f}
         /\ \A k \in Node \ {n} : f \notin floodTable'[k]
         /\ f \in floodTable'[n]
  BY FreshFlood
<1>4. \A k \in Node : floodTable[k] \subseteq floodTable'[k]
  BY <1>1, <1>2, StartFloodStep
<1>5. \A q \in air' : Fresh(q, n, d) =>
         /\ Data(q) /\ q.id = sent + 1 /\ q.initialSrc = n /\ q.finalDest = d
         /\ q.isFlood <=> floods
         /\ q.isFlood => FloodId(q) = f /\ q.seqNum = floodSeqNumber[n]
         /\ ~q.isFlood => q.to = getRoute(n, d)
  BY DEF Fresh
<1>6. FloodsNumbered'
  <2>1. CASE StartFlood(n)
    BY <1>2, <1>5, <2>1, NumbersStart
  <2>2. CASE UNCHANGED <<floodTable, floodSeqNumber>> /\ ~floods
    BY <1>2, <1>5, <2>2, NumbersStep
  <2>. QED  BY <1>2, <2>1, <2>2
<1>. HIDE DEF f, floods
<1>7. FloodsDistinct'
  <2>. SUFFICES ASSUME NEW p \in air', NEW q \in air', p.isFlood, q.isFlood,
                       FloodId(p) = FloodId(q), Data(p)
                PROVE  Data(q) /\ q.id = p.id
    BY DEF FloodsDistinct, Data, FloodId
  <2>1. CASE p \in air /\ q \in air
    BY <1>1, <2>1 DEF FloodsDistinct
  <2>2. CASE p \notin air /\ q \notin air
    BY <1>2, <1>5, <2>2
  <2>3. CASE p \in air /\ q \notin air
    BY <1>2, <1>3, <1>5, <2>3
  <2>4. CASE p \notin air /\ q \in air
    BY <1>2, <1>3, <1>5, <2>4
  <2>. QED  BY <2>1, <2>2, <2>3, <2>4
<1>8. ASSUME NEW x \in air' PROVE Spreads(x)' /\ Arrived(x)' /\ OnRoute(x)'
  <2>1. CASE x \in air
    <3>1. x.isFlood => \A k \in Node : FloodId(x) \in floodTable'[k] => FloodId(x) \in floodTable[k]
      BY <1>2, <1>3, <2>1
    <3>. QED  BY <1>2, <1>4, <2>1, <3>1, UnderwayKept
  <2>2. CASE Fresh(x, n, d)
    <3>1. Spreads(x)'
      <4>. SUFFICES ASSUME x.isFlood
                    PROVE  /\ FloodId(x) \in floodTable'[x.initialSrc]
                           /\ \A k \in Node : FloodId(x) \in floodTable'[k] =>
                                \A r \in Nbr(k) : \E q \in air' : Data(q) /\ q.id = x.id /\ q.to = r
        BY DEF Spreads, Data, FloodId
      <4>1. StartFlood(n) /\ floods /\ FloodId(x) = f /\ x.initialSrc = n /\ x.id = sent + 1
        BY <1>2, <1>5, <2>2
      <4>. QED  BY <1>2, <1>3, <4>1
    <3>2. Arrived(x)'
      <4>1. x.finalDest = d /\ x.initialSrc = n
        BY <1>5, <2>2
      <4>2. d # n
        BY DEF NotToOneself
      <4>3. x.isFlood /\ d # NET_BROADCAST => FloodId(x) \notin floodTable'[d]
        BY <1>2, <1>3, <1>5, <2>2, <4>2 DEF Address
      <4>. QED  BY <4>1, <4>2, <4>3 DEF Arrived, FloodId
    <3>3. OnRoute(x)'
      <4>. SUFFICES ASSUME ~x.isFlood PROVE x.to = d \/ HasRoute(x.to, d)'
        BY <1>5, <2>2 DEF OnRoute, HasRoute, getRoute
      <4>1. ~floods /\ x.to = getRoute(n, d)
        BY <1>5, <2>2
      <4>2. d \in Node /\ HasRoute(n, d)
        BY <1>2, <4>1 DEF floods, Address
      <4>3. x.to = d \/ HasRoute(x.to, d)
        BY <1>1, <4>1, <4>2 DEF NextHops
      <4>. QED  BY <1>2, <4>3 DEF HasRoute, getRoute
    <3>. QED  BY <3>1, <3>2, <3>3
  <2>. QED  BY <1>2, <2>1, <2>2
<1>9. Underway'
  BY <1>8 DEF Underway
<1>. QED  BY <1>6, <1>7, <1>9

\* Where copy p has been received, its flood has been sent on, and so has every other:
\* of x, a copy of before, all that was known or on its way is so still.
LEMMA SpreadsOn ==
  ASSUME ArriveInv, NEW p \in air, NEW rssi \in Rssi[p.src][p.to], handleLowerMsg(p, rssi),
         NEW x \in air
  PROVE  Spreads(x)'
<1>1. TypeOK /\ FloodsDistinct /\ Alike /\ Spreads(x) /\ x \in Packet
  BY DEF ArriveInv, OnceInv, Underway, TypeOK
<1>2. /\ p.to \in Node /\ damaged' = damaged
      /\ \A k \in Node : floodTable[k] \subseteq floodTable'[k]
      /\ \A k \in Node \ {p.to} : floodTable'[k] = floodTable[k]
      /\ floodTable'[p.to] = IF p.isFlood THEN floodTable[p.to] \cup {FloodId(p)}
                             ELSE floodTable[p.to]
      /\ air \ {p} \subseteq air'
      /\ New(p) => Forwarded(p.to, p) \subseteq air'
  BY <1>1, LowerMsgEffect
<1>. SUFFICES ASSUME Data(x), x.isFlood, x.id \notin damaged
              PROVE  /\ FloodId(x) \in floodTable'[x.initialSrc]
                     /\ \A n \in Node : FloodId(x) \in floodTable'[n] =>
                          \/ n = x.finalDest
                          \/ \A r \in Nbr(n) : \/ FloodId(x) \in floodTable'[r]
                                               \/ \E q \in air' : Data(q) /\ q.id = x.id /\ q.to = r
  BY <1>2 DEF Spreads, Data, FloodId
<1>3. FloodId(x) \in floodTable'[x.initialSrc]
  BY <1>1, <1>2 DEF Spreads, Packet
<1>4. ASSUME NEW n \in Node, FloodId(x) \in floodTable'[n], n # x.finalDest, NEW r \in Nbr(n)
      PROVE  \/ FloodId(x) \in floodTable'[r]
             \/ \E q \in air' : Data(q) /\ q.id = x.id /\ q.to = r
  <2>0. r \in Node
    BY DEF Nbr
  <2>1. CASE FloodId(x) \in floodTable[n]
    <3>1. CASE FloodId(x) \in floodTable[r]
      BY <1>2, <2>0, <3>1
    <3>2. ASSUME NEW q \in air, Data(q), q.id = x.id, q.to = r
          PROVE  \/ FloodId(x) \in floodTable'[r]
                 \/ \E y \in air' : Data(y) /\ y.id = x.id /\ y.to = r
      <4>1. CASE q # p
        BY <1>2, <3>2, <4>1
      <4>2. CASE q = p
        <5>1. p.isFlood /\ FloodId(p) = FloodId(x)
          BY <1>1, <3>2, <4>2 DEF Alike, FloodId
        <5>. QED  BY <1>2, <3>2, <4>2, <5>1
      <4>. QED  BY <4>1, <4>2
    <3>. QED  BY <1>1, <1>4, <2>1, <3>1, <3>2 DEF Spreads
  <2>2. CASE FloodId(x) \notin floodTable[n]
    <3>1. n = p.to /\ p.isFlood /\ FloodId(p) = FloodId(x)
      BY <1>2, <1>4, <2>2
    <3>2. Data(p) /\ p.id = x.id
      BY <1>1, <3>1 DEF FloodsDistinct
    <3>3. New(p) /\ p.to # p.finalDest
      BY <1>1, <1>4, <2>2, <3>1, <3>2 DEF New, Alike
    <3>4. PICK q \in Forwarded(p.to, p) : q.to = r
      BY <1>1, <3>1, <3>3, ForwardedIsRelay
    <3>5. Relay(q, p)
      BY <1>1, ForwardedIsRelay
    <3>. QED  BY <1>2, <3>2, <3>3, <3>4, <3>5 DEF Relay, Data
  <2>. QED  BY <2>1, <2>2
<1>. QED  BY <1>3, <1>4

\* A packet is passed up at its destination when its flood comes there.
LEMMA ArrivedOn ==
  ASSUME ArriveInv, OnceInv', NEW p \in air, NEW rssi \in Rssi[p.src][p.to], handleLowerMsg(p, rssi),
         NEW x \in air
  PROVE  Arrived(x)'
<1>1. /\ TypeOK /\ FloodsDistinct /\ Alike /\ Numbered /\ DeliveredOnce' /\ TypeOK'
      /\ Arrived(x) /\ x \in Packet
  BY DEF ArriveInv, OnceInv, Underway, TypeOK
<1>2. /\ p.to \in Node /\ sent' = sent /\ sent \in 0..MaxData
      /\ \A k \in Node \ {p.to} : floodTable'[k] = floodTable[k]
      /\ floodTable'[p.to] = IF p.isFlood THEN floodTable[p.to] \cup {FloodId(p)}
                             ELSE floodTable[p.to]
  BY <1>1, LowerMsgEffect DEF TypeOK
<1>. DEFINE d == x.finalDest
<1>. SUFFICES ASSUME Data(x), d # NET_BROADCAST
              PROVE  /\ d # x.initialSrc
                     /\ x.isFlood /\ FloodId(x) \in floodTable'[d] => got'[d][x.id] = 1
  BY DEF Arrived, Data, FloodId
<1>3. d \in Node /\ d # x.initialSrc
  BY <1>1 DEF Packet, Address, Arrived
<1>4. x.id \in 1..sent /\ x.id \in 1..MaxData
  BY <1>1, <1>2, RouteAssumption DEF Numbered
<1>5. got[d][x.id] \in Nat /\ got'[d][x.id] \in Nat /\ got'[d][x.id] <= 1
  BY <1>1, <1>2, <1>3, <1>4 DEF TypeOK, DeliveredOnce
<1>6. ASSUME x.isFlood, FloodId(x) \in floodTable'[d] PROVE got'[d][x.id] = 1
  <2>1. CASE FloodId(x) \in floodTable[d]
    <3>1. got[d][x.id] = 1
      BY <1>1, <1>6, <2>1 DEF Arrived
    <3>2. got'[d][x.id] = got[d][x.id] \/ got'[d][x.id] = got[d][x.id] + 1
      BY <1>1, <1>3, <1>4, PassedUp
    <3>. QED  BY <1>5, <3>1, <3>2
  <2>2. CASE FloodId(x) \notin floodTable[d]
    <3>1. d = p.to /\ p.isFlood /\ FloodId(p) = FloodId(x)
      BY <1>2, <1>3, <1>6, <2>2
    <3>2. Data(p) /\ p.id = x.id
      BY <1>1, <1>6, <3>1 DEF FloodsDistinct
    <3>3. New(p) /\ p.finalDest = p.to
      BY <1>1, <2>2, <3>1, <3>2 DEF New, Alike
    <3>4. got'[d][x.id] = got[d][x.id] + 1
      BY <1>1, <1>4, <3>1, <3>2, <3>3, PassedUp
    <3>. QED  BY <1>5, <3>4
  <2>. QED  BY <2>1, <2>2
<1>. QED  BY <1>3, <1>6

LEMMA ArriveLower ==
  ASSUME ArriveInv, OnceInv', RouteInv', NEW p \in air, NEW rssi \in Rssi[p.src][p.to],
         handleLowerMsg(p, rssi)
  PROVE  FloodsNumbered' /\ FloodsDistinct' /\ Underway'
<1>1. TypeOK /\ FloodsDistinct /\ NextHops
  BY DEF ArriveInv, OnceInv, RouteInv
<1>2. /\ p \in Packet /\ p.to \in Node /\ floodSeqNumber' = floodSeqNumber
      /\ damaged' = damaged
      /\ \A q \in air' : (q \in air /\ q # p) \/ (New(p) /\ Relay(q, p))
      /\ \A k \in Node \ {p.to} : floodTable'[k] = floodTable[k]
      /\ floodTable'[p.to] = IF p.isFlood THEN floodTable[p.to] \cup {FloodId(p)}
                             ELSE floodTable[p.to]
  BY <1>1, LowerMsgEffect
<1>3. \A q \in air' : \E r \in air :
         /\ r.kind = q.kind /\ r.id = q.id /\ r.initialSrc = q.initialSrc
         /\ r.finalDest = q.finalDest /\ r.isFlood = q.isFlood /\ r.seqNum = q.seqNum
         /\ q = r \/ (r = p /\ Relay(q, p))
  BY <1>2 DEF Relay
<1>4. \A k \in Node : \A f \in floodTable'[k] :
         f \in floodTable[k] \/ \E r \in air : r.isFlood /\ f = FloodId(r)
  <2>. SUFFICES ASSUME NEW k \in Node, NEW f \in floodTable'[k], f \notin floodTable[k]
                PROVE  p.isFlood /\ f = FloodId(p)
    OBVIOUS
  <2>. QED  BY <1>2
<1>5. FloodsNumbered'
  BY <1>2, <1>3, <1>4, NumbersStep
<1>6. FloodsDistinct'
  <2>. SUFFICES ASSUME NEW x \in air', NEW y \in air', x.isFlood, y.isFlood,
                       FloodId(x) = FloodId(y), Data(x)
                PROVE  Data(y) /\ y.id = x.id
    BY DEF FloodsDistinct, Data, FloodId
  <2>1. PICK r \in air : r.kind = x.kind /\ r.id = x.id /\ r.isFlood /\ FloodId(r) = FloodId(x)
    BY <1>3 DEF FloodId
  <2>2. PICK s \in air : s.kind = y.kind /\ s.id = y.id /\ s.isFlood /\ FloodId(s) = FloodId(y)
    BY <1>3 DEF FloodId
  <2>. QED  BY <1>1, <2>1, <2>2 DEF FloodsDistinct, Data
<1>7. ASSUME NEW x \in air' PROVE Spreads(x)' /\ Arrived(x)' /\ OnRoute(x)'
  <2>1. PICK r \in air :
           /\ r.kind = x.kind /\ r.id = x.id /\ r.initialSrc = x.initialSrc
           /\ r.finalDest = x.finalDest /\ r.isFlood = x.isFlood /\ r.seqNum = x.seqNum
           /\ x = r \/ (r = p /\ Relay(x, p))
    BY <1>3
  <2>2. Spreads(r)' /\ Arrived(r)'
    BY SpreadsOn, ArrivedOn
  <2>3. FloodId(x) = FloodId(r)
    BY <2>1 DEF FloodId
  <2>4. Spreads(x)'
    BY <2>1, <2>2, <2>3 DEF Spreads, Data, FloodId
  <2>5. Arrived(x)'
    BY <2>1, <2>2, <2>3 DEF Arrived, Data, FloodId
  <2>6. OnRoute(x)'
    <3>. SUFFICES ASSUME Data(x), ~x.isFlood
                  PROVE  x.to = x.finalDest \/ HasRoute(x.to, x.finalDest)'
      BY DEF OnRoute, Data, HasRoute, getRoute
    <3>1. Data(r) /\ ~r.isFlood /\ r.finalDest \in Node /\ r.to \in Node
      BY <1>1, <2>1 DEF ArriveInv, OnceInv, RoutedAlone, Data, TypeOK, Packet
    <3>2. r.to = r.finalDest \/ HasRoute(r.to, r.finalDest)
      BY <3>1 DEF ArriveInv, Underway, OnRoute
    <3>3. \A k, e \in Node : HasRoute(k, e) => HasRoute(k, e)'
      BY <1>1, LowerMsgRoutes
    <3>4. CASE x = r
      BY <3>1, <3>2, <3>3, <3>4
    <3>5. CASE r = p /\ Relay(x, p)
      <4>1. p.to # p.finalDest /\ x.to = NextHop(p.to, p.finalDest)
        BY <3>1, <3>5, RouteAssumption DEF Relay
      <4>2. HasRoute(p.to, p.finalDest) /\ x.to = getRoute(p.to, p.finalDest)
        BY <3>2, <3>5, <4>1 DEF NextHop
      <4>3. x.to \in Node /\ (x.to = p.finalDest \/ HasRoute(x.to, p.finalDest))
        BY <1>1, <3>1, <3>5, <4>2 DEF NextHops
      <4>. QED  BY <2>1, <3>1, <3>3, <3>5, <4>3
    <3>. QED  BY <2>1, <3>4, <3>5
  <2>. QED  BY <2>4, <2>5, <2>6
<1>8. Underway'
  BY <1>7 DEF Underway
<1>. QED  BY <1>5, <1>6, <1>8

LEMMA ArriveLose ==
  ASSUME ArriveInv, NEW p \in air, Lose(p)
  PROVE  FloodsNumbered' /\ FloodsDistinct' /\ Underway'
<1>1. FloodsNumbered /\ FloodsDistinct /\ Underway
  BY DEF ArriveInv
<1>2. /\ air' = air \ {p} /\ damaged' = damaged \cup {p.id}
      /\ UNCHANGED <<routeTable, floodTable, floodSeqNumber, got>>
  BY DEF Lose
<1>3. FloodsNumbered' /\ FloodsDistinct'
  BY <1>1, <1>2 DEF FloodsNumbered, FloodsDistinct, Data, FloodId
<1>4. ASSUME NEW x \in air' PROVE Spreads(x)' /\ Arrived(x)' /\ OnRoute(x)'
  <2>1. x \in air /\ Spreads(x) /\ Arrived(x) /\ OnRoute(x)
    BY <1>1, <1>2 DEF Underway
  <2>2. Arrived(x)' /\ OnRoute(x)'
    BY <1>2, <2>1 DEF Arrived, OnRoute, Data, FloodId, HasRoute, getRoute
  <2>3. Spreads(x)'
    BY <1>2, <2>1 DEF Spreads, Data, FloodId
  <2>. QED  BY <2>2, <2>3
<1>. QED  BY <1>3, <1>4 DEF Underway

LEMMA ArriveStep ==
  ASSUME StrongLinks, NotToOneself, ArriveInv, [Next]_vars
  PROVE  ArriveInv'
<1>0. OnceInv' /\ RouteInv'
  BY OnceStep, RoutesStep DEF ArriveInv
<1>. DEFINE Goal == FloodsNumbered' /\ FloodsDistinct' /\ Underway'
<1>1. ASSUME NEW n \in Node, SendRouteFlood(n) PROVE Goal
  BY <1>1, ArriveRouteFlood
<1>2. ASSUME NEW n \in Node, NEW d \in Dest[n], handleUpperMsg(n, d) PROVE Goal
  BY <1>2, ArriveUpper
<1>3. ASSUME NEW p \in air, Lose(p) PROVE Goal
  BY <1>3, ArriveLose
<1>4. ASSUME NEW p \in air, NEW rssi \in Rssi[p.src][p.to], handleLowerMsg(p, rssi) PROVE Goal
  BY <1>0, <1>4, ArriveLower
<1>5. ASSUME UNCHANGED vars PROVE Goal
  <2>1. UNCHANGED <<routeTable, floodTable, floodSeqNumber, air, got, damaged>>
    BY <1>5 DEF vars
  <2>2. FloodsNumbered' /\ FloodsDistinct'
    BY <2>1 DEF ArriveInv, FloodsNumbered, FloodsDistinct
  <2>3. ASSUME NEW x \in air PROVE Spreads(x)' /\ Arrived(x)' /\ OnRoute(x)'
    BY <2>1, UnderwayKept
  <2>4. Underway'
    BY <2>1, <2>3 DEF Underway
  <2>. QED  BY <2>2, <2>4
<1>. QED  BY <1>0, <1>1, <1>2, <1>3, <1>4, <1>5 DEF Next, ArriveInv

\* The last copy of a packet goes: it was lost, or the packet is there.
LEMMA LastCopy ==
  ASSUME BothWays, Connected, ArriveInv, ArriveInv', [Next]_vars, NEW x \in air,
         Data(x), x.finalDest # NET_BROADCAST, ~OnItsWay(x.id)', x.id \notin damaged'
  PROVE  got'[x.finalDest][x.id] = 1
<1>. DEFINE d == x.finalDest
<1>1. /\ TypeOK /\ Alike /\ Numbered /\ RoutedAlone /\ NextHops /\ FloodsDistinct
      /\ Spreads(x) /\ Arrived(x) /\ OnRoute(x) /\ x \in Packet
  BY DEF ArriveInv, OnceInv, RouteInv, Underway, TypeOK
<1>2. \A q \in air' : ~(Data(q) /\ q.id = x.id)
  BY DEF OnItsWay, Data
<1>3. x \notin air'
  BY <1>2
<1>4. PICK rssi \in Rssi[x.src][x.to] : handleLowerMsg(x, rssi)
  <2>1. \A n \in Node : ~SendRouteFlood(n)
    BY <1>3 DEF SendRouteFlood
  <2>2. \A n \in Node : \A e \in Dest[n] : ~handleUpperMsg(n, e)
    BY <1>3 DEF handleUpperMsg
  <2>3. \A p \in air : ~Lose(p)
    BY <1>3 DEF Lose
  <2>4. ~UNCHANGED vars
    BY <1>3 DEF vars
  <2>5. PICK p \in air : \E rssi \in Rssi[p.src][p.to] : handleLowerMsg(p, rssi)
    BY <2>1, <2>2, <2>3, <2>4 DEF Next
  <2>6. p = x
    BY <1>3, <2>5 DEF handleLowerMsg
  <2>. QED  BY <2>5, <2>6
<1>5. d \in Node /\ x.to \in Node /\ x.id \in 1..MaxData /\ x.initialSrc \in Node
  <2>1. sent \in 0..MaxData
    BY <1>1 DEF TypeOK
  <2>. QED  BY <1>1, <2>1, RouteAssumption DEF Numbered, Packet, Address, TypeOK
<1>6. New(x) => Forwarded(x.to, x) = {}
  <2>1. New(x) => Forwarded(x.to, x) \subseteq air'
    BY <1>1, <1>4, LowerMsgEffect
  <2>2. \A q \in Forwarded(x.to, x) : Data(q) /\ q.id = x.id
    BY <1>1, ForwardedIsRelay DEF Relay, Data
  <2>. QED  BY <1>2, <2>1, <2>2
<1>7. CASE ~x.isFlood
  <2>1. New(x) /\ got[d][x.id] = 0
    BY <1>1, <1>5, <1>7 DEF New, RoutedAlone
  <2>2. x.to = d
    <3>. SUFFICES ASSUME x.to # d PROVE FALSE
      OBVIOUS
    <3>1. HasRoute(x.to, d)
      BY <1>1, <1>7 DEF OnRoute
    <3>2. getRoute(x.to, d) \in Nbr(x.to)
      BY <1>1, <1>5, <3>1 DEF NextHops, BothWays
    <3>3. \E q \in Forwarded(x.to, x) : q.to = NextHop(x.to, d)
      BY <1>1, <1>7, <3>1, <3>2, ForwardedIsRelay DEF NextHop
    <3>. QED  BY <1>6, <2>1, <3>3
  <2>. QED  BY <1>1, <1>4, <1>5, <2>1, <2>2, PassedUp
<1>8. CASE x.isFlood
  <2>. DEFINE K == {n \in Node : FloodId(x) \in floodTable'[n]}
  <2>1. /\ \A k \in Node \ {x.to} : floodTable'[k] = floodTable[k]
        /\ floodTable'[x.to] = floodTable[x.to] \cup {FloodId(x)}
        /\ x.id \notin damaged
    BY <1>1, <1>4, <1>8, LowerMsgEffect
  <2>2. x.to \in K /\ x.initialSrc \in K
    BY <1>1, <1>5, <1>8, <2>1 DEF Spreads
  <2>3. ASSUME NEW n \in K, n # d, NEW r \in Nbr(n) PROVE r \in K
    <3>0. r \in Node
      BY DEF Nbr
    <3>1. CASE FloodId(x) \in floodTable[n]
      <4>1. CASE FloodId(x) \in floodTable[r]
        BY <2>1, <3>0, <4>1
      <4>2. CASE \E q \in air : Data(q) /\ q.id = x.id /\ q.to = r
        <5>1. PICK q \in air : Data(q) /\ q.id = x.id /\ q.to = r
          BY <4>2
        <5>2. q = x
          BY <1>1, <1>2, <1>4, <5>1, LowerMsgEffect
        <5>. QED  BY <2>2, <5>1, <5>2
      <4>. QED  BY <1>1, <1>8, <2>1, <2>3, <3>1, <4>1, <4>2 DEF Spreads
    <3>2. CASE FloodId(x) \notin floodTable[n]
      <4>1. n = x.to /\ New(x)
        BY <2>1, <3>2 DEF New
      <4>2. \E q \in Forwarded(x.to, x) : q.to = r
        BY <1>1, <1>8, <2>3, <4>1, ForwardedIsRelay
      <4>. QED  BY <1>6, <4>1, <4>2
    <3>. QED  BY <3>1, <3>2
  <2>4. d \in K
    <3>. SUFFICES ASSUME d \notin K PROVE FALSE
      OBVIOUS
    <3>1. \A n \in K : Nbr(n) \subseteq K
      BY <2>3
    <3>2. K \in SUBSET Node /\ K # {}
      BY <2>2
    <3>. HIDE DEF K
    <3>3. K = Node
      BY <3>1, <3>2 DEF Connected
    <3>. QED  BY <1>5, <3>3
  <2>5. Arrived(x)'
    <3>1. OnceInv'
      BY DEF ArriveInv
    <3>. QED  BY <1>4, <3>1, ArrivedOn
  <2>. QED  BY <1>8, <2>4, <2>5 DEF Arrived, Data, FloodId
<1>. QED  BY <1>7, <1>8

\* On every connected network whose links are strong and go both ways, data for one node
\* that loses no copy arrives there: a flood comes everywhere, and a route leads on from
\* every hop (WiseRoute::handleUpperMsg and handleLowerMsg).
THEOREM DataAlwaysArrives ==
  ASSUME StrongLinks, BothWays, Connected, NotToOneself
  PROVE  Spec => DataArrives
<1>1. ArriveInv /\ [Next]_vars => ArriveInv'
  BY ArriveStep
<1>2. /\ ArriveInv /\ [Next]_vars
      => [\A p \in air : (/\ p.kind = "DATA" /\ p.finalDest # NET_BROADCAST
                         /\ ~OnItsWay(p.id)' /\ p.id \notin damaged')
                        => got'[p.finalDest][p.id] = 1]_vars
  BY <1>1, LastCopy DEF Data
<1>. QED  BY <1>1, <1>2, InitArrive, PTL DEF Spec, DataArrives

-----------------------------------------------------------------------------
(* Mobility *)

Point == [Axes -> Int]
Vector == [Axes -> {-1, 0, 1}]
Policies == {"REFLECT", "WRAP", "PLACERANDOMLY", "RAISEERROR"}
Folding == {"REFLECT", "WRAP"}

BorderType == [in : Nat, policy : Policies, startPos : Point, direction : Vector]

HostType ==
    [kind : Mover, startPos : Point, direction : Vector, moving : BOOLEAN,
     stepTarget : Point, targetPos : Point, stepSize : Point, angle : Vector,
     borderPolicy : Policies, moveMsg : Int, targetTime : Int,
     rectangle : Rectangles \cup {<<>>}, d : Int, numSteps : Int, step : Int,
     borders : SUBSET BorderType, error : BOOLEAN]

\* Between s and t lie m units in the direction D.
Uniform(s, t, m, D) ==
    \/ D = 0 /\ t = s
    \/ D = 1 /\ t = s + m
    \/ D = -1 /\ t = s - m

UniformStep(s, t, m, D) == \A i \in Axes : Uniform(s[i], t[i], m, D[i])

-----------------------------------------------------------------------------
(* Places and directions *)

LEMMA Sizes == \A i \in Axes : Size[i] \in Nat /\ Size[i] % 2 = 0 /\ updateInterval <= Size[i]
  BY MobilityAssumption DEF GeneralPosition

LEMMA PointOfTwo == ASSUME NEW a \in Int, NEW b \in Int PROVE <<a, b>> \in Point
  BY DEF Point, Axes

LEMMA VectorOfTwo ==
  ASSUME NEW a \in {-1, 0, 1}, NEW b \in {-1, 0, 1} PROVE <<a, b>> \in Vector
  BY DEF Vector, Axes

LEMMA VectorIsPoint == Vector \subseteq Point
  BY DEF Vector, Point

LEMMA DirectionIsVector == Direction \subseteq Vector
  BY DEF Direction, Vector, Axes

LEMMA QuarterIsVector == Quarters \subseteq Vector
  BY DEF Quarters, Vector, Axes

LEMMA PlaceIsPoint ==
  \A p \in Places : p \in Point /\ \A i \in Axes : p[i] % 2 = 1 /\ p[i] \in 0..Size[i]
  BY Sizes DEF Places, Point, Axes, Size

LEMMA PointsEqual ==
  ASSUME NEW p \in Point, NEW q \in Point, \A i \in Axes : p[i] = q[i] PROVE p = q
  BY DEF Point

LEMMA PointExcept ==
  ASSUME NEW p \in Point, NEW i \in Axes, NEW v \in Int
  PROVE  /\ [p EXCEPT ![i] = v] \in Point
         /\ [p EXCEPT ![i] = v][i] = v
         /\ \A j \in Axes : j # i => [p EXCEPT ![i] = v][j] = p[j]
  BY DEF Point, Axes

LEMMA PlusPoint ==
  ASSUME NEW a \in Point, NEW k \in Int, NEW b \in Point
  PROVE  /\ Plus(a, k, b) \in Point
         /\ \A i \in Axes : Plus(a, k, b)[i] = a[i] + k * b[i]
  BY DEF Plus, Point, Axes

\* A way along a direction is uniform, and nothing else is.
LEMMA PlusUniform ==
  ASSUME NEW a \in Point, NEW k \in Int, NEW D \in Vector
  PROVE  /\ Plus(a, k, D) \in Point
         /\ \A i \in Axes : Uniform(a[i], Plus(a, k, D)[i], k, D[i])
         /\ UniformStep(a, Plus(a, k, D), k, D)
<1>1. D \in Point
  BY VectorIsPoint
<1>2. \A i \in Axes : Uniform(a[i], a[i] + k * D[i], k, D[i])
  <2> SUFFICES ASSUME NEW i \in Axes PROVE Uniform(a[i], a[i] + k * D[i], k, D[i])
    OBVIOUS
  <2>1. D[i] \in {-1, 0, 1} /\ a[i] \in Int
    BY DEF Vector, Point
  <2> QED  BY <2>1 DEF Uniform
<1> QED  BY <1>1, <1>2, PlusPoint DEF UniformStep

LEMMA TowardsSign ==
  ASSUME NEW a \in Point, NEW b \in Point
  PROVE  /\ Towards(a, b) \in Vector
         /\ \A i \in Axes : Towards(a, b)[i] = Sign(b[i] - a[i])
<1>1. \A i \in Axes : a[i] \in Int /\ b[i] \in Int
  BY DEF Point
<1>2. \A i \in Axes : Sign(b[i] - a[i]) \in {-1, 0, 1}
  BY <1>1 DEF Sign
<1> QED  BY <1>2, VectorOfTwo DEF Towards, Axes

LEMMA TowardsUniform ==
  ASSUME NEW a \in Point, NEW b \in Point, NEW m \in Int, m > 0, NEW D \in Vector,
         UniformStep(a, b, m, D)
  PROVE  \A i \in Axes : Towards(a, b)[i] = D[i]
<1> SUFFICES ASSUME NEW i \in Axes PROVE Sign(b[i] - a[i]) = D[i]
  BY TowardsSign
<1>1. a[i] \in Int /\ b[i] \in Int /\ D[i] \in {-1, 0, 1} /\ Uniform(a[i], b[i], m, D[i])
  BY DEF Point, Vector, UniformStep
<1> QED  BY <1>1 DEF Uniform, Sign

-----------------------------------------------------------------------------
(* The border that a step crosses first *)

OffBorders(h) ==
    \A i \in Axes :
       /\ h.stepTarget[i] % 2 = 1 /\ h.stepSize[i] % 2 = 0
       /\ Segmented(h) \/ h.kind = "Circle" => h.targetPos[i] % 2 = 1

\* the parts of a host that border handling leaves alone
Frame(g, h) ==
    /\ g.kind = h.kind /\ g.startPos = h.startPos /\ g.direction = h.direction
    /\ g.moving = h.moving /\ g.borderPolicy = h.borderPolicy
    /\ g.moveMsg = h.moveMsg /\ g.targetTime = h.targetTime
    /\ g.rectangle = h.rectangle /\ g.d = h.d
    /\ g.numSteps = h.numSteps /\ g.step = h.step

Crosses(h, i) == i \in checkIfOutside(h)

Reached(h, i) == Plus(h.startPos, goToBorder(h, i), h.direction)

LEMMA HostFields ==
  ASSUME NEW h \in HostType
  PROVE  /\ h.startPos \in Point /\ h.stepTarget \in Point /\ h.targetPos \in Point
         /\ h.stepSize \in Point /\ h.direction \in Vector /\ h.angle \in Vector
         /\ \A i \in Axes : /\ h.startPos[i] \in Int /\ h.stepTarget[i] \in Int
                            /\ h.targetPos[i] \in Int /\ h.stepSize[i] \in Int
                            /\ h.direction[i] \in {-1, 0, 1} /\ h.angle[i] \in {-1, 0, 1}
  BY DEF HostType, Point, Vector

LEMMA FirstCrossed ==
  ASSUME NEW h
  PROVE  /\ checkIfOutside(h) \subseteq Axes
         /\ \A i \in checkIfOutside(h) : Out(h, i)
         /\ checkIfOutside(h) = {} => \A i \in Axes : ~Out(h, i)
  BY DEF checkIfOutside, Axes

\* A step that is not out ends on the playground.
LEMMA InsideUnlessOut ==
  ASSUME NEW h \in HostType
  PROVE  /\ (\A i \in Axes : ~Out(h, i)) => Inside(h.stepTarget)
         /\ OffBorders(h) /\ Inside(h.stepTarget) => \A i \in Axes : ~Out(h, i)
  BY HostFields, Sizes DEF Out, Inside, OffBorders

\* Where a straight way meets the border it crosses first, what is left of it goes
\* straight on from there, and that place is on the edge of the playground.
LEMMA FirstBorder ==
  ASSUME NEW h \in HostType, Inside(h.startPos), OffBorders(h),
         NEW m \in Nat, UniformStep(h.startPos, h.stepTarget, m, h.direction),
         NEW i \in Axes, Crosses(h, i)
  PROVE  /\ h.direction[i] # 0
         /\ BorderInterval(h, i) \in Nat /\ BorderInterval(h, i) < m
         /\ goToBorder(h, i) = BorderInterval(h, i)
         /\ Reached(h, i) \in Point /\ Inside(Reached(h, i))
         /\ Reached(h, i)[i] = Edge(h, i)
         /\ UniformStep(Reached(h, i), h.stepTarget, m - BorderInterval(h, i), h.direction)
<1> DEFINE s(k) == h.startPos[k]
           t(k) == h.stepTarget[k]
           D(k) == h.direction[k]
<1>1. \A k \in Axes : /\ s(k) \in 0..Size[k] /\ t(k) \in Int /\ t(k) % 2 = 1
                      /\ Size[k] \in Nat /\ Size[k] % 2 = 0
                      /\ D(k) \in {-1, 0, 1} /\ Uniform(s(k), t(k), m, D(k))
  BY HostFields, Sizes DEF Inside, OffBorders, UniformStep
<1>2. \A k \in Axes : Out(h, k) <=> t(k) < 0 \/ t(k) >= Size[k]
  BY DEF Out
<1>3. \A k \in Axes : Edge(h, k) = IF t(k) < 0 THEN 0 ELSE Size[k]
  BY DEF Edge
<1>4. \A k \in Axes : BorderStep(h, k) = Edge(h, k) - s(k)
  BY DEF BorderStep
<1> DEFINE B(k) == Edge(h, k) - s(k)
<1>5. ASSUME NEW k \in Axes, Out(h, k)
      PROVE  \/ D(k) = 1 /\ Edge(h, k) = Size[k] /\ B(k) >= 0 /\ B(k) < m
             \/ D(k) = -1 /\ Edge(h, k) = 0 /\ B(k) <= 0 /\ -B(k) < m
  <2>1. /\ s(k) \in 0..Size[k] /\ t(k) \in Int /\ t(k) % 2 = 1
        /\ Size[k] \in Nat /\ Size[k] % 2 = 0
        /\ D(k) \in {-1, 0, 1} /\ Uniform(s(k), t(k), m, D(k))
        /\ t(k) < 0 \/ t(k) >= Size[k]
        /\ Edge(h, k) = IF t(k) < 0 THEN 0 ELSE Size[k]
    BY <1>1, <1>2, <1>3, <1>5
  <2> HIDE DEF s, t, D
  <2>2. CASE t(k) < 0
    BY <2>1, <2>2 DEF Uniform
  <2>3. CASE t(k) >= Size[k]
    <3>1. t(k) > Size[k]
      BY <2>1, <2>3
    <3> QED  BY <2>1, <2>3, <3>1 DEF Uniform
  <2> QED  BY <2>1, <2>2, <2>3
<1>6. Out(h, i)
  BY FirstCrossed DEF Crosses
<1>7. \A k \in Axes : Edge(h, k) \in Int /\ s(k) \in Int /\ B(k) \in Int
  BY <1>1, <1>3
<1>8. /\ goToBorder(h, i) = BorderInterval(h, i)
      /\ BorderInterval(h, i) \in Nat /\ BorderInterval(h, i) < m
      /\ \/ D(i) = 1 /\ BorderInterval(h, i) = B(i)
         \/ D(i) = -1 /\ BorderInterval(h, i) = -B(i)
  <2>1. goToBorder(h, i) = B(i) * D(i)
    BY <1>4 DEF goToBorder
  <2>2. BorderInterval(h, i) = IF B(i) * D(i) < 0 THEN -(B(i) * D(i)) ELSE B(i) * D(i)
    BY <2>1 DEF BorderInterval, Abs
  <2> HIDE DEF B, D
  <2>3. CASE D(i) = 1 /\ B(i) >= 0 /\ B(i) < m
    BY <2>1, <2>2, <2>3, <1>7
  <2>4. CASE D(i) = -1 /\ B(i) <= 0 /\ -B(i) < m
    BY <2>1, <2>2, <2>4, <1>7
  <2> QED  BY <2>3, <2>4, <1>5, <1>6
<1> DEFINE n == BorderInterval(h, i)
<1>9. /\ Reached(h, i) \in Point
      /\ \A k \in Axes : Uniform(s(k), Reached(h, i)[k], n, D(k))
  BY PlusUniform, HostFields, <1>8 DEF Reached
<1>10. Reached(h, i)[i] = Edge(h, i)
  BY <1>7, <1>8, <1>9 DEF Uniform
<1>11. ASSUME NEW k \in Axes, Out(h, k)
       PROVE  n <= B(k) \/ n <= -B(k)
  <2>1. CASE k = i
    BY <1>8, <2>1, <1>7
  <2>2. CASE i = 1 /\ k = 2
    <3>1. ~YIsFirst(h)
      BY <1>11, <2>2 DEF Crosses, checkIfOutside
    <3>2. D(1) # 0 /\ D(2) # 0
      BY <1>5, <1>6, <1>11, <2>2
    <3>3. ~(Abs(BorderStep(h, 1)) > Abs(BorderStep(h, 2)))
      BY <3>1, <3>2 DEF YIsFirst
    <3> QED  BY <1>4, <1>7, <1>8, <2>2, <3>3 DEF Abs
  <2>3. CASE i = 2 /\ k = 1
    <3>1. YIsFirst(h)
      BY <1>11, <2>3 DEF Crosses, checkIfOutside
    <3>2. D(1) # 0
      BY <1>5, <1>11, <2>3
    <3>3. Abs(BorderStep(h, 1)) > Abs(BorderStep(h, 2))
      BY <3>1, <3>2 DEF YIsFirst
    <3> QED  BY <1>4, <1>7, <1>8, <2>3, <3>3 DEF Abs
  <2> QED  BY <2>1, <2>2, <2>3 DEF Axes
<1>12. Inside(Reached(h, i))
  <2> SUFFICES ASSUME NEW k \in Axes PROVE Reached(h, i)[k] \in 0..Size[k]
    BY DEF Inside
  <2>1. CASE Out(h, k)
    BY <1>1, <1>5, <1>7, <1>8, <1>9, <1>11, <2>1 DEF Uniform
  <2>2. CASE ~Out(h, k)
    BY <1>1, <1>2, <1>8, <1>9, <2>2 DEF Uniform
  <2> QED  BY <2>1, <2>2
<1>13. UniformStep(Reached(h, i), h.stepTarget, m - n, h.direction)
  <2> SUFFICES ASSUME NEW k \in Axes PROVE Uniform(Reached(h, i)[k], t(k), m - n, D(k))
    BY DEF UniformStep
  <2> QED  BY <1>1, <1>8, <1>9 DEF Uniform
<1> QED  BY <1>8, <1>9, <1>10, <1>12, <1>13

-----------------------------------------------------------------------------
(* What a mirror and a torus make of a place *)

Bounce(x, s) == IF x % (2 * s) < s THEN x % (2 * s) ELSE 2 * s - (x % (2 * s))

LEMMA FoldedParts ==
  ASSUME NEW p
  PROVE  /\ Folded("REFLECT", p) = <<Bounce(p[1], Size[1]), Bounce(p[2], Size[2])>>
         /\ Folded("WRAP", p) = <<p[1] % Size[1], p[2] % Size[2]>>
  BY DEF Folded, Bounce

LEMMA ModNear ==
  ASSUME NEW x \in Int, NEW m \in Nat, m > 0
  PROVE  /\ x >= 0 /\ x < m => x % m = x
         /\ x < 0 /\ x >= -m => x % m = x + m
         /\ x >= m /\ x < 2 * m => x % m = x - m
  OBVIOUS

LEMMA BounceNear ==
  ASSUME NEW x \in Int, NEW s \in Nat, s > 0
  PROVE  /\ x >= 0 /\ x < s => Bounce(x, s) = x
         /\ x < 0 /\ x > -s => Bounce(x, s) = -x
         /\ x > s /\ x < 2 * s => Bounce(x, s) = 2 * s - x
<1>1. /\ x >= 0 /\ x < 2 * s => x % (2 * s) = x
      /\ x < 0 /\ x >= -(2 * s) => x % (2 * s) = x + 2 * s
  BY ModNear
<1> DEFINE r == x % (2 * s)
<1>2. Bounce(x, s) = IF r < s THEN r ELSE 2 * s - r
  BY DEF Bounce
<1> HIDE DEF r
<1>3. /\ x >= 0 /\ x < 2 * s => r = x
      /\ x < 0 /\ x >= -(2 * s) => r = x + 2 * s
  BY <1>1 DEF r
<1> QED  BY <1>2, <1>3

\* Off the borders, a place on the playground is where it is.
LEMMA FoldedInside ==
  ASSUME NEW p \in Point, Inside(p), \A i \in Axes : p[i] % 2 = 1, NEW policy \in Folding
  PROVE  Folded(policy, p) = p
<1>1. \A i \in Axes : p[i] >= 0 /\ p[i] < Size[i] /\ Size[i] \in Nat /\ Size[i] > 0
  BY Sizes DEF Inside, Point
<1>2. \A i \in Axes : Bounce(p[i], Size[i]) = p[i] /\ p[i] % Size[i] = p[i]
  BY <1>1, BounceNear, ModNear DEF Point
<1>3. p = <<p[1], p[2]>>
  BY DEF Point, Axes
<1> QED  BY <1>2, <1>3, FoldedParts DEF Folding, Axes

\* One reflection, or one wrap, of a place that is at most one size out leads to the
\* same place.
LEMMA FoldedAgain ==
  ASSUME NEW p \in Point, NEW q \in Point, NEW i \in Axes,
         p[i] % 2 = 1, p[i] >= -Size[i], p[i] <= 2 * Size[i],
         p[i] < 0 \/ p[i] >= Size[i],
         NEW e, e = IF p[i] < 0 THEN 0 ELSE Size[i],
         \A j \in Axes : j # i => q[j] = p[j]
  PROVE  /\ q[i] = 2 * e - p[i] => Folded("REFLECT", q) = Folded("REFLECT", p)
         /\ q[i] = p[i] + (Size[i] - 2 * e) => Folded("WRAP", q) = Folded("WRAP", p)
<1>1. /\ p[i] \in Int /\ q[i] \in Int /\ Size[i] \in Nat /\ Size[i] % 2 = 0 /\ Size[i] > 0
  BY Sizes, MobilityAssumption DEF Point
<1>2. p[i] > -Size[i] /\ p[i] < 2 * Size[i] /\ p[i] # Size[i]
  BY <1>1
<1>3. ASSUME q[i] = 2 * e - p[i]
      PROVE  Bounce(q[i], Size[i]) = Bounce(p[i], Size[i])
  <2>1. CASE p[i] < 0
    <3>1. q[i] = -p[i]
      BY <1>1, <1>3, <2>1
    <3> QED  BY <1>1, <1>2, <2>1, <3>1, BounceNear
  <2>2. CASE p[i] >= Size[i]
    <3>1. q[i] = 2 * Size[i] - p[i]
      BY <1>1, <1>3, <2>2
    <3>2. q[i] >= 0 /\ q[i] < Size[i] /\ p[i] > Size[i]
      BY <1>1, <1>2, <2>2, <3>1
    <3>3. Bounce(q[i], Size[i]) = q[i]
      BY <1>1, <3>2, BounceNear
    <3>4. Bounce(p[i], Size[i]) = 2 * Size[i] - p[i]
      BY <1>1, <1>2, <3>2, BounceNear
    <3> QED  BY <3>1, <3>3, <3>4
  <2> QED  BY <2>1, <2>2
<1>4. ASSUME q[i] = p[i] + (Size[i] - 2 * e)
      PROVE  q[i] % Size[i] = p[i] % Size[i]
  <2>1. CASE p[i] < 0
    <3>1. q[i] = p[i] + Size[i] /\ q[i] >= 0 /\ q[i] < Size[i]
      BY <1>1, <1>2, <1>4, <2>1
    <3> QED  BY <1>1, <1>2, <2>1, <3>1, ModNear
  <2>2. CASE p[i] >= Size[i]
    <3>1. q[i] = p[i] - Size[i] /\ q[i] >= 0 /\ q[i] < Size[i]
      BY <1>1, <1>2, <1>4, <2>2
    <3> QED  BY <1>1, <1>2, <2>2, <3>1, ModNear
  <2> QED  BY <2>1, <2>2
<1> QED  BY <1>3, <1>4, FoldedParts DEF Axes

-----------------------------------------------------------------------------
(* The ways to go on at a border *)

\* the direction in which a host goes on from border b
Way(h, b) == IF b.policy = "REFLECT" THEN b.direction ELSE h.direction

\* A border message is the only one, comes before the next step, from a place on the
\* playground, and what is left of the step goes straight on from there.
PendingBorder(h, b) ==
    /\ h.borders = {b}
    /\ b.in < h.moveMsg /\ h.moveMsg <= updateInterval
    /\ b.policy = Policy(h)
    /\ b.policy # "RAISEERROR" => Inside(b.startPos)
    /\ b.policy = "PLACERANDOMLY" => h.stepTarget = b.startPos
    /\ b.policy \in Folding => UniformStep(b.startPos, h.stepTarget, h.moveMsg - b.in, Way(h, b))

Pending(h) == \A b \in h.borders : PendingBorder(h, b)

\* Steps of constant size go where the host goes, once it has passed the border.
Steady(h) ==
    \/ h.kind \notin {"Mass", "Turtle", "BonnMotion", "ANSim"}
    \/ \A i \in Axes : h.stepSize[i] = 0
    \/ /\ h.borders = {} => UniformStep(<<0, 0>>, h.stepSize, updateInterval, h.direction)
       /\ \A b \in h.borders : UniformStep(<<0, 0>>, h.stepSize, updateInterval, Way(h, b))

\* a step that can be looked at: straight on for what is left of the interval, or not out
Straight(h) ==
    /\ Inside(h.startPos) /\ OffBorders(h) /\ h.borders = {}
    /\ \/ \A i \in Axes : ~Out(h, i)
       \/ /\ h.moveMsg \in 1..updateInterval
          /\ UniformStep(h.startPos, h.stepTarget, h.moveMsg, h.direction)
       \/ /\ h.moveMsg \in 1..updateInterval /\ Policy(h) = "RAISEERROR"
          /\ \A i \in Axes : Abs(h.stepTarget[i] - h.startPos[i]) <= h.moveMsg

\* a host that has been looked at
LookedAt(g, h) ==
    /\ g \in HostType /\ Frame(g, h) /\ OffBorders(g) /\ Pending(g)
    /\ g.error \/ (Steady(h) => Steady(g))
    /\ g.error \/ Policy(h) \notin Folding
         \/ Folded(Policy(h), g.stepTarget) = Folded(Policy(h), h.stepTarget)
    /\ h.kind = "Circle" =>
         /\ g.angle = h.angle
         /\ \A i \in Axes : g.stepTarget[i] - g.targetPos[i] = h.stepTarget[i] - h.targetPos[i]
    /\ Policy(h) \in {"RAISEERROR", "NONE"} => g.stepTarget = h.stepTarget

LEMMA PolicyOfFrame == ASSUME NEW g, NEW h, Frame(g, h) PROVE Policy(g) = Policy(h)
  BY DEF Frame, Policy, Traced

LEMMA PolicyOfKind ==
  ASSUME NEW h \in HostType
  PROVE  /\ Policy(h) \in Policies \cup {"NONE"}
         /\ Policy(h) = "NONE" <=> h.kind = "ConstSpeed"
         /\ h.kind = "Circle" => Policy(h) = "WRAP"
         /\ h.kind = "Rectangle" => Policy(h) = "RAISEERROR"
         /\ Policy(h) = "REFLECT" => h.kind \in {"Mass", "Turtle"}
         /\ Policy(h) = "PLACERANDOMLY" => h.kind = "Turtle"
<1>1. h.kind \in {"Mass", "Linear", "ConstSpeed", "Circle", "Rectangle",
                  "Turtle", "BonnMotion", "ANSim"}
      /\ h.borderPolicy \in Policies
  BY MobilityAssumption DEF HostType
<1> QED  BY <1>1 DEF Policy, Traced, Policies

LEMMA ReflectEffect ==
  ASSUME NEW h \in HostType, NEW i \in Axes, OffBorders(h),
         NEW g, g = reflectIfOutside(h, i)
  PROVE  /\ g \in HostType /\ Frame(g, h) /\ OffBorders(g)
         /\ g.borders = h.borders /\ g.error = h.error
         /\ g.stepTarget[i] = 2 * Edge(h, i) - h.stepTarget[i]
         /\ g.stepSize[i] = -h.stepSize[i]
         /\ \A j \in Axes : j # i => /\ g.stepTarget[j] = h.stepTarget[j]
                                     /\ g.stepSize[j] = h.stepSize[j]
<1> DEFINE target == [h.stepTarget EXCEPT ![i] = 2 * Edge(h, i) - h.stepTarget[i]]
           goal == [h.targetPos EXCEPT ![i] = IF Segmented(h) THEN 2 * Edge(h, i) - h.targetPos[i]
                                              ELSE h.targetPos[i]]
           size == [h.stepSize EXCEPT ![i] = -h.stepSize[i]]
           angle == [h.angle EXCEPT ![i] = -h.angle[i]]
<1>1. /\ Edge(h, i) \in Int
      /\ 2 * Edge(h, i) - h.stepTarget[i] \in Int
      /\ 2 * Edge(h, i) - h.targetPos[i] \in Int /\ h.targetPos[i] \in Int
      /\ -h.stepSize[i] \in Int
  BY HostFields, Sizes DEF Edge
<1>2. /\ target \in Point /\ goal \in Point /\ size \in Point
      /\ target[i] = 2 * Edge(h, i) - h.stepTarget[i]
      /\ goal[i] = IF Segmented(h) THEN 2 * Edge(h, i) - h.targetPos[i] ELSE h.targetPos[i]
      /\ size[i] = -h.stepSize[i]
      /\ \A j \in Axes : j # i => /\ target[j] = h.stepTarget[j] /\ goal[j] = h.targetPos[j]
                                  /\ size[j] = h.stepSize[j]
  <2>1. (IF Segmented(h) THEN 2 * Edge(h, i) - h.targetPos[i] ELSE h.targetPos[i]) \in Int
    BY <1>1
  <2>2. h.stepTarget \in Point /\ h.targetPos \in Point /\ h.stepSize \in Point
    BY HostFields
  <2>3. /\ target \in Point /\ target[i] = 2 * Edge(h, i) - h.stepTarget[i]
        /\ \A j \in Axes : j # i => target[j] = h.stepTarget[j]
    BY <1>1, <2>2, PointExcept
  <2>4. /\ goal \in Point
        /\ goal[i] = IF Segmented(h) THEN 2 * Edge(h, i) - h.targetPos[i] ELSE h.targetPos[i]
        /\ \A j \in Axes : j # i => goal[j] = h.targetPos[j]
    BY <2>1, <2>2, PointExcept
  <2>5. /\ size \in Point /\ size[i] = -h.stepSize[i]
        /\ \A j \in Axes : j # i => size[j] = h.stepSize[j]
    BY <1>1, <2>2, PointExcept
  <2> HIDE DEF target, goal, size
  <2> QED  BY <2>3, <2>4, <2>5
<1>3. angle \in Vector
  BY HostFields DEF Vector
<1>4. g = [h EXCEPT !.stepTarget = target, !.targetPos = goal, !.stepSize = size, !.angle = angle]
  BY DEF reflectIfOutside
<1> HIDE DEF target, goal, size, angle
<1>5. /\ g \in HostType /\ Frame(g, h) /\ g.borders = h.borders /\ g.error = h.error
      /\ g.stepTarget = target /\ g.targetPos = goal /\ g.stepSize = size
  BY <1>2, <1>3, <1>4 DEF HostType, Frame
<1>6. OffBorders(g)
  <2> SUFFICES ASSUME NEW j \in Axes
               PROVE  /\ g.stepTarget[j] % 2 = 1 /\ g.stepSize[j] % 2 = 0
                      /\ Segmented(g) \/ g.kind = "Circle" => g.targetPos[j] % 2 = 1
    BY DEF OffBorders
  <2>1. Segmented(g) <=> Segmented(h)
    BY <1>5 DEF Frame, Segmented, Traced
  <2>2. CASE j # i
    BY <1>2, <1>5, <2>1, <2>2 DEF OffBorders, Frame
  <2>3. CASE j = i
    <3>1. /\ h.stepTarget[i] % 2 = 1 /\ (2 * Edge(h, i) - h.stepTarget[i]) % 2 = 1
          /\ (-h.stepSize[i]) % 2 = 0
      BY HostFields, <1>1 DEF OffBorders
    <3>2. ASSUME Segmented(h) \/ h.kind = "Circle"
          PROVE  h.targetPos[i] % 2 = 1 /\ (2 * Edge(h, i) - h.targetPos[i]) % 2 = 1
      BY HostFields, <1>1, <3>2 DEF OffBorders
    <3> QED  BY <1>2, <1>5, <2>1, <2>3, <3>1, <3>2 DEF Frame
  <2> QED  BY <2>2, <2>3
<1> QED  BY <1>2, <1>5, <1>6

LEMMA WrapEffect ==
  ASSUME NEW h \in HostType, NEW i \in Axes, OffBorders(h),
         NEW g, g = wrapIfOutside(h, i)
  PROVE  /\ g \in HostType /\ Frame(g, h) /\ OffBorders(g)
         /\ g.borders = h.borders /\ g.error = h.error
         /\ g.stepSize = h.stepSize /\ g.angle = h.angle
         /\ g.stepTarget[i] = h.stepTarget[i] + (Size[i] - 2 * Edge(h, i))
         /\ \A j \in Axes : j # i => g.stepTarget[j] = h.stepTarget[j]
         /\ h.kind = "Circle" => 
              \A j \in Axes : g.stepTarget[j] - g.targetPos[j] = h.stepTarget[j] - h.targetPos[j]
<1> DEFINE shift == Size[i] - 2 * Edge(h, i)
           target == [h.stepTarget EXCEPT ![i] = h.stepTarget[i] + shift]
           goal == [h.targetPos EXCEPT ![i] = IF Segmented(h) \/ h.kind = "Circle"
                                              THEN h.targetPos[i] + shift ELSE h.targetPos[i]]
<1>1. shift \in Int /\ shift % 2 = 0 /\ h.stepTarget[i] \in Int /\ h.targetPos[i] \in Int
  <2>1. Size[i] \in Nat /\ Size[i] % 2 = 0 /\ Edge(h, i) \in {0, Size[i]}
    BY Sizes DEF Edge
  <2> QED  BY <2>1, HostFields
<1> HIDE DEF shift
<1>2. /\ target \in Point /\ goal \in Point
      /\ target[i] = h.stepTarget[i] + shift
      /\ goal[i] = IF Segmented(h) \/ h.kind = "Circle" THEN h.targetPos[i] + shift
                                                        ELSE h.targetPos[i]
      /\ \A j \in Axes : j # i => target[j] = h.stepTarget[j] /\ goal[j] = h.targetPos[j]
  <2>1. (IF Segmented(h) \/ h.kind = "Circle" THEN h.targetPos[i] + shift ELSE h.targetPos[i]) \in Int
    BY <1>1
  <2>2. h.stepTarget \in Point /\ h.targetPos \in Point /\ h.stepTarget[i] + shift \in Int
    BY <1>1, HostFields
  <2> QED  BY <2>1, <2>2, PointExcept
<1>3. g = [h EXCEPT !.stepTarget = target, !.targetPos = goal]
  BY DEF wrapIfOutside, shift
<1> HIDE DEF target, goal
<1>4. /\ g \in HostType /\ Frame(g, h) /\ g.borders = h.borders /\ g.error = h.error
      /\ g.stepSize = h.stepSize /\ g.angle = h.angle
      /\ g.stepTarget = target /\ g.targetPos = goal
  BY <1>2, <1>3 DEF HostType, Frame
<1>5. OffBorders(g)
  <2> SUFFICES ASSUME NEW j \in Axes
               PROVE  /\ g.stepTarget[j] % 2 = 1 /\ g.stepSize[j] % 2 = 0
                      /\ Segmented(g) \/ g.kind = "Circle" => g.targetPos[j] % 2 = 1
    BY DEF OffBorders
  <2>1. Segmented(g) <=> Segmented(h)
    BY <1>4 DEF Frame, Segmented, Traced
  <2>2. CASE j # i
    BY <1>2, <1>4, <2>1, <2>2 DEF OffBorders, Frame
  <2>3. CASE j = i
    <3>1. h.stepTarget[i] % 2 = 1 /\ (h.stepTarget[i] + shift) % 2 = 1
      BY <1>1 DEF OffBorders
    <3>2. ASSUME Segmented(h) \/ h.kind = "Circle"
          PROVE  h.targetPos[i] % 2 = 1 /\ (h.targetPos[i] + shift) % 2 = 1
      BY <1>1, <3>2 DEF OffBorders
    <3> QED  BY <1>2, <1>4, <2>1, <2>3, <3>1, <3>2 DEF Frame, OffBorders
  <2> QED  BY <2>2, <2>3
<1>6. ASSUME h.kind = "Circle", NEW j \in Axes
      PROVE  g.stepTarget[j] - g.targetPos[j] = h.stepTarget[j] - h.targetPos[j]
  <2>1. CASE j = i
    BY <1>1, <1>2, <1>4, <1>6, <2>1
  <2>2. CASE j # i
    BY <1>2, <1>4, <2>2
  <2> QED  BY <2>1, <2>2
<1> QED  BY <1>2, <1>4, <1>5, <1>6 DEF shift

\* the host once a border message has been made
WithBorder(h, b) == [h EXCEPT !.borders = @ \cup {b}]

LEMMA HandledCases ==
  ASSUME NEW h \in HostType, NEW i \in Axes,
         NEW policy \in Policies, NEW g \in handleIfOutside(h, i, policy)
  PROVE  \/ g = [h EXCEPT !.error = TRUE]
         \/ /\ h.direction[i] # 0 /\ policy = "REFLECT"
            /\ g = WithBorder(reflectIfOutside(h, i),
                              BorderMsg(h, i, policy, Reached(h, i),
                                        Towards(Reached(h, i), reflectIfOutside(h, i).stepTarget)))
         \/ /\ h.direction[i] # 0 /\ policy = "WRAP"
            /\ g = WithBorder(wrapIfOutside(h, i),
                              BorderMsg(h, i, policy,
                                        [Reached(h, i) EXCEPT ![i] = Size[i] - Edge(h, i)], <<0, 0>>))
         \/ /\ h.direction[i] # 0 /\ policy = "PLACERANDOMLY"
            /\ \E p \in Places :
                 g = WithBorder([h EXCEPT !.targetPos = p, !.stepTarget = p],
                                BorderMsg(h, i, policy, p, <<0, 0>>))
         \/ /\ h.direction[i] # 0 /\ policy = "RAISEERROR"
            /\ g = WithBorder(h, BorderMsg(h, i, policy, Reached(h, i), <<0, 0>>))
<1>1. CASE h.direction[i] = 0 \/ ~h.moving
  BY <1>1 DEF handleIfOutside
<1>2. CASE ~(h.direction[i] = 0 \/ ~h.moving)
  <2>1. CASE policy = "REFLECT"
    BY <1>2, <2>1 DEF handleIfOutside, WithBorder, Reached
  <2>2. CASE policy = "WRAP"
    BY <1>2, <2>2 DEF handleIfOutside, WithBorder, Reached
  <2>3. CASE policy = "PLACERANDOMLY"
    BY <1>2, <2>3 DEF handleIfOutside, WithBorder, Reached
  <2>4. CASE policy = "RAISEERROR"
    BY <1>2, <2>4 DEF handleIfOutside, WithBorder, Reached
  <2> QED  BY <2>1, <2>2, <2>3, <2>4 DEF Policies
<1> QED  BY <1>1, <1>2

LEMMA WithBorderEffect ==
  ASSUME NEW h \in HostType, NEW b \in BorderType, NEW g, g = WithBorder(h, b)
  PROVE  /\ g \in HostType /\ Frame(g, h) /\ g.borders = h.borders \cup {b} /\ g.error = h.error
         /\ g.stepTarget = h.stepTarget /\ g.targetPos = h.targetPos
         /\ g.stepSize = h.stepSize /\ g.angle = h.angle
         /\ OffBorders(h) => OffBorders(g)
<1>1. /\ g \in HostType /\ Frame(g, h) /\ g.borders = h.borders \cup {b} /\ g.error = h.error
      /\ g.stepTarget = h.stepTarget /\ g.targetPos = h.targetPos
      /\ g.stepSize = h.stepSize /\ g.angle = h.angle
  BY DEF WithBorder, HostType, Frame
<1>2. OffBorders(h) => OffBorders(g)
  BY <1>1 DEF OffBorders, Frame, Segmented, Traced
<1> QED  BY <1>1, <1>2

LEMMA BorderMsgEffect ==
  ASSUME NEW h \in HostType, NEW i \in Axes, NEW policy \in Policies,
         NEW start \in Point, NEW dir \in Vector, BorderInterval(h, i) \in Nat,
         NEW b, b = BorderMsg(h, i, policy, start, dir)
  PROVE  /\ b \in BorderType /\ b.in = BorderInterval(h, i) /\ b.policy = policy
         /\ b.startPos = start /\ b.direction = dir
  BY DEF BorderMsg, BorderType

LEMMA StillVector == <<0, 0>> \in Vector /\ <<0, 0>> \in Point /\ \A i \in Axes : <<0, 0>>[i] = 0
  BY DEF Vector, Point, Axes

\* A way turned round, and one shifted, is as straight as it was.
LEMMA Mirrored ==
  ASSUME NEW s \in Int, NEW t \in Int, NEW m \in Int, NEW D \in {-1, 0, 1}, Uniform(s, t, m, D),
         NEW c \in Int
  PROVE  /\ Uniform(s, 2 * s - t, m, -D) /\ Uniform(s + c, t + c, m, D)
  BY DEF Uniform

LEMMA BorderMade ==
  ASSUME NEW h \in HostType, Straight(h), NEW i \in Axes, Crosses(h, i),
         NEW policy, policy = Policy(h), policy \in Policies,
         NEW g \in handleIfOutside(h, i, policy)
  PROVE  LookedAt(g, h) /\ (g.error \/ g.borders # {})
<1> DEFINE n == BorderInterval(h, i)
           at == Reached(h, i)
<1>1. Out(h, i) /\ OffBorders(h) /\ h.borders = {} /\ Inside(h.startPos)
  BY FirstCrossed DEF Crosses, Straight
<1>2. h.moveMsg \in 1..updateInterval /\ updateInterval \in Nat
  BY <1>1, MobilityAssumption DEF Straight
<1>3. policy \in {"REFLECT", "WRAP", "PLACERANDOMLY"} =>
         UniformStep(h.startPos, h.stepTarget, h.moveMsg, h.direction)
  BY <1>1 DEF Straight
<1>4. policy # "RAISEERROR" =>
         /\ h.direction[i] # 0 /\ n \in Nat /\ n < h.moveMsg
         /\ at \in Point /\ Inside(at) /\ at[i] = Edge(h, i)
         /\ UniformStep(at, h.stepTarget, h.moveMsg - n, h.direction)
  BY <1>1, <1>2, <1>3, FirstBorder DEF Policies
<1>5. CASE g = [h EXCEPT !.error = TRUE]
  <2>1. /\ g \in HostType /\ Frame(g, h) /\ g.error /\ g.borders = {}
        /\ g.stepTarget = h.stepTarget /\ g.targetPos = h.targetPos /\ g.angle = h.angle /\ g.stepSize = h.stepSize
    BY <1>1, <1>5 DEF HostType, Frame
  <2>2. OffBorders(g)
    BY <1>1, <2>1 DEF OffBorders, Frame, Segmented, Traced
  <2> QED  BY <2>1, <2>2 DEF LookedAt, Pending
<1>6. CASE /\ h.direction[i] # 0 /\ policy = "REFLECT"
           /\ g = WithBorder(reflectIfOutside(h, i),
                             BorderMsg(h, i, policy, at, Towards(at, reflectIfOutside(h, i).stepTarget)))
  <2> DEFINE m == reflectIfOutside(h, i)
             dir == Towards(at, m.stepTarget)
             b == BorderMsg(h, i, policy, at, dir)
  <2>1. /\ m \in HostType /\ Frame(m, h) /\ OffBorders(m)
        /\ m.borders = {} /\ m.error = h.error
        /\ m.stepTarget[i] = 2 * Edge(h, i) - h.stepTarget[i]
        /\ m.stepSize[i] = -h.stepSize[i]
        /\ \A j \in Axes : j # i => /\ m.stepTarget[j] = h.stepTarget[j]
                                    /\ m.stepSize[j] = h.stepSize[j]
    BY <1>1, ReflectEffect
  <2> HIDE DEF m
  <2>2. m.stepTarget \in Point
    BY <2>1, HostFields
  <2>3. dir \in Vector
    BY <1>4, <1>6, <2>2, TowardsSign
  <2> HIDE DEF dir
  <2>4. /\ b \in BorderType /\ b.in = n /\ b.policy = policy
        /\ b.startPos = at /\ b.direction = dir
    BY <1>4, <1>6, <2>3, BorderMsgEffect
  <2> HIDE DEF b
  <2>5. g = WithBorder(m, b)
    BY <1>6 DEF m, b, dir
  <2>6. /\ g \in HostType /\ Frame(g, m) /\ g.borders = {b} /\ g.error = m.error
        /\ g.stepTarget = m.stepTarget /\ g.targetPos = m.targetPos
        /\ g.stepSize = m.stepSize /\ g.angle = m.angle /\ OffBorders(g)
    BY <2>1, <2>4, <2>5, WithBorderEffect
  <2>7. Frame(g, h)
    BY <2>1, <2>6 DEF Frame
  <2> DEFINE mirror == [h.direction EXCEPT ![i] = -h.direction[i]]
  <2>8. mirror \in Vector /\ mirror[i] = -h.direction[i] /\ \A j \in Axes : j # i => mirror[j] = h.direction[j]
    BY HostFields DEF Vector
  <2> HIDE DEF mirror
  <2>9. UniformStep(at, m.stepTarget, h.moveMsg - n, mirror)
    <3> SUFFICES ASSUME NEW j \in Axes
                 PROVE  Uniform(at[j], m.stepTarget[j], h.moveMsg - n, mirror[j])
      BY DEF UniformStep
    <3>1. /\ Uniform(at[j], h.stepTarget[j], h.moveMsg - n, h.direction[j])
          /\ at[j] \in Int /\ h.stepTarget[j] \in Int /\ h.direction[j] \in {-1, 0, 1}
          /\ h.moveMsg - n \in Int
      BY <1>2, <1>4, <1>6, HostFields DEF UniformStep, Point
    <3>2. CASE j = i
      <4>1. Uniform(at[j], 2 * at[j] - h.stepTarget[j], h.moveMsg - n, -h.direction[j])
        BY <3>1, Mirrored
      <4>2. at[j] = Edge(h, i)
        BY <1>4, <1>6, <3>2
      <4> HIDE DEF at, n
      <4> QED  BY <2>1, <2>8, <3>2, <4>1, <4>2
    <3>3. CASE j # i
      BY <2>1, <2>8, <3>1, <3>3
    <3> QED  BY <3>2, <3>3
  <2>10. \A j \in Axes : dir[j] = mirror[j]
    <3>1. h.moveMsg - n \in Int /\ h.moveMsg - n > 0
      BY <1>2, <1>4, <1>6
    <3> QED  BY <1>4, <1>6, <2>2, <2>8, <2>9, <3>1, TowardsUniform DEF dir
  <2>11. Pending(g)
    <3>1. Policy(g) = policy /\ g.moveMsg = h.moveMsg
      BY <2>7, PolicyOfFrame DEF Frame
    <3>2. UniformStep(at, g.stepTarget, g.moveMsg - b.in, Way(g, b))
      BY <1>6, <2>4, <2>6, <2>9, <2>10, <3>1 DEF UniformStep, Way
    <3> QED  BY <1>2, <1>4, <1>6, <2>4, <2>6, <3>1, <3>2 DEF Pending, PendingBorder
  <2>12. Steady(h) => Steady(g)
    <3>1. CASE \A j \in Axes : h.stepSize[j] = 0
      <4>1. \A j \in Axes : g.stepSize[j] = 0
        BY <2>1, <2>6, <3>1
      <4> QED  BY <4>1 DEF Steady
    <3>2. CASE UniformStep(<<0, 0>>, h.stepSize, updateInterval, h.direction)
      <4>1. ASSUME NEW j \in Axes
            PROVE  Uniform(0, g.stepSize[j], updateInterval, dir[j])
        <5>1. Uniform(0, h.stepSize[j], updateInterval, h.direction[j]) /\ h.stepSize[j] \in Int
              /\ h.direction[j] \in {-1, 0, 1}
          BY <3>2, HostFields, StillVector DEF UniformStep
        <5>2. CASE j = i
          <6>1. Uniform(0, 2 * 0 - h.stepSize[j], updateInterval, -h.direction[j])
            BY <1>2, <5>1, Mirrored
          <6> QED  BY <2>1, <2>6, <2>8, <2>10, <5>1, <5>2, <6>1
        <5>3. CASE j # i
          BY <2>1, <2>6, <2>8, <2>10, <5>1, <5>3
        <5> QED  BY <5>2, <5>3
      <4>2. UniformStep(<<0, 0>>, g.stepSize, updateInterval, Way(g, b))
        BY <1>6, <2>4, <4>1, StillVector DEF UniformStep, Way
      <4> QED  BY <2>6, <4>2 DEF Steady
    <3>3. CASE h.kind \notin {"Mass", "Turtle", "BonnMotion", "ANSim"}
      BY <2>7, <3>3 DEF Steady, Frame
    <3> QED  BY <1>1, <3>1, <3>2, <3>3 DEF Steady
  <2>13. Folded(policy, g.stepTarget) = Folded(policy, h.stepTarget)
    <3>1. /\ h.stepTarget[i] >= -Size[i] /\ h.stepTarget[i] <= 2 * Size[i]
          /\ h.stepTarget[i] % 2 = 1 /\ (h.stepTarget[i] < 0 \/ h.stepTarget[i] >= Size[i])
      <4>1. /\ h.startPos[i] \in 0..Size[i] /\ Size[i] \in Nat /\ updateInterval <= Size[i]
            /\ h.direction[i] \in {-1, 0, 1} /\ h.stepTarget[i] \in Int
            /\ Uniform(h.startPos[i], h.stepTarget[i], h.moveMsg, h.direction[i])
        BY <1>1, <1>3, <1>6, Sizes, HostFields DEF Inside, UniformStep
      <4> QED  BY <1>1, <1>2, <4>1 DEF Uniform, OffBorders, Out
    <3>2. Folded("REFLECT", m.stepTarget) = Folded("REFLECT", h.stepTarget)
      BY <2>1, <2>2, <3>1, FoldedAgain, HostFields DEF Edge
    <3> QED  BY <1>6, <2>6, <3>2
  <2>14. h.kind # "Circle"
    BY <1>6, PolicyOfKind
  <2> QED  BY <1>6, <2>6, <2>7, <2>11, <2>12, <2>13, <2>14 DEF LookedAt
<1>7. CASE /\ h.direction[i] # 0 /\ policy = "WRAP"
           /\ g = WithBorder(wrapIfOutside(h, i),
                             BorderMsg(h, i, policy, [at EXCEPT ![i] = Size[i] - Edge(h, i)], <<0, 0>>))
  <2> DEFINE m == wrapIfOutside(h, i)
             there == [at EXCEPT ![i] = Size[i] - Edge(h, i)]
             b == BorderMsg(h, i, policy, there, <<0, 0>>)
             c == Size[i] - 2 * Edge(h, i)
  <2>1. /\ m \in HostType /\ Frame(m, h) /\ OffBorders(m)
        /\ m.borders = {} /\ m.error = h.error
        /\ m.stepSize = h.stepSize /\ m.angle = h.angle
        /\ m.stepTarget[i] = h.stepTarget[i] + c
        /\ \A j \in Axes : j # i => m.stepTarget[j] = h.stepTarget[j]
        /\ h.kind = "Circle" => 
             \A j \in Axes : m.stepTarget[j] - m.targetPos[j] = h.stepTarget[j] - h.targetPos[j]
    BY <1>1, WrapEffect
  <2> HIDE DEF m
  <2>2. m.stepTarget \in Point
    BY <2>1, HostFields
  <2>3. /\ Edge(h, i) \in {0, Size[i]} /\ Size[i] \in Nat /\ c \in Int
        /\ Size[i] - Edge(h, i) \in 0..Size[i] /\ Size[i] - Edge(h, i) = Edge(h, i) + c
    <3>1. Edge(h, i) \in {0, Size[i]} /\ Size[i] \in Nat
      BY Sizes DEF Edge
    <3> QED  BY <3>1
  <2>4. /\ there \in Point /\ there[i] = at[i] + c
        /\ \A j \in Axes : j # i => there[j] = at[j]
    <3>1. Size[i] - Edge(h, i) \in Int
      BY <2>3
    <3>2. there \in Point /\ there[i] = Size[i] - Edge(h, i) /\ \A j \in Axes : j # i => there[j] = at[j]
      BY <1>4, <1>7, <3>1, PointExcept
    <3> QED  BY <1>4, <1>7, <2>3, <3>2
  <2>5. Inside(there)
    BY <1>4, <1>7, <2>3, <2>4 DEF Inside
  <2> HIDE DEF there, c
  <2>6. /\ b \in BorderType /\ b.in = n /\ b.policy = policy
        /\ b.startPos = there
    BY <1>4, <1>7, <2>4, StillVector, BorderMsgEffect
  <2> HIDE DEF b
  <2>7. g = WithBorder(m, b)
    BY <1>7 DEF m, b, there
  <2>8. /\ g \in HostType /\ Frame(g, m) /\ g.borders = {b} /\ g.error = m.error
        /\ g.stepTarget = m.stepTarget /\ g.targetPos = m.targetPos
        /\ g.stepSize = m.stepSize /\ g.angle = m.angle /\ OffBorders(g)
    BY <2>1, <2>6, <2>7, WithBorderEffect
  <2>9. Frame(g, h)
    BY <2>1, <2>8 DEF Frame
  <2>10. UniformStep(there, m.stepTarget, h.moveMsg - n, h.direction)
    <3> SUFFICES ASSUME NEW j \in Axes
                 PROVE  Uniform(there[j], m.stepTarget[j], h.moveMsg - n, h.direction[j])
      BY DEF UniformStep
    <3>1. /\ Uniform(at[j], h.stepTarget[j], h.moveMsg - n, h.direction[j])
          /\ at[j] \in Int /\ h.stepTarget[j] \in Int /\ h.direction[j] \in {-1, 0, 1}
          /\ h.moveMsg - n \in Int
      BY <1>2, <1>4, <1>7, HostFields DEF UniformStep, Point
    <3>2. CASE j = i
      BY <2>1, <2>3, <2>4, <3>1, <3>2, Mirrored DEF c
    <3>3. CASE j # i
      BY <2>1, <2>4, <3>1, <3>3
    <3> QED  BY <3>2, <3>3
  <2>11. Pending(g)
    <3>1. Policy(g) = policy /\ g.moveMsg = h.moveMsg /\ g.direction = h.direction
      BY <2>9, PolicyOfFrame DEF Frame
    <3>2. UniformStep(there, g.stepTarget, g.moveMsg - b.in, Way(g, b))
      BY <1>7, <2>6, <2>8, <2>10, <3>1 DEF Way
    <3>3. b.in < g.moveMsg /\ g.moveMsg <= updateInterval
      BY <1>2, <1>4, <1>7, <2>6, <3>1
    <3>4. b.policy = Policy(g) /\ b.policy # "PLACERANDOMLY" /\ Inside(b.startPos)
      BY <1>7, <2>5, <2>6, <3>1
    <3>5. PendingBorder(g, b)
      BY <2>6, <2>8, <3>2, <3>3, <3>4 DEF PendingBorder
    <3> QED  BY <2>8, <3>5 DEF Pending
  <2>12. Steady(h) => Steady(g)
    <3>1. Way(g, b) = h.direction
      BY <1>7, <2>6, <2>9 DEF Way, Frame
    <3> QED  BY <1>1, <2>1, <2>8, <2>9, <3>1 DEF Steady, Frame
  <2>13. Folded(policy, g.stepTarget) = Folded(policy, h.stepTarget)
    <3>1. /\ h.stepTarget[i] >= -Size[i] /\ h.stepTarget[i] <= 2 * Size[i]
          /\ h.stepTarget[i] % 2 = 1 /\ (h.stepTarget[i] < 0 \/ h.stepTarget[i] >= Size[i])
      <4>1. /\ h.startPos[i] \in 0..Size[i] /\ Size[i] \in Nat /\ updateInterval <= Size[i]
            /\ h.direction[i] \in {-1, 0, 1} /\ h.stepTarget[i] \in Int
            /\ Uniform(h.startPos[i], h.stepTarget[i], h.moveMsg, h.direction[i])
        BY <1>1, <1>3, <1>7, Sizes, HostFields DEF Inside, UniformStep
      <4> QED  BY <1>1, <1>2, <4>1 DEF Uniform, OffBorders, Out
    <3>2. Folded("WRAP", m.stepTarget) = Folded("WRAP", h.stepTarget)
      BY <2>1, <2>2, <3>1, FoldedAgain, HostFields DEF Edge, c
    <3> QED  BY <1>7, <2>8, <3>2
  <2>14. h.kind = "Circle" => 
             \A j \in Axes : g.stepTarget[j] - g.targetPos[j] = h.stepTarget[j] - h.targetPos[j]
    BY <2>1, <2>8
  <2> QED  BY <1>7, <2>1, <2>8, <2>9, <2>11, <2>12, <2>13, <2>14 DEF LookedAt
<1>8. CASE /\ h.direction[i] # 0 /\ policy = "PLACERANDOMLY"
           /\ \E p \in Places :
                g = WithBorder([h EXCEPT !.targetPos = p, !.stepTarget = p],
                               BorderMsg(h, i, policy, p, <<0, 0>>))
  <2> PICK p \in Places : g = WithBorder([h EXCEPT !.targetPos = p, !.stepTarget = p],
                                         BorderMsg(h, i, policy, p, <<0, 0>>))
    BY <1>8
  <2> DEFINE m == [h EXCEPT !.targetPos = p, !.stepTarget = p]
             b == BorderMsg(h, i, policy, p, <<0, 0>>)
  <2>1. p \in Point /\ Inside(p) /\ \A j \in Axes : p[j] % 2 = 1
    BY PlaceIsPoint DEF Inside
  <2>2. /\ m \in HostType /\ Frame(m, h) /\ m.borders = {} /\ m.error = h.error
        /\ m.stepTarget = p /\ m.targetPos = p /\ m.stepSize = h.stepSize /\ m.angle = h.angle
    BY <1>1, <2>1 DEF HostType, Frame
  <2>3. OffBorders(m)
    BY <1>1, <2>1, <2>2 DEF OffBorders
  <2> HIDE DEF m
  <2>4. /\ b \in BorderType /\ b.in = n /\ b.policy = policy /\ b.startPos = p
    BY <1>4, <1>8, <2>1, StillVector, BorderMsgEffect
  <2> HIDE DEF b
  <2>5. g = WithBorder(m, b)
    BY DEF m, b
  <2>6. /\ g \in HostType /\ Frame(g, m) /\ g.borders = {b} /\ g.error = m.error
        /\ g.stepTarget = m.stepTarget /\ g.targetPos = m.targetPos
        /\ g.stepSize = m.stepSize /\ g.angle = m.angle /\ OffBorders(g)
    BY <2>2, <2>3, <2>4, <2>5, WithBorderEffect
  <2>7. Frame(g, h)
    BY <2>2, <2>6 DEF Frame
  <2>8. Pending(g)
    <3>1. Policy(g) = policy /\ g.moveMsg = h.moveMsg
      BY <2>7, PolicyOfFrame DEF Frame
    <3> QED  BY <1>2, <1>4, <1>8, <2>1, <2>2, <2>4, <2>6, <3>1 DEF Pending, PendingBorder, Folding
  <2>9. Steady(h) => Steady(g)
    <3>1. Way(g, b) = h.direction
      BY <1>8, <2>4, <2>7 DEF Way, Frame
    <3> QED  BY <1>1, <2>2, <2>6, <2>7, <3>1 DEF Steady, Frame
  <2>10. h.kind # "Circle"
    BY <1>8, PolicyOfKind
  <2> QED  BY <1>8, <2>6, <2>7, <2>8, <2>9, <2>10 DEF LookedAt, Folding
<1>9. CASE /\ h.direction[i] # 0 /\ policy = "RAISEERROR"
           /\ g = WithBorder(h, BorderMsg(h, i, policy, at, <<0, 0>>))
  <2> DEFINE b == BorderMsg(h, i, policy, at, <<0, 0>>)
  <2>1. n \in Nat /\ n < h.moveMsg /\ at \in Point
    <3>1. /\ h.startPos[i] \in 0..Size[i] /\ Size[i] \in Nat /\ Size[i] % 2 = 0
          /\ h.direction[i] \in {-1, 1} /\ h.stepTarget[i] \in Int /\ h.stepTarget[i] % 2 = 1
          /\ h.stepTarget[i] < 0 \/ h.stepTarget[i] >= Size[i]
      BY <1>1, <1>9, Sizes, HostFields DEF Inside, OffBorders, Out
    <3>2. Abs(h.stepTarget[i] - h.startPos[i]) <= h.moveMsg
      <4>1. CASE UniformStep(h.startPos, h.stepTarget, h.moveMsg, h.direction)
        <5>1. Uniform(h.startPos[i], h.stepTarget[i], h.moveMsg, h.direction[i])
          BY <4>1 DEF UniformStep
        <5> QED  BY <1>2, <3>1, <5>1 DEF Uniform, Abs
      <4> QED  BY <1>1, <1>9, <4>1 DEF Straight
    <3>3. Edge(h, i) = IF h.stepTarget[i] < 0 THEN 0 ELSE Size[i]
      BY DEF Edge
    <3>4. BorderStep(h, i) \in Int /\ BorderStep(h, i) = Edge(h, i) - h.startPos[i]
      BY <3>1, <3>3 DEF BorderStep
    <3>5. goToBorder(h, i) = BorderStep(h, i) \/ goToBorder(h, i) = -BorderStep(h, i)
      BY <3>1, <3>4 DEF goToBorder
    <3>6. n = IF goToBorder(h, i) < 0 THEN -goToBorder(h, i) ELSE goToBorder(h, i)
      BY DEF BorderInterval, Abs
    <3>7. n \in Nat /\ n < h.moveMsg
      BY <1>2, <3>1, <3>2, <3>3, <3>4, <3>5, <3>6 DEF Abs
    <3>8. goToBorder(h, i) \in Int /\ h.direction \in Point /\ h.startPos \in Point
      BY <3>4, <3>5, HostFields, VectorIsPoint
    <3> QED  BY <3>7, <3>8, PlusPoint DEF Reached
  <2>2. /\ b \in BorderType /\ b.in = n /\ b.policy = policy
    BY <1>9, <2>1, StillVector, BorderMsgEffect
  <2> HIDE DEF b
  <2>3. g = WithBorder(h, b)
    BY <1>9 DEF b
  <2>4. /\ g \in HostType /\ Frame(g, h) /\ g.borders = {b} /\ g.error = h.error
        /\ g.stepTarget = h.stepTarget /\ g.targetPos = h.targetPos
        /\ g.stepSize = h.stepSize /\ g.angle = h.angle /\ OffBorders(g)
    BY <1>1, <2>2, <2>3, WithBorderEffect
  <2>5. Pending(g)
    <3>1. Policy(g) = policy /\ g.moveMsg = h.moveMsg
      BY <2>4, PolicyOfFrame DEF Frame
    <3> QED  BY <1>2, <1>9, <2>1, <2>2, <2>4, <3>1 DEF Pending, PendingBorder, Folding
  <2>6. Steady(h) => Steady(g)
    <3>1. Way(g, b) = h.direction
      BY <1>9, <2>2, <2>4 DEF Way, Frame
    <3> QED  BY <1>1, <2>4, <3>1 DEF Steady, Frame
  <2> QED  BY <1>9, <2>4, <2>5, <2>6 DEF LookedAt, Folding
<1> QED  BY <1>5, <1>6, <1>7, <1>8, <1>9, HandledCases

\* What keeps its type whether or not the step is straight
LEMMA TypesKept ==
  ASSUME NEW h \in HostType, OffBorders(h), NEW g \in fixIfHostGetsOutside(h)
  PROVE  g \in HostType /\ OffBorders(g) /\ Frame(g, h)
<1>1. CASE g = h
  BY <1>1 DEF Frame
<1>2. CASE g # h
  <2>1. /\ Policy(h) \in Policies
        /\ \E i \in checkIfOutside(h) : g \in handleIfOutside(h, i, Policy(h))
    BY <1>2, PolicyOfKind DEF fixIfHostGetsOutside
  <2> PICK i \in checkIfOutside(h) : g \in handleIfOutside(h, i, Policy(h))
    BY <2>1
  <2> DEFINE at == Reached(h, i)
             policy == Policy(h)
  <2>2. i \in Axes /\ Size[i] \in Nat /\ Edge(h, i) \in Int
    BY FirstCrossed, Sizes DEF Edge
  <2>3. h.direction[i] # 0 => at \in Point /\ BorderInterval(h, i) \in Nat
    <3> SUFFICES ASSUME h.direction[i] # 0 PROVE at \in Point /\ BorderInterval(h, i) \in Nat
      OBVIOUS
    <3>1. h.startPos[i] \in Int /\ h.direction[i] \in {-1, 1}
      BY <2>2, HostFields
    <3>2. goToBorder(h, i) \in Int
      BY <2>2, <3>1 DEF goToBorder, BorderStep
    <3>3. BorderInterval(h, i) \in Nat
      BY <3>2 DEF BorderInterval, Abs
    <3>4. h.direction \in Point /\ h.startPos \in Point
      BY HostFields, VectorIsPoint
    <3> QED  BY <3>2, <3>3, <3>4, PlusPoint DEF Reached
  <2>4. CASE g = [h EXCEPT !.error = TRUE]
    <3>1. /\ g \in HostType /\ Frame(g, h) /\ g.stepSize = h.stepSize
          /\ g.stepTarget = h.stepTarget /\ g.targetPos = h.targetPos
      BY <2>4 DEF HostType, Frame
    <3> QED  BY <3>1 DEF OffBorders, Frame, Segmented, Traced
  <2>5. CASE /\ h.direction[i] # 0 /\ policy = "REFLECT"
             /\ g = WithBorder(reflectIfOutside(h, i),
                               BorderMsg(h, i, policy, at, Towards(at, reflectIfOutside(h, i).stepTarget)))
    <3> DEFINE m == reflectIfOutside(h, i)
               b == BorderMsg(h, i, policy, at, Towards(at, m.stepTarget))
    <3>1. m \in HostType /\ Frame(m, h) /\ OffBorders(m)
      BY <2>2, ReflectEffect
    <3>2. Towards(at, m.stepTarget) \in Vector
      BY <2>3, <2>5, <3>1, HostFields, TowardsSign
    <3>3. b \in BorderType
      BY <2>1, <2>2, <2>3, <2>5, <3>2, BorderMsgEffect
    <3> HIDE DEF m, b
    <3>4. g = WithBorder(m, b)
      BY <2>5 DEF m, b
    <3>5. g \in HostType /\ Frame(g, m) /\ OffBorders(g)
      BY <3>1, <3>3, <3>4, WithBorderEffect
    <3> QED  BY <3>1, <3>5 DEF Frame
  <2>6. CASE /\ h.direction[i] # 0 /\ policy = "WRAP"
             /\ g = WithBorder(wrapIfOutside(h, i),
                               BorderMsg(h, i, policy, [at EXCEPT ![i] = Size[i] - Edge(h, i)], <<0, 0>>))
    <3> DEFINE m == wrapIfOutside(h, i)
               there == [at EXCEPT ![i] = Size[i] - Edge(h, i)]
               b == BorderMsg(h, i, policy, there, <<0, 0>>)
    <3>1. m \in HostType /\ Frame(m, h) /\ OffBorders(m)
      BY <2>2, WrapEffect
    <3>2. there \in Point
      <4>1. Size[i] - Edge(h, i) \in Int /\ at \in Point
        BY <2>2, <2>3, <2>6
      <4> QED  BY <2>2, <4>1, PointExcept
    <3> HIDE DEF there
    <3>3. b \in BorderType
      BY <2>1, <2>2, <2>3, <2>6, <3>2, StillVector, BorderMsgEffect
    <3> HIDE DEF m, b
    <3>4. g = WithBorder(m, b)
      BY <2>6 DEF m, b, there
    <3>5. g \in HostType /\ Frame(g, m) /\ OffBorders(g)
      BY <3>1, <3>3, <3>4, WithBorderEffect
    <3> QED  BY <3>1, <3>5 DEF Frame
  <2>7. CASE /\ h.direction[i] # 0 /\ policy = "PLACERANDOMLY"
             /\ \E p \in Places :
                  g = WithBorder([h EXCEPT !.targetPos = p, !.stepTarget = p],
                                 BorderMsg(h, i, policy, p, <<0, 0>>))
    <3> PICK p \in Places : g = WithBorder([h EXCEPT !.targetPos = p, !.stepTarget = p],
                                           BorderMsg(h, i, policy, p, <<0, 0>>))
      BY <2>7
    <3> DEFINE m == [h EXCEPT !.targetPos = p, !.stepTarget = p]
               b == BorderMsg(h, i, policy, p, <<0, 0>>)
    <3>1. p \in Point /\ \A j \in Axes : p[j] % 2 = 1
      BY PlaceIsPoint
    <3>2. /\ m \in HostType /\ Frame(m, h) /\ m.stepSize = h.stepSize
          /\ m.stepTarget = p /\ m.targetPos = p
      BY <3>1 DEF HostType, Frame
    <3>3. OffBorders(m)
      BY <3>1, <3>2 DEF OffBorders
    <3>4. b \in BorderType
      BY <2>1, <2>2, <2>3, <2>7, <3>1, StillVector, BorderMsgEffect
    <3> HIDE DEF m, b
    <3>5. g = WithBorder(m, b)
      BY DEF m, b
    <3>6. g \in HostType /\ Frame(g, m) /\ OffBorders(g)
      BY <3>2, <3>3, <3>4, <3>5, WithBorderEffect
    <3> QED  BY <3>2, <3>6 DEF Frame
  <2>8. CASE /\ h.direction[i] # 0 /\ policy = "RAISEERROR"
             /\ g = WithBorder(h, BorderMsg(h, i, policy, at, <<0, 0>>))
    <3> DEFINE b == BorderMsg(h, i, policy, at, <<0, 0>>)
    <3>1. b \in BorderType
      BY <2>1, <2>2, <2>3, <2>8, StillVector, BorderMsgEffect
    <3> QED  BY <2>8, <3>1, WithBorderEffect
  <2> QED  BY <2>1, <2>2, <2>4, <2>5, <2>6, <2>7, <2>8, HandledCases
<1> QED  BY <1>1, <1>2

\* What looking at a straight step leads to
LEMMA StraightKept ==
  ASSUME NEW h \in HostType, Straight(h), Policy(h) # "NONE", NEW g \in fixIfHostGetsOutside(h)
  PROVE  /\ LookedAt(g, h)
         /\ g.error \/ g.borders # {} \/ Inside(g.stepTarget)
<1>1. CASE checkIfOutside(h) = {}
  <2>1. g = h /\ Inside(h.stepTarget)
    BY <1>1, FirstCrossed, InsideUnlessOut DEF fixIfHostGetsOutside
  <2> QED  BY <2>1 DEF LookedAt, Pending, Frame, Straight
<1>2. CASE checkIfOutside(h) # {}
  <2>1. /\ Policy(h) \in Policies
        /\ \E i \in checkIfOutside(h) : g \in handleIfOutside(h, i, Policy(h))
    BY <1>2, PolicyOfKind DEF fixIfHostGetsOutside
  <2> QED  BY <2>1, BorderMade, FirstCrossed DEF Crosses
<1> QED  BY <1>1, <1>2

-----------------------------------------------------------------------------
(* The invariant *)

\* A host that has not strayed: whatever borders are ahead are in order, the step under
\* way ends where a mirror or a torus has it end, and its steps have the right size.
Followed(h, e) ==
    /\ Inside(h.startPos) /\ Pending(h)
    /\ \/ h.error
       \/ /\ Steady(h)
          /\ Policy(h) \in Folding => Folded(Policy(h), h.stepTarget) = e
          /\ h.borders # {} \/ Policy(h) = "NONE" \/ Inside(h.stepTarget)

CirclesRound(h) ==
    h.kind = "Circle" =>
      /\ h.angle \in Quarters
      /\ \A i \in Axes : h.stepTarget[i] - h.targetPos[i] = updateInterval * h.angle[i]

OnRectangle(h) ==
    h.kind = "Rectangle" =>
      /\ h.rectangle \in Rectangles /\ h.d \in Nat /\ h.d % 2 = 0
      /\ h.d < Corners(h.rectangle)[4]
      /\ h.stepTarget = calculateXY(h.rectangle, h.d)

\* A host on its way to a random place has only places on the playground before it.
TowardsPlace(h) ==
    h.kind = "ConstSpeed" =>
      /\ h.borders = {} /\ h.step <= h.numSteps
      /\ UniformStep(<<0, 0>>, h.stepSize, updateInterval, h.direction)
      /\ h.step < h.numSteps =>
           /\ Inside(h.stepTarget)
           /\ Inside(Plus(h.stepTarget, (h.numSteps - h.step - 1) * updateInterval, h.direction))

MayStray(h) == h.kind = "Mass" \/ Segmented(h)

OnSchedule ==
    Segmented(host) =>
      /\ due = host.targetTime
      /\ host.moveMsg = Never \/ host.targetTime >= host.moveMsg - backlog

HostTypeOK ==
    /\ host \in HostType /\ OffBorders(host) /\ host.moveMsg \in Nat \cup {Never}
    /\ strayed \in BOOLEAN /\ due \in Int /\ backlog \in Nat

HostIInv ==
    /\ HostTypeOK
    /\ strayed => MayStray(host)
    /\ strayed \/ Followed(host, ideal)
    /\ CirclesRound(host) /\ OnRectangle(host) /\ TowardsPlace(host)
    /\ OnSchedule

\* A border message is never left when the next step is due.
LEMMA NoBorderLeft ==
  ASSUME NEW h \in HostType, Pending(h), h.moveMsg = 0
  PROVE  h.borders = {}
<1> SUFFICES ASSUME NEW b \in h.borders PROVE FALSE
  OBVIOUS
<1>1. b.in \in Nat /\ b.in < h.moveMsg
  BY DEF HostType, BorderType, Pending, PendingBorder
<1> QED  BY <1>1

\* A step of constant size
StepOf(h) == [h EXCEPT !.startPos = h.stepTarget, !.stepTarget = Plus(@, 1, h.stepSize),
                       !.moveMsg = updateInterval]

LEMMA StepTyped ==
  ASSUME NEW h \in HostType, OffBorders(h), NEW g, g = StepOf(h)
  PROVE  /\ g \in HostType /\ OffBorders(g)
         /\ g.kind = h.kind /\ g.startPos = h.stepTarget /\ g.direction = h.direction
         /\ g.stepSize = h.stepSize /\ g.moveMsg = updateInterval /\ g.targetTime = h.targetTime
         /\ g.borderPolicy = h.borderPolicy /\ g.borders = h.borders /\ g.error = h.error
         /\ \A i \in Axes : g.stepTarget[i] = h.stepTarget[i] + h.stepSize[i]
<1>1. /\ h.stepTarget \in Point /\ h.stepSize \in Point /\ updateInterval \in Int
  BY HostFields, MobilityAssumption
<1>2. /\ Plus(h.stepTarget, 1, h.stepSize) \in Point
      /\ \A i \in Axes : Plus(h.stepTarget, 1, h.stepSize)[i] = h.stepTarget[i] + h.stepSize[i]
  BY <1>1 DEF Plus, Point, Axes
<1>3. /\ g \in HostType /\ g.stepTarget = Plus(h.stepTarget, 1, h.stepSize)
      /\ g.kind = h.kind /\ g.startPos = h.stepTarget /\ g.direction = h.direction
      /\ g.stepSize = h.stepSize /\ g.moveMsg = updateInterval /\ g.targetTime = h.targetTime
      /\ g.borderPolicy = h.borderPolicy /\ g.borders = h.borders /\ g.error = h.error
      /\ g.targetPos = h.targetPos
  BY <1>1, <1>2 DEF HostType, StepOf
<1>4. \A i \in Axes : g.stepTarget[i] = h.stepTarget[i] + h.stepSize[i]
  BY <1>2, <1>3, HostFields
<1>5. OffBorders(g)
  <2> SUFFICES ASSUME NEW i \in Axes
               PROVE  /\ g.stepTarget[i] % 2 = 1 /\ g.stepSize[i] % 2 = 0
                      /\ Segmented(g) \/ g.kind = "Circle" => g.targetPos[i] % 2 = 1
    BY DEF OffBorders
  <2>1. h.stepTarget[i] \in Int /\ h.stepSize[i] \in Int
        /\ h.stepTarget[i] % 2 = 1 /\ h.stepSize[i] % 2 = 0
    BY HostFields DEF OffBorders
  <2>2. g.stepTarget[i] % 2 = 1 /\ g.stepSize[i] % 2 = 0
    BY <1>3, <1>4, <2>1
  <2>3. Segmented(g) \/ g.kind = "Circle" => g.targetPos[i] % 2 = 1
    BY <1>3 DEF OffBorders, Segmented, Traced
  <2> QED  BY <2>2, <2>3
<1> QED  BY <1>3, <1>4, <1>5

LEMMA StepStraight ==
  ASSUME NEW h \in HostType, OffBorders(h), Steady(h), h.borders = {}, Inside(h.stepTarget),
         h.kind \in {"Mass", "Turtle", "BonnMotion", "ANSim"},
         NEW g, g = StepOf(h)
  PROVE  Straight(g) /\ Steady(g)
<1>1. /\ g \in HostType /\ OffBorders(g) /\ g.startPos = h.stepTarget
      /\ g.direction = h.direction /\ g.stepSize = h.stepSize
      /\ g.moveMsg = updateInterval /\ g.borders = h.borders
      /\ \A i \in Axes : g.stepTarget[i] = h.stepTarget[i] + h.stepSize[i]
  BY StepTyped
<1>2. updateInterval \in 1..updateInterval
  BY MobilityAssumption
<1>3. CASE \A i \in Axes : h.stepSize[i] = 0
  <2>1. \A i \in Axes : g.stepTarget[i] = h.stepTarget[i]
    BY <1>1, <1>3, HostFields
  <2>2. \A i \in Axes : ~Out(g, i)
    <3>1. Inside(g.stepTarget)
      BY <2>1 DEF Inside
    <3> QED  BY <1>1, <3>1, InsideUnlessOut
  <2> QED  BY <1>1, <1>3, <2>2 DEF Straight, Steady
<1>4. CASE UniformStep(<<0, 0>>, h.stepSize, updateInterval, h.direction)
  <2>1. UniformStep(g.startPos, g.stepTarget, updateInterval, g.direction)
    <3> SUFFICES ASSUME NEW i \in Axes
                 PROVE  Uniform(g.startPos[i], g.stepTarget[i], updateInterval, g.direction[i])
      BY DEF UniformStep
    <3>1. /\ Uniform(0, h.stepSize[i], updateInterval, h.direction[i])
          /\ h.stepSize[i] \in Int /\ h.stepTarget[i] \in Int /\ updateInterval \in Int
      BY <1>4, HostFields, StillVector, MobilityAssumption DEF UniformStep
    <3> QED  BY <1>1, <3>1 DEF Uniform
  <2>2. Steady(g)
    BY <1>1, <1>4 DEF Steady
  <2> QED  BY <1>1, <1>2, <2>1, <2>2 DEF Straight
<1> QED  BY <1>3, <1>4 DEF Steady

\* What looking at a step keeps of the invariant
LEMMA PlanKept ==
  ASSUME NEW h \in HostType, OffBorders(h), h.moveMsg \in Nat \cup {Never},
         host' \in fixIfHostGetsOutside(h),
         h.kind # "ConstSpeed", CirclesRound(h), OnRectangle(h),
         strayed' \in BOOLEAN, due' \in Int, backlog' \in Nat,
         strayed' => MayStray(h),
         ~strayed' => /\ Straight(h) /\ Steady(h)
                      /\ Policy(h) \in Folding => ideal' = Folded(Policy(h), h.stepTarget),
         Segmented(h) => /\ due' = h.targetTime
                         /\ h.moveMsg = Never \/ h.targetTime >= h.moveMsg - backlog'
  PROVE  HostIInv'
<1> DEFINE g == host'
<1>1. g \in fixIfHostGetsOutside(h)
  OBVIOUS
<1> HIDE DEF g
<1>2. g \in HostType /\ OffBorders(g) /\ Frame(g, h)
  BY <1>1, TypesKept
<1>3. g.kind = h.kind /\ g.moveMsg = h.moveMsg /\ g.targetTime = h.targetTime
      /\ g.startPos = h.startPos /\ g.rectangle = h.rectangle /\ g.d = h.d
  BY <1>2 DEF Frame
<1>4. (Segmented(g) <=> Segmented(h)) /\ (MayStray(g) <=> MayStray(h))
  BY <1>3 DEF MayStray, Segmented, Traced
<1>5. Policy(h) # "NONE" /\ Policy(g) = Policy(h)
  BY <1>2, PolicyOfKind, PolicyOfFrame
<1>6. ~strayed' => LookedAt(g, h) /\ (g.error \/ g.borders # {} \/ Inside(g.stepTarget))
  BY <1>1, <1>5, StraightKept
<1>7. ~strayed' => Followed(g, ideal')
  BY <1>1, <1>3, <1>5, <1>6 DEF Followed, LookedAt, Straight
<1>8. CirclesRound(g)
  <2>1. g.kind = "Circle" => ~strayed'
    BY <1>3 DEF MayStray, Segmented, Traced
  <2> QED  BY <1>3, <1>6, <2>1 DEF CirclesRound, LookedAt
<1>9. OnRectangle(g)
  <2>1. g.kind = "Rectangle" => ~strayed' /\ Policy(h) = "RAISEERROR"
    BY <1>3, PolicyOfKind DEF MayStray, Segmented, Traced
  <2> QED  BY <1>3, <1>6, <2>1 DEF OnRectangle, LookedAt
<1>10. TowardsPlace(g)
  BY <1>3 DEF TowardsPlace
<1>11. HostTypeOK'
  BY <1>2, <1>3 DEF HostTypeOK, g
<1>12. OnSchedule'
  BY <1>3, <1>4 DEF OnSchedule, g
<1> QED  BY <1>3, <1>4, <1>7, <1>8, <1>9, <1>10, <1>11, <1>12 DEF HostIInv, g

-----------------------------------------------------------------------------
(* The initial states *)

\* Along the perimeter a host stays off the borders.
LEMMA CalculatePlace ==
  ASSUME NEW r \in Rectangles, NEW d \in Nat, d % 2 = 0
  PROVE  /\ calculateXY(r, d) \in Point
         /\ \A i \in Axes : calculateXY(r, d)[i] % 2 = 1
<1>1. \A k \in 1..4 : r[k] \in Nat /\ r[k] % 2 = 1
  BY MobilityAssumption DEF GeneralPosition
<1>2. r[1] <= r[3] /\ r[2] <= r[4]
  BY MobilityAssumption
<1> DEFINE dx == r[3] - r[1]
           dy == r[4] - r[2]
<1>3. Corners(r) = <<dx, dx + dy, dx + dy + dx, dx + dy + dx + dy>>
  BY DEF Corners
<1>4. dx \in Nat /\ dy \in Nat /\ dx % 2 = 0 /\ dy % 2 = 0
  BY <1>1, <1>2
<1>5. /\ r[1] \in Nat /\ r[2] \in Nat /\ r[3] = r[1] + dx /\ r[4] = r[2] + dy
      /\ r[1] % 2 = 1 /\ r[2] % 2 = 1 /\ r[3] % 2 = 1 /\ r[4] % 2 = 1
  BY <1>1, <1>2
<1> HIDE DEF dx, dy
<1>6. /\ Corners(r)[1] = dx /\ Corners(r)[2] = dx + dy
      /\ Corners(r)[3] = dx + dy + dx /\ Corners(r)[4] = dx + dy + dx + dy
  BY <1>3
<1>7. calculateXY(r, d) =
        IF d < dx THEN <<r[1] + d, r[2]>>
        ELSE IF d < dx + dy THEN <<r[3], r[2] + d - dx>>
        ELSE IF d < dx + dy + dx THEN <<r[3] - d + (dx + dy), r[4]>>
        ELSE <<r[1], r[4] - d + (dx + dy + dx)>>
  BY <1>4, <1>6 DEF calculateXY
<1>8. CASE d < dx
  <2>1. r[1] + d \in Int /\ (r[1] + d) % 2 = 1
    BY <1>5
  <2> QED  BY <1>5, <1>7, <1>8, <2>1, PointOfTwo DEF Axes
<1>9. CASE d >= dx /\ d < dx + dy
  <2>1. r[2] + d - dx \in Int /\ (r[2] + d - dx) % 2 = 1
    BY <1>4, <1>5
  <2> QED  BY <1>4, <1>5, <1>7, <1>9, <2>1, PointOfTwo DEF Axes
<1>10. CASE d >= dx + dy /\ d < dx + dy + dx
  <2>1. r[3] - d + (dx + dy) \in Int /\ (r[3] - d + (dx + dy)) % 2 = 1
    BY <1>4, <1>5
  <2> QED  BY <1>4, <1>5, <1>7, <1>10, <2>1, PointOfTwo DEF Axes
<1>11. CASE d >= dx + dy + dx
  <2>1. r[4] - d + (dx + dy + dx) \in Int /\ (r[4] - d + (dx + dy + dx)) % 2 = 1
    BY <1>4, <1>5
  <2> QED  BY <1>4, <1>5, <1>7, <1>11, <2>1, PointOfTwo DEF Axes
<1> QED  BY <1>4, <1>8, <1>9, <1>10, <1>11

NewAt(h, kind, p, angle) ==
    /\ h \in HostType /\ h.kind = kind /\ h.startPos = p /\ h.stepTarget = p
    /\ h.angle = angle /\ h.borders = {} /\ h.error = FALSE
    /\ h.borderPolicy = "REFLECT" /\ h.targetTime = 0 /\ h.numSteps = 0 /\ h.step = -1
    /\ kind = "Mass" => /\ UniformStep(<<0, 0>>, h.stepSize, updateInterval, angle)
                        /\ h.direction = angle
    /\ kind # "Mass" => h.stepSize = <<0, 0>> /\ h.direction = <<0, 0>>
    /\ \A i \in Axes : h.stepSize[i] % 2 = 0

LEMMA NewHostEffect ==
  ASSUME NEW kind \in Mover, NEW p \in Point, NEW angle \in Vector
  PROVE  NewAt(NewHost(kind, p, angle, 0), kind, p, angle)
<1> DEFINE h == NewHost(kind, p, angle, 0)
<1>1. updateInterval \in Int /\ updateInterval % 2 = 0
  BY MobilityAssumption DEF GeneralPosition
<1>2. /\ Plus(<<0, 0>>, updateInterval, angle) \in Point
      /\ UniformStep(<<0, 0>>, Plus(<<0, 0>>, updateInterval, angle), updateInterval, angle)
  BY <1>1, StillVector, PlusUniform
<1>3. /\ h \in HostType /\ h.kind = kind /\ h.startPos = p /\ h.stepTarget = p
      /\ h.angle = angle /\ h.borders = {} /\ h.error = FALSE
      /\ h.borderPolicy = "REFLECT" /\ h.targetTime = 0 /\ h.numSteps = 0 /\ h.step = -1
      /\ h.direction = IF kind = "Mass" THEN angle ELSE <<0, 0>>
      /\ h.stepSize = IF kind = "Mass" THEN Plus(<<0, 0>>, updateInterval, angle) ELSE <<0, 0>>
  BY <1>2, StillVector DEF NewHost, HostType, Policies, Never
<1> HIDE DEF h
<1>4. \A i \in Axes : h.stepSize[i] % 2 = 0
  <2> SUFFICES ASSUME NEW i \in Axes PROVE h.stepSize[i] % 2 = 0
    OBVIOUS
  <2>1. CASE kind = "Mass"
    <3>1. Uniform(0, h.stepSize[i], updateInterval, angle[i])
      BY <1>2, <1>3, <2>1, StillVector DEF UniformStep
    <3> QED  BY <1>1, <3>1 DEF Uniform
  <2>2. CASE kind # "Mass"
    BY <1>3, <2>2, StillVector
  <2> QED  BY <2>1, <2>2
<1>5. NewAt(h, kind, p, angle)
  BY <1>2, <1>3, <1>4 DEF NewAt
<1> QED  BY <1>5 DEF h

LEMMA NewHostsKept ==
  ASSUME NEW kind \in Mover, NEW h \in NewHosts(kind)
  PROVE  /\ h \in HostType /\ OffBorders(h) /\ Inside(h.startPos) /\ h.borders = {}
         /\ h.kind = kind /\ h.stepTarget = h.startPos /\ h.targetTime = 0 /\ h.error = FALSE
         /\ Steady(h) /\ CirclesRound(h) /\ OnRectangle(h) /\ TowardsPlace(h)
<1> DEFINE Good(g) ==
         /\ g \in HostType /\ OffBorders(g) /\ Inside(g.startPos) /\ g.borders = {}
         /\ g.kind = kind /\ g.stepTarget = g.startPos /\ g.targetTime = 0 /\ g.error = FALSE
         /\ Steady(g) /\ CirclesRound(g) /\ OnRectangle(g) /\ TowardsPlace(g)
<1>1. <<1, 0>> \in Vector
  BY DEF Vector, Axes
<1>2. CASE kind = "Circle"
  <2>1. PICK center \in Places, angle \in Quarters :
          /\ h = [NewHost("Circle", Plus(center, updateInterval, angle), angle, 0)
                    EXCEPT !.targetPos = center]
          /\ Inside(h.startPos)
    <3>1. h \in CircleHosts
      BY <1>2 DEF NewHosts, Segmented, Traced
    <3> QED  BY <3>1 DEF CircleHosts
  <2> DEFINE p == Plus(center, updateInterval, angle)
             g == NewHost("Circle", p, angle, 0)
  <2>2. /\ center \in Point /\ angle \in Vector /\ angle \in Point
        /\ updateInterval \in Int /\ updateInterval % 2 = 0
        /\ \A i \in Axes : center[i] % 2 = 1 /\ center[i] \in Int
    BY PlaceIsPoint, QuarterIsVector, VectorIsPoint, MobilityAssumption DEF GeneralPosition, Point
  <2>3. p \in Point /\ \A i \in Axes : p[i] = center[i] + updateInterval * angle[i]
    BY <2>2, PlusPoint
  <2>4. \A i \in Axes : Uniform(center[i], p[i], updateInterval, angle[i])
    BY <2>2, PlusUniform
  <2>5. \A i \in Axes : p[i] % 2 = 1 /\ p[i] - center[i] = updateInterval * angle[i]
    <3> SUFFICES ASSUME NEW i \in Axes
                 PROVE  p[i] % 2 = 1 /\ p[i] - center[i] = updateInterval * angle[i]
      OBVIOUS
    <3>1. p[i] \in Int /\ center[i] \in Int /\ angle[i] \in {-1, 0, 1}
      BY <2>2, <2>3 DEF Point, Vector
    <3>2. p[i] % 2 = 1
      BY <2>2, <2>4, <3>1 DEF Uniform
    <3>3. updateInterval * angle[i] \in Int
      BY <2>2, <3>1
    <3> QED  BY <2>3, <3>1, <3>2, <3>3
  <2> HIDE DEF p
  <2>6. /\ g \in HostType /\ g.kind = kind /\ g.startPos = p /\ g.stepTarget = p
        /\ g.angle = angle /\ g.borders = {} /\ g.error = FALSE /\ g.targetTime = 0
        /\ g.stepSize = <<0, 0>>
    <3>1. NewAt(g, kind, p, angle)
      BY <1>2, <2>2, <2>3, NewHostEffect
    <3> HIDE DEF g
    <3> QED  BY <1>2, <3>1 DEF NewAt
  <2> HIDE DEF g
  <2>7. /\ h \in HostType /\ h.kind = kind /\ h.startPos = p /\ h.stepTarget = p
        /\ h.angle = angle /\ h.borders = {} /\ h.error = FALSE /\ h.targetTime = 0
        /\ h.stepSize = <<0, 0>> /\ h.targetPos = center
    BY <2>1, <2>2, <2>6 DEF HostType, g, p
  <2>8. OffBorders(h)
    BY <2>2, <2>5, <2>7, StillVector DEF OffBorders
  <2> QED  BY <1>2, <2>1, <2>5, <2>7, <2>8 DEF Steady, CirclesRound, OnRectangle, TowardsPlace
<1>3. CASE kind = "Rectangle"
  <2>1. PICK r \in Rectangles, k \in 0..playgroundSizeX + playgroundSizeY :
          /\ h = RectangleHost(r, 2 * k)
          /\ h.d < Corners(h.rectangle)[4] /\ Inside(h.startPos)
    <3>1. h \in RectangleHosts
      BY <1>3 DEF NewHosts, Segmented, Traced
    <3> QED  BY <3>1 DEF RectangleHosts
  <2> DEFINE p == calculateXY(r, 2 * k)
             g == NewHost("Rectangle", p, <<1, 0>>, 0)
  <2>2. 2 * k \in Nat /\ (2 * k) % 2 = 0
    OBVIOUS
  <2>3. p \in Point /\ \A i \in Axes : p[i] % 2 = 1
    BY <2>2, CalculatePlace
  <2>4. /\ g \in HostType /\ g.kind = kind /\ g.startPos = p /\ g.stepTarget = p
        /\ g.borders = {} /\ g.error = FALSE /\ g.targetTime = 0
        /\ g.stepSize = <<0, 0>>
    <3>1. NewAt(g, kind, p, <<1, 0>>)
      BY <1>1, <1>3, <2>3, NewHostEffect
    <3> HIDE DEF g
    <3> QED  BY <1>3, <3>1 DEF NewAt
  <2> HIDE DEF g
  <2>5. /\ h \in HostType /\ h.kind = kind /\ h.startPos = p /\ h.stepTarget = p
        /\ h.borders = {} /\ h.error = FALSE /\ h.targetTime = 0
        /\ h.stepSize = <<0, 0>> /\ h.rectangle = r /\ h.d = 2 * k
    <3>1. h = [g EXCEPT !.rectangle = r, !.d = 2 * k]
      BY <2>1 DEF g, RectangleHost
    <3>2. r \in Rectangles \cup {<<>>} /\ 2 * k \in Int
      BY <2>2
    <3> HIDE DEF p
    <3> QED  BY <2>4, <3>1, <3>2 DEF HostType
  <2>6. OffBorders(h)
    BY <1>3, <2>3, <2>5, StillVector DEF OffBorders, Segmented, Traced
  <2> QED  BY <1>3, <2>1, <2>2, <2>5, <2>6 DEF Steady, CirclesRound, OnRectangle, TowardsPlace
<1>4. CASE Segmented([kind |-> kind])
  <2>1. kind \in {"Turtle", "BonnMotion", "ANSim"}
    BY <1>4 DEF Segmented, Traced
  <2>2. PICK p \in Places : h = [NewHost(kind, p, <<1, 0>>, 0) EXCEPT !.targetPos = p]
    BY <1>4, <2>1 DEF NewHosts, ScriptHosts
  <2> DEFINE g == NewHost(kind, p, <<1, 0>>, 0)
  <2>3. p \in Point /\ Inside(p) /\ \A i \in Axes : p[i] % 2 = 1
    BY PlaceIsPoint DEF Inside
  <2>4. /\ g \in HostType /\ g.kind = kind /\ g.startPos = p /\ g.stepTarget = p
        /\ g.borders = {} /\ g.error = FALSE /\ g.targetTime = 0
        /\ g.stepSize = <<0, 0>>
    <3>1. NewAt(g, kind, p, <<1, 0>>)
      BY <1>1, <2>1, <2>3, NewHostEffect
    <3> HIDE DEF g
    <3> QED  BY <2>1, <3>1 DEF NewAt
  <2> HIDE DEF g
  <2>5. /\ h \in HostType /\ h.kind = kind /\ h.startPos = p /\ h.stepTarget = p
        /\ h.borders = {} /\ h.error = FALSE /\ h.targetTime = 0
        /\ h.stepSize = <<0, 0>> /\ h.targetPos = p
    BY <2>2, <2>3, <2>4 DEF HostType, g
  <2>6. OffBorders(h)
    BY <2>3, <2>5, StillVector DEF OffBorders
  <2> QED  BY <2>1, <2>3, <2>5, <2>6, StillVector DEF Steady, CirclesRound, OnRectangle, TowardsPlace
<1>5. CASE kind \notin {"Circle", "Rectangle"} /\ ~Segmented([kind |-> kind])
  <2>1. \E p \in Places : \E angle \in Vector : h = NewHost(kind, p, angle, 0)
    BY <1>1, <1>5, DirectionIsVector DEF NewHosts, FreeHosts
  <2> PICK p \in Places, angle \in Vector : h = NewHost(kind, p, angle, 0)
    BY <2>1
  <2>2. p \in Point /\ Inside(p) /\ \A i \in Axes : p[i] % 2 = 1
    BY PlaceIsPoint DEF Inside
  <2>3. /\ h \in HostType /\ h.kind = kind /\ h.startPos = p /\ h.stepTarget = p
        /\ h.borders = {} /\ h.error = FALSE /\ h.targetTime = 0
        /\ h.numSteps = 0 /\ h.step = -1
        /\ kind = "Mass" => /\ UniformStep(<<0, 0>>, h.stepSize, updateInterval, angle)
                            /\ h.direction = angle
        /\ kind # "Mass" => h.stepSize = <<0, 0>> /\ h.direction = <<0, 0>>
        /\ \A i \in Axes : h.stepSize[i] % 2 = 0
    <3>1. NewAt(h, kind, p, angle)
      BY <2>2, NewHostEffect
    <3> QED  BY <3>1 DEF NewAt
  <2>4. OffBorders(h)
    BY <1>5, <2>2, <2>3 DEF OffBorders, Segmented, Traced
  <2>5. Steady(h)
    BY <1>5, <2>3 DEF Steady, Segmented, Traced
  <2>6. TowardsPlace(h)
    <3> SUFFICES ASSUME kind = "ConstSpeed" PROVE TowardsPlace(h)
      BY <2>3 DEF TowardsPlace
    <3>1. UniformStep(<<0, 0>>, <<0, 0>>, updateInterval, <<0, 0>>)
      BY StillVector DEF UniformStep, Uniform
    <3>2. (0 - (-1) - 1) * updateInterval = 0
      BY MobilityAssumption
    <3>3. Plus(p, 0, <<0, 0>>) \in Point /\ UniformStep(p, Plus(p, 0, <<0, 0>>), 0, <<0, 0>>)
      BY <2>2, StillVector, PlusUniform
    <3>4. \A i \in Axes : Plus(p, 0, <<0, 0>>)[i] = p[i]
      BY <3>3, StillVector DEF UniformStep, Uniform
    <3>5. Inside(Plus(p, 0, <<0, 0>>))
      BY <2>2, <3>4 DEF Inside
    <3>6. Inside(Plus(h.stepTarget, (h.numSteps - h.step - 1) * updateInterval, h.direction))
      BY <2>3, <3>2, <3>5
    <3> QED  BY <2>2, <2>3, <3>1, <3>6 DEF TowardsPlace
  <2> QED  BY <1>5, <2>2, <2>3, <2>4, <2>5, <2>6 DEF CirclesRound, OnRectangle
<1> QED  BY <1>2, <1>3, <1>4, <1>5

LEMMA InitHostIInv == MobilityInit => HostIInv
<1> SUFFICES ASSUME MobilityInit PROVE HostIInv
  OBVIOUS
<1> PICK kind \in Mover, at \in 0..updateInterval - 1 : \E h \in NewHosts(kind) :
         /\ host = Started(h, at) /\ ideal = h.startPos
         /\ due = 0 /\ backlog = IF Segmented(h) THEN at ELSE 0
  BY DEF MobilityInit
<1> PICK h \in NewHosts(kind) : /\ host = Started(h, at) /\ ideal = h.startPos
                                /\ due = 0 /\ backlog = IF Segmented(h) THEN at ELSE 0
  OBVIOUS
<1>1. /\ h \in HostType /\ OffBorders(h) /\ Inside(h.startPos) /\ h.borders = {}
      /\ h.kind = kind /\ h.stepTarget = h.startPos /\ h.targetTime = 0 /\ h.error = FALSE
      /\ Steady(h) /\ CirclesRound(h) /\ OnRectangle(h) /\ TowardsPlace(h)
  BY NewHostsKept
<1>2. /\ strayed = FALSE /\ backlog \in Nat /\ due = 0 /\ at \in Nat
      /\ updateInterval \in Nat /\ at <= updateInterval
  BY MobilityAssumption DEF MobilityInit
<1>3. /\ host \in HostType /\ host.moveMsg = at /\ host.kind = h.kind /\ host.startPos = h.startPos
      /\ host.direction = h.direction /\ host.stepTarget = h.stepTarget
      /\ host.targetPos = h.targetPos /\ host.stepSize = h.stepSize /\ host.angle = h.angle
      /\ host.borderPolicy = h.borderPolicy /\ host.targetTime = 0
      /\ host.rectangle = h.rectangle /\ host.d = h.d
      /\ host.numSteps = h.numSteps /\ host.step = h.step
      /\ host.borders = {} /\ host.error = FALSE
  <2>1. at \in Int
    BY <1>2
  <2>2. host = [h EXCEPT !.moveMsg = at]
    BY DEF Started
  <2> QED  BY <1>1, <2>1, <2>2 DEF HostType
<1>4. OffBorders(host) /\ Steady(host)
  BY <1>1, <1>3 DEF OffBorders, Steady, Segmented, Traced
<1>5. CirclesRound(host) /\ OnRectangle(host) /\ TowardsPlace(host)
  BY <1>1, <1>3 DEF CirclesRound, OnRectangle, TowardsPlace
<1>6. Policy(host) \in Folding => Folded(Policy(host), host.stepTarget) = ideal
  <2>1. /\ host.stepTarget \in Point /\ Inside(host.stepTarget)
        /\ \A i \in Axes : host.stepTarget[i] % 2 = 1
    BY <1>1, <1>3, <1>4, HostFields DEF OffBorders
  <2>2. ideal = host.stepTarget
    BY <1>1, <1>3
  <2> QED  BY <2>1, <2>2, FoldedInside
<1>7. Followed(host, ideal)
  BY <1>1, <1>3, <1>4, <1>6 DEF Followed, Pending
<1>8. HostTypeOK /\ OnSchedule
  <2>1. HostTypeOK
    <3>1. due \in Int /\ backlog \in Nat /\ host.moveMsg \in Nat
      BY <1>2, <1>3
    <3>2. strayed \in BOOLEAN
      BY <1>2, Zenon
    <3> QED  BY <1>3, <1>4, <3>1, <3>2 DEF HostTypeOK
  <2>2. OnSchedule
    <3>1. Segmented(host) => backlog = at
      BY <1>3 DEF Segmented, Traced
    <3> QED  BY <1>2, <1>3, <3>1 DEF OnSchedule
  <2> QED  BY <2>1, <2>2
<1> QED  BY <1>2, <1>5, <1>7, <1>8 DEF HostIInv

-----------------------------------------------------------------------------
(* The steps *)

\* What is known of a host that is about to go
LEMMA AtAStep ==
  ASSUME HostIInv, host.moveMsg = 0, ~host.error
  PROVE  /\ host \in HostType /\ OffBorders(host)
         /\ ~strayed /\ host.kind # "ConstSpeed" =>
              /\ Pending(host) /\ host.borders = {}
              /\ Inside(host.stepTarget) /\ Steady(host)
              /\ Policy(host) \in Folding => Folded(Policy(host), host.stepTarget) = ideal
<1>1. host \in HostType /\ OffBorders(host)
  BY DEF HostIInv, HostTypeOK
<1>2. ASSUME ~strayed, host.kind # "ConstSpeed"
      PROVE  /\ Pending(host) /\ host.borders = {}
             /\ Inside(host.stepTarget) /\ Steady(host)
             /\ Policy(host) \in Folding => Folded(Policy(host), host.stepTarget) = ideal
  <2>1. Followed(host, ideal)
    BY <1>2 DEF HostIInv
  <2>2. Pending(host) /\ host.borders = {}
    BY <1>1, <2>1, NoBorderLeft DEF Followed
  <2> QED  BY <1>1, <1>2, <2>1, <2>2, PolicyOfKind DEF Followed
<1> QED  BY <1>1, <1>2

LEMMA MassMoveKept == ASSUME HostIInv, ~host.error, MassMove PROVE HostIInv'
<1> DEFINE h == StepOf(host)
<1>1. /\ host.kind = "Mass" /\ host.moveMsg = 0
      /\ host' \in fixIfHostGetsOutside(h) /\ ideal' = Folded(Policy(h), h.stepTarget)
      /\ strayed' = strayed /\ due' = due /\ backlog' = backlog
  BY DEF MassMove, Goes, Plan, StepOf
<1>2. host \in HostType /\ OffBorders(host) /\ updateInterval \in Nat
  BY <1>1, AtAStep, MobilityAssumption
<1>3. h \in HostType /\ OffBorders(h) /\ h.kind = "Mass" /\ h.moveMsg = updateInterval
  BY <1>1, <1>2, StepTyped
<1>4. ~strayed => Straight(h) /\ Steady(h)
  BY <1>1, <1>2, AtAStep, StepStraight
<1> HIDE DEF h
<1>5. CirclesRound(h) /\ OnRectangle(h) /\ MayStray(h) /\ ~Segmented(h)
  BY <1>3 DEF CirclesRound, OnRectangle, MayStray, Segmented, Traced
<1>6. /\ strayed' \in BOOLEAN /\ due' \in Int /\ backlog' \in Nat
  BY <1>1 DEF HostIInv, HostTypeOK
<1> QED  BY <1>1, <1>2, <1>3, <1>4, <1>5, <1>6, PlanKept

LEMMA LinearMoveKept == ASSUME HostIInv, ~host.error, LinearMove PROVE HostIInv'
<1> DEFINE h == [host EXCEPT !.startPos = host.stepTarget, !.direction = host.angle,
                             !.stepTarget = Plus(@, updateInterval, host.angle),
                             !.moveMsg = updateInterval]
<1>1. /\ host.kind = "Linear" /\ host.moveMsg = 0
      /\ host' \in fixIfHostGetsOutside(h) /\ ideal' = Folded(Policy(h), h.stepTarget)
      /\ strayed' = strayed /\ due' = due /\ backlog' = backlog
  BY DEF LinearMove, Goes, Plan
<1>2. /\ host \in HostType /\ OffBorders(host)
      /\ updateInterval \in Nat /\ updateInterval > 0 /\ updateInterval % 2 = 0
  BY <1>1, AtAStep, MobilityAssumption DEF GeneralPosition
<1>3. ~strayed
  BY <1>1 DEF HostIInv, MayStray, Segmented, Traced
<1>4. host.borders = {} /\ Inside(host.stepTarget)
  BY <1>1, <1>3, AtAStep
<1> DEFINE target == Plus(host.stepTarget, updateInterval, host.angle)
<1>5. /\ target \in Point
      /\ UniformStep(host.stepTarget, target, updateInterval, host.angle)
  BY <1>2, HostFields, PlusUniform
<1> HIDE DEF target
<1>6. /\ h \in HostType /\ h.kind = "Linear" /\ h.moveMsg = updateInterval
      /\ h.startPos = host.stepTarget /\ h.stepTarget = target /\ h.direction = host.angle
      /\ h.stepSize = host.stepSize /\ h.borders = {}
  <2>1. h = [host EXCEPT !.startPos = host.stepTarget, !.direction = host.angle,
                         !.stepTarget = target, !.moveMsg = updateInterval]
    BY DEF target
  <2>2. host.stepTarget \in Point /\ host.angle \in Vector /\ updateInterval \in Int
    BY <1>2, HostFields
  <2> HIDE DEF h
  <2> QED  BY <1>1, <1>2, <1>4, <1>5, <2>1, <2>2 DEF HostType
<1> HIDE DEF h
<1>7. OffBorders(h)
  <2> SUFFICES ASSUME NEW i \in Axes PROVE h.stepTarget[i] % 2 = 1 /\ h.stepSize[i] % 2 = 0
    BY <1>6 DEF OffBorders, Segmented, Traced
  <2>1. /\ Uniform(host.stepTarget[i], target[i], updateInterval, host.angle[i])
        /\ host.stepTarget[i] \in Int /\ host.stepTarget[i] % 2 = 1 /\ host.stepSize[i] % 2 = 0
    BY <1>2, <1>5, HostFields DEF UniformStep, OffBorders
  <2> QED  BY <1>2, <1>6, <2>1 DEF Uniform
<1>8. Straight(h) /\ Steady(h)
  BY <1>2, <1>4, <1>5, <1>6, <1>7 DEF Straight, Steady
<1>9. CirclesRound(h) /\ OnRectangle(h) /\ ~Segmented(h)
  BY <1>6 DEF CirclesRound, OnRectangle, Segmented, Traced
<1>10. /\ strayed' \in BOOLEAN /\ due' \in Int /\ backlog' \in Nat
  BY <1>1 DEF HostIInv, HostTypeOK
<1> QED  BY <1>1, <1>2, <1>3, <1>6, <1>7, <1>8, <1>9, <1>10, PlanKept

\* Between two places on the playground a straight way stays on it.
LEMMA BetweenPlaces ==
  ASSUME NEW p \in Point, NEW q \in Point, NEW D \in Vector, NEW k \in Int, k >= 1,
         UniformStep(p, q, updateInterval, D),
         Inside(p), Inside(Plus(p, k * updateInterval, D))
  PROVE  Inside(q) /\ Inside(Plus(q, (k - 1) * updateInterval, D))
<1> DEFINE K == k * updateInterval
           L == (k - 1) * updateInterval
           e == Plus(p, K, D)
           f == Plus(q, L, D)
<1>1. K \in Int /\ L \in Int /\ K = L + updateInterval /\ L >= 0 /\ updateInterval \in Nat
  BY MobilityAssumption
<1> HIDE DEF K, L
<1>2. /\ e \in Point /\ f \in Point
      /\ UniformStep(p, e, K, D) /\ UniformStep(q, f, L, D)
  BY <1>1, PlusUniform
<1>3. Inside(e)
  BY DEF K
<1> HIDE DEF e, f
<1>4. ASSUME NEW i \in Axes PROVE q[i] \in 0..Size[i] /\ f[i] \in 0..Size[i]
  <2>1. /\ p[i] \in 0..Size[i] /\ e[i] \in 0..Size[i] /\ Size[i] \in Nat
        /\ q[i] \in Int /\ f[i] \in Int /\ D[i] \in {-1, 0, 1}
        /\ Uniform(p[i], q[i], updateInterval, D[i])
        /\ Uniform(p[i], e[i], K, D[i]) /\ Uniform(q[i], f[i], L, D[i])
    BY <1>2, <1>3, Sizes DEF UniformStep, Inside, Point, Vector
  <2> QED  BY <1>1, <2>1 DEF Uniform
<1>5. Inside(q) /\ Inside(f)
  BY <1>4 DEF Inside
<1> QED  BY <1>5 DEF f, L

LEMMA ConstSpeedMoveKept == ASSUME HostIInv, ~host.error, ConstSpeedMove PROVE HostIInv'
<1>1. /\ host.kind = "ConstSpeed" /\ host.moveMsg = 0 /\ host \in HostType
      /\ strayed' = strayed /\ due' = due /\ backlog' = backlog
  BY DEF ConstSpeedMove, Goes, HostIInv, HostTypeOK
<1>2. /\ updateInterval \in Int /\ updateInterval > 0 /\ updateInterval % 2 = 0
  BY MobilityAssumption DEF GeneralPosition
<1>3. /\ TowardsPlace(host) /\ OffBorders(host) /\ ~strayed /\ Followed(host, ideal)
  BY <1>1 DEF HostIInv, HostTypeOK, MayStray, Segmented, Traced
<1>4. /\ host.borders = {} /\ host.step <= host.numSteps /\ Inside(host.startPos)
      /\ UniformStep(<<0, 0>>, host.stepSize, updateInterval, host.direction)
      /\ host.step < host.numSteps =>
           /\ Inside(host.stepTarget)
           /\ Inside(Plus(host.stepTarget, (host.numSteps - host.step - 1) * updateInterval,
                          host.direction))
      /\ host.step \in Int /\ host.numSteps \in Int
  BY <1>1, <1>3 DEF TowardsPlace, Followed, HostType
<1> DEFINE step == host.step + 1
           there == [host EXCEPT !.step = step, !.startPos = host.stepTarget,
                                 !.moveMsg = updateInterval]
<1>5. /\ there \in HostType /\ there.kind = "ConstSpeed" /\ there.startPos = host.stepTarget
      /\ there.stepTarget = host.stepTarget /\ there.stepSize = host.stepSize
      /\ there.direction = host.direction /\ there.moveMsg = updateInterval
      /\ there.borders = {} /\ there.step = step /\ there.numSteps = host.numSteps
  <2>1. step \in Int /\ host.stepTarget \in Point
    BY <1>1, <1>4, HostFields
  <2> HIDE DEF step
  <2> QED  BY <1>1, <1>2, <1>4, <2>1 DEF HostType
<1> HIDE DEF there
\* a host of this kind that is planned keeps the invariant
<1>6. ASSUME NEW h \in HostType, h.kind = "ConstSpeed", OffBorders(h), TowardsPlace(h),
             Inside(h.startPos), h.moveMsg \in Nat \cup {Never}, h.borders = {}, host' = h
      PROVE  HostIInv'
  <2>1. /\ Policy(h) = "NONE" /\ ~Segmented(h)
    BY <1>6, PolicyOfKind DEF Segmented, Traced
  <2>2. Steady(h) /\ CirclesRound(h) /\ OnRectangle(h)
    BY <1>6 DEF Steady, CirclesRound, OnRectangle
  <2>3. Followed(h, ideal')
    BY <1>6, <2>1, <2>2 DEF Followed, Pending, Folding
  <2>4. HostTypeOK'
    <3>1. strayed' \in BOOLEAN /\ due' \in Int /\ backlog' \in Nat
      BY <1>1 DEF HostIInv, HostTypeOK
    <3> QED  BY <1>6, <3>1 DEF HostTypeOK
  <2>5. OnSchedule'
    BY <1>1, <1>6, <2>1 DEF HostIInv, OnSchedule
  <2>6. ~strayed'
    BY <1>1, <1>3
  <2> QED  BY <1>6, <2>2, <2>3, <2>4, <2>5, <2>6 DEF HostIInv
<1>7. ASSUME step = host.numSteps, NEW h \in ConstSpeedTarget(there), Plan(h)
      PROVE  HostIInv'
  <2>1. PICK k \in 0..playgroundSizeX + playgroundSizeY, a \in Direction :
          /\ h = StepsAway(there, k, a)
          /\ Inside(Plus(there.startPos, h.numSteps * updateInterval, h.direction))
    BY <1>7 DEF ConstSpeedTarget
  <2> DEFINE size == Plus(<<0, 0>>, updateInterval, a)
             target == Plus(there.startPos, updateInterval, a)
  <2>2. /\ a \in Vector /\ k \in Int /\ k >= 0
        /\ there.startPos \in Point
        /\ Inside(there.startPos)
    <3>1. playgroundSizeX + playgroundSizeY \in Int
      BY Sizes DEF Size, Axes
    <3> QED  BY <1>4, <1>5, <1>7, <3>1, DirectionIsVector, HostFields
  <2>3. /\ size \in Point /\ UniformStep(<<0, 0>>, size, updateInterval, a)
        /\ target \in Point /\ UniformStep(there.startPos, target, updateInterval, a)
    BY <1>2, <2>2, StillVector, PlusUniform
  <2>4. h = [there EXCEPT !.numSteps = k, !.step = 0, !.direction = a,
                          !.stepSize = size, !.stepTarget = target]
    BY <2>1 DEF StepsAway
  <2> HIDE DEF size, target
  <2>5. /\ h \in HostType /\ h.kind = "ConstSpeed" /\ h.startPos = there.startPos
        /\ h.numSteps = k /\ h.step = 0 /\ h.direction = a /\ h.stepSize = size
        /\ h.stepTarget = target /\ h.borders = {} /\ h.moveMsg = updateInterval
    <3>1. 0 \in Int /\ size \in Point /\ target \in Point /\ a \in Vector /\ k \in Int
      BY <2>2, <2>3
    <3>2. there \in HostType /\ there.kind = "ConstSpeed" /\ there.borders = {} /\ there.moveMsg = updateInterval
      BY <1>5
    <3>3. h \in HostType
      BY <2>4, <3>1, <3>2 DEF HostType
    <3> QED  BY <2>4, <3>1, <3>2 DEF HostType
  <2>6. OffBorders(h)
    <3> SUFFICES ASSUME NEW i \in Axes PROVE h.stepTarget[i] % 2 = 1 /\ h.stepSize[i] % 2 = 0
      BY <2>5 DEF OffBorders, Segmented, Traced
    <3>1. /\ Uniform(0, size[i], updateInterval, a[i])
          /\ Uniform(host.stepTarget[i], target[i], updateInterval, a[i])
          /\ host.stepTarget[i] \in Int /\ host.stepTarget[i] % 2 = 1
      BY <1>1, <1>3, <1>5, <2>3, StillVector, HostFields DEF UniformStep, OffBorders
    <3> QED  BY <1>2, <2>5, <3>1 DEF Uniform
  <2>7. TowardsPlace(h)
    <3>1. ASSUME 0 < k
          PROVE  Inside(target) /\ Inside(Plus(target, (k - 1) * updateInterval, a))
      <4>1. Inside(Plus(there.startPos, k * updateInterval, a))
        BY <2>1, <2>5
      <4> QED  BY <2>2, <2>3, <3>1, <4>1, BetweenPlaces
    <3>2. k - 0 - 1 = k - 1
      BY <2>2
    <3> QED  BY <2>2, <2>3, <2>5, <3>1, <3>2 DEF TowardsPlace
  <2>8. host' = h
    BY <1>7, <2>5, PolicyOfKind DEF Plan, fixIfHostGetsOutside
  <2> QED  BY <1>2, <1>6, <2>2, <2>5, <2>6, <2>7, <2>8
<1>8. ASSUME step < host.numSteps, Plan([there EXCEPT !.stepTarget = Plus(@, 1, host.stepSize)])
      PROVE  HostIInv'
  <2> DEFINE target == Plus(there.stepTarget, 1, host.stepSize)
             h == [there EXCEPT !.stepTarget = target]
             n == host.numSteps - host.step - 1
  <2>1. /\ target \in Point
        /\ \A i \in Axes : target[i] = host.stepTarget[i] + host.stepSize[i]
    <3>1. host.stepTarget \in Point /\ host.stepSize \in Point
      BY <1>1, HostFields
    <3> QED  BY <1>5, <3>1 DEF Plus, Point, Axes
  <2>2. UniformStep(host.stepTarget, target, updateInterval, host.direction)
    <3> SUFFICES ASSUME NEW i \in Axes
                 PROVE  Uniform(host.stepTarget[i], target[i], updateInterval, host.direction[i])
      BY DEF UniformStep
    <3>1. /\ Uniform(0, host.stepSize[i], updateInterval, host.direction[i])
          /\ host.stepSize[i] \in Int /\ host.stepTarget[i] \in Int
      BY <1>1, <1>4, HostFields, StillVector DEF UniformStep
    <3> QED  BY <1>2, <2>1, <3>1 DEF Uniform
  <2> HIDE DEF target
  <2>3. /\ h \in HostType /\ h.kind = "ConstSpeed" /\ h.startPos = host.stepTarget
        /\ h.stepTarget = target /\ h.stepSize = host.stepSize
        /\ h.direction = host.direction /\ h.moveMsg = updateInterval
        /\ h.borders = {} /\ h.step = step /\ h.numSteps = host.numSteps
    BY <1>5, <2>1 DEF HostType
  <2>4. Plan(h)
    BY <1>8 DEF target
  <2> HIDE DEF h
  <2>5. OffBorders(h)
    <3> SUFFICES ASSUME NEW i \in Axes PROVE h.stepTarget[i] % 2 = 1 /\ h.stepSize[i] % 2 = 0
      BY <2>3 DEF OffBorders, Segmented, Traced
    <3>1. /\ host.stepTarget[i] \in Int /\ host.stepSize[i] \in Int
          /\ host.stepTarget[i] % 2 = 1 /\ host.stepSize[i] % 2 = 0
      BY <1>1, <1>3, HostFields DEF OffBorders
    <3> QED  BY <2>1, <2>3, <3>1
  <2>6. /\ n \in Int /\ n >= 1 /\ Inside(host.stepTarget)
        /\ Inside(Plus(host.stepTarget, n * updateInterval, host.direction))
    BY <1>4, <1>8
  <2>7. Inside(target) /\ Inside(Plus(target, (n - 1) * updateInterval, host.direction))
    <3>1. host.stepTarget \in Point /\ host.direction \in Vector
      BY <1>1, HostFields
    <3> HIDE DEF n
    <3> QED  BY <2>1, <2>2, <2>6, <3>1, BetweenPlaces
  <2>8. TowardsPlace(h)
    <3>1. host.numSteps - step - 1 = n - 1
      BY <1>4
    <3> QED  BY <1>4, <1>8, <2>3, <2>7, <3>1 DEF TowardsPlace
  <2>9. host' = h
    BY <2>3, <2>4, PolicyOfKind DEF Plan, fixIfHostGetsOutside
  <2> QED  BY <1>2, <1>6, <2>3, <2>5, <2>6, <2>8, <2>9
<1>9. ASSUME host' = [host EXCEPT !.error = TRUE]
      PROVE  HostIInv'
  <2>1. /\ host' \in HostType /\ host'.kind = "ConstSpeed" /\ host'.startPos = host.startPos
        /\ host'.stepTarget = host.stepTarget /\ host'.stepSize = host.stepSize
        /\ host'.direction = host.direction /\ host'.moveMsg = 0
        /\ host'.borders = {} /\ host'.step = host.step /\ host'.numSteps = host.numSteps
    BY <1>1, <1>4, <1>9 DEF HostType
  <2>2. OffBorders(host') /\ TowardsPlace(host')
    BY <1>1, <1>3, <2>1 DEF OffBorders, TowardsPlace, Segmented, Traced
  <2> QED  BY <1>4, <1>6, <2>1, <2>2
<1> QED  BY <1>7, <1>8, <1>9 DEF ConstSpeedMove, there

LEMMA CircleMoveKept == ASSUME HostIInv, ~host.error, CircleMove PROVE HostIInv'
<1> DEFINE angle == <<-host.angle[2], host.angle[1]>>
           target == Plus(host.targetPos, updateInterval, angle)
           dir == Towards(host.stepTarget, target)
           h == [host EXCEPT !.startPos = host.stepTarget, !.stepTarget = target, !.angle = angle,
                             !.direction = dir, !.moveMsg = updateInterval]
<1>1. /\ host.kind = "Circle" /\ host.moveMsg = 0
      /\ host' \in fixIfHostGetsOutside(h) /\ ideal' = Folded(Policy(h), h.stepTarget)
      /\ strayed' = strayed /\ due' = due /\ backlog' = backlog
  BY DEF CircleMove, Goes, Plan
<1>2. /\ host \in HostType /\ OffBorders(host)
      /\ updateInterval \in Nat /\ updateInterval \in Int
      /\ updateInterval > 0 /\ updateInterval % 2 = 0
  BY <1>1, AtAStep, MobilityAssumption DEF GeneralPosition
<1>3. ~strayed
  BY <1>1 DEF HostIInv, MayStray, Segmented, Traced
<1>4. host.borders = {} /\ Inside(host.stepTarget)
  BY <1>1, <1>3, AtAStep
<1>5. /\ host.angle \in Quarters
      /\ \A i \in Axes : host.stepTarget[i] - host.targetPos[i] = updateInterval * host.angle[i]
  BY <1>1 DEF HostIInv, CirclesRound
<1>6. /\ angle \in Quarters /\ angle \in Vector /\ angle \in Point
      /\ angle[1] = -host.angle[2] /\ angle[2] = host.angle[1]
  <2>1. angle \in Quarters /\ angle[1] = -host.angle[2] /\ angle[2] = host.angle[1]
    BY <1>5 DEF Quarters
  <2> HIDE DEF angle
  <2> QED  BY <2>1, QuarterIsVector, VectorIsPoint
<1> HIDE DEF angle
<1>7. /\ target \in Point
      /\ \A i \in Axes : target[i] = host.targetPos[i] + updateInterval * angle[i]
  BY <1>2, <1>6, HostFields, PlusPoint
<1> HIDE DEF target
<1>8. /\ dir \in Vector
      /\ \A i \in Axes : dir[i] = Sign(target[i] - host.stepTarget[i])
  BY <1>2, <1>7, HostFields, TowardsSign
<1> HIDE DEF dir
<1>9. /\ h \in HostType /\ h.kind = "Circle" /\ h.moveMsg = updateInterval
      /\ h.startPos = host.stepTarget /\ h.stepTarget = target /\ h.direction = dir
      /\ h.targetPos = host.targetPos /\ h.angle = angle
      /\ h.stepSize = host.stepSize /\ h.borders = {}
  <2>1. host.stepTarget \in Point
    BY <1>2, HostFields
  <2> QED  BY <1>1, <1>2, <1>4, <1>6, <1>7, <1>8, <2>1 DEF HostType
<1> HIDE DEF h
\* A quarter turn is a straight diagonal step.
<1>10. ASSUME NEW i \in Axes
       PROVE  /\ Uniform(host.stepTarget[i], target[i], updateInterval, dir[i])
              /\ target[i] - host.targetPos[i] = updateInterval * angle[i]
              /\ target[i] % 2 = 1
  <2>1. /\ host.stepTarget[i] \in Int /\ host.targetPos[i] \in Int /\ host.targetPos[i] % 2 = 1
        /\ target[i] \in Int
    BY <1>1, <1>2, <1>7, HostFields DEF OffBorders, Point
  <2>2. /\ target[i] = host.targetPos[i] + updateInterval * angle[i]
        /\ host.stepTarget[i] - host.targetPos[i] = updateInterval * host.angle[i]
        /\ dir[i] = Sign(target[i] - host.stepTarget[i])
    BY <1>5, <1>7, <1>8
  <2>3. \/ host.angle[i] = 0 /\ angle[i] \in {-1, 1}
        \/ host.angle[i] \in {-1, 1} /\ angle[i] = 0
    BY <1>5, <1>6 DEF Quarters, Axes
  <2>4. CASE host.angle[i] = 0 /\ angle[i] = 1
    BY <1>2, <2>1, <2>2, <2>4 DEF Sign, Uniform
  <2>5. CASE host.angle[i] = 0 /\ angle[i] = -1
    BY <1>2, <2>1, <2>2, <2>5 DEF Sign, Uniform
  <2>6. CASE host.angle[i] = 1 /\ angle[i] = 0
    BY <1>2, <2>1, <2>2, <2>6 DEF Sign, Uniform
  <2>7. CASE host.angle[i] = -1 /\ angle[i] = 0
    BY <1>2, <2>1, <2>2, <2>7 DEF Sign, Uniform
  <2> QED  BY <2>3, <2>4, <2>5, <2>6, <2>7
<1>11. OffBorders(h)
  <2>1. \A i \in Axes : host.targetPos[i] % 2 = 1 /\ host.stepSize[i] % 2 = 0
    BY <1>1, <1>2 DEF OffBorders
  <2> QED  BY <1>9, <1>10, <2>1 DEF OffBorders
<1>12. Straight(h) /\ Steady(h)
  <2>1. UniformStep(h.startPos, h.stepTarget, h.moveMsg, h.direction)
    BY <1>9, <1>10 DEF UniformStep
  <2> QED  BY <1>2, <1>4, <1>9, <1>11, <2>1 DEF Straight, Steady
<1>13. CirclesRound(h) /\ OnRectangle(h) /\ ~Segmented(h)
  BY <1>6, <1>9, <1>10 DEF CirclesRound, OnRectangle, Segmented, Traced
<1>14. /\ strayed' \in BOOLEAN /\ due' \in Int /\ backlog' \in Nat
  BY <1>1 DEF HostIInv, HostTypeOK
<1> QED  BY <1>1, <1>2, <1>3, <1>9, <1>11, <1>12, <1>13, <1>14, PlanKept

\* Modulo an even number, what is even stays even.
LEMMA EvenModulo ==
  ASSUME NEW a \in Nat, NEW b \in Nat, b > 0, a % 2 = 0, b % 2 = 0
  PROVE  a % b \in 0..b - 1 /\ (a % b) % 2 = 0
<1> DEFINE r == a % b
<1>1. r \in 0..b - 1 /\ \E q \in Int : a = b * q + r
  <2>1. a % b \in 0..b - 1
    OBVIOUS
  <2>2. a \div b \in Int
    OBVIOUS
  <2>3. a = b * (a \div b) + (a % b)
    BY Z3
  <2> QED  BY <2>1, <2>2, <2>3
<1> PICK q \in Int : a = b * q + r
  BY <1>1
<1>2. PICK c \in Nat : b = 2 * c
  <2>1. b = 2 * (b \div 2) /\ b \div 2 \in Nat
    OBVIOUS
  <2> QED  BY <2>1
<1> HIDE DEF r
<1> DEFINE p == c * q
<1>3. p \in Int /\ a = 2 * p + r
  BY <1>1, <1>2
<1> HIDE DEF p
<1>4. r % 2 = 0
  BY <1>1, <1>3
<1> QED  BY <1>1, <1>4 DEF r

\* In a step, a host on a rectangle gets no farther than an interval, round corners too.
LEMMA AlongPerimeter ==
  ASSUME NEW r \in Rectangles, NEW d \in Nat, d < Corners(r)[4], d % 2 = 0,
         NEW e, e = (d + updateInterval) % Corners(r)[4]
  PROVE  /\ e \in Nat /\ e % 2 = 0 /\ e < Corners(r)[4]
         /\ \A i \in Axes : Abs(calculateXY(r, e)[i] - calculateXY(r, d)[i]) <= updateInterval
<1>1. \A k \in 1..4 : r[k] \in Nat /\ r[k] % 2 = 1
  BY MobilityAssumption DEF GeneralPosition
<1>2. r[1] <= r[3] /\ r[2] <= r[4] /\ r[1] + r[2] < r[3] + r[4]
  BY MobilityAssumption
<1> DEFINE dx == r[3] - r[1]
           dy == r[4] - r[2]
           P == dx + dy + dx + dy
<1>3. Corners(r) = <<dx, dx + dy, dx + dy + dx, P>>
  BY DEF Corners
<1>4. dx \in Nat /\ dy \in Nat /\ dx + dy > 0 /\ P \in Nat /\ P > 0 /\ P % 2 = 0
  BY <1>1, <1>2
<1>5. r[1] \in Nat /\ r[2] \in Nat /\ r[3] = r[1] + dx /\ r[4] = r[2] + dy
  BY <1>1, <1>2
<1> HIDE DEF dx, dy
<1>6. /\ Corners(r)[1] = dx /\ Corners(r)[2] = dx + dy
      /\ Corners(r)[3] = dx + dy + dx /\ Corners(r)[4] = P
  BY <1>3
<1> DEFINE At(c) == IF c < dx THEN <<r[1] + c, r[2]>>
                    ELSE IF c < dx + dy THEN <<r[3], r[2] + c - dx>>
                    ELSE IF c < dx + dy + dx THEN <<r[3] - c + (dx + dy), r[4]>>
                    ELSE <<r[1], r[4] - c + (dx + dy + dx)>>
<1>7. \A c \in Nat : calculateXY(r, c) = At(c)
  BY <1>4, <1>6 DEF calculateXY
<1>8. updateInterval \in Nat /\ updateInterval > 0 /\ updateInterval % 2 = 0
  BY MobilityAssumption DEF GeneralPosition
<1>9. /\ e \in 0..P - 1 /\ e % 2 = 0
  <2>1. d + updateInterval \in Nat /\ (d + updateInterval) % 2 = 0
    BY <1>8
  <2> QED  BY <1>4, <1>6, <2>1, EvenModulo
<1>10. \/ e = d + updateInterval \/ e = d + updateInterval - P \/ updateInterval > P
  <2> DEFINE x == d + updateInterval
             m == P
  <2>1. /\ x \in Int /\ m \in Nat /\ m > 0 /\ x >= 0 /\ d < m /\ e = x % m
        /\ x = d + updateInterval
    BY <1>4, <1>6, <1>8
  <2> HIDE DEF x, m
  <2>2. CASE x < m
    BY <2>1, <2>2, ModNear
  <2>3. CASE x >= m /\ x < 2 * m
    <3>1. e = x - m
      BY <2>1, <2>3, ModNear
    <3>2. x = d + updateInterval /\ m = P
      BY DEF x, m
    <3>3. e = d + updateInterval - P
      <4> HIDE DEF P
      <4> QED  BY <1>4, <1>8, <2>1, <3>1, <3>2
    <3> QED  BY <3>3
  <2>4. CASE x >= 2 * m
    <3>1. updateInterval > m
      BY <1>8, <2>1, <2>4
    <3> QED  BY <3>1 DEF m
  <2> QED  BY <2>1, <2>2, <2>3, <2>4
<1>11. d \in 0..P - 1
  BY <1>4, <1>6
<1> DEFINE X(c) == IF c < dx THEN r[1] + c ELSE IF c < dx + dy THEN r[1] + dx
                   ELSE IF c < dx + dy + dx THEN r[1] + dx - c + (dx + dy) ELSE r[1]
           Y(c) == IF c < dx THEN r[2] ELSE IF c < dx + dy THEN r[2] + c - dx
                   ELSE IF c < dx + dy + dx THEN r[2] + dy ELSE r[2] + dy - c + (dx + dy + dx)
<1>12. \A c \in Nat : calculateXY(r, c)[1] = X(c) /\ calculateXY(r, c)[2] = Y(c)
  <2> SUFFICES ASSUME NEW c \in Nat PROVE At(c)[1] = X(c) /\ At(c)[2] = Y(c)
    BY <1>7
  <2> QED  BY <1>4, <1>5
<1>13. Abs(X(e) - X(d)) <= updateInterval /\ Abs(Y(e) - Y(d)) <= updateInterval
  <2>1. CASE updateInterval > P
    BY <1>4, <1>5, <1>8, <1>9, <1>11, <2>1 DEF Abs
  <2>2. CASE e = d + updateInterval
    BY <1>4, <1>5, <1>8, <1>9, <1>11, <2>2 DEF Abs
  <2>3. CASE e = d + updateInterval - P
    <3> DEFINE A == dx + dy
    <3>1. A \in Nat /\ P = A + A /\ A = dx + dy /\ dx + dy + dx = A + dx
      BY <1>4
    <3> HIDE DEF A
    <3>2. /\ P \in Nat /\ updateInterval = (P - d) + e /\ P - d > 0 /\ e >= 0
      <4>1. P \in Nat /\ e \in 0..P - 1 /\ d \in 0..P - 1 /\ updateInterval \in Nat
        BY <1>4, <1>8, <1>9, <1>11
      <4> HIDE DEF P
      <4> QED  BY <2>3, <4>1
    <3>3. Y(e) - r[2] <= e /\ Y(e) - r[2] >= 0 /\ X(e) - r[1] <= e /\ X(e) - r[1] >= 0
      BY <1>4, <1>5, <1>9
    <3>4. /\ Y(d) - r[2] <= P - d /\ Y(d) - r[2] >= 0
          /\ X(d) - r[1] <= P - d /\ X(d) - r[1] >= 0
      BY <1>4, <1>5, <1>11
    <3>5. X(d) \in Int /\ X(e) \in Int /\ Y(d) \in Int /\ Y(e) \in Int
      BY <1>4, <1>5, <1>9, <1>11
    <3> HIDE DEF X, Y, P
    <3> QED  BY <1>5, <1>8, <3>2, <3>3, <3>4, <3>5 DEF Abs
  <2> QED  BY <1>10, <2>1, <2>2, <2>3
<1>14. e \in Nat
  BY <1>4, <1>9
<1> HIDE DEF X, Y, At
<1>15. \A i \in Axes : Abs(calculateXY(r, e)[i] - calculateXY(r, d)[i]) <= updateInterval
  BY <1>12, <1>13, <1>14 DEF Axes
<1> QED  BY <1>4, <1>6, <1>9, <1>14, <1>15

LEMMA RectangleMoveKept == ASSUME HostIInv, ~host.error, RectangleMove PROVE HostIInv'
<1> DEFINE r == host.rectangle
           e == (host.d + updateInterval) % Corners(r)[4]
           target == calculateXY(r, e)
           dir == Towards(host.stepTarget, target)
           h == [host EXCEPT !.startPos = host.stepTarget, !.stepTarget = target, !.d = e,
                             !.direction = dir, !.moveMsg = updateInterval]
<1>1. /\ host.kind = "Rectangle" /\ host.moveMsg = 0
      /\ host' \in fixIfHostGetsOutside(h)
      /\ strayed' = strayed /\ due' = due /\ backlog' = backlog
  BY DEF RectangleMove, Goes, Plan
<1>2. /\ host \in HostType /\ OffBorders(host)
      /\ updateInterval \in Nat /\ updateInterval \in Int /\ updateInterval > 0
  BY <1>1, AtAStep, MobilityAssumption
<1>3. ~strayed
  BY <1>1 DEF HostIInv, MayStray, Segmented, Traced
<1>4. host.borders = {} /\ Inside(host.stepTarget)
  BY <1>1, <1>3, AtAStep
<1>5. /\ r \in Rectangles /\ host.d \in Nat /\ host.d % 2 = 0 /\ host.d < Corners(r)[4]
      /\ host.stepTarget = calculateXY(r, host.d)
  BY <1>1 DEF HostIInv, OnRectangle
<1>6. /\ e \in Nat /\ e % 2 = 0 /\ e < Corners(r)[4]
      /\ \A i \in Axes : Abs(target[i] - host.stepTarget[i]) <= updateInterval
  BY <1>5, AlongPerimeter
<1> HIDE DEF e
<1>7. target \in Point /\ \A i \in Axes : target[i] % 2 = 1
  BY <1>5, <1>6, CalculatePlace
<1>8. target = calculateXY(r, e)
  OBVIOUS
<1> HIDE DEF target
<1>9. dir \in Vector
  BY <1>2, <1>7, HostFields, TowardsSign
<1> HIDE DEF dir
<1>10. /\ h \in HostType /\ h.kind = "Rectangle" /\ h.moveMsg = updateInterval
       /\ h.startPos = host.stepTarget /\ h.stepTarget = target /\ h.direction = dir
       /\ h.rectangle = r /\ h.d = e /\ h.stepSize = host.stepSize /\ h.borders = {}
  <2>1. host.stepTarget \in Point /\ e \in Int
    BY <1>2, <1>6, HostFields
  <2> QED  BY <1>1, <1>2, <1>4, <1>7, <1>9, <2>1 DEF HostType
<1>11. host' \in fixIfHostGetsOutside(h)
  BY <1>1
<1> HIDE DEF h
<1>12. OffBorders(h)
  BY <1>2, <1>7, <1>10 DEF OffBorders, Segmented, Traced
<1>13. Straight(h) /\ Steady(h) /\ Policy(h) = "RAISEERROR"
  <2>1. Policy(h) = "RAISEERROR"
    BY <1>10, PolicyOfKind
  <2>2. updateInterval \in 1..updateInterval
    BY <1>2
  <2> QED  BY <1>4, <1>6, <1>10, <1>12, <2>1, <2>2 DEF Straight, Steady
<1>14. CirclesRound(h) /\ OnRectangle(h) /\ ~Segmented(h)
  BY <1>5, <1>6, <1>8, <1>10 DEF CirclesRound, OnRectangle, Segmented, Traced
<1>15. /\ strayed' \in BOOLEAN /\ due' \in Int /\ backlog' \in Nat
  BY <1>1 DEF HostIInv, HostTypeOK
<1> QED  BY <1>1, <1>2, <1>3, <1>10, <1>11, <1>12, <1>13, <1>14, <1>15, PlanKept DEF Folding

\* A segment goes on with steps of the right size.
LEMMA SegmentStepKept == ASSUME HostIInv, ~host.error, SegmentStep PROVE HostIInv'
<1> DEFINE h == StepOf(host)
<1>1. /\ Segmented(host) /\ host.moveMsg = 0 /\ ~LastStep(host)
      /\ host' \in fixIfHostGetsOutside(h) /\ ideal' = Folded(Policy(h), h.stepTarget)
      /\ strayed' = strayed /\ due' = due /\ backlog' = backlog
  BY DEF SegmentStep, Goes, Plan, StepOf
<1>2. /\ host \in HostType /\ OffBorders(host) /\ updateInterval \in Nat
      /\ host.kind \in {"Turtle", "BonnMotion", "ANSim"}
  BY <1>1, AtAStep, MobilityAssumption DEF Segmented, Traced
<1>3. /\ h \in HostType /\ OffBorders(h) /\ h.kind = host.kind /\ h.moveMsg = updateInterval
      /\ h.targetTime = host.targetTime
  BY <1>1, <1>2, StepTyped
<1>4. ~strayed => Straight(h) /\ Steady(h)
  BY <1>1, <1>2, AtAStep, StepStraight
<1> HIDE DEF h
<1>5. CirclesRound(h) /\ OnRectangle(h) /\ MayStray(h) /\ h.kind # "ConstSpeed"
  BY <1>2, <1>3 DEF CirclesRound, OnRectangle, MayStray, Segmented, Traced
<1>6. /\ strayed' \in BOOLEAN /\ due' \in Int /\ backlog' \in Nat
  BY <1>1 DEF HostIInv, HostTypeOK
<1>7. due' = h.targetTime /\ h.targetTime >= h.moveMsg - backlog'
  <2>1. due = host.targetTime /\ host.targetTime \in Int
    BY <1>1, <1>2 DEF HostIInv, OnSchedule, HostType
  <2>2. host.targetTime > updateInterval
    BY <1>1, <1>2, <2>1 DEF LastStep
  <2> QED  BY <1>1, <1>2, <1>3, <1>6, <2>1, <2>2
<1> QED  BY <1>1, <1>2, <1>3, <1>4, <1>5, <1>6, <1>7, PlanKept

-----------------------------------------------------------------------------
(* The ends of segments *)

\* How a host that begins its next statement is put together
LEMMA SegmentEndKept ==
  ASSUME HostIInv, ~host.error, Segmented(host), host.moveMsg = 0, LastStep(host),
         NEW lasts \in Nat, NEW takes \in Nat,
         NEW h \in HostType, OffBorders(h), h.kind = host.kind, Plan(h),
         strayed' = (strayed \/ ~Inside(host.targetPos)),
         due' = due + lasts, backlog' = Backlog(lasts, takes),
         h.targetTime = host.targetTime + lasts, h.moveMsg \in Nat \cup {Never},
         h.moveMsg = Never \/ takes >= h.moveMsg \/ h.targetTime >= h.moveMsg,
         Inside(host.targetPos) /\ host.borders = {} => Straight(h) /\ Steady(h)
  PROVE  HostIInv'
<1>1. /\ host \in HostType /\ updateInterval \in Nat
      /\ host.kind \in {"Turtle", "BonnMotion", "ANSim"}
  BY MobilityAssumption DEF HostIInv, HostTypeOK, Segmented, Traced
<1>2. /\ due = host.targetTime /\ host.targetTime \in Int
      /\ backlog \in Nat /\ host.targetTime >= -backlog
  <2>1. /\ due = host.targetTime
        /\ host.moveMsg = Never \/ host.targetTime >= host.moveMsg - backlog
    BY DEF HostIInv, OnSchedule
  <2>2. host.targetTime \in Int /\ backlog \in Nat
    BY <1>1 DEF HostType, HostIInv, HostTypeOK
  <2> QED  BY <2>1, <2>2 DEF Never
<1>3. due' \in Int /\ backlog' \in Nat /\ backlog' >= backlog + takes - lasts
  BY <1>2 DEF Backlog
<1>4. strayed' \in BOOLEAN
  <2>1. strayed \in BOOLEAN
    BY DEF HostIInv, HostTypeOK
  <2> QED  BY <2>1, Zenon
<1>5. MayStray(h) /\ CirclesRound(h) /\ OnRectangle(h) /\ h.kind # "ConstSpeed"
  BY <1>1 DEF MayStray, CirclesRound, OnRectangle, Segmented, Traced
<1>6. ~strayed' => Straight(h) /\ Steady(h)
  <2> SUFFICES ASSUME ~strayed' PROVE Straight(h) /\ Steady(h)
    OBVIOUS
  <2>1. ~strayed /\ Inside(host.targetPos)
    BY Zenon
  <2>2. host.borders = {}
    BY <1>1, <2>1, AtAStep
  <2> QED  BY <2>1, <2>2
<1>7. /\ due' = h.targetTime
      /\ h.moveMsg = Never \/ h.targetTime >= h.moveMsg - backlog'
  <2>1. CASE h.moveMsg = Never
    BY <1>2, <2>1
  <2>2. CASE h.moveMsg # Never
    <3>1. h.moveMsg \in Nat /\ (takes >= h.moveMsg \/ h.targetTime >= h.moveMsg)
      BY <2>2
    <3> QED  BY <1>2, <1>3, <3>1
  <2> QED  BY <2>1, <2>2
<1>8. host' \in fixIfHostGetsOutside(h) /\ ideal' = Folded(Policy(h), h.stepTarget)
  BY DEF Plan
<1> QED  BY <1>3, <1>4, <1>5, <1>6, <1>7, <1>8, PlanKept

LEMMA AtSegmentEndEffect ==
  ASSUME HostIInv, Segmented(host), NEW lasts \in Nat, NEW g, g = AtSegmentEnd(lasts)
  PROVE  /\ g \in HostType /\ g.kind = host.kind /\ g.startPos = host.targetPos
         /\ g.stepTarget = host.targetPos /\ g.targetPos = host.targetPos
         /\ g.targetTime = host.targetTime + lasts /\ g.targetTime \in Int
         /\ g.borders = host.borders /\ g.error = host.error
         /\ g.borderPolicy = host.borderPolicy
         /\ \A i \in Axes : g.targetPos[i] % 2 = 1
<1>1. host \in HostType /\ OffBorders(host)
  BY DEF HostIInv, HostTypeOK
<1>2. host.targetPos \in Point /\ host.targetTime \in Int /\ host.targetTime + lasts \in Int
  BY <1>1 DEF HostType
<1>3. \A i \in Axes : host.targetPos[i] % 2 = 1
  BY <1>1 DEF OffBorders
<1> DEFINE tt == host.targetTime + lasts
<1>4. g = [host EXCEPT !.startPos = host.targetPos, !.stepTarget = host.targetPos,
                       !.targetTime = tt]
  BY DEF AtSegmentEnd, BeginsAt
<1>5. tt \in Int
  BY <1>2
<1> HIDE DEF tt
<1>6. /\ g \in HostType /\ g.kind = host.kind /\ g.startPos = host.targetPos
      /\ g.stepTarget = host.targetPos /\ g.targetPos = host.targetPos
      /\ g.targetTime = tt
      /\ g.borders = host.borders /\ g.error = host.error
      /\ g.borderPolicy = host.borderPolicy
  BY <1>1, <1>2, <1>4, <1>5 DEF HostType
<1> QED  BY <1>3, <1>5, <1>6 DEF tt

LEMMA SegmentEffect ==
  ASSUME NEW h \in HostType, NEW d \in Lengths, NEW a \in Direction,
         h.stepTarget = h.targetPos, h.startPos = h.targetPos,
         \A i \in Axes : h.targetPos[i] % 2 = 1,
         NEW g, g = Segment(h, d, a)
  PROVE  /\ g \in HostType /\ OffBorders(g)
         /\ g.kind = h.kind /\ g.startPos = h.startPos /\ g.direction = a
         /\ g.targetTime = h.targetTime /\ g.moveMsg = updateInterval
         /\ g.borders = h.borders
         /\ UniformStep(g.startPos, g.stepTarget, updateInterval, a)
         /\ UniformStep(<<0, 0>>, g.stepSize, updateInterval, a)
<1>1. /\ updateInterval \in Nat /\ updateInterval \in Int /\ updateInterval % 2 = 0
      /\ d \in Int /\ d % 2 = 0 /\ a \in Vector
  BY MobilityAssumption, DirectionIsVector DEF GeneralPosition
<1>2. h.targetPos \in Point /\ h.stepTarget \in Point
  BY HostFields
<1> DEFINE goal == Plus(h.targetPos, d, a)
           target == Plus(h.stepTarget, updateInterval, a)
           size == Plus(<<0, 0>>, updateInterval, a)
<1>3. /\ goal \in Point /\ UniformStep(h.targetPos, goal, d, a)
      /\ target \in Point /\ UniformStep(h.stepTarget, target, updateInterval, a)
      /\ size \in Point /\ UniformStep(<<0, 0>>, size, updateInterval, a)
  BY <1>1, <1>2, StillVector, PlusUniform
<1>4. g = [h EXCEPT !.targetPos = goal, !.stepTarget = target, !.stepSize = size,
                    !.direction = a, !.moveMsg = updateInterval]
  BY DEF Segment
<1> HIDE DEF goal, target, size
<1>5. g \in HostType
  BY <1>1, <1>3, <1>4 DEF HostType
<1>6. /\ g.kind = h.kind /\ g.startPos = h.startPos /\ g.direction = a
      /\ g.targetTime = h.targetTime /\ g.moveMsg = updateInterval
      /\ g.borders = h.borders /\ g.targetPos = goal /\ g.stepTarget = target
      /\ g.stepSize = size
  BY <1>4 DEF HostType
<1>7. OffBorders(g)
  <2> SUFFICES ASSUME NEW i \in Axes
               PROVE  goal[i] % 2 = 1 /\ target[i] % 2 = 1 /\ size[i] % 2 = 0
    BY <1>6 DEF OffBorders
  <2>1. /\ Uniform(h.targetPos[i], goal[i], d, a[i])
        /\ Uniform(h.stepTarget[i], target[i], updateInterval, a[i])
        /\ Uniform(0, size[i], updateInterval, a[i])
        /\ h.targetPos[i] \in Int /\ h.targetPos[i] % 2 = 1
    BY <1>3, HostFields, StillVector DEF UniformStep
  <2> QED  BY <1>1, <2>1 DEF Uniform
<1> QED  BY <1>3, <1>5, <1>6, <1>7

\* A statement turns the host.
Turned(m, a, policy) == [m EXCEPT !.angle = a, !.borderPolicy = policy]

LEMMA ForwardKept ==
  ASSUME HostIInv, ~host.error, NEW d \in Lengths, NEW a \in Direction, Forward(d, a)
  PROVE  HostIInv'
<1> DEFINE g == AtSegmentEnd(d)
           m == Segment(g, d, a)
           hosts == CASE g.kind = "Turtle"     -> executeStatement(g, d, a)
                      [] g.kind = "BonnMotion" -> NextOfTrace(g, d, a)
                      [] g.kind = "ANSim"      -> PositionChange(g, d, a)
                      [] OTHER                 -> {}
<1>1. /\ Segmented(host) /\ host.moveMsg = 0 /\ LastStep(host)
      /\ strayed' = (strayed \/ ~Inside(host.targetPos)) /\ due' = due + d
      /\ backlog' = Backlog(d, updateInterval)
      /\ \E h \in hosts : Plan(h)
  BY DEF Forward, beginNextMove, Goes
<1>2. /\ d \in Nat /\ a \in Vector
      /\ updateInterval \in Nat /\ updateInterval > 0
  BY MobilityAssumption, DirectionIsVector DEF GeneralPosition
<1> PICK h \in hosts : Plan(h)
  BY <1>1
<1>3. /\ g \in HostType /\ g.kind = host.kind /\ g.startPos = host.targetPos
      /\ g.stepTarget = host.targetPos /\ g.targetPos = host.targetPos
      /\ g.targetTime = host.targetTime + d
      /\ g.borders = host.borders /\ \A i \in Axes : g.targetPos[i] % 2 = 1
  BY <1>1, <1>2, AtSegmentEndEffect
<1>4. \/ h = m
      \/ \E policy \in Policies : h = Turned(m, a, policy)
  BY DEF executeStatement, NextOfTrace, PositionChange, Policies, Turned
<1> HIDE DEF g
<1>5. /\ m \in HostType /\ OffBorders(m)
      /\ m.kind = g.kind /\ m.startPos = g.startPos /\ m.direction = a
      /\ m.targetTime = g.targetTime /\ m.moveMsg = updateInterval
      /\ m.borders = g.borders
      /\ UniformStep(m.startPos, m.stepTarget, updateInterval, a)
      /\ UniformStep(<<0, 0>>, m.stepSize, updateInterval, a)
  BY <1>3, SegmentEffect
<1> HIDE DEF m, hosts
<1>6. /\ h \in HostType /\ h.kind = m.kind /\ h.startPos = m.startPos
      /\ h.direction = m.direction /\ h.targetTime = m.targetTime /\ h.moveMsg = m.moveMsg
      /\ h.borders = m.borders /\ h.stepTarget = m.stepTarget /\ h.stepSize = m.stepSize
      /\ h.targetPos = m.targetPos
  <2>1. CASE h = m
    BY <1>5, <2>1
  <2>2. CASE \E policy \in Policies : h = Turned(m, a, policy)
    <3> PICK policy \in Policies : h = Turned(m, a, policy)
      BY <2>2
    <3>1. a \in Vector /\ policy \in Policies
      BY <1>2
    <3> QED  BY <1>5, <3>1 DEF HostType, Turned
  <2> QED  BY <1>4, <2>1, <2>2
<1>7. OffBorders(h)
  BY <1>5, <1>6 DEF OffBorders, Segmented, Traced
<1>8. ASSUME Inside(host.targetPos), host.borders = {}
      PROVE  Straight(h) /\ Steady(h)
  <2>1. updateInterval \in 1..updateInterval
    BY <1>2
  <2>2. Straight(h)
    BY <1>3, <1>5, <1>6, <1>7, <1>8, <2>1 DEF Straight
  <2>3. Steady(h)
    BY <1>3, <1>5, <1>6, <1>8 DEF Steady
  <2> QED  BY <2>2, <2>3
<1>9. /\ h.kind = host.kind /\ h.targetTime = host.targetTime + d
      /\ h.moveMsg \in Nat /\ updateInterval >= h.moveMsg
  BY <1>2, <1>3, <1>5, <1>6
<1> QED  BY <1>1, <1>2, <1>6, <1>7, <1>8, <1>9, SegmentEndKept

\* A host that stays where its segment ended
Staying(lasts, moving, at) ==
    [AtSegmentEnd(lasts) EXCEPT !.stepSize = <<0, 0>>, !.moving = moving, !.moveMsg = at]

LEMMA StayKept ==
  ASSUME HostIInv, ~host.error, NEW lasts \in Nat, NEW moving \in BOOLEAN, NEW at \in Nat \cup {Never},
         at = Never \/ at = 0 \/ host.targetTime + lasts >= at,
         beginNextMove(lasts, 0, {Staying(lasts, moving, at)})
  PROVE  HostIInv'
<1> DEFINE g == AtSegmentEnd(lasts)
           h == [g EXCEPT !.stepSize = <<0, 0>>, !.moving = moving, !.moveMsg = at]
<1>1. /\ Segmented(host) /\ host.moveMsg = 0 /\ LastStep(host)
      /\ strayed' = (strayed \/ ~Inside(host.targetPos)) /\ due' = due + lasts
      /\ backlog' = Backlog(lasts, 0)
      /\ Plan(h)
  BY DEF beginNextMove, Goes, Staying
<1>2. /\ g \in HostType /\ g.kind = host.kind /\ g.startPos = host.targetPos
      /\ g.stepTarget = host.targetPos /\ g.targetPos = host.targetPos
      /\ g.targetTime = host.targetTime + lasts
      /\ g.borders = host.borders /\ \A i \in Axes : g.targetPos[i] % 2 = 1
  BY <1>1, AtSegmentEndEffect
<1> HIDE DEF g
<1>3. at \in Int
  BY DEF Never
<1>4. /\ h \in HostType /\ h.kind = g.kind /\ h.startPos = g.startPos
      /\ h.stepTarget = g.stepTarget /\ h.targetPos = g.targetPos
      /\ h.targetTime = g.targetTime /\ h.borders = g.borders
      /\ h.stepSize = <<0, 0>> /\ h.moveMsg = at
  BY <1>2, <1>3, StillVector DEF HostType
<1> HIDE DEF h
<1>5. OffBorders(h)
  BY <1>2, <1>4, StillVector DEF OffBorders
<1>6. ASSUME Inside(host.targetPos), host.borders = {}
      PROVE  Straight(h) /\ Steady(h)
  <2>1. \A i \in Axes : ~Out(h, i)
    BY <1>2, <1>4, <1>5, <1>6, InsideUnlessOut
  <2> QED  BY <1>2, <1>4, <1>5, <1>6, <2>1, StillVector DEF Straight, Steady
<1>7. /\ h.kind = host.kind /\ h.targetTime = host.targetTime + lasts /\ h.moveMsg = at
      /\ 0 \in Nat
  BY <1>2, <1>4
<1> QED  BY <1>1, <1>4, <1>5, <1>6, <1>7, SegmentEndKept

LEMMA WaitKept ==
  ASSUME HostIInv, ~host.error, NEW t \in Lengths, Wait(t)
  PROVE  HostIInv'
<1> DEFINE g == AtSegmentEnd(t)
           at == IF g.targetTime > 0 THEN g.targetTime ELSE 0
<1>1. t \in Nat
  BY MobilityAssumption DEF GeneralPosition
<1>2. Segmented(host) /\ beginNextMove(t, 0, {[g EXCEPT !.stepSize = <<0, 0>>, !.moveMsg = at]})
  BY DEF Wait, beginNextMove
<1>3. /\ g \in HostType /\ g.targetTime = host.targetTime + t /\ g.targetTime \in Int
  BY <1>1, <1>2, AtSegmentEndEffect
<1>4. g.moving \in BOOLEAN
  BY <1>3 DEF HostType
<1>5. at \in Nat /\ (at = 0 \/ host.targetTime + t >= at)
  BY <1>1, <1>3
<1> HIDE DEF at
<1> DEFINE h == [g EXCEPT !.stepSize = <<0, 0>>, !.moveMsg = at]
           moving == g.moving
<1>6. h = [g EXCEPT !.stepSize = <<0, 0>>, !.moving = moving, !.moveMsg = at]
  <2> HIDE DEF g
  <2> QED  BY <1>3 DEF HostType
<1>7. h = Staying(t, moving, at)
  BY <1>6 DEF Staying
<1>8. beginNextMove(t, 0, {h})
  BY <1>2
<1> HIDE DEF h, moving, g
<1>9. moving \in BOOLEAN
  BY <1>4 DEF moving
<1>10. beginNextMove(t, 0, {Staying(t, moving, at)})
  BY <1>7, <1>8, Zenon
<1> QED  BY <1>1, <1>5, <1>9, <1>10, StayKept, Zenon

LEMMA EndOfScriptKept == ASSUME HostIInv, ~host.error, EndOfScript PROVE HostIInv'
<1>1. FALSE \in BOOLEAN /\ Never \in Nat \cup {Never} /\ 0 \in Nat
  OBVIOUS
<1>2. beginNextMove(0, 0, {Staying(0, FALSE, Never)})
  BY DEF EndOfScript, Staying
<1> QED  BY <1>1, <1>2, StayKept, Zenon

-----------------------------------------------------------------------------
(* Turns, borders, time *)

LEMMA MassTurnKept == ASSUME HostIInv, ~host.error, MassTurn, Inside(host.startPos) PROVE HostIInv'
<1> PICK a \in Direction :
         host' = [host EXCEPT !.angle = a, !.direction = a,
                              !.stepSize = Plus(<<0, 0>>, updateInterval, a)]
  BY Zenon DEF MassTurn
<1>1. /\ host.kind = "Mass" /\ strayed' = (strayed \/ host.borders # {})
      /\ ideal' = ideal /\ due' = due /\ backlog' = backlog
  BY DEF MassTurn
<1>2. /\ host \in HostType /\ OffBorders(host) /\ host.moveMsg \in Nat \cup {Never}
      /\ updateInterval \in Int /\ updateInterval % 2 = 0
      /\ a \in Vector
  BY MobilityAssumption, DirectionIsVector DEF HostIInv, HostTypeOK, GeneralPosition
<1> DEFINE size == Plus(<<0, 0>>, updateInterval, a)
<1>3. size \in Point /\ UniformStep(<<0, 0>>, size, updateInterval, a)
  BY <1>2, StillVector, PlusUniform
<1>4. \A i \in Axes : size[i] % 2 = 0
  <2> SUFFICES ASSUME NEW i \in Axes PROVE size[i] % 2 = 0
    OBVIOUS
  <2>1. Uniform(0, size[i], updateInterval, a[i])
    BY <1>3, StillVector DEF UniformStep
  <2> QED  BY <1>2, <2>1 DEF Uniform
<1> HIDE DEF size
<1> DEFINE g == host'
<1>5. g = [host EXCEPT !.angle = a, !.direction = a, !.stepSize = size]
  BY DEF size
<1> HIDE DEF g
<1>6. /\ g \in HostType /\ g.kind = "Mass" /\ g.startPos = host.startPos
      /\ g.stepTarget = host.stepTarget /\ g.borders = host.borders
      /\ g.moveMsg = host.moveMsg /\ g.error = host.error
      /\ g.direction = a /\ g.stepSize = size
  BY <1>1, <1>2, <1>3, <1>5 DEF HostType
<1>7. OffBorders(g)
  BY <1>2, <1>4, <1>6 DEF OffBorders, Segmented, Traced
<1>8. strayed' \in BOOLEAN
  <2>1. strayed \in BOOLEAN
    BY DEF HostIInv, HostTypeOK
  <2> QED  BY <1>1, <2>1, Zenon
<1>9. due' \in Int /\ backlog' \in Nat
  BY <1>1 DEF HostIInv, HostTypeOK
<1>10. ~strayed' => Followed(g, ideal')
  <2> SUFFICES ASSUME ~strayed' PROVE Followed(g, ideal')
    OBVIOUS
  <2>1. ~strayed /\ host.borders = {}
    BY <1>1
  <2>2. Followed(host, ideal)
    BY <2>1 DEF HostIInv
  <2>3. Policy(g) = "REFLECT" /\ Policy(host) = "REFLECT"
    BY <1>1, <1>6 DEF Policy, Traced
  <2>4. Folded(Policy(host), host.stepTarget) = ideal /\ Inside(host.stepTarget)
    BY <2>1, <2>2, <2>3 DEF Followed, Folding
  <2>5. Steady(g)
    BY <1>3, <1>6, <2>1 DEF Steady
  <2>6. Pending(g) /\ Inside(g.startPos)
    BY <1>6, <2>1 DEF Pending
  <2> QED  BY <1>1, <1>6, <2>3, <2>4, <2>5, <2>6 DEF Followed
<1>11. /\ MayStray(g) /\ CirclesRound(g) /\ OnRectangle(g) /\ TowardsPlace(g) /\ ~Segmented(g)
  BY <1>6 DEF MayStray, CirclesRound, OnRectangle, TowardsPlace, Segmented, Traced
<1> QED  BY <1>2, <1>6, <1>7, <1>8, <1>9, <1>10, <1>11 DEF HostIInv, HostTypeOK, OnSchedule, g

LEMMA HandleBorderMsgKept ==
  ASSUME HostIInv, ~host.error, Inside(host.startPos), NEW b \in host.borders, handleBorderMsg(b)
  PROVE  HostIInv'
<1>1. /\ host \in HostType /\ OffBorders(host) /\ host.moveMsg \in Nat \cup {Never}
      /\ CirclesRound(host) /\ OnRectangle(host) /\ TowardsPlace(host)
  BY DEF HostIInv, HostTypeOK
<1>2. /\ b.in = 0 /\ ideal' = ideal /\ strayed' = strayed /\ due' = due /\ backlog' = backlog
      /\ b \in BorderType
  BY <1>1 DEF handleBorderMsg, HostType
<1>3. /\ strayed' \in BOOLEAN /\ due' \in Int /\ backlog' \in Nat
  BY <1>2 DEF HostIInv, HostTypeOK
<1>4. ~strayed => Followed(host, ideal) /\ PendingBorder(host, b)
  BY DEF HostIInv, Followed, Pending
<1>5. host.kind # "ConstSpeed"
  BY <1>1 DEF TowardsPlace
<1>6. CASE b.policy = "RAISEERROR"
  <2> DEFINE g == host'
  <2>1. g = [host EXCEPT !.error = TRUE]
    BY <1>6 DEF handleBorderMsg
  <2> HIDE DEF g
  <2>2. /\ g \in HostType /\ g.error /\ g.kind = host.kind /\ g.startPos = host.startPos
        /\ g.stepTarget = host.stepTarget /\ g.targetPos = host.targetPos
        /\ g.stepSize = host.stepSize /\ g.direction = host.direction
        /\ g.angle = host.angle /\ g.borderPolicy = host.borderPolicy
        /\ g.moveMsg = host.moveMsg /\ g.targetTime = host.targetTime
        /\ g.rectangle = host.rectangle /\ g.d = host.d
        /\ g.numSteps = host.numSteps /\ g.step = host.step /\ g.borders = host.borders
    BY <1>1, <2>1 DEF HostType
  <2>3. /\ OffBorders(g) /\ CirclesRound(g) /\ OnRectangle(g) /\ TowardsPlace(g)
        /\ Policy(g) = Policy(host)
    BY <1>1, <2>2 DEF OffBorders, CirclesRound, OnRectangle, TowardsPlace, Policy, Segmented, Traced
  <2>4. ASSUME ~strayed PROVE Followed(g, ideal)
    <3>1. Pending(host)
      BY <1>4, <2>4 DEF Followed
    <3>2. Pending(g)
      BY <2>2, <2>3, <3>1 DEF Pending, PendingBorder, Way
    <3> QED  BY <2>2, <3>2 DEF Followed
  <2>5. MayStray(g) <=> MayStray(host)
    BY <2>2 DEF MayStray, Segmented, Traced
  <2>6. OnSchedule'
    BY <1>2, <2>2 DEF HostIInv, OnSchedule, Segmented, Traced, g
  <2>7. HostTypeOK'
    BY <1>1, <1>3, <2>2, <2>3 DEF HostTypeOK, g
  <2> QED  BY <1>2, <1>3, <2>3, <2>4, <2>5, <2>6, <2>7 DEF HostIInv, g
<1>7. CASE b.policy # "RAISEERROR"
  <2> DEFINE dir == IF b.policy = "REFLECT" THEN b.direction ELSE host.direction
             h == [host EXCEPT !.borders = @ \ {b}, !.startPos = b.startPos, !.direction = dir]
  <2>1. host' \in fixIfHostGetsOutside(h)
    BY <1>7 DEF handleBorderMsg, AtBorder
  <2>2. dir = Way(host, b) /\ dir \in Vector /\ b.startPos \in Point
    BY <1>1, <1>2, HostFields DEF Way, BorderType
  <2> HIDE DEF dir
  <2>3. /\ h \in HostType /\ h.kind = host.kind /\ h.startPos = b.startPos
        /\ h.stepTarget = host.stepTarget /\ h.targetPos = host.targetPos
        /\ h.stepSize = host.stepSize /\ h.direction = dir
        /\ h.angle = host.angle /\ h.borderPolicy = host.borderPolicy
        /\ h.moveMsg = host.moveMsg /\ h.targetTime = host.targetTime
        /\ h.rectangle = host.rectangle /\ h.d = host.d
        /\ h.borders = host.borders \ {b}
    <3>1. host.borders \ {b} \in SUBSET BorderType
      BY <1>1 DEF HostType
    <3> QED  BY <1>1, <2>2, <3>1 DEF HostType
  <2> HIDE DEF h
  <2>4. /\ OffBorders(h) /\ CirclesRound(h) /\ OnRectangle(h) /\ Policy(h) = Policy(host)
    BY <1>1, <2>3 DEF OffBorders, CirclesRound, OnRectangle, Policy, Segmented, Traced
  <2>5. strayed' => MayStray(h)
    BY <1>2, <2>3 DEF HostIInv, MayStray, Segmented, Traced
  <2>6. Segmented(h) => /\ due' = h.targetTime
                        /\ h.moveMsg = Never \/ h.targetTime >= h.moveMsg - backlog'
    BY <1>2, <2>3 DEF HostIInv, OnSchedule, Segmented, Traced
  <2>7. ASSUME ~strayed'
        PROVE  /\ Straight(h) /\ Steady(h)
               /\ Policy(h) \in Folding => ideal' = Folded(Policy(h), h.stepTarget)
    <3>1. Followed(host, ideal) /\ PendingBorder(host, b)
      BY <1>2, <1>4, <2>7
    <3>2. /\ Steady(host)
          /\ Policy(host) \in Folding => Folded(Policy(host), host.stepTarget) = ideal
      BY <3>1 DEF Followed
    <3>3. /\ host.borders = {b} /\ h.borders = {} /\ Inside(h.startPos)
          /\ host.moveMsg \in 1..updateInterval /\ b.policy = Policy(host)
      <4>1. /\ host.borders = {b} /\ 0 < host.moveMsg /\ host.moveMsg <= updateInterval
            /\ b.policy = Policy(host) /\ Inside(b.startPos)
        BY <1>2, <1>7, <3>1 DEF PendingBorder
      <4> QED  BY <1>1, <2>3, <4>1, MobilityAssumption DEF Never
    <3>4. Steady(h)
      BY <2>2, <2>3, <3>2, <3>3 DEF Steady
    <3>5. Straight(h)
      <4>1. CASE b.policy \in Folding
        <5>1. UniformStep(b.startPos, host.stepTarget, host.moveMsg - 0, dir)
          BY <1>2, <2>2, <3>1, <4>1 DEF PendingBorder
        <5>2. host.moveMsg - 0 = host.moveMsg
          BY <3>3
        <5>3. UniformStep(h.startPos, h.stepTarget, h.moveMsg, h.direction)
          BY <2>3, <5>1, <5>2
        <5> QED  BY <2>3, <2>4, <3>3, <5>3 DEF Straight
      <4>2. CASE b.policy = "PLACERANDOMLY"
        <5>1. h.stepTarget = h.startPos
          BY <2>3, <3>1, <4>2 DEF PendingBorder
        <5>2. \A i \in Axes : ~Out(h, i)
          BY <2>3, <2>4, <3>3, <5>1, InsideUnlessOut
        <5> QED  BY <2>4, <3>3, <5>2 DEF Straight
      <4>3. b.policy \in Folding \cup {"PLACERANDOMLY"}
        BY <1>2, <1>7 DEF BorderType, Policies, Folding
      <4> QED  BY <4>1, <4>2, <4>3
    <3> QED  BY <1>2, <2>3, <2>4, <3>2, <3>4, <3>5
  <2> QED  BY <1>1, <1>3, <1>5, <2>1, <2>3, <2>4, <2>5, <2>6, <2>7, PlanKept
<1> QED  BY <1>6, <1>7

\* Time passes for a border message.
Sooner(b) == [b EXCEPT !.in = @ - 1]

LEMMA TickKept == ASSUME HostIInv, ~host.error, Tick PROVE HostIInv'
<1> DEFINE at == IF host.moveMsg = Never THEN host.moveMsg ELSE host.moveMsg - 1
           tt == IF Segmented(host) THEN host.targetTime - 1 ELSE host.targetTime
           bs == {Sooner(b) : b \in host.borders}
           g == host'
<1>1. /\ host.moveMsg # 0 /\ \A b \in host.borders : b.in > 0
      /\ g = [host EXCEPT !.moveMsg = at, !.targetTime = tt, !.borders = bs]
      /\ due' = IF Segmented(host) THEN due - 1 ELSE due
      /\ ideal' = ideal /\ strayed' = strayed /\ backlog' = backlog
  BY DEF Tick, Sooner
<1>2. /\ host \in HostType /\ OffBorders(host) /\ host.moveMsg \in Nat \cup {Never}
      /\ CirclesRound(host) /\ OnRectangle(host) /\ TowardsPlace(host)
      /\ host.targetTime \in Int /\ due \in Int
  BY DEF HostIInv, HostTypeOK, HostType
<1>3. \A b \in host.borders : /\ Sooner(b) \in BorderType /\ Sooner(b).in = b.in - 1
                              /\ Sooner(b).policy = b.policy /\ Sooner(b).startPos = b.startPos
                              /\ Sooner(b).direction = b.direction
  <2> SUFFICES ASSUME NEW b \in host.borders
               PROVE  /\ Sooner(b) \in BorderType /\ Sooner(b).in = b.in - 1
                      /\ Sooner(b).policy = b.policy /\ Sooner(b).startPos = b.startPos
                      /\ Sooner(b).direction = b.direction
    OBVIOUS
  <2>1. b \in BorderType /\ b.in > 0
    BY <1>1, <1>2 DEF HostType
  <2>2. b.in - 1 \in Nat
    BY <2>1 DEF BorderType
  <2> QED  BY <2>1, <2>2 DEF BorderType, Sooner
<1>4. bs \in SUBSET BorderType
  BY <1>3
<1>5. /\ at \in Nat \cup {Never} /\ at \in Int /\ tt \in Int
      /\ host.moveMsg # Never => at = host.moveMsg - 1
      /\ host.moveMsg = Never => at = Never
  BY <1>1, <1>2 DEF Never
<1>6. Segmented(host) => tt = host.targetTime - 1 /\ due' = due - 1
  BY <1>1
<1>7. ~Segmented(host) => tt = host.targetTime /\ due' = due
  BY <1>1
<1>8. \A c \in bs : \E b \in host.borders : c = Sooner(b)
  OBVIOUS
<1>9. host.borders # {} => bs # {}
  OBVIOUS
<1> HIDE DEF at, tt, bs, g
<1>10. /\ g \in HostType /\ g.error = host.error /\ g.kind = host.kind
       /\ g.startPos = host.startPos
       /\ g.stepTarget = host.stepTarget /\ g.targetPos = host.targetPos
       /\ g.stepSize = host.stepSize /\ g.direction = host.direction
       /\ g.angle = host.angle /\ g.borderPolicy = host.borderPolicy
       /\ g.moveMsg = at /\ g.targetTime = tt
       /\ g.rectangle = host.rectangle /\ g.d = host.d
       /\ g.numSteps = host.numSteps /\ g.step = host.step /\ g.borders = bs
  BY <1>1, <1>2, <1>4, <1>5 DEF HostType
<1>11. /\ OffBorders(g) /\ CirclesRound(g) /\ OnRectangle(g)
       /\ Policy(g) = Policy(host) /\ (Segmented(g) <=> Segmented(host))
       /\ (MayStray(g) <=> MayStray(host))
  BY <1>2, <1>10 DEF OffBorders, CirclesRound, OnRectangle, MayStray, Policy, Segmented, Traced
<1>12. TowardsPlace(g)
  BY <1>2, <1>8, <1>10 DEF TowardsPlace
<1>13. ASSUME ~strayed PROVE Followed(g, ideal)
  <2>1. Followed(host, ideal)
    BY <1>13 DEF HostIInv
  <2>2. Inside(g.startPos)
    BY <1>10, <2>1 DEF Followed
  <2>3. ASSUME NEW c \in g.borders PROVE PendingBorder(g, c)
    <3> PICK b \in host.borders : c = Sooner(b)
      BY <1>8, <1>10, <2>3
    <3>1. PendingBorder(host, b) /\ b \in BorderType
      BY <1>2, <2>1 DEF Followed, Pending, HostType
    <3>2. g.borders = {c}
      <4>1. host.borders = {b}
        BY <3>1 DEF PendingBorder
      <4>2. bs = {Sooner(b)}
        BY <4>1 DEF bs
      <4> QED  BY <1>10, <4>2
    <3>3. /\ c.in = b.in - 1 /\ c.policy = b.policy /\ c.startPos = b.startPos
          /\ c.direction = b.direction
      BY <1>3
    <3>4. /\ b.in \in Nat /\ b.in < host.moveMsg /\ host.moveMsg \in Nat
          /\ at = host.moveMsg - 1 /\ host.moveMsg <= updateInterval
      BY <1>2, <1>5, <3>1 DEF PendingBorder, BorderType, Never
    <3>5. /\ c.in < g.moveMsg /\ g.moveMsg <= updateInterval
          /\ g.moveMsg - c.in = host.moveMsg - b.in
      BY <1>10, <3>3, <3>4, MobilityAssumption
    <3>6. Way(g, c) = Way(host, b)
      BY <1>10, <3>3 DEF Way
    <3> QED  BY <1>10, <1>11, <3>1, <3>2, <3>3, <3>5, <3>6 DEF PendingBorder
  <2>4. host.error \/ Steady(g)
    <3> SUFFICES ASSUME ~host.error PROVE Steady(g)
      OBVIOUS
    <3>1. Steady(host)
      BY <2>1 DEF Followed
    <3>2. ASSUME NEW c \in g.borders,
                 \A b \in host.borders : UniformStep(<<0, 0>>, host.stepSize, updateInterval, Way(host, b))
          PROVE  UniformStep(<<0, 0>>, g.stepSize, updateInterval, Way(g, c))
      <4> PICK b \in host.borders : c = Sooner(b)
        BY <1>8, <1>10, <3>2
      <4>1. Way(g, c) = Way(host, b)
        BY <1>3, <1>10 DEF Way
      <4> QED  BY <1>10, <3>2, <4>1
    <3>3. g.borders = {} => host.borders = {}
      BY <1>9, <1>10
    <3> QED  BY <1>10, <3>1, <3>2, <3>3 DEF Steady
  <2> QED  BY <1>9, <1>10, <1>11, <2>1, <2>2, <2>3, <2>4 DEF Followed, Pending
<1>14. OnSchedule'
  <2>1. Segmented(host) => /\ due = host.targetTime
                           /\ host.moveMsg = Never \/ host.targetTime >= host.moveMsg - backlog
    BY DEF HostIInv, OnSchedule
  <2>2. backlog \in Nat /\ backlog' = backlog
    BY <1>1 DEF HostIInv, HostTypeOK
  <2>3. Segmented(g) => /\ due' = g.targetTime
                        /\ g.moveMsg = Never \/ g.targetTime >= g.moveMsg - backlog'
    BY <1>2, <1>5, <1>6, <1>10, <1>11, <2>1, <2>2 DEF Never
  <2> QED  BY <2>3 DEF OnSchedule, g
<1>15. HostTypeOK'
  <2>1. strayed' \in BOOLEAN /\ due' \in Int /\ backlog' \in Nat
    BY <1>1, <1>2 DEF HostIInv, HostTypeOK
  <2> QED  BY <1>5, <1>10, <1>11, <2>1 DEF HostTypeOK, g
<1>16. strayed' => MayStray(g)
  BY <1>1, <1>11 DEF HostIInv
<1> QED  BY <1>1, <1>11, <1>12, <1>13, <1>14, <1>15, <1>16 DEF HostIInv, g

-----------------------------------------------------------------------------
(* What holds in every behaviour *)

LEMMA NextKept == HostIInv /\ [MobilityNext]_mobilityVars => HostIInv'
<1> SUFFICES ASSUME HostIInv, [MobilityNext]_mobilityVars PROVE HostIInv'
  OBVIOUS
<1>1. CASE UNCHANGED mobilityVars
  BY <1>1 DEF mobilityVars, HostIInv, HostTypeOK, OnSchedule
<1>2. CASE MobilityNext
  <2>1. ~host.error /\ Inside(host.startPos)
    BY <1>2 DEF MobilityNext
  <2>2. CASE MassMove
    BY <2>1, <2>2, MassMoveKept
  <2>3. CASE MassTurn
    BY <2>1, <2>3, MassTurnKept
  <2>4. CASE LinearMove
    BY <2>1, <2>4, LinearMoveKept
  <2>5. CASE ConstSpeedMove
    BY <2>1, <2>5, ConstSpeedMoveKept
  <2>6. CASE CircleMove
    BY <2>1, <2>6, CircleMoveKept
  <2>7. CASE RectangleMove
    BY <2>1, <2>7, RectangleMoveKept
  <2>8. CASE SegmentStep
    BY <2>1, <2>8, SegmentStepKept
  <2>9. ASSUME NEW d \in Lengths, Wait(d) PROVE HostIInv'
    BY <2>1, <2>9, WaitKept
  <2>10. ASSUME NEW d \in Lengths, NEW a \in Direction, Forward(d, a) PROVE HostIInv'
    BY <2>1, <2>10, ForwardKept
  <2>11. CASE EndOfScript
    BY <2>1, <2>11, EndOfScriptKept
  <2>12. ASSUME NEW b \in host.borders, handleBorderMsg(b) PROVE HostIInv'
    BY <2>1, <2>12, HandleBorderMsgKept
  <2>13. CASE Tick
    BY <2>1, <2>13, TickKept
  <2> QED  BY <1>2, <2>2, <2>3, <2>4, <2>5, <2>6, <2>7, <2>8, <2>9, <2>10, <2>11, <2>12,
              <2>13 DEF MobilityNext
<1> QED  BY <1>1, <1>2

\* Whatever kind of host moves, however it is turned, and whatever its script says: what
\* is planned, folded and still waiting at a border fits together (HostIInv).
THEOREM HostInvariance == MobilitySpec => []HostIInv
<1> QED  BY InitHostIInv, NextKept, PTL DEF MobilitySpec

\* Where updatePosition tells ChannelControl that a host is, is on the playground, for
\* every kind of mobility, unless a turn came before a border or a segment ended outside.
THEOREM StaysInside == MobilitySpec => []InPlayground
<1>1. HostIInv => InPlayground
  BY DEF HostIInv, Followed, InPlayground
<1> QED  BY <1>1, HostInvariance, PTL

\* When reflectIfOutside and wrapIfOutside are through, a step over one border, over two,
\* or through a corner ends where a mirror, or a torus, has it end.
THEOREM StepsMirrored == MobilitySpec => []StepsAsMirrored
<1>1. HostIInv => StepsAsMirrored
  <2> SUFFICES ASSUME HostIInv, ~strayed, ~host.error, host.borders = {}, Policy(host) \in Folding
               PROVE  host.stepTarget = ideal
    BY DEF StepsAsMirrored, Folding
  <2>1. host \in HostType /\ OffBorders(host) /\ Followed(host, ideal)
    BY DEF HostIInv, HostTypeOK
  <2>2. /\ Folded(Policy(host), host.stepTarget) = ideal
        /\ Inside(host.stepTarget)
    BY <2>1 DEF Followed, Folding
  <2>3. Folded(Policy(host), host.stepTarget) = host.stepTarget
    BY <2>1, <2>2, HostFields, FoldedInside DEF OffBorders
  <2> QED  BY <2>2, <2>3
<1> QED  BY <1>1, HostInvariance, PTL

\* A border message comes before the next move message and is the only one under way:
\* handleBorderMsg always works on the step for which the message was made.
THEOREM BordersComeFirst == MobilitySpec => []BordersFirst
<1>1. HostIInv => BordersFirst
  <2> SUFFICES ASSUME HostIInv, ~strayed, NEW b \in host.borders, NEW c \in host.borders
               PROVE  b = c /\ (host.moveMsg = Never \/ b.in <= host.moveMsg)
    BY DEF BordersFirst
  <2>1. host \in HostType /\ Pending(host) /\ host.moveMsg \in Nat \cup {Never}
    BY DEF HostIInv, HostTypeOK, Followed
  <2>2. host.borders = {b} /\ b.in < host.moveMsg /\ b.in \in Nat
    BY <2>1 DEF Pending, PendingBorder, HostType, BorderType
  <2> QED  BY <2>1, <2>2 DEF Never
<1> QED  BY <1>1, HostInvariance, PTL

\* However many statements a script or a trace has and however short they are,
\* beginNextMove starts each of them at most an update interval before the time that the
\* lengths of those before it add up to, and later by no more than what the statements
\* shorter than an interval have cost and later ones have not made up.
THEOREM ScheduleKept == MobilitySpec => []KeepsSchedule
<1>1. HostIInv => KeepsSchedule
  <2> SUFFICES ASSUME HostIInv, Begins PROVE due \in -backlog..updateInterval
    BY DEF KeepsSchedule
  <2>1. /\ host.targetTime \in Int /\ backlog \in Nat /\ updateInterval \in Nat
        /\ host.moveMsg = 0 /\ updateInterval >= host.targetTime
    BY MobilityAssumption DEF HostIInv, HostTypeOK, HostType, Begins, LastStep
  <2>2. due = host.targetTime /\ host.targetTime >= 0 - backlog
    BY <2>1 DEF HostIInv, OnSchedule, Begins, Never
  <2> QED  BY <2>1, <2>2
<1> QED  BY <1>1, HostInvariance, PTL
=============================================================================
