-------------------------------- MODULE LMAC --------------------------------
(***************************************************************************)
(* Slot assignment of the TDMA MAC of class LMACLayer.                     *)
(*                                                                         *)
(* Every node owns at most one slot of a frame.  In its slot it sends a    *)
(* control packet with the slots it knows to be taken; whoever decodes it  *)
(* learns who is where, and looks for another slot when its own one is     *)
(* taken.  All nodes wake up together; how the frames of a slot overlap is *)
(* left open: two nodes may start to send within the time the radio needs  *)
(* to switch, and any frame may be lost at any receiver.                   *)
(*                                                                         *)
(* The table occSlotsAway is read by findNewSlot only, right after a       *)
(* control packet overwrote it, so it is a local of the handler here.      *)
(***************************************************************************)
EXTENDS Integers, FiniteSets

CONSTANTS
    Node,                 \* the MAC addresses
    Nbr,                  \* Nbr[n]: the nodes in range of n
    Free,                 \* -1 in a table: nobody has the slot
    Mobile,               \* the nodes with an id below reservedMobileSlots
    myId,                 \* their ids
    numSlots,
    reservedMobileSlots

Slot   == 0 .. numSlots - 1
NoSlot == -1
\* what intrand(numSlots - reservedMobileSlots) draws from
Choice == 0 .. numSlots - reservedMobileSlots - 1

ASSUME SlotAssumption ==
    /\ numSlots \in Nat
    /\ reservedMobileSlots \in 0 .. numSlots - 1

ASSUME NodeAssumption ==
    /\ Free \notin Node
    /\ Mobile \subseteq Node
    /\ myId \in [Mobile -> 0 .. reservedMobileSlots - 1]

ASSUME RangeAssumption ==
    /\ Nbr \in [Node -> SUBSET Node]
    /\ \A n, m \in Node : m \in Nbr[n] => n # m /\ n \in Nbr[m]

VARIABLES
    currSlot,
    mySlot,          \* own slot of each node, or NoSlot
    occSlotsDirect,  \* per slot, the neighbour heard in it last
    checkChannel,    \* nodes whose channel check is scheduled
    listening,       \* nodes that can receive: awake, and not sending
    air              \* <<m, n>>: the control packet of m may reach n

vars == <<currSlot, mySlot, occSlotsDirect, checkChannel, listening, air>>

TypeOK ==
    /\ currSlot \in Slot
    /\ mySlot \in [Node -> Slot \cup {NoSlot}]
    /\ occSlotsDirect \in [Node -> [Slot -> Node \cup {Free}]]
    /\ checkChannel \in SUBSET Node
    /\ listening \in SUBSET Node
    /\ air \in SUBSET (Node \X Node)

\* The slot of a node that is not mobile is its module id modulo the number of
\* slots to choose from: any of them.
Init ==
    /\ currSlot = 0
    /\ mySlot \in [Node -> Slot]
    /\ \A n \in Node : mySlot[n] \in IF n \in Mobile THEN {myId[n]} ELSE Choice
    /\ occSlotsDirect = [n \in Node |-> [s \in Slot |-> Free]]
    /\ checkChannel = {}
    /\ listening = {}
    /\ air = {}

NextSlot == (currSlot + 1) % numSlots

\* LMAC_WAKEUP at all nodes: the next slot starts and its owners schedule a
\* check of the channel.  The checks and frames of the slot before are over;
\* packets that nobody decoded are lost.
Wakeup ==
    /\ checkChannel = {}
    /\ currSlot' = NextSlot
    /\ checkChannel' = {n \in Node : mySlot[n] = NextSlot}
    /\ listening' = Node
    /\ air' = {}
    /\ UNCHANGED <<mySlot, occSlotsDirect>>

\* LMAC_CHECK_CHANNEL with an idle medium: n turns to transmission and, when the
\* radio has switched, sends its control packet.  A neighbour may have started
\* to do the same a moment before.
CheckChannel(n) ==
    /\ n \in checkChannel
    /\ checkChannel' = checkChannel \ {n}
    /\ listening' = listening \ {n}
    /\ air' = {p \in air : p[2] # n} \cup {<<n, m>> : m \in Nbr[n]}
    /\ UNCHANGED <<currSlot, mySlot, occSlotsDirect>>

\* The medium is published as busy in the own slot: the check is cancelled
MediumBusy(n) ==
    /\ n \in checkChannel
    /\ \E m \in Nbr[n] : <<m, n>> \in air
    /\ checkChannel' = checkChannel \ {n}
    /\ UNCHANGED <<currSlot, mySlot, occSlotsDirect, listening, air>>

\* Seeded fault: the former slot of the sender stays taken
HeardTwice(table, m) == [table EXCEPT ![mySlot[m]] = m]

\* A table after the control packet of m: m is where it says it is, and nowhere else
Heard(table, m) ==
    [s \in Slot |-> IF s = mySlot[m] THEN m ELSE IF table[s] = m THEN Free ELSE table[s]]

\* findNewSlot(): a random free slot, or none; away is occSlotsAway
findNewSlot(away) ==
    LET free == {s \in Choice : away[s] = Free}
    IN  IF free = {} THEN {NoSlot} ELSE free

\* Seeded fault: the node itself counts as another owner of its slot
MustMoveIfKnown(n, m) ==
    \/ mySlot[n] = NoSlot
    \/ n \in checkChannel \/ mySlot[n] = mySlot[m]
    \/ occSlotsDirect[m][mySlot[n]] # Free

\* The control packet of m tells n to look for another slot: n has none, m uses
\* the same, or m knows another node that does
MustMove(n, m) ==
    \/ mySlot[n] = NoSlot
    \/ n \in checkChannel \/ mySlot[n] = mySlot[m]
    \/ occSlotsDirect[m][mySlot[n]] \notin {Free, n}

NewSlots(n, m) ==
    IF MustMove(n, m) THEN findNewSlot(Heard(occSlotsDirect[m], m)) ELSE {mySlot[n]}

\* Seeded fault: the check of the channel is not cancelled
handleLowerMsgChecking(n, m, forMe) ==
    /\ <<m, n>> \in air
    /\ n \in listening
    /\ occSlotsDirect' = [occSlotsDirect EXCEPT ![n] = Heard(@, m)]
    /\ \E s \in NewSlots(n, m) : mySlot' = [mySlot EXCEPT ![n] = s]
    /\ listening' = IF forMe THEN listening ELSE listening \ {n}
    /\ air' = air \ {<<m, n>>}
    /\ UNCHANGED <<currSlot, checkChannel>>

\* handleLowerMsg of a control packet of m at n.  Unless the packet announces
\* data for n, the node goes back to sleep.
handleLowerMsg(n, m, forMe) ==
    /\ <<m, n>> \in air
    /\ n \in listening
    /\ occSlotsDirect' = [occSlotsDirect EXCEPT ![n] = Heard(@, m)]
    /\ \E s \in NewSlots(n, m) : mySlot' = [mySlot EXCEPT ![n] = s]
    /\ checkChannel' = checkChannel \ {n}
    /\ listening' = IF forMe THEN listening ELSE listening \ {n}
    /\ air' = air \ {<<m, n>>}
    /\ UNCHANGED currSlot

Receive == \E n, m \in Node, forMe \in BOOLEAN : handleLowerMsg(n, m, forMe)

Next ==
    \/ Wakeup
    \/ \E n \in Node : CheckChannel(n) \/ MediumBusy(n)
    \/ Receive

Spec == Init /\ [][Next]_vars

-----------------------------------------------------------------------------
(* Properties                                                               *)

\* A table names neighbours only, and none in two slots at once: a node that
\* moved does not keep its former slot taken where its new one is known.
OneEntryPerNeighbour == \A n \in Node : \A s, t \in Slot :
    occSlotsDirect[n][s] # Free =>
       /\ occSlotsDirect[n][s] \in Nbr[n]
       /\ occSlotsDirect[n][s] = occSlotsDirect[n][t] => s = t

\* Whoever sends or is about to owns the current slot: no reception moves a node
\* to another slot and lets it send in this one (LMACLayer.cc:197, "Send data
\* message received, but we are not in our slot!!!").
SenderOwnsSlot ==
    /\ \A n \in checkChannel : mySlot[n] = currSlot
    /\ \A p \in air : mySlot[p[1]] = currSlot

\* Two nodes that a third one can hear, or that hear each other
WithinTwoHops(n, m) ==
    n # m /\ (m \in Nbr[n] \/ \E k \in Node : n \in Nbr[k] /\ m \in Nbr[k])

\* The goal of the setup phase: no two nodes within two hops share a slot, and no
\* table says anything else
Settled ==
    /\ \A n \in Node : mySlot[n] # NoSlot
    /\ \A n, m \in Node : WithinTwoHops(n, m) => mySlot[n] # mySlot[m]
    /\ \A n \in Node, s \in Slot : occSlotsDirect[n][s] # Free =>
          mySlot[occSlotsDirect[n][s]] = s

\* LMACLayer.cc:172: "The slots of the nodes should be stable now."  Whatever is
\* lost or overlaps, an assignment without conflicts is never given up.
SettledStays == [][Settled => Settled' /\ mySlot' = mySlot]_vars

\* Who sends does not listen, who checks the channel does
Roles ==
    /\ checkChannel \subseteq listening
    /\ \A p \in air : p[2] \in Nbr[p[1]] /\ p[1] \notin listening

\* The inductive invariant
IInv ==
    /\ TypeOK
    /\ Roles
    /\ SenderOwnsSlot
    /\ OneEntryPerNeighbour
=============================================================================
