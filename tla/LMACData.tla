------------------------------- MODULE LMACData -------------------------------
(***************************************************************************)
(* What the slots of LMAC are for (class LMACLayer): a node announces in   *)
(* its control packet for whom it has data, nodes that nobody announced    *)
(* data for go back to sleep, and the data follows.                        *)
(*                                                                         *)
(* A slot is long enough for the check, both packets and the timeouts.     *)
(* Within it the timers run out in any order that the code does not fix.   *)
(***************************************************************************)
EXTENDS LMAC, Sequences

CONSTANTS
    Broadcast,            \* L2BROADCAST
    NoReceiver,           \* LMAC_NO_RECEIVER
    Traffic,              \* Traffic[n]: the addresses the upper layer of n sends to
    queueLength,
    MaxPackets            \* bound: packets of the upper layers

ASSUME AddressAssumption ==
    /\ Broadcast \notin Node /\ NoReceiver \notin Node \cup {Broadcast}
    /\ Traffic \in [Node -> SUBSET (Node \cup {Broadcast})]
    /\ queueLength \in Nat /\ MaxPackets \in Nat

VARIABLES
    SETUP_PHASE,
    macState,
    macQueue,        \* per node, the destinations of the packets to send
    timeout,         \* nodes whose timeout is scheduled
    sendData,        \* nodes whose data is scheduled
    onAir,           \* what each node transmits: the kind of frame and its destination
    requests,        \* packets of the upper layers
    expecting        \* history: <<m, n>>, n decoded that m has data for it

dataVars == <<SETUP_PHASE, macState, macQueue, timeout, sendData, onAir, requests, expecting>>

Address == Node \cup {Broadcast}
Silence == [kind |-> "none", dest |-> NoReceiver]
Frame   == [kind : {"none", "control", "data"}, dest : Address \cup {NoReceiver}]

DataTypeOK ==
    /\ SETUP_PHASE \in BOOLEAN
    /\ macState \in [Node -> {"SLEEP", "RX", "TX"}]
    /\ macQueue \in [Node -> Seq(Address)]
    /\ timeout \in SUBSET Node
    /\ sendData \in SUBSET Node
    /\ onAir \in [Node -> Frame]
    /\ requests \in Nat
    /\ expecting \in SUBSET (Node \X Node)

DataInit ==
    /\ Init
    /\ SETUP_PHASE = TRUE
    /\ macState = [n \in Node |-> "SLEEP"]
    /\ macQueue = [n \in Node |-> <<>>]
    /\ timeout = {} /\ sendData = {} /\ expecting = {}
    /\ onAir = [n \in Node |-> Silence]
    /\ requests = 0

\* handleUpperMsg: a packet that finds the queue full is reported and dropped
handleUpperMsg(n, d) ==
    /\ d \in Traffic[n]
    /\ requests < MaxPackets
    /\ requests' = requests + 1
    /\ macQueue' = [macQueue EXCEPT ![n] = IF Len(@) <= queueLength THEN Append(@, d) ELSE @]
    /\ UNCHANGED <<vars, SETUP_PHASE, macState, timeout, sendData, onAir, expecting>>

\* LMAC_SETUP_PHASE_END; the wakeup that it schedules anew is the next one here too
SetupPhaseEnd ==
    /\ SETUP_PHASE
    /\ SETUP_PHASE' = FALSE
    /\ UNCHANGED <<vars, macState, macQueue, timeout, sendData, onAir, requests, expecting>>

\* LMAC_WAKEUP: in the slots of others a node listens for a while only
SlotStarts ==
    /\ Wakeup
    /\ timeout = {} /\ sendData = {} /\ \A n \in Node : onAir[n] = Silence
    /\ macState' = [n \in Node |-> "RX"]
    /\ timeout' = IF SETUP_PHASE THEN {} ELSE {n \in Node : mySlot[n] # NextSlot}
    /\ expecting' = {}
    /\ UNCHANGED <<SETUP_PHASE, macQueue, sendData, onAir, requests>>

\* LMAC_CHECK_CHANNEL, and the control packet that goes out in receiveBBItem
SendControl(n) ==
    LET hasData == macQueue[n] # <<>> /\ ~SETUP_PHASE
    IN  /\ CheckChannel(n)
        /\ macState' = [macState EXCEPT ![n] = "TX"]
        /\ onAir' = [onAir EXCEPT ![n] =
                        [kind |-> "control", dest |-> IF hasData THEN Head(macQueue[n]) ELSE NoReceiver]]
        /\ sendData' = IF hasData THEN sendData \cup {n} ELSE sendData
        /\ UNCHANGED <<SETUP_PHASE, macQueue, timeout, requests, expecting>>

\* The medium is published as busy in the own slot
OwnSlotBusy(n) ==
    /\ macState[n] = "RX"
    /\ \E m \in Nbr[n] : onAir[m] # Silence
    /\ \/ MediumBusy(n)
       \/ n \notin checkChannel /\ currSlot = mySlot[n] /\ UNCHANGED vars
    /\ timeout' = timeout \cup {n}
    /\ UNCHANGED <<SETUP_PHASE, macState, macQueue, sendData, onAir, requests, expecting>>

\* LMAC_TIMEOUT with an idle medium; with a busy one it is scheduled again.  What is
\* published as idle may hide a second frame that outlasts the first one.
Timeout(n) ==
    /\ n \in timeout
    /\ timeout' = timeout \ {n}
    /\ macState' = [macState EXCEPT ![n] = "SLEEP"]
    /\ UNCHANGED <<vars, SETUP_PHASE, macQueue, sendData, onAir, requests, expecting>>

-----------------------------------------------------------------------------
\* Seeded fault: the timeout is not cancelled
ReceiveControlTimeoutLeft(n, m) ==
    LET forMe == onAir[m].dest \in {n, Broadcast}
    IN  /\ onAir[m].kind = "control" /\ macState[n] = "RX"
        /\ handleLowerMsg(n, m, forMe)
        /\ macState' = IF forMe THEN macState ELSE [macState EXCEPT ![n] = "SLEEP"]
        /\ timeout' = IF forMe THEN timeout ELSE timeout \ {n}
        /\ expecting' = IF forMe THEN expecting \cup {<<m, n>>} ELSE expecting
        /\ UNCHANGED <<SETUP_PHASE, macQueue, sendData, onAir, requests>>

\* handleLowerMsg of a control packet: n stays awake if it announces data for n
ReceiveControl(n, m) ==
    LET forMe == onAir[m].dest \in {n, Broadcast}
    IN  /\ onAir[m].kind = "control" /\ macState[n] = "RX"
        /\ handleLowerMsg(n, m, forMe)
        /\ macState' = IF forMe THEN macState ELSE [macState EXCEPT ![n] = "SLEEP"]
        /\ timeout' = timeout \ {n}
        /\ expecting' = IF forMe THEN expecting \cup {<<m, n>>} ELSE expecting
        /\ UNCHANGED <<SETUP_PHASE, macQueue, sendData, onAir, requests>>

\* handleLowerMsg of a data packet: passed up or not, the node goes to sleep
ReceiveData(n, m) ==
    /\ onAir[m].kind = "data" /\ m \in Nbr[n]
    /\ macState[n] = "RX" /\ n \in listening
    /\ checkChannel' = checkChannel \ {n}
    /\ macState' = [macState EXCEPT ![n] = "SLEEP"]
    /\ timeout' = timeout \ {n}
    /\ expecting' = expecting \ {<<m, n>>}
    /\ UNCHANGED <<currSlot, mySlot, occSlotsDirect, listening, air,
                   SETUP_PHASE, macQueue, sendData, onAir, requests>>

\* handleLowerControl: unless data is scheduled the node goes to sleep
TransmissionOver(n) ==
    /\ onAir[n] # Silence
    /\ onAir' = [onAir EXCEPT ![n] = Silence]
    /\ \/ /\ n \in sendData
          /\ UNCHANGED <<macState, timeout>>
       \/ /\ n \notin sendData
          /\ macState' = [macState EXCEPT ![n] = "SLEEP"]
          /\ timeout' = timeout \ {n}
    /\ UNCHANGED <<vars, SETUP_PHASE, macQueue, sendData, requests, expecting>>

\* LMAC_SEND_DATA, after the control packet and the checks of all nodes are over:
\* it is scheduled as long after a check as a check may last.  DataAsAnnounced says
\* that it comes in the own slot.
SendData(n) ==
    /\ n \in sendData
    /\ onAir[n] = Silence /\ checkChannel = {}
    /\ sendData' = sendData \ {n}
    /\ onAir' = [onAir EXCEPT ![n] = [kind |-> "data", dest |-> Head(macQueue[n])]]
    /\ macQueue' = [macQueue EXCEPT ![n] = Tail(@)]
    /\ UNCHANGED <<vars, SETUP_PHASE, macState, timeout, requests, expecting>>

DataNext ==
    \/ SetupPhaseEnd \/ SlotStarts
    \/ \E n \in Node : \/ \E d \in Traffic[n] : handleUpperMsg(n, d)
                       \/ SendControl(n) \/ OwnSlotBusy(n) \/ Timeout(n)
                       \/ \E m \in Node : ReceiveControl(n, m) \/ ReceiveData(n, m)
                       \/ TransmissionOver(n) \/ SendData(n)

DataSpec == DataInit /\ [][DataNext]_<<vars, dataVars>>

-----------------------------------------------------------------------------
(* Properties                                                               *)

\* Data goes out in the slot of its sender (LMACLayer.cc:197, "we are not in our
\* slot!!!"), to whom the control packet named; and once no two nodes within two hops
\* share a slot, whoever decoded that announcement is awake until the data comes.
DataAsAnnounced ==
    /\ \A n \in sendData : mySlot[n] = currSlot
    /\ \A p \in expecting : p[1] \in sendData => Head(macQueue[p[1]]) \in {p[2], Broadcast}
    /\ Settled => \A p \in expecting : macState[p[2]] = "RX"

\* A timeout finds the node listening (LMACLayer.cc:270, "I am in the wrong state!")
TimeoutInRx == \A n \in timeout : macState[n] = "RX"

\* Who checks the channel or sends is where the timers expect it
OwnSlotRoles ==
    /\ \A n \in checkChannel : macState[n] = "RX" /\ n \notin timeout
    /\ \A n \in sendData : macQueue[n] # <<>>
    /\ \A n \in Node : n \in sendData \/ onAir[n] # Silence =>
          macState[n] = "TX" /\ n \notin listening /\ mySlot[n] = currSlot

\* A control packet with a destination is followed by the first packet of the queue
HeadAnnounced == \A n \in Node :
    onAir[n].kind = "control" /\ onAir[n].dest # NoReceiver =>
       n \in sendData /\ onAir[n].dest = Head(macQueue[n])

\* Someone else that n hears sends in this slot
Disturbed(n, m) == \E k \in Nbr[n] \ {m} : k \notin listening /\ mySlot[k] = currSlot

\* Nothing puts a node to sleep that expects data, but another sender
Awaited == \A p \in expecting :
    LET m == p[1] n == p[2]
    IN  /\ p \notin air /\ n \in Nbr[m]
        /\ m \notin listening /\ mySlot[m] = currSlot
        /\ m \in sendData => Head(macQueue[m]) \in {n, Broadcast}
        /\ \/ Disturbed(n, m)
           \/ /\ macState[n] = "RX" /\ n \in listening
              /\ n \notin timeout \cup checkChannel /\ mySlot[n] # currSlot

\* The checks of a slot are over when the data comes
ChecksBeforeData == (\E n \in Node : onAir[n].kind = "data") => checkChannel = {}

\* The inductive invariant
DataIInv ==
    /\ IInv
    /\ DataTypeOK
    /\ TimeoutInRx
    /\ OwnSlotRoles
    /\ HeadAnnounced
    /\ ChecksBeforeData
    /\ Awaited
=============================================================================
