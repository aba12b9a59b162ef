-------------------------------- MODULE Csma --------------------------------
(***************************************************************************)
(* The IEEE 802.15.4 non-beacon CSMA MAC (class csma), one instance per    *)
(* node, over a broadcast medium that may lose any frame at any receiver.  *)
(*                                                                         *)
(* One action per case of the MAC's event handlers.  Time is abstracted: a *)
(* scheduled timer may fire whenever its handler is enabled, in any order  *)
(* with the other timers and with receptions, so every timing of the       *)
(* simulation is covered.  The clock, the radio and the durations are   *)
(* not part of this module.                                                *)
(*                                                                         *)
(* A sequence number map entry that does not exist yet is 0: the code      *)
(* numbers the first packet to a destination 0, and accepts any number     *)
(* from a source it has no entry for.                                      *)
(***************************************************************************)
EXTENDS Integers, Sequences, FiniteSets

CONSTANTS
    Node,                 \* the MAC addresses
    Broadcast,            \* MAC_BROADCAST
    NoFrame,              \* the null pointer
    Flow,                 \* Flow[n]: the addresses the upper layer of n sends to
    MaxMsgs,              \* bound: messages of the upper layer of each node
    queueLength,
    macMinBE,
    macMaxBE,
    macMaxCSMABackoffs,
    macMaxFrameRetries

Address == Node \cup {Broadcast}

Packet == [kind : {"data"}, src : Node, dest : Address, seq : Nat]
Ack    == [kind : {"ack"}, src : Node, dest : Node, seq : {0}]
Frame  == Packet \cup Ack

ASSUME AddressAssumption ==
    /\ Broadcast \notin Node
    /\ NoFrame \notin Frame
    /\ Flow \in [Node -> SUBSET Address]

ASSUME ParameterAssumption ==
    /\ MaxMsgs \in [Node -> Nat]
    /\ queueLength \in Nat
    /\ macMinBE \in Nat \ {0}
    /\ macMaxBE \in Nat
    /\ macMinBE <= macMaxBE
    /\ macMaxCSMABackoffs \in Nat
    /\ macMaxFrameRetries \in Nat

MacState == {"IDLE_1", "BACKOFF_2", "CCA_3", "TRANSMITFRAME_4",
             "WAITACK_5", "WAITSIFS_6", "TRANSMITACK_7"}
Timer    == {"backoffTimer", "ccaTimer", "sifsTimer", "rxAckTimer"}
Command  == {"ENTER_RX", "ENTER_TX"}
Outcome  == {"MAC SUCCESS", "MAC ERROR"}

VARIABLES
    macState,      \* state of the MAC's state machine
    macQueue,      \* packets waiting to be sent; the head is the one in progress
    timers,        \* the timers that are scheduled
    NB, BE,        \* backoffs made, backoff exponent
    txAttempts,    \* retransmissions of the head so far
    interrupted,   \* transmissionAttemptInterruptedByRx
    ackMessage,    \* the acknowledgement to send at the end of the SIFS
    SeqNrParent,   \* per destination: sequence number of the next packet
    SeqNrChild,    \* per source: sequence number expected next
    radioCmd,      \* the last command given to the radio
    lower,         \* frames handed to the physical layer and not yet on air to the end
    inbound        \* a frame the physical layer decoded, on its way to the MAC

VARIABLES          \* history, read by properties only
    sentUp,        \* packets passed to the upper layer, in order
    reports,       \* control messages to the upper layer: packet and outcome
    txCount        \* times the current head was handed to the physical layer

cycleVars == <<NB, BE, txAttempts, interrupted, txCount>>
seqVars   == <<SeqNrParent, SeqNrChild>>
upVars    == <<sentUp, reports>>
vars == <<macState, macQueue, timers, cycleVars, ackMessage, seqVars,
          radioCmd, lower, inbound, upVars>>

MachineTypeOK ==
    /\ macState \in [Node -> MacState]
    /\ timers \in [Node -> SUBSET Timer]
    /\ radioCmd \in [Node -> Command]

CycleTypeOK ==
    /\ NB \in [Node -> Nat]
    /\ BE \in [Node -> Nat]
    /\ txAttempts \in [Node -> Nat]
    /\ interrupted \in [Node -> BOOLEAN]
    /\ txCount \in [Node -> Nat]

SeqNrTypeOK ==
    /\ SeqNrParent \in [Node -> [Address -> Nat]]
    /\ SeqNrChild \in [Node -> [Node -> Nat]]

FrameTypeOK ==
    /\ macQueue \in [Node -> Seq(Packet)]
    /\ ackMessage \in [Node -> Ack \cup {NoFrame}]
    /\ lower \in [Node -> Seq(Frame)]
    /\ inbound \in [Node -> Frame \cup {NoFrame}]

UpTypeOK ==
    /\ sentUp \in [Node -> Seq(Packet)]
    /\ reports \in [Node -> Seq([pkt : Packet, outcome : Outcome])]

TypeOK == MachineTypeOK /\ CycleTypeOK /\ SeqNrTypeOK /\ FrameTypeOK /\ UpTypeOK

Init ==
    /\ macState = [n \in Node |-> "IDLE_1"]
    /\ macQueue = [n \in Node |-> <<>>]
    /\ timers = [n \in Node |-> {}]
    /\ NB = [n \in Node |-> 0]
    /\ BE = [n \in Node |-> macMinBE]
    /\ txAttempts = [n \in Node |-> 0]
    /\ interrupted = [n \in Node |-> FALSE]
    /\ ackMessage = [n \in Node |-> NoFrame]
    /\ SeqNrParent = [n \in Node |-> [d \in Address |-> 0]]
    /\ SeqNrChild = [n \in Node |-> [s \in Node |-> 0]]
    /\ radioCmd = [n \in Node |-> "ENTER_RX"]
    /\ lower = [n \in Node |-> <<>>]
    /\ inbound = [n \in Node |-> NoFrame]
    /\ sentUp = [n \in Node |-> <<>>]
    /\ reports = [n \in Node |-> <<>>]
    /\ txCount = [n \in Node |-> 0]

-----------------------------------------------------------------------------
(* Helpers *)

\* std::min of two exponents
Least(a, b) == IF a < b THEN a ELSE b

\* sendControlUp of a packet whose kind was set to outcome o
Report(n, p, o) ==
    reports' = [reports EXCEPT ![n] = Append(@, [pkt |-> p, outcome |-> o])]

\* radio->execute(c)
Execute(n, c) == radioCmd' = [radioCmd EXCEPT ![n] = c]

\* hand frame f to the physical layer
SendDown(n, f) == lower' = [lower EXCEPT ![n] = Append(@, f)]

\* Seeded fault: a resumed cycle starts over
FreshCycleAlways(n, q) == q # <<>>

\* manageQueue starts a cycle of its own, unless it resumes a suspended one
FreshCycle(n, q) == q # <<>> /\ ~interrupted[n]

\* manageQueue() with queue q, counters nb and be, after the timers in done
\* were cancelled or fired.  The code draws the backoff before it resets the
\* exponent; how long a backoff lasts is abstracted here.
manageQueue(n, q, nb, be, done) ==
    LET more  == q # <<>>
        drawn == timers[n] \ done
    IN  /\ macQueue' = [macQueue EXCEPT ![n] = q]
        /\ macState' = [macState EXCEPT ![n] = IF more THEN "BACKOFF_2" ELSE "IDLE_1"]
        /\ timers' = [timers EXCEPT ![n] =
                         IF more THEN drawn \cup {"backoffTimer"} ELSE drawn]
        /\ interrupted' = [interrupted EXCEPT ![n] = IF more THEN FALSE ELSE @]
        /\ NB' = [NB EXCEPT ![n] = IF FreshCycle(n, q) THEN 0 ELSE nb]
        /\ BE' = [BE EXCEPT ![n] = IF FreshCycle(n, q) THEN macMinBE ELSE be]

-----------------------------------------------------------------------------
(* handleUpperMsg: EV_SEND_REQUEST *)

\* The packet takes the next sequence number of its destination, even if it is
\* dropped right after.
NewPacket(n, d) ==
    [kind |-> "data", src |-> n, dest |-> d, seq |-> SeqNrParent[n][d]]

\* the packets the upper layer of n has given to the MAC so far
Requests(n) == UNION {{d} \X (0 .. SeqNrParent[n][d] - 1) : d \in Flow[n]}

EncapsMsg(n, d) ==
    /\ d \in Flow[n]
    /\ Cardinality(Requests(n)) < MaxMsgs[n]
    /\ SeqNrParent' = [SeqNrParent EXCEPT ![n][d] = @ + 1]

\* [TxBuff avail]: the code compares with <=
TxBuffAvail(n) == Len(macQueue[n]) <= queueLength

\* macQueue.push_back
Enqueue(q, p) == Append(q, p)

SendRequestIdle(n, d) ==
    /\ macState[n] = "IDLE_1"
    /\ TxBuffAvail(n)
    /\ EncapsMsg(n, d)
    /\ macQueue' = [macQueue EXCEPT ![n] = Enqueue(@, NewPacket(n, d))]
    /\ macState' = [macState EXCEPT ![n] = "BACKOFF_2"]
    /\ NB' = [NB EXCEPT ![n] = 0]
    /\ BE' = [BE EXCEPT ![n] = macMinBE]
    /\ timers' = [timers EXCEPT ![n] = @ \cup {"backoffTimer"}]
    /\ UNCHANGED <<txAttempts, interrupted, txCount, ackMessage, SeqNrChild,
                   radioCmd, lower, inbound, upVars>>

SendRequestNotIdle(n, d) ==
    /\ macState[n] # "IDLE_1"
    /\ TxBuffAvail(n)
    /\ EncapsMsg(n, d)
    /\ macQueue' = [macQueue EXCEPT ![n] = Enqueue(@, NewPacket(n, d))]
    /\ UNCHANGED <<macState, timers, cycleVars, ackMessage, SeqNrChild,
                   radioCmd, lower, inbound, upVars>>

SendRequestQueueFull(n, d) ==
    /\ ~TxBuffAvail(n)
    /\ EncapsMsg(n, d)
    /\ Report(n, NewPacket(n, d), "MAC ERROR")
    /\ UNCHANGED <<macState, macQueue, timers, cycleVars, ackMessage,
                   SeqNrChild, radioCmd, lower, inbound, sentUp>>

-----------------------------------------------------------------------------
(* handleSelfMsg: the timers.  Each handler is given for the state in which *)
(* its timer is scheduled; TimerOfState (below) says there is no other, so  *)
(* fsmError never deletes a timer.                                          *)

\* EV_TIMER_BACKOFF in BACKOFF_2
TimerBackoff(n) ==
    /\ "backoffTimer" \in timers[n]
    /\ macState[n] = "BACKOFF_2"
    /\ timers' = [timers EXCEPT ![n] = (@ \ {"backoffTimer"}) \cup {"ccaTimer"}]
    /\ macState' = [macState EXCEPT ![n] = "CCA_3"]
    /\ Execute(n, "ENTER_RX")
    /\ UNCHANGED <<macQueue, cycleVars, ackMessage, seqVars, lower, inbound,
                   upVars>>

CcaTimerFires(n) ==
    /\ "ccaTimer" \in timers[n]
    /\ macState[n] = "CCA_3"

\* EV_TIMER_CCA, rssi < busyRSSI: a copy of the head goes down
TimerCcaIdle(n) ==
    /\ CcaTimerFires(n)
    /\ timers' = [timers EXCEPT ![n] = @ \ {"ccaTimer"}]
    /\ macState' = [macState EXCEPT ![n] = "TRANSMITFRAME_4"]
    /\ Execute(n, "ENTER_TX")
    /\ SendDown(n, Head(macQueue[n]))
    /\ txCount' = [txCount EXCEPT ![n] = @ + 1]
    /\ UNCHANGED <<macQueue, NB, BE, txAttempts, interrupted, ackMessage,
                   seqVars, inbound, upVars>>

\* EV_TIMER_CCA, channel busy, NB + 1 <= macMaxCSMABackoffs: another backoff
TimerCcaBusy(n) ==
    LET be == Least(BE[n] + 1, macMaxBE)
    IN  /\ CcaTimerFires(n)
        /\ NB[n] + 1 <= macMaxCSMABackoffs
        /\ NB' = [NB EXCEPT ![n] = @ + 1]
        /\ BE' = [BE EXCEPT ![n] = be]
        /\ macState' = [macState EXCEPT ![n] = "BACKOFF_2"]
        /\ timers' = [timers EXCEPT ![n] = (@ \ {"ccaTimer"}) \cup {"backoffTimer"}]
        /\ UNCHANGED <<macQueue, txAttempts, interrupted, txCount, ackMessage,
                       seqVars, radioCmd, lower, inbound, upVars>>

\* Seeded fault: the head is reported and stays in the queue
TimerCcaDropKept(n) ==
    /\ CcaTimerFires(n)
    /\ NB[n] + 1 > macMaxCSMABackoffs
    /\ txAttempts' = [txAttempts EXCEPT ![n] = 0]
    /\ txCount' = [txCount EXCEPT ![n] = 0]
    /\ Report(n, Head(macQueue[n]), "MAC ERROR")
    /\ manageQueue(n, macQueue[n], NB[n] + 1,
                   Least(BE[n] + 1, macMaxBE), {"ccaTimer"})
    /\ UNCHANGED <<ackMessage, seqVars, radioCmd, lower, inbound, sentUp>>

\* EV_TIMER_CCA, channel busy once too often: the head is dropped
TimerCcaDrop(n) ==
    /\ CcaTimerFires(n)
    /\ NB[n] + 1 > macMaxCSMABackoffs
    /\ txAttempts' = [txAttempts EXCEPT ![n] = 0]
    /\ txCount' = [txCount EXCEPT ![n] = 0]
    /\ Report(n, Head(macQueue[n]), "MAC ERROR")
    /\ manageQueue(n, Tail(macQueue[n]), NB[n] + 1,
                   Least(BE[n] + 1, macMaxBE), {"ccaTimer"})
    /\ UNCHANGED <<ackMessage, seqVars, radioCmd, lower, inbound, sentUp>>

\* EV_TIMER_SIFS in WAITSIFS_6
TimerSifs(n) ==
    /\ "sifsTimer" \in timers[n]
    /\ macState[n] = "WAITSIFS_6"
    /\ timers' = [timers EXCEPT ![n] = @ \ {"sifsTimer"}]
    /\ macState' = [macState EXCEPT ![n] = "TRANSMITACK_7"]
    /\ SendDown(n, ackMessage[n])
    /\ ackMessage' = [ackMessage EXCEPT ![n] = NoFrame]
    /\ UNCHANGED <<macQueue, cycleVars, seqVars, radioCmd, inbound, upVars>>

AckTimeout(n) ==
    /\ "rxAckTimer" \in timers[n]
    /\ macState[n] = "WAITACK_5"

\* manageMissingAck: the code allows macMaxFrameRetries + 1 retransmissions
MayRetry(n) == txAttempts[n] < macMaxFrameRetries + 1

AckTimeoutRetry(n) ==
    /\ AckTimeout(n)
    /\ MayRetry(n)
    /\ txAttempts' = [txAttempts EXCEPT ![n] = @ + 1]
    /\ manageQueue(n, macQueue[n], NB[n], BE[n], {"rxAckTimer"})
    /\ UNCHANGED <<txCount, ackMessage, seqVars, radioCmd, lower, inbound, upVars>>

AckTimeoutDrop(n) ==
    /\ AckTimeout(n)
    /\ ~MayRetry(n)
    /\ txAttempts' = [txAttempts EXCEPT ![n] = 0]
    /\ txCount' = [txCount EXCEPT ![n] = 0]
    /\ Report(n, Head(macQueue[n]), "MAC ERROR")
    /\ manageQueue(n, Tail(macQueue[n]), NB[n], BE[n], {"rxAckTimer"})
    /\ UNCHANGED <<ackMessage, seqVars, radioCmd, lower, inbound, sentUp>>

-----------------------------------------------------------------------------
(* handleLowerControl: TRANSMISSION_OVER, hence EV_FRAME_TRANSMITTED        *)

\* The physical layer ends the transmission of its oldest frame; the nodes of
\* R have decoded it.  A node decodes one frame at a time, and none once its
\* radio was told to leave RX.
TransmissionOver(n, R) ==
    /\ lower[n] # <<>>
    /\ \A m \in R : m # n /\ radioCmd[m] = "ENTER_RX" /\ inbound[m] = NoFrame
    /\ lower' = [lower EXCEPT ![n] = Tail(@)]
    /\ inbound' = [m \in Node |-> IF m \in R THEN Head(lower[n]) ELSE inbound[m]]
    /\ Execute(n, "ENTER_RX")

\* Seeded fault: no timer is started for the acknowledgement
UnicastTransmittedNoTimer(n, R) ==
    /\ macState[n] = "TRANSMITFRAME_4"
    /\ Head(macQueue[n]).dest # Broadcast
    /\ TransmissionOver(n, R)
    /\ macState' = [macState EXCEPT ![n] = "WAITACK_5"]
    /\ UNCHANGED <<timers, macQueue, cycleVars, ackMessage, seqVars, upVars>>

\* EV_FRAME_TRANSMITTED in TRANSMITFRAME_4 [Unicast]
UnicastTransmitted(n, R) ==
    /\ macState[n] = "TRANSMITFRAME_4"
    /\ Head(macQueue[n]).dest # Broadcast
    /\ TransmissionOver(n, R)
    /\ macState' = [macState EXCEPT ![n] = "WAITACK_5"]
    /\ timers' = [timers EXCEPT ![n] = @ \cup {"rxAckTimer"}]
    /\ UNCHANGED <<macQueue, cycleVars, ackMessage, seqVars, upVars>>

\* EV_FRAME_TRANSMITTED in TRANSMITFRAME_4 [Broadcast]
BroadcastTransmitted(n, R) ==
    /\ macState[n] = "TRANSMITFRAME_4"
    /\ Head(macQueue[n]).dest = Broadcast
    /\ TransmissionOver(n, R)
    /\ manageQueue(n, Tail(macQueue[n]), NB[n], BE[n], {})
    /\ txCount' = [txCount EXCEPT ![n] = 0]
    /\ UNCHANGED <<txAttempts, ackMessage, seqVars, upVars>>

\* EV_FRAME_TRANSMITTED in TRANSMITACK_7
AckTransmitted(n, R) ==
    /\ macState[n] = "TRANSMITACK_7"
    /\ TransmissionOver(n, R)
    /\ manageQueue(n, macQueue[n], NB[n], BE[n], {})
    /\ UNCHANGED <<txAttempts, txCount, ackMessage, seqVars, upVars>>

-----------------------------------------------------------------------------
(* handleLowerMsg                                                           *)

Take(n) ==
    /\ inbound[n] # NoFrame
    /\ inbound' = [inbound EXCEPT ![n] = NoFrame]

\* The states in which a data frame suspends what the MAC does, to acknowledge
\* it, with the timer that is cancelled
Cancelled == [IDLE_1 |-> {}, BACKOFF_2 |-> {"backoffTimer"}, CCA_3 |-> {"ccaTimer"}]
Answers(n) == macState[n] \in DOMAIN Cancelled

\* Seeded faults: the timer of the interrupted state is not cancelled; the radio
\* goes on listening
SuspendTimerRunning(n) ==
    /\ timers' = [timers EXCEPT ![n] = @ \cup {"sifsTimer"}]
    /\ interrupted' = [interrupted EXCEPT ![n] =
                          IF macState[n] = "IDLE_1" THEN @ ELSE TRUE]
    /\ macState' = [macState EXCEPT ![n] = "WAITSIFS_6"]
    /\ Execute(n, "ENTER_TX")

SuspendListening(n) ==
    /\ timers' = [timers EXCEPT ![n] =
                     (@ \ Cancelled[macState[n]]) \cup {"sifsTimer"}]
    /\ interrupted' = [interrupted EXCEPT ![n] =
                          IF macState[n] = "IDLE_1" THEN @ ELSE TRUE]
    /\ macState' = [macState EXCEPT ![n] = "WAITSIFS_6"]
    /\ Execute(n, "ENTER_RX")

\* The MAC turns to the acknowledgement
Suspend(n) ==
    /\ timers' = [timers EXCEPT ![n] =
                     (@ \ Cancelled[macState[n]]) \cup {"sifsTimer"}]
    /\ interrupted' = [interrupted EXCEPT ![n] =
                          IF macState[n] = "IDLE_1" THEN @ ELSE TRUE]
    /\ macState' = [macState EXCEPT ![n] = "WAITSIFS_6"]
    /\ Execute(n, "ENTER_TX")

AckFor(n, f) == [kind |-> "ack", src |-> n, dest |-> f.src, seq |-> 0]

\* Seeded fault: the duplicate case of BACKOFF_2 passes it up as well
PassedUpInBackoff(n, duplicate) ==
    IF duplicate THEN macState[n] \in {"BACKOFF_2", "CCA_3"}
    ELSE macState[n] \notin {"TRANSMITFRAME_4", "TRANSMITACK_7"}

\* Is a data frame passed up?  A new one is, except while the MAC transmits
\* (fsmError deletes it); a duplicate is in CCA_3.
PassedUp(n, duplicate) ==
    IF duplicate THEN macState[n] = "CCA_3"
    ELSE macState[n] \notin {"TRANSMITFRAME_4", "TRANSMITACK_7"}

\* EV_FRAME_RECEIVED and EV_DUPLICATE_RECEIVED.  The acknowledgement is built
\* and the expected number advanced before the state machine sees the frame.
ReceiveData(n) ==
    LET f == inbound[n]
        duplicate == f.seq < SeqNrChild[n][f.src]
    IN  /\ Take(n)
        /\ f.kind = "data" /\ f.dest = n
        /\ ackMessage' = [ackMessage EXCEPT ![n] = AckFor(n, f)]
        /\ SeqNrChild' = [SeqNrChild EXCEPT ![n][f.src] =
                             IF duplicate THEN @ ELSE f.seq + 1]
        /\ sentUp' = [sentUp EXCEPT ![n] =
                         IF PassedUp(n, duplicate) THEN Append(@, f) ELSE @]
        /\ \/ Answers(n) /\ Suspend(n)
           \/ /\ ~Answers(n)
              /\ UNCHANGED <<timers, interrupted, macState, radioCmd>>
        /\ UNCHANGED <<macQueue, NB, BE, txAttempts, txCount, SeqNrParent,
                       lower, reports>>

\* EV_BROADCAST_RECEIVED: passed up, except while the MAC transmits
ReceiveBroadcast(n) ==
    /\ Take(n)
    /\ inbound[n].dest = Broadcast
    /\ sentUp' = [sentUp EXCEPT ![n] =
                     IF PassedUp(n, FALSE) THEN Append(@, inbound[n]) ELSE @]
    /\ UNCHANGED <<macState, macQueue, timers, cycleVars, ackMessage, seqVars,
                   radioCmd, lower, reports>>

\* The acknowledgement comes from the destination of the head and the MAC
\* waits for one; it does not say which packet it acknowledges.
AckExpected(n, f) ==
    /\ f.kind = "ack" /\ f.dest = n
    /\ macQueue[n] # <<>> /\ f.src = Head(macQueue[n]).dest
    /\ macState[n] = "WAITACK_5"

\* EV_ACK_RECEIVED in WAITACK_5
ReceiveAck(n) ==
    /\ Take(n)
    /\ AckExpected(n, inbound[n])
    /\ txAttempts' = [txAttempts EXCEPT ![n] = 0]
    /\ txCount' = [txCount EXCEPT ![n] = 0]
    /\ Report(n, Head(macQueue[n]), "MAC SUCCESS")
    /\ manageQueue(n, Tail(macQueue[n]), NB[n], BE[n], {"rxAckTimer"})
    /\ UNCHANGED <<ackMessage, seqVars, radioCmd, lower, sentUp>>

\* Any other acknowledgement, and a frame for another node, is deleted
ReceiveOther(n) ==
    /\ Take(n)
    /\ \/ inbound[n].dest \notin {n, Broadcast}
       \/ inbound[n].kind = "ack" /\ ~AckExpected(n, inbound[n])
    /\ UNCHANGED <<macState, macQueue, timers, cycleVars, ackMessage, seqVars,
                   radioCmd, lower, upVars>>

-----------------------------------------------------------------------------
SendRequest(n) == \E d \in Flow[n] :
    SendRequestIdle(n, d) \/ SendRequestNotIdle(n, d) \/ SendRequestQueueFull(n, d)

TimerCca(n) == TimerCcaIdle(n) \/ TimerCcaBusy(n) \/ TimerCcaDrop(n)

TimerRxAck(n) == AckTimeoutRetry(n) \/ AckTimeoutDrop(n)

handleSelfMsg(n) == TimerBackoff(n) \/ TimerCca(n) \/ TimerSifs(n) \/ TimerRxAck(n)

FrameTransmitted(n) == \E R \in SUBSET (Node \ {n}) :
    UnicastTransmitted(n, R) \/ BroadcastTransmitted(n, R) \/ AckTransmitted(n, R)

handleLowerMsg(n) ==
    ReceiveData(n) \/ ReceiveBroadcast(n) \/ ReceiveAck(n) \/ ReceiveOther(n)

Next == \E n \in Node :
    SendRequest(n) \/ handleSelfMsg(n) \/ FrameTransmitted(n) \/ handleLowerMsg(n)

Spec == Init /\ [][Next]_vars

\* The simulation kernel executes every scheduled event: each timer fires, each
\* transmission ends, each decoded frame reaches the MAC.  Nothing is assumed of
\* the medium or of the upper layer.
Fairness == \A n \in Node :
    /\ WF_vars(handleSelfMsg(n))
    /\ WF_vars(FrameTransmitted(n))
    /\ WF_vars(handleLowerMsg(n))

FairSpec == Spec /\ Fairness

-----------------------------------------------------------------------------
(* Properties                                                               *)

\* In each state exactly the timer of that state is scheduled: no state lacks
\* the event that ends it, no timer fires where fsmError would delete it
\* (csma.cc:570), and none is scheduled twice, which the kernel refuses.
TimerOfState == \A n \in Node :
    /\ "backoffTimer" \in timers[n] <=> macState[n] = "BACKOFF_2"
    /\ "ccaTimer" \in timers[n] <=> macState[n] = "CCA_3"
    /\ "sifsTimer" \in timers[n] <=> macState[n] = "WAITSIFS_6"
    /\ "rxAckTimer" \in timers[n] <=> macState[n] = "WAITACK_5"

\* The physical layer holds a frame exactly while the MAC is in a transmit
\* state, and it is the head of the queue or an acknowledgement: the
\* transmission-over control never reaches a state that deletes it twice
\* (csma.cc:714 and 723), and the phy is never given a second frame.
OneTransmission == \A n \in Node :
    /\ macState[n] = "TRANSMITFRAME_4" =>
          Len(lower[n]) = 1 /\ Head(lower[n]) = Head(macQueue[n])
    /\ macState[n] = "TRANSMITACK_7" =>
          Len(lower[n]) = 1 /\ Head(lower[n]) \in Ack
    /\ macState[n] \notin {"TRANSMITFRAME_4", "TRANSMITACK_7"} => lower[n] = <<>>

\* A state that works on the head has a head: macQueue.front() of an empty list
\* is undefined.  An interrupted cycle still has its packet when it resumes.
HeadPresent == \A n \in Node :
    /\ macState[n] \in {"BACKOFF_2", "CCA_3", "TRANSMITFRAME_4", "WAITACK_5"}
          => macQueue[n] # <<>>
    /\ macState[n] = "IDLE_1" => macQueue[n] = <<>>
    /\ interrupted[n] => /\ macState[n] \in {"WAITSIFS_6", "TRANSMITACK_7"}
                         /\ macQueue[n] # <<>>

\* When the SIFS ends there is an acknowledgement to send.
AckReady == \A n \in Node : macState[n] = "WAITSIFS_6" => ackMessage[n] # NoFrame

\* The radio is in transmit mode only while the MAC sends or is about to: no
\* path back to a listening state forgets ENTER_RX.
NeverDeaf == \A n \in Node :
    radioCmd[n] = "ENTER_TX" <=>
       macState[n] \in {"TRANSMITFRAME_4", "WAITSIFS_6", "TRANSMITACK_7"}

\* The case the code logs as "Error ! Received a frame during SIFS !", where the
\* acknowledgement being prepared is overwritten, never happens.
NoFrameDuringSifs == \A n \in Node :
    inbound[n] # NoFrame => macState[n] \notin {"WAITSIFS_6", "TRANSMITACK_7"}

\* A packet is put on the air at most macMaxFrameRetries + 2 times, and the
\* number of backoffs of a cycle stays within its limit while it is in use.
BoundedEffort == \A n \in Node :
    /\ txCount[n] <= macMaxFrameRetries + 2
    /\ NB[n] <= macMaxCSMABackoffs + 1
    /\ macState[n] \in {"BACKOFF_2", "CCA_3"} => NB[n] <= macMaxCSMABackoffs
    /\ BE[n] <= macMaxBE

\* Packets of source n for d that are with the MAC, and verdicts given on them
Waiting(n, d, k) == {i \in DOMAIN macQueue[n] :
                        macQueue[n][i].dest = d /\ macQueue[n][i].seq = k}
Verdicts(n, d, k) == {i \in DOMAIN reports[n] :
                        reports[n][i].pkt.dest = d /\ reports[n][i].pkt.seq = k}

\* Every unicast packet taken from the upper layer is either in the queue, once,
\* or was answered, once, by MAC SUCCESS or MAC ERROR; a broadcast packet is
\* never in the queue and answered at the same time.
OneVerdict == \A n \in Node, d \in Address :
    /\ \A k \in 0 .. SeqNrParent[n][d] - 1 :
          LET places == Cardinality(Waiting(n, d, k)) + Cardinality(Verdicts(n, d, k))
          IN  IF d = Broadcast THEN places <= 1 ELSE places = 1
    /\ Verdicts(n, d, SeqNrParent[n][d]) = {}

\* Whatever is lost and sent again, a packet that is passed up is later than all
\* packets from the same source to the same address that were passed up before:
\* order is kept, and no retransmission is passed up twice.  CCA_3 is the
\* exception: it passes a duplicate up (csma.cc:333), against the comment of its
\* caller (csma.cc:677), "Duplicate Packet, count and do not send to upper layer".
UpInOrderOnce == [][\A n \in Node :
    sentUp'[n] # sentUp[n] /\ macState[n] # "CCA_3" =>
       LET new == sentUp'[n][Len(sentUp'[n])]
       IN  \A i \in DOMAIN sentUp[n] :
              sentUp[n][i].src = new.src /\ sentUp[n][i].dest = new.dest
              => sentUp[n][i].seq < new.seq]_vars

\* Between the frame that suspends a transmission cycle and its resumption in
\* manageQueue the cycle does not change: same packet, same counters.
ResumeAsSuspended ==
    [][\A n \in Node : interrupted[n] =>
          /\ NB'[n] = NB[n] /\ BE'[n] = BE[n] /\ txAttempts'[n] = txAttempts[n]
          /\ Head(macQueue'[n]) = Head(macQueue[n])]_vars

\* Every packet that is queued leaves the queue: no interleaving of receptions,
\* timers and requests strands the state machine with work to do.
QueueDrains == \A n \in Node : macQueue[n] # <<>> ~> macQueue[n] = <<>>

\* The history counter against the counter of the code: the head was sent once
\* per retransmission and once more if it is being sent or waits for its
\* acknowledgement.  Broadcast packets are never retransmitted.
AttemptsCounted == \A n \in Node :
    /\ txCount[n] = txAttempts[n] +
          (IF macState[n] \in {"TRANSMITFRAME_4", "WAITACK_5"} THEN 1 ELSE 0)
    /\ txAttempts[n] <= macMaxFrameRetries + 1
    /\ macState[n] = "WAITACK_5" \/ txAttempts[n] > 0
          => macQueue[n] # <<>> /\ Head(macQueue[n]).dest # Broadcast

\* Backoff counters while they are in use or suspended
CycleBounded == \A n \in Node :
    /\ BE[n] <= macMaxBE
    /\ NB[n] <= macMaxCSMABackoffs + 1
    /\ macState[n] \in {"BACKOFF_2", "CCA_3"} \/ interrupted[n]
          => NB[n] <= macMaxCSMABackoffs

\* The inductive invariant
IInv ==
    /\ TypeOK
    /\ TimerOfState
    /\ OneTransmission
    /\ HeadPresent
    /\ AckReady
    /\ NeverDeaf
    /\ NoFrameDuringSifs
    /\ AttemptsCounted
    /\ CycleBounded

==============================================================================
