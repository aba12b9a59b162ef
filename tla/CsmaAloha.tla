----------------------------- MODULE CsmaAloha -----------------------------
(***************************************************************************)
(* CSMAMacLayer (non-persistent CSMA) and AlohaMacLayer on the nics of     *)
(* SnrNic with SnrDecider, in one air.  As in Mac80211, a handler is an    *)
(* operator on the record of a MAC; the fields cmd, tx, up and dropped     *)
(* hold what it commands until Run carries it out.                         *)
(***************************************************************************)
EXTENDS SnrNic

CONSTANTS
    CsmaNode,       \* the nodes that run CSMAMacLayer; the others run AlohaMacLayer
    queueLength,
    busyRSSI,       \* RSSI from which the channel is busy
    difs, slotDuration, maxTxAttempts, initialCW,
    Dest,           \* Dest[n]: where the network layer of n sends to
    L2BROADCAST,
    FrameTime,      \* duration of a frame
    MaxPackets      \* bound: packets that the network layers hand in

AlohaNode == Node \ CsmaNode

ASSUME CsmaAlohaAssumption ==
    /\ CsmaNode \subseteq Node
    /\ {queueLength, busyRSSI, difs, slotDuration, FrameTime, initialCW} \subseteq Nat \ {0}
    /\ {maxTxAttempts, MaxPackets} \subseteq Nat
    /\ maxTxAttempts + 1 < initialCW      \* intrand needs a positive range
    /\ L2BROADCAST \notin Node

VARIABLES
    mac,       \* mac[n]: the MAC of n
    handedIn,  \* packets handed in so far; a packet is named by its number
    received,  \* received[n]: packets passed up at n
    refused    \* packets reported as dropped

csmaAlohaVars == <<nicVars, mac, handedIn, received, refused>>

NoError == "none"
EmptyQueue == "queue is empty"

MacInit ==
    [macState |-> "RX", macQueue |-> <<>>, backoffTimer |-> Off, minorMsg |-> Off,
     txAttempts |-> 0, rssi |-> thermalNoise, error |-> NoError,
     cmd |-> "none", tx |-> <<>>, up |-> {}, dropped |-> {}]

CsmaAlohaInit ==
    /\ InitNic
    /\ mac = [n \in Node |-> MacInit]
    /\ handedIn = 0
    /\ received = [n \in Node |-> {}]
    /\ refused = {}

Duration(f) == FrameTime

-----------------------------------------------------------------------------
(* Both MACs *)

FailIf(m, bad, what) == [m EXCEPT !.error = IF bad /\ @ = NoError THEN what ELSE @]

DropFront(m) ==
    IF m.macQueue = <<>> THEN FailIf(m, TRUE, EmptyQueue)
    ELSE [m EXCEPT !.macQueue = Tail(@), !.dropped = @ \cup {Head(m.macQueue).id}]

\* The radio is in SEND.
SendFront(m) ==
    IF m.macQueue = <<>> THEN FailIf(m, TRUE, EmptyQueue)
    ELSE [m EXCEPT !.macQueue = Tail(@), !.tx = <<Head(m.macQueue)>>]

\* BasicMacLayer::handleLowerMsg
PassUp(m, n, f) == IF f.dest \in {n, L2BROADCAST} THEN [m EXCEPT !.up = @ \cup {f.id}] ELSE m

-----------------------------------------------------------------------------
(* CSMAMacLayer *)

\* intrand(initialCW - txAttempts) slots, and up to two slots more
WaitingTime(m, r) == r % ((initialCW - m.txAttempts + 1) * slotDuration)

scheduleBackoff(m, r) ==
    LET t == IF m.txAttempts > maxTxAttempts THEN [DropFront(m) EXCEPT !.txAttempts = 0] ELSE m
        now == [FailIf(t, t.backoffTimer # Off, "backoff scheduled twice")
                EXCEPT !.txAttempts = @ + 1, !.minorMsg = Off,
                       !.macState = IF t.minorMsg # Off THEN "RX" ELSE @]
    IN  IF t.macQueue = <<>> THEN t ELSE [now EXCEPT !.backoffTimer = WaitingTime(now, r)]

BackoffUnlessScheduled(m, r) == IF m.backoffTimer = Off THEN scheduleBackoff(m, r) ELSE m

CsmaUpperMsg(m, p, r) ==
    LET q == [m EXCEPT !.macQueue = Append(@, p)]
    IN  CASE Len(m.macQueue) > queueLength -> [m EXCEPT !.dropped = @ \cup {p.id}]
          [] Len(m.macQueue) = 0 /\ m.macState = "RX" /\ m.backoffTimer = Off -> scheduleBackoff(q, r)
          [] OTHER -> q

CsmaBackoffExpires(m, nc, r) ==
    LET now == [m EXCEPT !.backoffTimer = Off]
    IN  CASE m.macState # "RX" -> FailIf(now, TRUE, "backoffTimer expired, MAC in wrong state")
          [] m.macState = "RX" /\ m.macQueue = <<>> -> now
          [] m.macState = "RX" /\ m.macQueue # <<>> /\ nc.radioState # "RECV" ->
                [now EXCEPT !.macState = "CCA"]
          [] m.macState = "RX" /\ m.macQueue # <<>> /\ nc.radioState = "RECV" ->
                IF m.rssi < busyRSSI
                THEN FailIf([now EXCEPT !.macState = "CCA", !.minorMsg = difs],
                            m.minorMsg # Off, "minClear scheduled twice")
                ELSE scheduleBackoff(now, r)

CsmaMinorExpires(m, nc, r) ==
    LET now == [m EXCEPT !.minorMsg = Off]
    IN  CASE ~(m.macState = "CCA" /\ nc.radioState = "RECV") ->
               FailIf(now, TRUE, "minClearTimer fired -- channel or mac in wrong state")
          [] m.macState = "CCA" /\ nc.radioState = "RECV" /\ m.rssi < busyRSSI ->
               [now EXCEPT !.macState = "TX", !.cmd = "SWITCH_TO_SEND"]
          [] OTHER -> BackoffUnlessScheduled([now EXCEPT !.macState = "RX"], r)

\* receiveBBItem, catRSSI.
\* Seeded fault: the channel that turns busy does not stop the assessment
RssiPublishedLate(m, nc) ==
    LET t == [m EXCEPT !.rssi = nc.rssi]
    IN  IF nc.radioState = "RECV" /\ nc.rssi >= busyRSSI
        THEN [t EXCEPT !.backoffTimer = Off, !.macState = "RX"] ELSE t

RssiPublished(m, nc) ==
    LET t == [m EXCEPT !.rssi = nc.rssi]
    IN  CASE nc.radioState = "RECV" /\ nc.rssi < busyRSSI /\ m.macState = "CCA" /\ m.minorMsg = Off ->
               [t EXCEPT !.minorMsg = difs]
          [] nc.radioState = "RECV" /\ nc.rssi >= busyRSSI ->
               [t EXCEPT !.minorMsg = Off, !.backoffTimer = Off, !.macState = "RX"]
          [] OTHER -> t

CsmaLowerMsg(m, n, f, r) == BackoffUnlessScheduled(PassUp(m, n, f), r)

CsmaTransmissionOver(m, r) ==
    BackoffUnlessScheduled([m EXCEPT !.macState = "RX", !.cmd = "SWITCH_TO_RECV", !.txAttempts = 0], r)

-----------------------------------------------------------------------------
(* AlohaMacLayer *)

prepareSend(m, nc) ==
    IF m.macQueue # <<>> /\ CanSwitch(nc)
    THEN [m EXCEPT !.cmd = "SWITCH_TO_SEND", !.macState = "TX"] ELSE m

AlohaUpperMsg(m, nc, p) ==
    LET q == [m EXCEPT !.macQueue = Append(@, p)]
    IN  CASE Len(m.macQueue) > queueLength -> [m EXCEPT !.dropped = @ \cup {p.id}]
          [] Len(m.macQueue) = 0 /\ m.macState = "RX" -> prepareSend(q, nc)
          [] OTHER -> q

AlohaTransmissionOver(m) == [m EXCEPT !.macState = "RX", !.cmd = "SWITCH_TO_RECV"]

\* Seeded fault: what has waited for the end of the switch to RECV goes on waiting
AlohaRadioPublishedWaits(m, nc) ==
    IF m.macState = "TX" /\ nc.radioState = "SEND" THEN SendFront(m) ELSE m

AlohaRadioPublished(m, nc) ==
    CASE m.macState = "TX" /\ nc.radioState = "SEND" -> SendFront(m)
      [] m.macState = "RX" /\ nc.radioState = "RECV" -> prepareSend(m, nc)
      [] OTHER -> m

-----------------------------------------------------------------------------
(* Events *)

\* The end of an event: the commands of the MAC are carried out.
Put(n, m, nc) ==
    LET radio == IF m.cmd = "none" THEN nc ELSE switchTo(nc, m.cmd)
        sending == m.tx # <<>>
    IN  /\ mac' = [mac EXCEPT ![n] = [FailIf(m, sending /\ nc.txOverTimer # Off, "sending twice")
                                       EXCEPT !.cmd = "none", !.tx = <<>>, !.up = {}, !.dropped = {}]]
        /\ nic' = [nic EXCEPT ![n] =
                     IF sending THEN [radio EXCEPT !.txOverTimer = FrameTime] ELSE radio]
        /\ IF sending THEN Transmit(n, m.tx[1]) ELSE UNCHANGED arriving
        /\ received' = [received EXCEPT ![n] = @ \cup m.up]
        /\ refused' = refused \cup m.dropped

Draw == 0..(initialCW * slotDuration - 1)

handleUpperMsg(n) ==
    /\ handedIn < MaxPackets
    /\ handedIn' = handedIn + 1
    /\ \E d \in Dest[n], r \in Draw :
         LET p == [id |-> handedIn + 1, dest |-> d]
         IN  Put(n, IF n \in CsmaNode THEN CsmaUpperMsg(mac[n], p, r)
                                      ELSE AlohaUpperMsg(mac[n], nic[n], p), nic[n])
    /\ UNCHANGED toMac

TransmissionOver == [id |-> 0, dest |-> "control"]

FromNic(n) ==
    /\ toMac[n] # <<>>
    /\ LET f == Head(toMac[n]) IN
         \E r \in Draw :
           Put(n, CASE f = TransmissionOver /\ n \in CsmaNode -> CsmaTransmissionOver(mac[n], r)
                    [] f = TransmissionOver /\ n \in AlohaNode -> AlohaTransmissionOver(mac[n])
                    [] f # TransmissionOver /\ n \in CsmaNode -> CsmaLowerMsg(mac[n], n, f, r)
                    [] f # TransmissionOver /\ n \in AlohaNode -> PassUp(mac[n], n, f), nic[n])
    /\ toMac' = [toMac EXCEPT ![n] = Tail(@)]
    /\ UNCHANGED handedIn

BackoffTimer(n) ==
    /\ mac[n].backoffTimer = 0
    /\ \E r \in Draw : Put(n, CsmaBackoffExpires(mac[n], nic[n], r), nic[n])
    /\ UNCHANGED <<toMac, handedIn>>

MinorMsg(n) ==
    /\ mac[n].minorMsg = 0
    /\ \E r \in Draw : Put(n, CsmaMinorExpires(mac[n], nic[n], r), nic[n])
    /\ UNCHANGED <<toMac, handedIn>>

FrameStart(n, s) ==
    /\ Starting(n, s)
    /\ LET nc == handleLowerMsgStart(nic[n], n, s, Head(arriving[n][s]), FrameTime)
       IN  /\ nic' = [nic EXCEPT ![n] = nc]
           /\ mac' = [mac EXCEPT ![n] = IF n \in CsmaNode /\ StartPublishesRSSI(nic[n], n, s)
                                        THEN RssiPublished(@, nc) ELSE @]
    /\ arriving' = [arriving EXCEPT ![n][s] = Tail(@)]
    /\ UNCHANGED <<toMac, handedIn, received, refused>>

FrameEnd(n, s) ==
    /\ Ending(n, s)
    /\ LET nc == handleLowerMsgEnd(nic[n], n, s)
       IN  /\ nic' = [nic EXCEPT ![n] = nc]
           /\ mac' = [mac EXCEPT ![n] = IF n \in CsmaNode /\ EndPublishesRSSI(nic[n], s)
                                        THEN RssiPublished(@, nc) ELSE @]
    /\ toMac' = IF GoesUp(nic[n], s) /\ snrOverThreshold(nic[n])
                THEN [toMac EXCEPT ![n] = Append(@, nic[n].recvBuff[s].frame)] ELSE toMac
    /\ UNCHANGED <<arriving, handedIn, received, refused>>

\* The MAC hears of the new state before the receiver does.  A MAC that switches the
\* radio in its callback hides the state that was entered: the receiver, which is
\* told after it, is told the state that the radio has then.
RadioSwitched(n) ==
    /\ nic[n].switchTimer = 0
    /\ LET done == [nic[n] EXCEPT !.radioState = Switching[@], !.switchTimer = Off]
           entered == SwitchDone(nic[n])
           aloha == AlohaRadioPublished(mac[n], done)
           csma == IF mac[n].macState = "TX" /\ done.radioState = "SEND" THEN SendFront(mac[n])
                   ELSE IF done.radioState = "RECV" THEN RssiPublished(mac[n], entered) ELSE mac[n]
       IN  IF n \in CsmaNode THEN Put(n, csma, entered)
           ELSE Put(n, aloha, IF aloha.cmd = "none" THEN entered ELSE done)
    /\ UNCHANGED <<toMac, handedIn>>

TxOver(n) ==
    /\ nic[n].txOverTimer = 0
    /\ nic' = [nic EXCEPT ![n].txOverTimer = Off]
    /\ toMac' = [toMac EXCEPT ![n] = Append(@, TransmissionOver)]
    /\ UNCHANGED <<arriving, mac, handedIn, received, refused>>

MacTimers(m) == {m.backoffTimer, m.minorMsg} \ {Off}

Pending == UNION {NicTimers(nic[n]) \cup MacTimers(mac[n]) : n \in Node}

\* When no packet is left to be handed in, nothing can happen before the next timer.
Step == IF handedIn < MaxPackets \/ Pending = {} THEN 1
        ELSE CHOOSE t \in Pending : \A u \in Pending : t <= u

Tick ==
    /\ Step > 0 /\ NicsQuietFor(Step) /\ \A t \in Pending : Step <= t
    /\ nic' = [n \in Node |-> NicAfter(nic[n], Step)]
    /\ mac' = [n \in Node |-> [mac[n] EXCEPT !.backoffTimer = Later(@, Step),
                                             !.minorMsg = Later(@, Step)]]
    /\ UNCHANGED <<arriving, toMac, handedIn, received, refused>>

\* error() ends the simulation.
CsmaAlohaNext ==
    /\ \A n \in Node : mac[n].error = NoError
    /\ \/ \E n \in Node : \/ handleUpperMsg(n) \/ FromNic(n) \/ RadioSwitched(n) \/ TxOver(n)
                          \/ BackoffTimer(n) \/ MinorMsg(n)
                          \/ \E s \in Node : FrameStart(n, s) \/ FrameEnd(n, s)
       \/ Tick

CsmaAlohaSpec == CsmaAlohaInit /\ [][CsmaAlohaNext]_csmaAlohaVars

-----------------------------------------------------------------------------
(* Properties *)

\* No timer expires in a state of the MAC that does not expect it, and none is
\* scheduled twice.
NoTimerError == \A n \in Node : mac[n].error \in {NoError, EmptyQueue}

\* A packet of an Aloha node waits only while the radio is on its way to RECV,
\* or the end of the transmission before it is on its way to the MAC.
AlohaKeepsSending ==
    \A n \in AlohaNode :
        mac[n].macQueue # <<>> /\ mac[n].macState = "RX" => nic[n].radioState = "SWITCH_TO_RECV"

\* The node does not begin to send in the middle of a frame that it is decoding.
SendsOverNoReception ==
    [][\A n \in CsmaNode : mac[n].macState # "TX" /\ mac'[n].macState = "TX" => nic[n].ptr = NoFrame]_csmaAlohaVars
=============================================================================
