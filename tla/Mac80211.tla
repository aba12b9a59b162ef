------------------------------ MODULE Mac80211 ------------------------------
(***************************************************************************)
(* The 802.11b MAC (Mac80211) of every node, on the nics of SnrNic with    *)
(* Decider80211 and SnrEval80211.                                          *)
(*                                                                         *)
(* A handler of the MAC is an operator from its record to its next record. *)
(* What it commands (a switch of the radio, a frame to send, packets for   *)
(* the network layer) is put into the fields cmd, tx, up and dropped, and  *)
(* carried out by Run at the end of the event.                             *)
(***************************************************************************)
EXTENDS SnrNic

CONSTANTS
    SIFS, ST, DIFS, EIFS,      \* interframe spaces and slot time
    LENGTH_RTS, LENGTH_CTS, LENGTH_ACK, LENGTH_LARGE, LENGTH_SMALL, \* durations of frames
    RED_PHY_HEADER_DURATION,   \* what may be missed of a frame's beginning
    CW_MIN, CW_MAX, LONG_RETRY_LIMIT, SHORT_RETRY_LIMIT,
    queueLength, neighborhoodCacheSize,
    Dest,         \* Dest[n]: where the network layer of n sends to
    Size,         \* sizes of its packets: "large" ones take part in RTS/CTS
    L2BROADCAST,
    MaxPackets,   \* bound: packets that the network layers hand in
    MaxBitErrors  \* bound: clear frames that are hit by a bit error

ASSUME MacAssumption ==
    /\ {SIFS, ST, DIFS, EIFS, LENGTH_RTS, LENGTH_CTS, LENGTH_ACK, LENGTH_LARGE,
        LENGTH_SMALL, queueLength, LONG_RETRY_LIMIT, SHORT_RETRY_LIMIT} \subseteq Nat \ {0}
    /\ DIFS = 2 * ST + SIFS
    /\ {CW_MIN, CW_MAX, neighborhoodCacheSize, MaxPackets, MaxBitErrors} \subseteq Nat
    /\ CW_MIN <= CW_MAX
    /\ {L2BROADCAST, NoFrame} \cap Node = {}
    /\ Size \subseteq {"large", "small"}
    /\ Dest \in [Node -> SUBSET (Node \cup {L2BROADCAST})]

VARIABLES
    mac,       \* mac[n]: the MAC of n
    handedIn,  \* packets handed in so far; a packet is named by its number
    bitErrors, \* bit errors so far
    received,  \* received[n]: packets passed up at n, in order
    acked      \* packets deleted because they were acknowledged

vars == <<nicVars, mac, handedIn, bitErrors, received, acked>>

NoError == "none"

Duration(f) == CASE f.kind = "RTS" -> LENGTH_RTS
                 [] f.kind = "CTS" -> LENGTH_CTS
                 [] f.kind = "ACK" -> LENGTH_ACK
                 [] OTHER -> IF f.size = "large" THEN LENGTH_LARGE ELSE LENGTH_SMALL

rtsCts(f) == f.size = "large"

\* nextIsBroadcast is read before it is first written.
MacInit(broadcast, backoff) ==
    [state |-> "IDLE", fromUpperLayer |-> <<>>,
     contention |-> DIFS + backoff, contentionSet |-> DIFS + backoff,
     timeout |-> Off, nav |-> Off, endSifs |-> Off, sifsFrame |-> NoFrame,
     remainingBackoff |-> backoff, nextIsBroadcast |-> broadcast,
     longRetryCounter |-> 0, shortRetryCounter |-> 0,
     medium |-> "IDLE", switching |-> FALSE,
     neighbors |-> <<>>,       \* [address, fsc], the oldest first
     error |-> NoError,
     cmd |-> "none", tx |-> <<>>, up |-> <<>>, dropped |-> <<>>]

Init ==
    /\ InitNic
    /\ \E b \in [Node -> BOOLEAN], r \in [Node -> 0..CW_MIN] :
           mac = [n \in Node |-> MacInit(b[n], r[n] * ST)]
    /\ handedIn = 0 /\ bitErrors = 0
    /\ received = [n \in Node |-> <<>>]
    /\ acked = {}

-----------------------------------------------------------------------------
(* Timers, backoff and retries.  The kernel refuses a timer that is        *)
(* scheduled already, and the front of an empty queue does not exist:      *)
(* either ends the simulation, as error() does.                            *)

Fail(m, what) == [m EXCEPT !.error = IF @ = NoError THEN what ELSE @]
FailIf(m, bad, what) == IF bad THEN Fail(m, what) ELSE m

contentionWindow(m) ==
    LET cw == (CW_MIN + 1) * 2^m.longRetryCounter - 1
    IN  IF cw > CW_MAX THEN CW_MAX ELSE cw

\* The backoff that the number r, drawn at random, stands for
backoff(m, r) == (r % (contentionWindow(m) + 1)) * ST

NewBackoff(m, r) == [m EXCEPT !.remainingBackoff = backoff(m, r)]

TowardsZero(x) == IF x >= 0 THEN x \div ST ELSE -((-x) \div ST)

suspendContention(m, r) ==
    IF m.contention # Off
    THEN [m EXCEPT !.contention = Off,
                   !.remainingBackoff =
                       IF m.contentionSet - m.contention < DIFS
                       THEN m.contentionSet - DIFS
                       ELSE TowardsZero(m.contention - DIFS) * ST]
    ELSE IF m.remainingBackoff = 0 THEN NewBackoff(m, r) ELSE m

StartContention(m) ==
    [m EXCEPT !.contention = DIFS + m.remainingBackoff,
              !.contentionSet = DIFS + m.remainingBackoff]

StartTimeout(m, t) ==
    FailIf([m EXCEPT !.timeout = t], m.timeout # Off, "timeout scheduled twice")

\* handleRTSframe, and the ends of handleDATAframe and handleCTSframe
StartSifs(m, f) ==
    FailIf([m EXCEPT !.endSifs = SIFS, !.sifsFrame = f],
           m.endSifs # Off, "frame when SIFS scheduled")

PopFront(m) ==
    IF m.fromUpperLayer = <<>> THEN Fail(m, "queue is empty")
                               ELSE [m EXCEPT !.fromUpperLayer = Tail(@)]

testMaxAttempts(m) ==
    IF m.longRetryCounter >= LONG_RETRY_LIMIT \/ m.shortRetryCounter >= SHORT_RETRY_LIMIT
    THEN LET none == [m EXCEPT !.longRetryCounter = 0, !.shortRetryCounter = 0]
         IN  IF none.fromUpperLayer = <<>> THEN PopFront(none)
             ELSE [PopFront(none) EXCEPT !.dropped = Append(@, Head(m.fromUpperLayer))]
    ELSE m

beginNewCycle(m) ==
    LET t == testMaxAttempts(m)
        now == IF t.fromUpperLayer = <<>> THEN [t EXCEPT !.state = "IDLE"]
             ELSE [t EXCEPT !.state = "CONTEND",
                            !.nextIsBroadcast = Head(t.fromUpperLayer).dest = L2BROADCAST]
    IN  IF now.contention = Off /\ (now.state = "CONTEND" => now.medium = "IDLE")
        THEN StartContention(now) ELSE now

CountRetry(m) ==
    IF rtsCts(Head(m.fromUpperLayer)) THEN [m EXCEPT !.longRetryCounter = @ + 1]
                                      ELSE [m EXCEPT !.shortRetryCounter = @ + 1]

MarkRetry(m) == [m EXCEPT !.fromUpperLayer[1].retry = TRUE]

-----------------------------------------------------------------------------
(* Sending *)

Control(kind, n, dest, duration) ==
    [kind |-> kind, src |-> n, dest |-> dest, duration |-> duration,
     id |-> 0, retry |-> FALSE, size |-> "small"]

Send(m, f, state) == [m EXCEPT !.tx = <<f>>, !.state = state]

\* Seeded fault: a repeated frame is not marked as one
sendDATAframeUnmarked(m, n, afterCTS) ==
    LET p == Head(m.fromUpperLayer)
        f == [kind |-> "DATA", src |-> n, dest |-> p.dest, id |-> p.id, size |-> p.size,
              retry |-> FALSE, duration |-> IF rtsCts(p) THEN SIFS + LENGTH_ACK ELSE 0]
    IN  Send(StartTimeout(m, SIFS + Duration(f) + LENGTH_ACK), f, "WFACK")

sendDATAframe(m, n, afterCTS) ==
    LET p == Head(m.fromUpperLayer)
        f == [kind |-> "DATA", src |-> n, dest |-> p.dest, id |-> p.id, size |-> p.size,
              retry |-> p.retry \/ (~afterCTS /\ m.shortRetryCounter > 0),
              duration |-> IF rtsCts(p) THEN SIFS + LENGTH_ACK ELSE 0]
    IN  Send(StartTimeout(m, SIFS + Duration(f) + LENGTH_ACK), f, "WFACK")

sendACKframe(m, n, af) == Send(m, Control("ACK", n, af.src, 0), "BUSY")

sendRTSframe(m, n) ==
    LET p == Head(m.fromUpperLayer)
        rest == 3 * SIFS + LENGTH_CTS + LENGTH_LARGE + LENGTH_ACK
    IN  Send(StartTimeout(m, SIFS + LENGTH_RTS + LENGTH_CTS),
             Control("RTS", n, p.dest, rest), "WFCTS")

sendCTSframe(m, n, af) ==
    Send(StartTimeout(m, af.duration - LENGTH_ACK - 2 * SIFS),
         Control("CTS", n, af.src, af.duration - SIFS - LENGTH_CTS), "WFDATA")

sendBROADCASTframe(m, n) ==
    LET p == Head(m.fromUpperLayer)
    IN  Send(m, [kind |-> "BROADCAST", src |-> n, dest |-> p.dest, id |-> p.id,
                 size |-> p.size, retry |-> FALSE, duration |-> 0], "BUSY")

-----------------------------------------------------------------------------
(* Frames from the decider *)

findNeighbor(m, a) == {i \in DOMAIN m.neighbors : m.neighbors[i].address = a}

\* The list is kept in the order of its ages; only the oldest is overwritten.
addNeighbor(m, a) ==
    LET known == findNeighbor(m, a)
        at == CHOOSE i \in known : TRUE
        entry == [address |-> a, fsc |-> IF known = {} THEN 0 ELSE m.neighbors[at].fsc]
        others == IF known = {} THEN m.neighbors
                  ELSE SubSeq(m.neighbors, 1, at - 1)
                         \o SubSeq(m.neighbors, at + 1, Len(m.neighbors))
        room == IF Len(others) < neighborhoodCacheSize THEN others
                ELSE IF others = <<>> THEN <<>> ELSE Tail(others)
    IN  IF neighborhoodCacheSize = 0 THEN m ELSE [m EXCEPT !.neighbors = Append(room, entry)]

\* Seeded fault: every frame that is marked as a repeated one is taken for a duplicate
handleDATAframeByMark(m, af) ==
    LET now == IF rtsCts(af) THEN [m EXCEPT !.timeout = Off] ELSE m
    IN  StartSifs(IF af.retry THEN now ELSE [now EXCEPT !.up = Append(@, af.id)], af)

handleDATAframe(m, af) ==
    LET known == findNeighbor(m, af.src)
        now == IF rtsCts(af) THEN [m EXCEPT !.timeout = Off] ELSE m
        duplicate == \E i \in known : af.retry /\ m.neighbors[i].fsc = af.id
        taken == [now EXCEPT !.neighbors = [i \in DOMAIN @ |->
                                IF i \in known THEN [@[i] EXCEPT !.fsc = af.id] ELSE @[i]],
                             !.up = Append(@, af.id)]
    IN  IF known = {} THEN Fail(m, "neighbor not registered")
        ELSE StartSifs(IF duplicate THEN now ELSE taken, af)

handleACKframe(m, r) ==
    LET now == [m EXCEPT !.timeout = Off, !.longRetryCounter = 0, !.shortRetryCounter = 0]
    IN  beginNewCycle(PopFront(NewBackoff(now, r)))

\* Seeded fault: the timeout for the CTS is not cancelled
handleCTSframeTimerLeft(m, af) == StartSifs([m EXCEPT !.shortRetryCounter = 0], af)

handleCTSframe(m, af) ==
    StartSifs([m EXCEPT !.timeout = Off, !.shortRetryCounter = 0], af)

BusyError == "node is currently transmitting, can not receive"

handleMsgForMe(m, af, r) ==
    CASE m.state \in {"IDLE", "CONTEND"} /\ af.kind = "RTS" -> StartSifs(suspendContention(m, r), af)
      [] m.state \in {"IDLE", "CONTEND"} /\ af.kind = "DATA" ->
            handleDATAframe(suspendContention(m, r), af)
      [] m.state \in {"IDLE", "CONTEND"} /\ af.kind \notin {"RTS", "DATA"} ->
            Fail(m, "IDLE/CONTEND, strange message")
      [] m.state = "WFDATA" /\ af.kind = "DATA" -> handleDATAframe(m, af)
      [] m.state = "WFACK" /\ af.kind = "ACK" -> handleACKframe(m, r)
      [] m.state = "WFACK" /\ af.kind # "ACK" -> Fail(m, "WFACK, strange message")
      [] m.state = "WFCTS" /\ af.kind = "CTS" -> handleCTSframe(m, af)
      [] m.state = "BUSY" /\ ~m.switching -> Fail(m, BusyError)
      [] OTHER -> m

handleBroadcastMsg(m, af, r) ==
    LET t == [FailIf(m, m.state = "BUSY" /\ ~m.switching, BusyError) EXCEPT !.up = Append(@, af.id)]
    IN  IF t.state = "CONTEND" THEN beginNewCycle(suspendContention(t, r)) ELSE t

\* The exchange is given up, and the node defers for the given time.
Abort(m) ==
    LET now == [m EXCEPT !.timeout = Off]
        marked == IF m.state = "WFACK" THEN MarkRetry(now) ELSE now
    IN  IF m.timeout = Off THEN m
        ELSE IF m.state \in {"WFACK", "WFCTS"} THEN CountRetry(marked) ELSE marked

handleMsgNotForMe(m, duration, erroneous, r) ==
    LET deferring ==
            IF m.state = "QUIET" THEN [m EXCEPT !.nav = IF @ < duration THEN duration ELSE @]
            ELSE [suspendContention(FailIf([Abort(m) EXCEPT !.nav = duration],
                                           m.nav # Off, "NAV scheduled twice"), r)
                    EXCEPT !.state = "QUIET"]
        t == IF duration # 0 THEN deferring ELSE m
    IN  CASE t.state = "CONTEND" /\ erroneous ->
               [suspendContention(t, r) EXCEPT !.remainingBackoff = @ + EIFS]
          [] t.state = "CONTEND" /\ ~erroneous -> beginNewCycle(t)
          [] OTHER -> t

handleLowerMsg(m, n, af, r) ==
    LET t == addNeighbor(m, af.src)
    IN  CASE af.dest = n -> handleMsgForMe(t, af, r)
          [] af.dest = L2BROADCAST -> handleBroadcastMsg(t, af, r)
          [] OTHER -> handleMsgNotForMe(t, af.duration, FALSE, r)

handleEndTransmission(m, r) ==
    LET none == [m EXCEPT !.shortRetryCounter = 0, !.longRetryCounter = 0]
    IN  IF m.state # "BUSY" THEN m
        ELSE beginNewCycle(IF m.nextIsBroadcast THEN NewBackoff(none, r) ELSE m)

\* BITERROR is the decider's; COLLISION is sent by none.
handleLowerControl(m, kind, r) ==
    IF kind = "TRANSMISSION_OVER"
    THEN [handleEndTransmission(m, r) EXCEPT !.cmd = "SWITCH_TO_RECV"]
    ELSE handleMsgNotForMe(m, EIFS, TRUE, r)

-----------------------------------------------------------------------------
(* Timers *)

handleEndContentionTimer(m, n) ==
    LET now == [m EXCEPT !.contention = Off, !.remainingBackoff = 0]
        won == [now EXCEPT !.cmd = "SWITCH_TO_SEND"]
    IN  CASE m.state = "IDLE" -> now
          [] m.state = "CONTEND" /\ m.nextIsBroadcast -> PopFront(sendBROADCASTframe(won, n))
          [] m.state = "CONTEND" /\ ~m.nextIsBroadcast /\ rtsCts(Head(m.fromUpperLayer)) ->
                sendRTSframe(won, n)
          [] m.state = "CONTEND" /\ ~m.nextIsBroadcast /\ ~rtsCts(Head(m.fromUpperLayer)) ->
                sendDATAframe(won, n, FALSE)
          [] OTHER -> Fail([m EXCEPT !.contention = Off],
                           "expiration of the contention timer outside of CONTEND/IDLE")

handleNavTimer(m) ==
    LET now == [m EXCEPT !.nav = Off]
    IN  beginNewCycle(FailIf(now, m.state # "QUIET", "expiration of the NAV timer outside of QUIET"))

handleTimeoutTimer(m, r) ==
    LET now == [m EXCEPT !.timeout = Off]
        counted == CASE m.state = "WFCTS" -> [now EXCEPT !.longRetryCounter = @ + 1]
                     [] m.state = "WFACK" -> MarkRetry(CountRetry(now))
                     [] OTHER -> now
        drawn == IF m.state \in {"WFCTS", "WFACK"} THEN NewBackoff(counted, r) ELSE counted
    IN  IF m.state # "QUIET" THEN beginNewCycle(drawn) ELSE drawn

handleEndSifsTimer(m, n) ==
    LET now == [m EXCEPT !.endSifs = Off, !.sifsFrame = NoFrame, !.cmd = "SWITCH_TO_SEND"]
        af == m.sifsFrame
    IN  CASE af.kind = "RTS" -> sendCTSframe(now, n, af)
          [] af.kind = "CTS" -> sendDATAframe(now, n, TRUE)
          [] af.kind = "DATA" -> sendACKframe(now, n, af)

\* receiveBBItem, the medium: a reception begins in a SIFS, and cancels it.
MediumPublished(m, indication, r) ==
    LET t == [m EXCEPT !.medium = indication]
        s == IF t.state # "IDLE" THEN suspendContention(t, r) ELSE t
        cancelled == [s EXCEPT !.endSifs = Off, !.sifsFrame = NoFrame,
                               !.state = IF s.fromUpperLayer = <<>> THEN "IDLE" ELSE "CONTEND"]
    IN  CASE indication = "IDLE" -> t
          [] indication = "BUSY" /\ s.endSifs = Off -> s
          [] indication = "BUSY" /\ s.endSifs # Off -> cancelled

-----------------------------------------------------------------------------
(* Events *)

Commanded(nc, m) == IF m.cmd = "none" THEN nc ELSE switchTo(nc, m.cmd)

\* The end of an event: the commands of the MAC are carried out.
Run(n, m, nc) ==
    LET radio == Commanded(nc, m)
        sending == m.tx # <<>>
        done == FailIf(m, sending /\ nc.txOverTimer # Off, "txOverTimer scheduled twice")
    IN  /\ mac' = [mac EXCEPT ![n] =
                     [done EXCEPT !.cmd = "none", !.tx = <<>>, !.up = <<>>, !.dropped = <<>>,
                                  !.switching = IF radio.radioState # nc.radioState THEN TRUE ELSE @]]
        /\ nic' = [nic EXCEPT ![n] = IF sending THEN [radio EXCEPT !.txOverTimer = Duration(m.tx[1])]
                                                ELSE radio]
        /\ received' = [received EXCEPT ![n] = @ \o m.up]

Put(n, m, nc) ==
    /\ Run(n, m, nc)
    /\ IF m.tx = <<>> THEN UNCHANGED arriving ELSE Transmit(n, m.tx[1])

handleUpperMsg(n) ==
    /\ handedIn < MaxPackets
    /\ handedIn' = handedIn + 1
    /\ \E d \in Dest[n], s \in Size :
         LET p == [id |-> handedIn + 1, dest |-> d, size |-> s, retry |-> FALSE]
             m == [mac[n] EXCEPT !.fromUpperLayer = Append(@, p)]
         IN  IF Len(mac[n].fromUpperLayer) = queueLength
             THEN Put(n, [mac[n] EXCEPT !.dropped = Append(@, p)], nic[n])
             ELSE Put(n, IF m.state = "IDLE" /\ m.endSifs = Off THEN beginNewCycle(m) ELSE m, nic[n])
    /\ UNCHANGED <<toMac, bitErrors, acked>>

FromDecider(n) ==
    /\ toMac[n] # <<>>
    /\ LET af == Head(toMac[n])
           isAck == af.kind = "ACK" /\ af.dest = n /\ mac[n].state = "WFACK"
       IN  /\ \E r \in 0..CW_MAX :
                Put(n, IF af.kind \in {"BITERROR", "TRANSMISSION_OVER"}
                       THEN handleLowerControl(mac[n], af.kind, r)
                       ELSE handleLowerMsg(mac[n], n, af, r), nic[n])
           /\ acked' = IF isAck THEN acked \cup {Head(mac[n].fromUpperLayer).id} ELSE acked
    /\ toMac' = [toMac EXCEPT ![n] = Tail(@)]
    /\ UNCHANGED <<handedIn, bitErrors>>

FrameStart(n, s) ==
    /\ Starting(n, s)
    /\ LET f == Head(arriving[n][s])
       IN  /\ nic' = [nic EXCEPT ![n] = handleLowerMsgStart(@, n, s, f, Duration(f))]
           /\ \E r \in 0..CW_MAX :
                mac' = [mac EXCEPT ![n] = IF StartPublishesMedium(nic[n], n, s)
                                          THEN MediumPublished(@, "BUSY", r) ELSE @]
           /\ arriving' = [arriving EXCEPT ![n][s] = Tail(@)]
    /\ UNCHANGED <<toMac, handedIn, bitErrors, received, acked>>

\* Decider80211: clear enough, and little of the beginning missed
Recognised(nc) == snrOverThreshold(nc) /\ nc.missed < RED_PHY_HEADER_DURATION

BitError == [kind |-> "BITERROR"]
TransmissionOver == [kind |-> "TRANSMISSION_OVER"]

FrameEnd(n, s) ==
    /\ Ending(n, s)
    /\ nic' = [nic EXCEPT ![n] = handleLowerMsgEnd(@, n, s)]
    /\ \E r \in 0..CW_MAX :
          mac' = [mac EXCEPT ![n] = IF EndPublishesMedium(nic[n], s)
                                    THEN MediumPublished(@, "IDLE", r) ELSE @]
    /\ \/ /\ ~GoesUp(nic[n], s)
          /\ UNCHANGED <<toMac, bitErrors>>
       \/ /\ GoesUp(nic[n], s) /\ Recognised(nic[n])
          /\ toMac' = [toMac EXCEPT ![n] = Append(@, nic[n].recvBuff[s].frame)]
          /\ UNCHANGED bitErrors
       \/ /\ GoesUp(nic[n], s) /\ Recognised(nic[n]) /\ bitErrors < MaxBitErrors
          /\ toMac' = [toMac EXCEPT ![n] = Append(@, BitError)]
          /\ bitErrors' = bitErrors + 1
       \/ /\ GoesUp(nic[n], s) /\ ~Recognised(nic[n])
          /\ toMac' = [toMac EXCEPT ![n] = Append(@, BitError)]
          /\ UNCHANGED bitErrors
    /\ UNCHANGED <<arriving, handedIn, received, acked>>

\* The MAC hears of the new state before the receiver publishes the medium.
RadioSwitched(n) ==
    /\ nic[n].switchTimer = 0
    /\ nic' = [nic EXCEPT ![n] = SwitchDone(@)]
    /\ LET m == [mac[n] EXCEPT !.switching = FALSE]
       IN  \E r \in 0..CW_MAX :
             mac' = [mac EXCEPT ![n] = IF nic[n].radioState = "SWITCH_TO_RECV"
                                       THEN MediumPublished(m, nic[n].indication, r) ELSE m]
    /\ UNCHANGED <<arriving, toMac, handedIn, bitErrors, received, acked>>

TxOver(n) ==
    /\ nic[n].txOverTimer = 0
    /\ nic' = [nic EXCEPT ![n].txOverTimer = Off]
    /\ toMac' = [toMac EXCEPT ![n] = Append(@, TransmissionOver)]
    /\ UNCHANGED <<arriving, mac, handedIn, bitErrors, received, acked>>

Contention(n) ==
    /\ mac[n].contention = 0
    /\ Put(n, handleEndContentionTimer(mac[n], n), nic[n])
    /\ UNCHANGED <<toMac, handedIn, bitErrors, acked>>

Nav(n) ==
    /\ mac[n].nav = 0
    /\ Put(n, handleNavTimer(mac[n]), nic[n])
    /\ UNCHANGED <<toMac, handedIn, bitErrors, acked>>

EndSifs(n) ==
    /\ mac[n].endSifs = 0
    /\ Put(n, handleEndSifsTimer(mac[n], n), nic[n])
    /\ UNCHANGED <<toMac, handedIn, bitErrors, acked>>

MacTimers(m) == {m.contention, m.nav, m.endSifs} \ {Off}

QuietFor(d) == NicsQuietFor(d) /\ \A n \in Node : \A t \in MacTimers(mac[n]) : d <= t

\* A timeout is scheduled delta later than the moment it waits for.
Timeout(n) ==
    /\ mac[n].timeout = 0 /\ QuietFor(1)
    /\ \E r \in 0..CW_MAX : Put(n, handleTimeoutTimer(mac[n], r), nic[n])
    /\ UNCHANGED <<toMac, handedIn, bitErrors, acked>>

Pending == UNION {NicTimers(nic[n]) \cup MacTimers(mac[n]) \cup ({mac[n].timeout} \ {Off}) : n \in Node}

\* When no packet is left to be handed in, nothing can happen before the next timer.
Step == IF handedIn < MaxPackets \/ Pending = {} THEN 1
        ELSE CHOOSE t \in Pending : \A u \in Pending : t <= u

Elapsed(m, d) ==
    [m EXCEPT !.contention = Later(@, d), !.nav = Later(@, d),
              !.endSifs = Later(@, d), !.timeout = Later(@, d)]

Tick ==
    /\ Step \in Nat \ {0} /\ QuietFor(Step)
    /\ \A n \in Node : mac[n].timeout = Off \/ Step <= mac[n].timeout
    /\ nic' = [n \in Node |-> NicAfter(nic[n], Step)]
    /\ mac' = [n \in Node |-> Elapsed(mac[n], Step)]
    /\ UNCHANGED <<arriving, toMac, handedIn, bitErrors, received, acked>>

\* error() ends the simulation.
Next ==
    /\ \A n \in Node : mac[n].error = NoError
    /\ \/ \E n \in Node : \/ handleUpperMsg(n) \/ FromDecider(n) \/ RadioSwitched(n) \/ TxOver(n)
                          \/ Contention(n) \/ Nav(n) \/ EndSifs(n) \/ Timeout(n)
                          \/ \E s \in Node : FrameStart(n, s) \/ FrameEnd(n, s)
       \/ Tick

Spec == Init /\ [][Next]_vars

-----------------------------------------------------------------------------
(* Properties *)

\* No timer expires in a state that does not expect it, none is scheduled twice, no
\* SIFS begins within a SIFS, and the front of the queue is read only if there is one.
NoTimerError == \A n \in Node : mac[n].error \in {NoError, BusyError}

\* No packet is passed to a network layer twice.
NoDuplicateUp ==
    \A n \in Node : \A i, j \in DOMAIN received[n] : received[n][i] = received[n][j] => i = j

\* A packet that was deleted as acknowledged has been passed up somewhere.
AckedWasDelivered ==
    \A p \in acked : \E n \in Node : \E i \in DOMAIN received[n] : received[n][i] = p
=============================================================================
