-------------------------------- MODULE BMAC --------------------------------
(***************************************************************************)
(* BMACLayer, low power listening with preambles, on the nics of SnrNic    *)
(* with SnrDecider.  Every node sleeps and wakes up once in a slot to      *)
(* check the channel; a sender fills a whole slot with preambles before    *)
(* its data.  The commands of a handler are in the fields cmd, tx, up and  *)
(* dropped until Put carries them out.                                     *)
(***************************************************************************)
EXTENDS SnrNic

CONSTANTS
    queueLength,
    slotDuration,
    CheckTime,      \* how long the channel is listened to after a wakeup
    DataTimeout,    \* how long data is waited for
    SoonTime,       \* bound of the random delay of a wakeup that is due soon
    PreambleTime, DataTime,   \* durations of the frames
    Dest,           \* Dest[n]: where the network layer of n sends to
    L2BROADCAST,
    MaxPackets      \* bound: packets that the network layers hand in

ASSUME BMACAssumption ==
    /\ {queueLength, slotDuration, CheckTime, DataTimeout, SoonTime, PreambleTime, DataTime}
         \subseteq Nat \ {0}
    /\ MaxPackets \in Nat /\ {L2BROADCAST, NoFrame} \cap Node = {}
    /\ Dest \in [Node -> SUBSET (Node \cup {L2BROADCAST})]

VARIABLES
    mac,       \* mac[n]: the MAC of n
    handedIn,  \* packets handed in so far; a packet is named by its number
    received,  \* received[n]: packets passed up at n
    alone      \* alone[n]: history; no other node has sent since n began its preambles

vars == <<nicVars, mac, handedIn, received, alone>>

NoError == "none"

MacInit(w) ==
    [macState |-> "SLEEP", macQueue |-> <<>>, sendData |-> FALSE, indication |-> "IDLE",
     wakeup |-> w, checkChannel |-> Off, timeoutData |-> Off, sendPreambles |-> Off,
     error |-> NoError, cmd |-> "none", tx |-> <<>>, up |-> {}]

Init ==
    /\ InitNic
    /\ \E w \in [Node -> 0..(slotDuration - 1)] : mac = [n \in Node |-> MacInit(w[n])]
    /\ handedIn = 0
    /\ received = [n \in Node |-> {}]
    /\ alone = [n \in Node |-> TRUE]

Duration(f) == IF f.kind = "BMAC_CONTROL" THEN PreambleTime ELSE DataTime

-----------------------------------------------------------------------------
(* The MAC *)

FailIf(m, bad, what) == [m EXCEPT !.error = IF bad /\ @ = NoError THEN what ELSE @]

\* The kernel refuses a timer that is scheduled already.
ScheduleWakeup(m, t) == FailIf([m EXCEPT !.wakeup = t], m.wakeup # Off, "wakeup scheduled twice")
ScheduleTimeout(m) ==
    FailIf([m EXCEPT !.timeoutData = DataTimeout], m.timeoutData # Off, "timeoutData scheduled twice")

\* Seeded fault: the wakeup of a node with packets is left to handleUpperMsg
GoToSleepWithPackets(m, r) ==
    LET asleep == [m EXCEPT !.macState = "SLEEP", !.cmd = "SWITCH_TO_SLEEP"]
    IN  IF m.macQueue # <<>> THEN asleep ELSE ScheduleWakeup(asleep, slotDuration)

\* Back to sleep, until soon if something is in the queue (r, at random), else for a slot.
GoToSleep(m, r) ==
    ScheduleWakeup([m EXCEPT !.macState = "SLEEP", !.cmd = "SWITCH_TO_SLEEP"],
                   IF m.macQueue # <<>> THEN r ELSE slotDuration)

UpperMsg(m, p, r) ==
    LET q == IF Len(m.macQueue) <= queueLength THEN [m EXCEPT !.macQueue = Append(@, p)] ELSE m
    IN  IF m.wakeup # Off /\ m.macState = "SLEEP" THEN [q EXCEPT !.wakeup = r] ELSE q

sendPreamble(m, n) ==
    [m EXCEPT !.tx = <<[kind |-> "BMAC_CONTROL", src |-> n, dest |-> L2BROADCAST, id |-> 0]>>]

Wakeup(m) ==
    FailIf([m EXCEPT !.wakeup = Off, !.macState = "RX", !.cmd = "SWITCH_TO_RECV",
                     !.checkChannel = CheckTime],
           m.checkChannel # Off, "checkChannel scheduled twice")

CheckChannel(m) ==
    LET now == [m EXCEPT !.checkChannel = Off]
    IN  CASE m.indication = "BUSY" -> ScheduleTimeout(now)
          [] m.indication = "IDLE" /\ m.macQueue = <<>> -> GoToSleep(now, 0)
          [] m.indication = "IDLE" /\ m.macQueue # <<>> ->
               FailIf([now EXCEPT !.macState = "TX", !.cmd = "SWITCH_TO_SEND",
                                  !.sendPreambles = slotDuration],
                      m.sendPreambles # Off, "sendPreambles scheduled twice")

TimeoutData(m, r) == GoToSleep([m EXCEPT !.timeoutData = Off], r)

\* handleLowerMsg.
\* Seeded fault: the timer of the data that has come is left running
DataReceivedTimerLeft(m, n, f, r) ==
    GoToSleep([m EXCEPT !.checkChannel = Off,
                        !.up = IF f.dest \in {n, L2BROADCAST} THEN @ \cup {f.id} ELSE @], r)

DataReceived(m, n, f, r) ==
    GoToSleep([m EXCEPT !.timeoutData = Off, !.checkChannel = Off,
                        !.up = IF f.dest \in {n, L2BROADCAST} THEN @ \cup {f.id} ELSE @], r)

\* Seeded fault: a preamble does not renew the wait of a node that waits already
PreambleReceivedOnce(m) ==
    IF m.checkChannel # Off THEN ScheduleTimeout([m EXCEPT !.checkChannel = Off]) ELSE m

PreambleReceived(m) ==
    IF m.checkChannel # Off THEN ScheduleTimeout([m EXCEPT !.checkChannel = Off])
    ELSE IF m.timeoutData # Off THEN [m EXCEPT !.timeoutData = DataTimeout] ELSE m

TransmissionOver(m, n, r) ==
    CASE m.sendPreambles # Off -> sendPreamble(m, n)
      [] m.sendPreambles = Off /\ m.sendData /\ m.macQueue # <<>> ->
           [m EXCEPT !.tx = <<Head(m.macQueue)>>, !.macQueue = Tail(@), !.sendData = FALSE]
      [] m.sendPreambles = Off /\ m.sendData /\ m.macQueue = <<>> -> FailIf(m, TRUE, "queue is empty")
      [] m.sendPreambles = Off /\ ~m.sendData -> GoToSleep(m, r)

-----------------------------------------------------------------------------
(* Events *)

\* The end of an event: the commands of the MAC are carried out.
Put(n, m, nc) ==
    LET radio == IF m.cmd = "none" THEN nc ELSE switchTo(nc, m.cmd)
        sending == m.tx # <<>>
    IN  /\ mac' = [mac EXCEPT ![n] = [FailIf(m, sending /\ nc.txOverTimer # Off, "sending twice")
                                       EXCEPT !.cmd = "none", !.tx = <<>>, !.up = {}]]
        /\ nic' = [nic EXCEPT ![n] =
                     IF sending THEN [radio EXCEPT !.txOverTimer = Duration(m.tx[1])] ELSE radio]
        /\ IF sending THEN Transmit(n, m.tx[1]) ELSE UNCHANGED arriving
        /\ received' = [received EXCEPT ![n] = @ \cup m.up]

Soon == 0..(SoonTime - 1)

handleUpperMsg(n) ==
    /\ handedIn < MaxPackets
    /\ handedIn' = handedIn + 1
    /\ \E d \in Dest[n], r \in Soon :
         Put(n, UpperMsg(mac[n], [kind |-> "data", src |-> n, dest |-> d, id |-> handedIn + 1], r),
             nic[n])
    /\ UNCHANGED toMac

TransmissionOverMsg == [kind |-> "TRANSMISSION_OVER"]

FromNic(n) ==
    /\ toMac[n] # <<>>
    /\ LET f == Head(toMac[n]) IN
         \E r \in Soon :
           Put(n, CASE f.kind = "TRANSMISSION_OVER" -> TransmissionOver(mac[n], n, r)
                    [] f.kind = "BMAC_CONTROL" -> PreambleReceived(mac[n])
                    [] f.kind = "data" -> DataReceived(mac[n], n, f, r), nic[n])
    /\ toMac' = [toMac EXCEPT ![n] = Tail(@)]
    /\ UNCHANGED handedIn

WakeupTimer(n) ==
    /\ mac[n].wakeup = 0
    /\ Put(n, Wakeup(mac[n]), nic[n])
    /\ UNCHANGED <<toMac, handedIn>>

DataTimer(n) ==
    /\ mac[n].timeoutData = 0
    /\ \E r \in Soon : Put(n, TimeoutData(mac[n], r), nic[n])
    /\ UNCHANGED <<toMac, handedIn>>

PreamblesTimer(n) ==
    /\ mac[n].sendPreambles = 0
    /\ Put(n, [mac[n] EXCEPT !.sendPreambles = Off, !.sendData = TRUE], nic[n])
    /\ UNCHANGED <<toMac, handedIn>>

Published(m, indication) == [m EXCEPT !.indication = indication]

FrameStart(n, s) ==
    /\ Starting(n, s)
    /\ LET f == Head(arriving[n][s])
       IN  nic' = [nic EXCEPT ![n] = handleLowerMsgStart(@, n, s, f, Duration(f))]
    /\ mac' = [mac EXCEPT ![n] = IF StartPublishesMedium(nic[n], n, s)
                                 THEN Published(@, "BUSY") ELSE @]
    /\ arriving' = [arriving EXCEPT ![n][s] = Tail(@)]
    /\ UNCHANGED <<toMac, handedIn, received>>

FrameEnd(n, s) ==
    /\ Ending(n, s)
    /\ nic' = [nic EXCEPT ![n] = handleLowerMsgEnd(@, n, s)]
    /\ mac' = [mac EXCEPT ![n] = IF EndPublishesMedium(nic[n], s) THEN Published(@, "IDLE") ELSE @]
    /\ toMac' = IF GoesUp(nic[n], s) /\ snrOverThreshold(nic[n])
                THEN [toMac EXCEPT ![n] = Append(@, nic[n].recvBuff[s].frame)] ELSE toMac
    /\ UNCHANGED <<arriving, handedIn, received>>

\* In SEND the first preamble is sent; in RECV the receiver publishes the medium.
RadioSwitched(n) ==
    /\ nic[n].switchTimer = 0
    /\ LET entered == SwitchDone(nic[n])
       IN  Put(n, CASE entered.radioState = "SEND" /\ mac[n].macState = "TX" -> sendPreamble(mac[n], n)
                    [] entered.radioState = "RECV" -> Published(mac[n], entered.indication)
                    [] OTHER -> mac[n], entered)
    /\ UNCHANGED <<toMac, handedIn>>

TxOver(n) ==
    /\ nic[n].txOverTimer = 0
    /\ nic' = [nic EXCEPT ![n].txOverTimer = Off]
    /\ toMac' = [toMac EXCEPT ![n] = Append(@, TransmissionOverMsg)]
    /\ UNCHANGED <<arriving, mac, handedIn, received>>

MacTimers(m) == {m.wakeup, m.timeoutData, m.sendPreambles} \ {Off}

QuietFor(d) == NicsQuietFor(d) /\ \A n \in Node : \A t \in MacTimers(mac[n]) : d <= t

\* The nodes wake up at moments drawn from the reals: a check never coincides with the
\* moment between two preambles of a neighbour, and comes after the events of its unit.
CheckTimer(n) ==
    /\ mac[n].checkChannel = 0 /\ QuietFor(1)
    /\ Put(n, CheckChannel(mac[n]), nic[n])
    /\ UNCHANGED <<toMac, handedIn>>

Elapsed(m) ==
    [m EXCEPT !.wakeup = Later(@, 1), !.checkChannel = Later(@, 1),
              !.timeoutData = Later(@, 1), !.sendPreambles = Later(@, 1)]

Tick ==
    /\ QuietFor(1) /\ \A n \in Node : mac[n].checkChannel # 0
    /\ nic' = [n \in Node |-> NicAfter(nic[n], 1)]
    /\ mac' = [n \in Node |-> Elapsed(mac[n])]
    /\ UNCHANGED <<arriving, toMac, handedIn, received>>

Event ==
    \/ \E n \in Node : \/ handleUpperMsg(n) \/ FromNic(n) \/ RadioSwitched(n) \/ TxOver(n)
                       \/ WakeupTimer(n) \/ CheckTimer(n) \/ DataTimer(n) \/ PreamblesTimer(n)
                       \/ \E s \in Node : FrameStart(n, s) \/ FrameEnd(n, s)
    \/ Tick

Sends(n) == mac[n].macState = "TX"

\* A refused timer ends the simulation.
Next ==
    /\ \A n \in Node : mac[n].error = NoError
    /\ Event
    /\ alone' = [n \in Node |-> Sends(n)' => /\ Sends(n) => alone[n]
                                           /\ \A o \in Node \ {n} : ~Sends(o)']

Spec == Init /\ [][Next]_vars

FairSpec == Spec /\ WF_vars(Next)

-----------------------------------------------------------------------------
(* Properties *)

\* No timer is scheduled twice, and there is data to send when the preambles are over.
NoTimerError == \A n \in Node : mac[n].error = NoError

\* The kernel stops the simulation for one reason only: data is passed up at a node whose
\* MAC sleeps and has its wakeup scheduled (its radio was never put to sleep, or not yet).
\* All the other timers are right, whatever the order of packets, preambles and timeouts.
OnlySleepersFail ==
    [][\A n \in Node :
         mac'[n].error # mac[n].error =>
           mac[n].macState = "SLEEP" /\ toMac[n] # <<>> /\ Head(toMac[n]).kind = "data"]_vars

DataBegins(s, n) ==
    /\ arriving[n][s] # <<>> /\ Head(arriving[n][s]).kind = "data"
    /\ arriving'[n][s] = <<>>

\* The data of s that begins now finds n awake.  The time of one preamble is allowed for:
\* who gave up waiting for data while the first preamble was on the air sleeps for a slot.
DataFindsReceiver(n) ==
    mac[n].macState # "SLEEP" \/ mac[n].wakeup <= swSend + PreambleTime

\* A node that has been the only one to send since its first preamble has woken its
\* neighbours when its data begins: whatever the moment of their wakeups, a slot full of
\* preambles meets every check of the channel, and keeps those awake that have met one.
\* Those that have packets to send themselves put off their wakeup, perhaps past the data.
PreamblesWakeNeighbours ==
    [][\A s, n \in Node :
         DataBegins(s, n) /\ alone[s] /\ mac[n].macQueue = <<>> => DataFindsReceiver(n)]_vars

\* What is queued is sent, in turn: a MAC that finds the channel busy, has lost the data
\* that it waited for or was refused a switch of the radio does not stay where it is.
QueueDrains ==
    \A n \in Node : []<>(mac[n].macQueue = <<>> \/ ~NoTimerError)
=============================================================================
