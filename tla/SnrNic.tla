------------------------------- MODULE SnrNic -------------------------------
(***************************************************************************)
(* The lower half of a nic that is shared by Mac80211, CSMAMacLayer,       *)
(* AlohaMacLayer and BMACLayer: the radio (SingleChannelRadio), the        *)
(* receiver (BasicSnrEval, SnrEval), the deciders and the medium between   *)
(* the nics.  A nic is a record; its handlers are operators from records   *)
(* to records, because the kernel runs every handler, with the calls it    *)
(* makes through the blackboard, to its end.                               *)
(*                                                                         *)
(* Time is counted down: a timer is the time that is left, or Off.         *)
(* Events that are due at the same instant come in any order, but what one *)
(* module sends to another arrives in the order of sending.                *)
(***************************************************************************)
EXTENDS Integers, Sequences, FiniteSets, Functions, TLC

CONSTANTS
    Node,              \* the nics
    Power,             \* Power[s][r]: power at which r receives s; 0: out of range
    sensitivity,       \* least power that is a signal
    thermalNoise,
    SnrThreshold,      \* least clear signal to noise ratio of the decider
    publishRSSIAlways, \* publish the RSSI also in the middle of a reception
    swSleep, swSend, swRecv   \* durations of a switch of the radio

ASSUME SnrNicAssumption ==
    /\ Power \in [Node -> [Node -> Nat]]
    /\ sensitivity \in Nat \ {0} /\ thermalNoise \in Nat \ {0}
    /\ SnrThreshold \in Nat \ {0}
    /\ publishRSSIAlways \in BOOLEAN
    /\ {swSleep, swSend, swRecv} \subseteq Nat

VARIABLES
    nic,      \* nic[n]: radio and receiver of n
    arriving, \* arriving[n][s]: frames of s that start at n in this instant
    toMac     \* toMac[n]: what the nic of n has sent to its MAC

nicVars == <<nic, arriving, toMac>>

Off == -1
NoFrame == "no frame"
Steady == {"SLEEP", "RECV", "SEND"}
Switching == [SWITCH_TO_SLEEP |-> "SLEEP", SWITCH_TO_RECV |-> "RECV", SWITCH_TO_SEND |-> "SEND"]

NicInit ==
    [radioState |-> "RECV", switchTimer |-> Off, txOverTimer |-> Off,
     recvBuff |-> <<>>,      \* the frames on the air here: [frame, left, duration] per sender
     ptr |-> NoFrame,        \* the sender of the frame being received
     \* An entry of the SNR list keeps whether the signal was clear, and whether it
     \* was made now, earlier, or before the radio began to receive.
     sList |-> <<>>,
     missed |-> 0,           \* how much of that frame was over when it began
     noiseLevel |-> thermalNoise, rssi |-> thermalNoise, indication |-> "IDLE"]

InitNic ==
    /\ nic = [n \in Node |-> NicInit]
    /\ arriving = [n \in Node |-> [s \in Node |-> <<>>]]
    /\ toMac = [n \in Node |-> <<>>]

-----------------------------------------------------------------------------
(* SingleChannelRadio *)

SwitchTime(s) == CASE s = "SWITCH_TO_SLEEP" -> swSleep
                   [] s = "SWITCH_TO_SEND"  -> swSend
                   [] s = "SWITCH_TO_RECV"  -> swRecv

\* A command is refused, without a word, while the radio is switching.
CanSwitch(nc) == nc.radioState \in Steady

switchTo(nc, s) ==
    IF CanSwitch(nc) THEN [nc EXCEPT !.radioState = s, !.switchTimer = SwitchTime(s)]
                     ELSE nc

-----------------------------------------------------------------------------
(* SnrEval *)

clearNow(nc, s, noise, n) == Power[s][n] > SnrThreshold * noise

\* addNewSnr for the frame being received, with the noise as it is now
addNewSnr(nc, n) ==
    [nc EXCEPT !.sList = Append(@, [clear |-> clearNow(nc, nc.ptr, nc.noiseLevel, n),
                                    made |-> "now"])]

\* The radio has entered reception: recvTime is now.
EnterRecv(nc) ==
    [nc EXCEPT !.sList = [i \in DOMAIN @ |->
                             IF @[i].made = "earlier" THEN [@[i] EXCEPT !.made = "before"] ELSE @[i]],
               !.missed = IF nc.ptr = NoFrame THEN 0
                          ELSE nc.recvBuff[nc.ptr].duration - nc.recvBuff[nc.ptr].left]

\* The switch of the radio is over; the receiver notes it.
SwitchDone(nc) ==
    LET done == [nc EXCEPT !.radioState = Switching[nc.radioState], !.switchTimer = Off]
    IN  IF done.radioState = "RECV" THEN EnterRecv(done) ELSE done

\* The receiver keeps the frames on the air with their powers.
Heard(nc, s, frame, duration) ==
    [nc EXCEPT !.recvBuff = [x \in DOMAIN @ \cup {s} |->
        IF x = s THEN [frame |-> frame, left |-> duration, duration |-> duration] ELSE @[x]]]

IsSignal(nc, n, s) == nc.ptr = NoFrame /\ Power[s][n] >= sensitivity

\* Seeded fault: the power of the frame that is decoded is not in the RSSI
handleLowerMsgStartSilent(nc, n, s, frame, duration) ==
    LET heard == Heard(nc, s, frame, duration)
    IN  IF IsSignal(nc, n, s)
        THEN addNewSnr([heard EXCEPT !.ptr = s, !.sList = <<>>, !.missed = 0,
                                     !.indication = "BUSY"], n)
        ELSE [heard EXCEPT !.noiseLevel = @ + Power[s][n], !.rssi = @ + nc.noiseLevel + Power[s][n]]

handleLowerMsgStart(nc, n, s, frame, duration) ==
    LET heard == Heard(nc, s, frame, duration)
        noisier == [heard EXCEPT !.noiseLevel = @ + Power[s][n],
                                 !.rssi = @ + heard.noiseLevel + Power[s][n]]
    IN  CASE IsSignal(nc, n, s) ->
               [addNewSnr([heard EXCEPT !.ptr = s, !.sList = <<>>, !.missed = 0], n)
                  EXCEPT !.rssi = @ + Power[s][n], !.indication = "BUSY"]
          [] ~IsSignal(nc, n, s) /\ nc.ptr = NoFrame -> noisier
          [] OTHER -> addNewSnr(noisier, n)

handleLowerMsgEnd(nc, n, s) ==
    LET gone == [nc EXCEPT !.recvBuff = Restrict(@, DOMAIN @ \ {s})]
        quieter == [gone EXCEPT !.noiseLevel = @ - Power[s][n],
                                !.rssi = nc.noiseLevel - Power[s][n]]
    IN  CASE s = nc.ptr ->
               [gone EXCEPT !.ptr = NoFrame, !.sList = <<>>, !.missed = 0,
                            !.rssi = nc.noiseLevel, !.indication = "IDLE"]
          [] s # nc.ptr /\ nc.ptr = NoFrame -> quieter
          [] OTHER -> addNewSnr(quieter, n)

\* What SnrEval publishes on the blackboard in these handlers
StartPublishesMedium(nc, n, s) == IsSignal(nc, n, s) /\ nc.radioState = "RECV"
StartPublishesRSSI(nc, n, s) ==
    \/ StartPublishesMedium(nc, n, s)
    \/ nc.ptr = NoFrame /\ ~IsSignal(nc, n, s)
    \/ nc.ptr # NoFrame /\ publishRSSIAlways /\ nc.radioState = "RECV"
EndPublishesMedium(nc, s) == s = nc.ptr /\ nc.radioState = "RECV"
EndPublishesRSSI(nc, s) ==
    /\ nc.radioState = "RECV"
    /\ s # nc.ptr /\ nc.ptr # NoFrame => publishRSSIAlways

\* modifySnrList, when the first entry is older than the reception: the list is erased up to
\* the first entry that is not, or to the last if there is none.
modifySnrList(list) ==
    LET later == {i \in DOMAIN list : list[i].made # "before"}
        first == IF later = {} THEN Len(list) ELSE CHOOSE i \in later : \A j \in later : i <= j
    IN  SubSeq(list, first, Len(list))

\* The list that goes to the decider with the frame
SnrListUp(nc) == IF nc.sList[1].made = "before" THEN modifySnrList(nc.sList) ELSE nc.sList

\* SnrDecider::snrOverThreshold; Decider80211 compares the least with its threshold
snrOverThreshold(nc) == \A i \in DOMAIN SnrListUp(nc) : SnrListUp(nc)[i].clear

\* The frame that ends is handed to the decider.
GoesUp(nc, s) == s = nc.ptr /\ nc.radioState = "RECV"

-----------------------------------------------------------------------------
(* The medium and the clock *)

Reached(s) == {r \in Node \ {s} : Power[s][r] > 0}

\* sendDown: the frame starts at every nic in range, in this instant.
Transmit(s, frame) ==
    arriving' = [r \in Node |->
        IF r \in Reached(s) THEN [arriving[r] EXCEPT ![s] = Append(@, frame)] ELSE arriving[r]]

\* The next frame of s starts here; the end of an earlier one was scheduled before.
Starting(n, s) == arriving[n][s] # <<>> /\ s \notin DOMAIN nic[n].recvBuff
Ending(n, s) == s \in DOMAIN nic[n].recvBuff /\ nic[n].recvBuff[s].left = 0

NicTimers(nc) ==
    ({nc.switchTimer, nc.txOverTimer} \ {Off}) \cup {nc.recvBuff[s].left : s \in DOMAIN nc.recvBuff}

Later(t, d) == IF t = Off THEN Off ELSE t - d

NicAfter(nc, d) ==
    [nc EXCEPT !.switchTimer = Later(@, d), !.txOverTimer = Later(@, d),
               !.recvBuff = [s \in DOMAIN @ |-> [nc.recvBuff[s] EXCEPT !.left = @ - d]],
               !.sList = [i \in DOMAIN @ |->
                            IF @[i].made = "now" THEN [@[i] EXCEPT !.made = "earlier"] ELSE @[i]]]

\* Nothing of the nics is due before d units have passed.
NicsQuietFor(d) ==
    \A n \in Node : /\ toMac[n] = <<>>
                    /\ \A s \in Node : arriving[n][s] = <<>>
                    /\ \A t \in NicTimers(nic[n]) : d <= t

=============================================================================
