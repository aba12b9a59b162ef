--------------------------- MODULE RadioAccNoise3 ---------------------------
(***************************************************************************)
(* The radio (SingleChannelRadioAccNoise3), the receiver that follows it   *)
(* through the blackboard (SnrEvalRadioAccNoise3) and the decider of one   *)
(* network interface.                                                      *)
(*                                                                         *)
(* The MAC gives commands and the channel starts and ends frames at any    *)
(* time.  A publication on the blackboard is a synchronous call: the       *)
(* reaction of the receiver belongs to the action of the radio.  Delays    *)
(* are abstracted: the switch timer fires at any time after it was set.    *)
(* Received powers are integers; bit error rates decide nothing here, the  *)
(* draws that compare against them may go either way.                      *)
(***************************************************************************)
EXTENDS Integers, Sequences, FiniteSetsExt

CONSTANTS
    AirFrame,             \* frames of the channel
    Power,                \* Power[f]: received power of f here, calcRcvdPower
    thermalNoise,
    compatibilityMode,
    NoFrame,              \* the null pointer
    MaxFrames             \* bound: frames started

ASSUME PowerAssumption ==
    /\ Power \in [AirFrame -> Nat \ {0}]    \* assert(recvBuff[frame] > 0)
    /\ thermalNoise \in Nat \ {0}
    /\ compatibilityMode \in BOOLEAN
    /\ NoFrame \notin AirFrame
    /\ MaxFrames \in Nat

Steady == {"SLEEP", "RX", "TX"}
RadioAccNoise3State == Steady \cup {"SETUP_RX", "SETUP_TX", "SWITCH_RX_TX", "SWITCH_TX_RX"}
RadioState == {"SLEEP", "RECV", "SEND", "SWITCH_TO_RECV", "SWITCH_TO_SEND"}
Command == {"ENTER_SLEEP", "ENTER_RX", "ENTER_TX"}
NoTimer == "NONE"
Snr == [power : Nat, noise : Int]

VARIABLES
    detailedState, \* of the radio
    state,         \* the coarse RadioState it also publishes
    timer,         \* state the switch timer is set for, or NoTimer
    radioState,    \* the receiver's copy of detailedState
    phyState,      \* MONITOR, SYNC or DECODING
    recvBuff,      \* frames on the air at this node
    rssi, noiseLevel,
    snrInfo,       \* ptr, rcvdPower and sList of the frame being decoded
    indication,    \* of the medium, IDLE or BUSY
    busRSSI,       \* the values last published
    busIndication,
    started        \* frames started

VARIABLES          \* history, read by properties only
    lastCommand,   \* last command of the MAC
    hasty,         \* it came between another command and the event that executes it
    worstNoise,    \* highest noise since the decoding began
    sentUp         \* last frame passed to the MAC, its noise and what was reported

radioVars == <<detailedState, state, timer, lastCommand, hasty>>
busVars   == <<indication, busIndication>>
radioNicVars == <<radioVars, radioState, phyState, recvBuff, rssi, noiseLevel, snrInfo,
          busVars, busRSSI, started, worstNoise, sentUp>>

NoReport == [frame |-> NoFrame, worst |-> 0, reported |-> 0]

RadioTypeOK ==
    /\ detailedState \in RadioAccNoise3State
    /\ state \in RadioState
    /\ timer \in RadioAccNoise3State \cup {NoTimer}
    /\ lastCommand \in Command \cup {"NONE"}
    /\ hasty \in BOOLEAN

PhyTypeOK ==
    /\ radioState \in RadioAccNoise3State
    /\ phyState \in {"MONITOR", "SYNC", "DECODING"}
    /\ recvBuff \in SUBSET AirFrame
    /\ rssi \in Int /\ noiseLevel \in Int
    /\ snrInfo \in [ptr : AirFrame \cup {NoFrame}, rcvdPower : Nat, sList : Seq(Snr)]
    /\ worstNoise \in Int

BusTypeOK ==
    /\ indication \in {"IDLE", "BUSY"} /\ busIndication \in {"IDLE", "BUSY"}
    /\ busRSSI \in Int

RadioNicTypeOK == RadioTypeOK /\ PhyTypeOK /\ BusTypeOK

\* Stage 0 sets detailedState to RX in compatibility mode and then, in every
\* mode, to SLEEP.  Stage 1 of the base class publishes RECV.
RadioInit ==
    /\ detailedState = "SLEEP" /\ state = "RECV" /\ timer = NoTimer
    /\ lastCommand = "NONE" /\ hasty = FALSE

PhyInit ==
    /\ radioState = "SLEEP" /\ phyState = "MONITOR"
    /\ recvBuff = {}
    /\ rssi = thermalNoise /\ noiseLevel = thermalNoise
    /\ snrInfo = [ptr |-> NoFrame, rcvdPower |-> 0, sList |-> <<>>]
    /\ indication = "IDLE" /\ busIndication = "IDLE"
    /\ busRSSI = thermalNoise
    /\ worstNoise = 0 /\ sentUp = NoReport

RadioNicInit == RadioInit /\ PhyInit /\ started = 0

-----------------------------------------------------------------------------
(* SingleChannelRadioAccNoise3                                              *)

\* Seeded fault: the radio being set up to receive ignores ENTER_TX
RequestedNotInSetup(c) ==
    IF c = "ENTER_SLEEP" THEN "SLEEP"
    ELSE IF c = "ENTER_TX"
         THEN IF detailedState \in {"SLEEP", "SETUP_TX"} THEN "SETUP_TX"
              ELSE IF detailedState \in {"TX", "SETUP_RX"} THEN timer ELSE "SWITCH_RX_TX"
         ELSE IF detailedState \in {"SLEEP", "SETUP_TX", "SETUP_RX"} THEN "SETUP_RX"
              ELSE IF detailedState = "RX" THEN timer ELSE "SWITCH_TX_RX"

\* The transient state through which command c is carried out; none if the
\* radio is in the state already, and then a pending switch stays pending.
Requested(c) ==
    IF c = "ENTER_SLEEP" THEN "SLEEP"
    ELSE IF c = "ENTER_TX"
         THEN IF detailedState \in {"SLEEP", "SETUP_TX", "SETUP_RX"} THEN "SETUP_TX"
              ELSE IF detailedState = "TX" THEN timer ELSE "SWITCH_RX_TX"
         ELSE IF detailedState \in {"SLEEP", "SETUP_TX", "SETUP_RX"} THEN "SETUP_RX"
              ELSE IF detailedState = "RX" THEN timer ELSE "SWITCH_TX_RX"

\* execute(command): a timer with delay 0, so the switch is an event of its own
execute(c) ==
    /\ timer' = Requested(c)
    /\ lastCommand' = c
    /\ hasty' = (detailedState \in Steady /\ timer # NoTimer)
    /\ UNCHANGED <<detailedState, state, radioState, phyState, recvBuff, rssi,
                   noiseLevel, snrInfo, busVars, busRSSI, started, worstNoise, sentUp>>

\* The state the timer is set for when s is entered
NextTimer(s) ==
    IF s \in {"SETUP_RX", "SWITCH_TX_RX"} THEN "RX"
    ELSE IF s \in {"SETUP_TX", "SWITCH_RX_TX"} THEN "TX" ELSE NoTimer

\* The steady cases fall through to the last one, which sets RECV
CoarseState(s) ==
    IF s \in Steady THEN "RECV"
    ELSE IF s \in {"SETUP_RX", "SWITCH_TX_RX"} THEN "SWITCH_TO_RECV" ELSE "SWITCH_TO_SEND"

NoDecoding == [snrInfo EXCEPT !.ptr = NoFrame, !.sList = <<>>]

\* Seeded fault: the RSSI is not published
RadioEntersRxSilently ==
    /\ phyState' = IF phyState = "DECODING" THEN "DECODING" ELSE "SYNC"
    /\ UNCHANGED <<noiseLevel, snrInfo, worstNoise, busRSSI>>

\* receiveBBItem(catRadioState) of the receiver: RADIO_ENTER_RX
RadioEntersRx ==
    /\ busRSSI' = rssi
    /\ phyState' = IF phyState = "DECODING" THEN "DECODING" ELSE "SYNC"
    /\ UNCHANGED <<noiseLevel, snrInfo, worstNoise>>

\* Seeded fault: the frame given up is lost from the noise
RadioLeavesRxQuiet ==
    /\ phyState' = "MONITOR"
    /\ snrInfo' = IF phyState = "DECODING" THEN NoDecoding ELSE snrInfo
    /\ worstNoise' = 0
    /\ UNCHANGED <<noiseLevel, busRSSI>>

\* RADIO_LEAVE_RX: the frame being decoded turns into noise.  Neither the RSSI
\* nor the medium indication is published.
RadioLeavesRx ==
    /\ phyState' = "MONITOR"
    /\ noiseLevel' = IF phyState = "DECODING" THEN noiseLevel + Power[snrInfo.ptr]
                     ELSE noiseLevel
    /\ snrInfo' = IF phyState = "DECODING" THEN NoDecoding ELSE snrInfo
    /\ worstNoise' = 0
    /\ UNCHANGED busRSSI

\* The switch timer: enterState, and what the receiver makes of it
enterState ==
    /\ timer # NoTimer
    /\ detailedState' = timer
    /\ timer' = NextTimer(timer)
    /\ state' = CoarseState(timer)
    /\ radioState' = timer
    /\ \/ timer = "RX" /\ RadioEntersRx
       \/ timer # "RX" /\ radioState = "RX" /\ RadioLeavesRx
       \/ timer # "RX" /\ radioState # "RX"
          /\ UNCHANGED <<phyState, noiseLevel, snrInfo, worstNoise, busRSSI>>
    /\ UNCHANGED <<recvBuff, rssi, busVars, started, lastCommand, hasty, sentUp>>

-----------------------------------------------------------------------------
(* SnrEvalRadioAccNoise3                                                    *)

\* publishRSSIAlways is off: the RSSI is published only while the radio receives
PublishRSSI == busRSSI' = IF radioState = "RX" THEN rssi' ELSE busRSSI

PublishIndication(i) ==
    /\ indication' = i
    /\ busIndication' = IF radioState = "RX" THEN i ELSE busIndication

addToNoiseLevel(f) ==
    /\ noiseLevel' = noiseLevel + Power[f]
    /\ rssi' = rssi + Power[f]
    /\ PublishRSSI

\* Seeded fault: the RSSI keeps the power of the frame
removeFromNoiseLevelOnly(f) ==
    /\ noiseLevel' = noiseLevel - Power[f]
    /\ rssi' = rssi
    /\ PublishRSSI

removeFromNoiseLevel(f) ==
    /\ noiseLevel' = noiseLevel - Power[f]
    /\ rssi' = rssi - Power[f]
    /\ PublishRSSI

\* addNewSnr, after the noise level was updated
addNewSnr == snrInfo' = [snrInfo EXCEPT !.sList =
                            Append(@, [power |-> snrInfo.rcvdPower, noise |-> noiseLevel'])]

Arrives(f) ==
    /\ f \in AirFrame \ recvBuff
    /\ started < MaxFrames
    /\ started' = started + 1
    /\ recvBuff' = recvBuff \cup {f}
    /\ UNCHANGED <<radioVars, radioState, sentUp>>

\* NEW_FRAME in SYNC, the delimiter was recognised
NewFrameSynchronised(f) ==
    /\ Arrives(f)
    /\ phyState = "SYNC"
    /\ phyState' = "DECODING"
    /\ rssi' = rssi + Power[f]
    /\ snrInfo' = [ptr |-> f, rcvdPower |-> Power[f],
                   sList |-> <<[power |-> Power[f], noise |-> noiseLevel]>>]
    /\ PublishIndication("BUSY")
    /\ PublishRSSI
    /\ worstNoise' = noiseLevel
    /\ UNCHANGED noiseLevel

\* NEW_FRAME in MONITOR, and in SYNC when the delimiter was missed
NewFrameNoise(f) ==
    /\ Arrives(f)
    /\ phyState \in {"MONITOR", "SYNC"}
    /\ addToNoiseLevel(f)
    /\ UNCHANGED <<phyState, snrInfo, busVars, worstNoise>>

\* NEW_FRAME in DECODING
NewFrameInterferes(f) ==
    /\ Arrives(f)
    /\ phyState = "DECODING"
    /\ addToNoiseLevel(f)
    /\ addNewSnr
    /\ worstNoise' = IF noiseLevel' > worstNoise THEN noiseLevel' ELSE worstNoise
    /\ UNCHANGED <<phyState, busVars>>

Ends(f) ==
    /\ f \in recvBuff
    /\ recvBuff' = recvBuff \ {f}
    /\ UNCHANGED <<radioVars, radioState, started>>

\* END_FRAME in MONITOR
EndFrameMonitor(f) ==
    /\ Ends(f)
    /\ phyState = "MONITOR"
    /\ removeFromNoiseLevel(f)
    /\ UNCHANGED <<phyState, snrInfo, busVars, worstNoise, sentUp>>

\* END_FRAME in SYNC
EndFrameSync(f) ==
    /\ Ends(f)
    /\ phyState = "SYNC"
    /\ removeFromNoiseLevel(f)
    /\ addNewSnr
    /\ UNCHANGED <<phyState, busVars, worstNoise, sentUp>>

\* END_FRAME in DECODING, of another frame
EndFrameInterferer(f) ==
    /\ Ends(f)
    /\ phyState = "DECODING" /\ f # snrInfo.ptr
    /\ removeFromNoiseLevel(f)
    /\ addNewSnr
    /\ UNCHANGED <<phyState, busVars, worstNoise, sentUp>>

\* Seeded fault: the first entry
snirMinFirst(list) == list[1].noise

\* The decider's snirMin: the lowest SNR of the list, hence its highest noise
snirMin(list) == CHOOSE x \in {list[i].noise : i \in DOMAIN list} :
                    \A i \in DOMAIN list : list[i].noise <= x

\* END_FRAME in DECODING, of the frame being decoded: the decider passes it up,
\* with the minimal SNR, or finds bit errors
EndFrameDecoded(f) ==
    /\ Ends(f)
    /\ phyState = "DECODING" /\ f = snrInfo.ptr
    /\ \/ UNCHANGED sentUp
       \/ sentUp' = [frame |-> f, worst |-> worstNoise, reported |-> snirMin(snrInfo.sList)]
    /\ snrInfo' = NoDecoding
    /\ rssi' = noiseLevel
    /\ PublishIndication("IDLE")
    /\ PublishRSSI
    /\ phyState' = "SYNC"
    /\ worstNoise' = 0
    /\ UNCHANGED noiseLevel

-----------------------------------------------------------------------------
NewFrame(f) == NewFrameSynchronised(f) \/ NewFrameNoise(f) \/ NewFrameInterferes(f)

EndFrame(f) == EndFrameMonitor(f) \/ EndFrameSync(f) \/ EndFrameInterferer(f)
                  \/ EndFrameDecoded(f)

RadioNicNext ==
    \/ \E c \in Command : execute(c)
    \/ enterState
    \/ \E f \in AirFrame : NewFrame(f) \/ EndFrame(f)

RadioNicSpec == RadioNicInit /\ [][RadioNicNext]_radioNicVars

-----------------------------------------------------------------------------
(* Properties                                                               *)

\* The receiver follows the radio: it searches or decodes exactly while the
\* radio receives, whatever the order of commands, switches and frames.
ReceiverFollowsRadio ==
    /\ radioState = detailedState
    /\ phyState = "MONITOR" <=> radioState # "RX"

\* The radio never stays in a transient state: the timer that ends it is set.
NoTransientForever ==
    detailedState \notin Steady => timer # NoTimer

\* The frame being decoded is on the air; no pointer to a frame survives it
\* (assert(recvBuff[frame] > 0) on RADIO_LEAVE_RX, line 322).
TrackedOnAir ==
    /\ phyState = "DECODING" <=> snrInfo.ptr # NoFrame
    /\ snrInfo.ptr # NoFrame => /\ snrInfo.ptr \in recvBuff
                                /\ snrInfo.rcvdPower = Power[snrInfo.ptr]
                                /\ snrInfo.sList # <<>>

\* The RSSI exceeds the noise by the power of the frame being decoded: the
\* hand-overs between signal and noise neither lose power nor count it twice.
SignalAndNoise ==
    rssi = noiseLevel + (IF phyState = "DECODING" THEN Power[snrInfo.ptr] ELSE 0)

\* The RSSI is the thermal noise and every frame on the air, after any number of
\* receptions, interruptions and collisions.
RssiIsTotal ==
    rssi = thermalNoise + MapThenSumSet(LAMBDA f : Power[f], recvBuff)

\* What a MAC read from the blackboard is the RSSI of the moment as long as the
\* radio receives: a clear channel assessment is never stale then.
PublishedRssiCurrent == radioState = "RX" => busRSSI = rssi

\* Each change of interference during a reception is in the list: the last entry
\* is the present noise, and no entry hides the worst one.
SnrListComplete ==
    phyState = "DECODING" =>
       /\ snrInfo.sList[Len(snrInfo.sList)].noise = noiseLevel
       /\ \A i \in DOMAIN snrInfo.sList : snrInfo.sList[i].noise <= worstNoise
       /\ \E i \in DOMAIN snrInfo.sList : snrInfo.sList[i].noise = worstNoise

\* The minimal SNR that goes up with a frame is that of its worst moment.
ReportedIsWorst == sentUp.reported = sentUp.worst

\* The radio ends in the state the MAC asked for last, through any transient
\* states, unless two commands came within one event time: execute leaves a
\* switch pending when the radio is still in the state asked for.
Target == {<<"ENTER_SLEEP", "SLEEP">>, <<"ENTER_RX", "RX">>, <<"ENTER_TX", "TX">>}
LastCommandObeyed ==
    timer = NoTimer /\ ~hasty /\ lastCommand # "NONE" =>
       <<lastCommand, detailedState>> \in Target

RadioNicInv ==
    /\ RadioNicTypeOK
    /\ ReceiverFollowsRadio
    /\ NoTransientForever
    /\ TrackedOnAir
    /\ SignalAndNoise
    /\ PublishedRssiCurrent
    /\ SnrListComplete
    /\ ReportedIsWorst

==============================================================================
