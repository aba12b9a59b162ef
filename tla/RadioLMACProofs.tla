-------------------------- MODULE RadioLMACProofs --------------------------
(***************************************************************************)
(* Proofs about three components that have nothing to do with each other.  *)
(*                                                                         *)
(* RadioAccNoise3: RadioNicInv is an inductive invariant, for any set of   *)
(* frames and any received powers.                                         *)
(*                                                                         *)
(* The Blackboard the radio publishes on: BusInv is inductive, for any     *)
(* classes of items.                                                       *)
(*                                                                         *)
(* LMAC, for any network, any number of slots and any loss: IInv is        *)
(* inductive.  Its part Roles is what makes the packet on the air equal to *)
(* the state of its sender: who sends does not listen, hence does not      *)
(* change its slot or its table before the slot is over.                   *)
(***************************************************************************)
EXTENDS RadioAccNoise3, Blackboard, LMACData, SequenceTheorems, FiniteSetTheorems, WellFoundedInduction, TLAPS

-----------------------------------------------------------------------------
(* RadioAccNoise3 *)

LEMMA RadioNicInitInv == RadioNicInit => RadioNicInv
<1> SUFFICES ASSUME RadioNicInit PROVE RadioNicInv
  OBVIOUS
<1> USE PowerAssumption DEF RadioNicInit, RadioInit, PhyInit
<1>1. RadioTypeOK
  BY DEF RadioTypeOK, RadioAccNoise3State, Steady, RadioState, Command, NoTimer
<1>2. PhyTypeOK
  <2>1. <<>> \in Seq(Snr)
    OBVIOUS
  <2> QED BY <2>1 DEF PhyTypeOK, RadioAccNoise3State, Steady
<1>3. BusTypeOK
  BY DEF BusTypeOK
<1>4. /\ ReceiverFollowsRadio /\ NoTransientForever /\ TrackedOnAir /\ SignalAndNoise
      /\ PublishedRssiCurrent /\ SnrListComplete /\ ReportedIsWorst
  BY DEF Steady, NoTimer, ReceiverFollowsRadio, NoTransientForever, TrackedOnAir,
         SignalAndNoise, PublishedRssiCurrent, SnrListComplete, ReportedIsWorst, NoReport
<1> QED BY <1>1, <1>2, <1>3, <1>4 DEF RadioNicInv, RadioNicTypeOK

SnrInfo == [ptr : AirFrame \cup {NoFrame}, rcvdPower : Nat, sList : Seq(Snr)]

\* The entries of a list
LEMMA Entries ==
  ASSUME NEW L \in Seq(Snr)
  PROVE  /\ DOMAIN L = 1 .. Len(L) /\ Len(L) \in Nat
         /\ \A i \in 1 .. Len(L) : L[i].noise \in Int
         /\ L # <<>> => Len(L) \in 1 .. Len(L)
<1>1. \A i \in 1 .. Len(L) : L[i] \in Snr
  BY ElementOfSeq
<1>2. L # <<>> => Len(L) > 0
  BY EmptySeq
<1> QED BY <1>1, <1>2 DEF Snr

\* A new entry leaves the others alone
LEMMA AddNewSnr ==
  ASSUME snrInfo \in SnrInfo, noiseLevel' \in Int, addNewSnr
  PROVE  /\ snrInfo' \in SnrInfo
         /\ snrInfo'.ptr = snrInfo.ptr /\ snrInfo'.rcvdPower = snrInfo.rcvdPower
         /\ Len(snrInfo'.sList) = Len(snrInfo.sList) + 1
         /\ DOMAIN snrInfo.sList = 1 .. Len(snrInfo.sList)
         /\ DOMAIN snrInfo'.sList = 1 .. Len(snrInfo.sList) + 1
         /\ Len(snrInfo.sList) \in Nat
         /\ snrInfo'.sList # <<>>
         /\ snrInfo'.sList[Len(snrInfo.sList) + 1].noise = noiseLevel'
         /\ \A i \in 1 .. Len(snrInfo.sList) : snrInfo'.sList[i] = snrInfo.sList[i]
<1> DEFINE e == [power |-> snrInfo.rcvdPower, noise |-> noiseLevel']
<1>1. e \in Snr /\ snrInfo.sList \in Seq(Snr)
  BY DEF SnrInfo, Snr
<1>2. snrInfo' = [snrInfo EXCEPT !.sList = Append(snrInfo.sList, e)]
  BY DEF addNewSnr
<1> HIDE DEF e
<1>3. /\ Append(snrInfo.sList, e) \in Seq(Snr)
      /\ Append(snrInfo.sList, e) # <<>>
      /\ Len(Append(snrInfo.sList, e)) = Len(snrInfo.sList) + 1
      /\ DOMAIN Append(snrInfo.sList, e) = 1 .. Len(snrInfo.sList) + 1
      /\ Append(snrInfo.sList, e)[Len(snrInfo.sList) + 1] = e
      /\ \A i \in 1 .. Len(snrInfo.sList) : Append(snrInfo.sList, e)[i] = snrInfo.sList[i]
  BY <1>1, AppendProperties
<1>4. snrInfo'.sList = Append(snrInfo.sList, e) /\ snrInfo' \in SnrInfo
      /\ snrInfo'.ptr = snrInfo.ptr /\ snrInfo'.rcvdPower = snrInfo.rcvdPower
  BY <1>2, <1>3 DEF SnrInfo
<1>5. Len(snrInfo.sList) \in Nat /\ DOMAIN snrInfo.sList = 1 .. Len(snrInfo.sList)
  BY <1>1
<1> QED BY <1>3, <1>4, <1>5 DEF e

\* The minimum the decider reports is the worst noise, if the list holds it
LEMMA SnirMinIsWorst ==
  ASSUME SnrListComplete, phyState = "DECODING", snrInfo \in SnrInfo, worstNoise \in Int
  PROVE  snirMin(snrInfo.sList) = worstNoise
<1> DEFINE L == snrInfo.sList
           N == {L[i].noise : i \in DOMAIN L}
<1>1. L \in Seq(Snr) /\ \A i \in DOMAIN L : L[i].noise \in Int
  BY Entries DEF SnrInfo
<1>2. worstNoise \in N /\ \A i \in DOMAIN L : L[i].noise <= worstNoise
  BY DEF SnrListComplete
<1>3. ASSUME NEW x \in N, \A i \in DOMAIN L : L[i].noise <= x
      PROVE  x = worstNoise
  BY <1>1, <1>2, <1>3
<1> QED BY <1>2, <1>3 DEF snirMin

LEMMA ExecuteStep ==
  ASSUME RadioNicInv, NEW c \in Command, execute(c)
  PROVE  RadioNicInv'
<1> USE PowerAssumption DEF RadioNicInv, RadioNicTypeOK, execute, radioVars, busVars
<1>1. RadioTypeOK'
  BY DEF RadioTypeOK, RadioAccNoise3State, RadioState, Steady, Command, NoTimer, Requested, NextTimer, CoarseState
<1>2. PhyTypeOK'
  BY DEF PhyTypeOK, RadioTypeOK, RadioAccNoise3State, Steady, NoTimer, Snr, ReceiverFollowsRadio, TrackedOnAir
<1>3. BusTypeOK'
  BY DEF BusTypeOK, PhyTypeOK
<1>4. ReceiverFollowsRadio'
  BY DEF ReceiverFollowsRadio
<1>5. NoTransientForever'
  BY DEF NoTransientForever, Requested, NextTimer, Steady, NoTimer, RadioTypeOK, RadioAccNoise3State
<1>6. TrackedOnAir'
  BY DEF TrackedOnAir, PhyTypeOK, ReceiverFollowsRadio, Snr
<1>7. SignalAndNoise'
  BY DEF SignalAndNoise, PhyTypeOK, TrackedOnAir, ReceiverFollowsRadio
<1>8. PublishedRssiCurrent'
  BY DEF PublishedRssiCurrent
<1>9. SnrListComplete'
  BY DEF SnrListComplete, PhyTypeOK, TrackedOnAir, ReceiverFollowsRadio, Snr
<1>10. ReportedIsWorst'
  BY DEF ReportedIsWorst
<1> QED BY <1>1, <1>2, <1>3, <1>4, <1>5, <1>6, <1>7, <1>8, <1>9, <1>10

LEMMA EnterStateStep ==
  ASSUME RadioNicInv, enterState
  PROVE  RadioNicInv'
<1> USE PowerAssumption DEF RadioNicInv, RadioNicTypeOK, enterState, RadioEntersRx, RadioLeavesRx, NoDecoding, busVars
<1>1. RadioTypeOK'
  BY DEF RadioTypeOK, RadioAccNoise3State, RadioState, Steady, Command, NoTimer, Requested, NextTimer, CoarseState
<1>2. PhyTypeOK'
  <2>1. <<>> \in Seq(Snr) /\ snrInfo.rcvdPower \in Nat /\ snrInfo \in SnrInfo
    BY DEF PhyTypeOK, SnrInfo
  <2>2. [snrInfo EXCEPT !.ptr = NoFrame, !.sList = <<>>] \in SnrInfo
    BY <2>1 DEF SnrInfo
  <2>3. snrInfo' \in SnrInfo
    BY <2>1, <2>2 DEF PhyTypeOK
  <2>4. radioState' \in RadioAccNoise3State /\ recvBuff' \in SUBSET AirFrame
    BY DEF PhyTypeOK, RadioTypeOK, NoTimer
  <2>5. phyState = "DECODING" => snrInfo.ptr \in AirFrame
    BY DEF TrackedOnAir, PhyTypeOK
  <2>6. phyState = "DECODING" => Power[snrInfo.ptr] \in Nat
    BY <2>5
  <2>7. noiseLevel' \in Int /\ rssi' \in Int /\ worstNoise' \in Int
    BY <2>6 DEF PhyTypeOK
  <2> QED BY <2>3, <2>4, <2>7 DEF PhyTypeOK, SnrInfo
<1>3. BusTypeOK'
  BY DEF BusTypeOK, PhyTypeOK
<1>4. ReceiverFollowsRadio'
  BY DEF ReceiverFollowsRadio
<1>5. NoTransientForever'
  BY DEF NoTransientForever, Requested, NextTimer, Steady, NoTimer, RadioTypeOK, RadioAccNoise3State
<1>6. TrackedOnAir'
  BY DEF TrackedOnAir, PhyTypeOK, ReceiverFollowsRadio, Snr
<1>7. SignalAndNoise'
  BY DEF SignalAndNoise, PhyTypeOK, TrackedOnAir, ReceiverFollowsRadio
<1>8. PublishedRssiCurrent'
  BY DEF PublishedRssiCurrent
<1>9. SnrListComplete'
  BY DEF SnrListComplete, PhyTypeOK, TrackedOnAir, ReceiverFollowsRadio, Snr
<1>10. ReportedIsWorst'
  BY DEF ReportedIsWorst
<1> QED BY <1>1, <1>2, <1>3, <1>4, <1>5, <1>6, <1>7, <1>8, <1>9, <1>10

LEMMA NewFrameSynchronisedStep ==
  ASSUME RadioNicInv, NEW f \in AirFrame, NewFrameSynchronised(f)
  PROVE  RadioNicInv'
<1> USE PowerAssumption DEF RadioNicInv, RadioNicTypeOK, NewFrameSynchronised, Arrives, PublishIndication, PublishRSSI, radioVars
<1>1. RadioTypeOK'
  BY DEF RadioTypeOK, RadioAccNoise3State, RadioState, Steady, Command, NoTimer, Requested, NextTimer, CoarseState
<1>2. PhyTypeOK'
  BY DEF PhyTypeOK, RadioTypeOK, RadioAccNoise3State, Steady, NoTimer, Snr, ReceiverFollowsRadio, TrackedOnAir
<1>3. BusTypeOK'
  BY DEF BusTypeOK, PhyTypeOK
<1>4. ReceiverFollowsRadio'
  BY DEF ReceiverFollowsRadio
<1>5. NoTransientForever'
  BY DEF NoTransientForever, Requested, NextTimer, Steady, NoTimer, RadioTypeOK, RadioAccNoise3State
<1>6. TrackedOnAir'
  BY DEF TrackedOnAir, PhyTypeOK, ReceiverFollowsRadio, Snr
<1>7. SignalAndNoise'
  BY DEF SignalAndNoise, PhyTypeOK, TrackedOnAir, ReceiverFollowsRadio
<1>8. PublishedRssiCurrent'
  BY DEF PublishedRssiCurrent
<1>9. SnrListComplete'
  BY DEF SnrListComplete, PhyTypeOK, TrackedOnAir, ReceiverFollowsRadio, Snr
<1>10. ReportedIsWorst'
  BY DEF ReportedIsWorst
<1> QED BY <1>1, <1>2, <1>3, <1>4, <1>5, <1>6, <1>7, <1>8, <1>9, <1>10

LEMMA NewFrameNoiseStep ==
  ASSUME RadioNicInv, NEW f \in AirFrame, NewFrameNoise(f)
  PROVE  RadioNicInv'
<1> USE PowerAssumption DEF RadioNicInv, RadioNicTypeOK, NewFrameNoise, Arrives, addToNoiseLevel, PublishRSSI, radioVars, busVars
<1>1. RadioTypeOK'
  BY DEF RadioTypeOK, RadioAccNoise3State, RadioState, Steady, Command, NoTimer, Requested, NextTimer, CoarseState
<1>2. PhyTypeOK'
  BY DEF PhyTypeOK, RadioTypeOK, RadioAccNoise3State, Steady, NoTimer, Snr, ReceiverFollowsRadio, TrackedOnAir
<1>3. BusTypeOK'
  BY DEF BusTypeOK, PhyTypeOK
<1>4. ReceiverFollowsRadio'
  BY DEF ReceiverFollowsRadio
<1>5. NoTransientForever'
  BY DEF NoTransientForever, Requested, NextTimer, Steady, NoTimer, RadioTypeOK, RadioAccNoise3State
<1>6. TrackedOnAir'
  BY DEF TrackedOnAir, PhyTypeOK, ReceiverFollowsRadio, Snr
<1>7. SignalAndNoise'
  BY DEF SignalAndNoise, PhyTypeOK, TrackedOnAir, ReceiverFollowsRadio
<1>8. PublishedRssiCurrent'
  BY DEF PublishedRssiCurrent
<1>9. SnrListComplete'
  BY DEF SnrListComplete, PhyTypeOK, TrackedOnAir, ReceiverFollowsRadio, Snr
<1>10. ReportedIsWorst'
  BY DEF ReportedIsWorst
<1> QED BY <1>1, <1>2, <1>3, <1>4, <1>5, <1>6, <1>7, <1>8, <1>9, <1>10

LEMMA NewFrameInterferesStep ==
  ASSUME RadioNicInv, NEW f \in AirFrame, NewFrameInterferes(f)
  PROVE  RadioNicInv'
<1> USE PowerAssumption DEF RadioNicInv, RadioNicTypeOK, NewFrameInterferes, Arrives, addToNoiseLevel, PublishRSSI, radioVars, busVars
<1>a. snrInfo \in SnrInfo /\ noiseLevel' \in Int /\ noiseLevel \in Int
      /\ Power[f] \in Nat /\ worstNoise \in Int /\ rssi \in Int
  BY DEF PhyTypeOK, SnrInfo
<1>b. addNewSnr
  OBVIOUS
<1>c. /\ snrInfo' \in SnrInfo
      /\ snrInfo'.ptr = snrInfo.ptr /\ snrInfo'.rcvdPower = snrInfo.rcvdPower
      /\ snrInfo'.sList # <<>>
  BY <1>a, <1>b, AddNewSnr
<1>1. RadioTypeOK'
  BY DEF RadioTypeOK, RadioAccNoise3State, RadioState, Steady, Command, NoTimer, Requested, NextTimer, CoarseState
<1>2. PhyTypeOK'
  BY <1>a, <1>c DEF PhyTypeOK, SnrInfo
<1>3. BusTypeOK'
  BY DEF BusTypeOK, PhyTypeOK
<1>4. ReceiverFollowsRadio'
  BY DEF ReceiverFollowsRadio
<1>5. NoTransientForever'
  BY DEF NoTransientForever, Requested, NextTimer, Steady, NoTimer, RadioTypeOK, RadioAccNoise3State
<1>6. TrackedOnAir'
  BY <1>c DEF TrackedOnAir, PhyTypeOK
<1>7. SignalAndNoise'
  <2>1. snrInfo.ptr \in AirFrame => Power[snrInfo.ptr] \in Nat
    OBVIOUS
  <2>2. phyState = "DECODING" => snrInfo.ptr \in AirFrame
    BY <1>a DEF TrackedOnAir, PhyTypeOK
  <2> QED BY <1>a, <1>c, <2>1, <2>2 DEF SignalAndNoise
<1>8. PublishedRssiCurrent'
  BY DEF PublishedRssiCurrent
<1>9. SnrListComplete'
  <2> DEFINE k == Len(snrInfo.sList)
  <2>1. /\ k \in Nat /\ Len(snrInfo'.sList) = k + 1
        /\ DOMAIN snrInfo.sList = 1 .. k /\ DOMAIN snrInfo'.sList = 1 .. k + 1
        /\ snrInfo'.sList[k + 1].noise = noiseLevel'
        /\ \A i \in 1 .. k : snrInfo'.sList[i] = snrInfo.sList[i]
    BY <1>a, <1>b, AddNewSnr
  <2>2. \A i \in 1 .. k : snrInfo.sList[i].noise \in Int
    BY <1>a, Entries DEF SnrInfo
  <2>3. /\ snrInfo.sList[k].noise = noiseLevel /\ k \in 1 .. k
        /\ \A i \in 1 .. k : snrInfo.sList[i].noise <= worstNoise
        /\ \E i \in 1 .. k : snrInfo.sList[i].noise = worstNoise
    BY <2>1, <1>a, Entries DEF SnrListComplete, TrackedOnAir, SnrInfo
  <2>4. worstNoise' \in Int /\ worstNoise <= worstNoise' /\ noiseLevel' <= worstNoise'
        /\ worstNoise' \in {worstNoise, noiseLevel'}
    BY <1>a, <2>2, <2>3
  <2> HIDE DEF k
  <2>5. \A i \in 1 .. k + 1 : snrInfo'.sList[i].noise <= worstNoise'
    <3> SUFFICES ASSUME NEW i \in 1 .. k + 1
                 PROVE  snrInfo'.sList[i].noise <= worstNoise'
      OBVIOUS
    <3>1. CASE i = k + 1
      BY <3>1, <2>1, <2>4
    <3>2. CASE i \in 1 .. k
      <4>1. snrInfo'.sList[i].noise = snrInfo.sList[i].noise
        BY <3>2, <2>1
      <4>2. snrInfo.sList[i].noise \in Int /\ snrInfo.sList[i].noise <= worstNoise
        BY <3>2, <2>2, <2>3
      <4> HIDE DEF RadioNicInv
      <4> QED BY <4>1, <4>2, <2>4, <1>a
    <3> QED BY <3>1, <3>2, <2>1
  <2>6. \E i \in 1 .. k + 1 : snrInfo'.sList[i].noise = worstNoise'
    BY <2>1, <2>3, <2>4
  <2> QED BY <2>1, <2>5, <2>6 DEF SnrListComplete
<1>10. ReportedIsWorst'
  BY DEF ReportedIsWorst
<1> QED BY <1>1, <1>2, <1>3, <1>4, <1>5, <1>6, <1>7, <1>8, <1>9, <1>10

LEMMA EndFrameMonitorStep ==
  ASSUME RadioNicInv, NEW f \in AirFrame, EndFrameMonitor(f)
  PROVE  RadioNicInv'
<1> USE PowerAssumption DEF RadioNicInv, RadioNicTypeOK, EndFrameMonitor, Ends, removeFromNoiseLevel, PublishRSSI, radioVars, busVars
<1>1. RadioTypeOK'
  BY DEF RadioTypeOK, RadioAccNoise3State, RadioState, Steady, Command, NoTimer, Requested, NextTimer, CoarseState
<1>2. PhyTypeOK'
  BY DEF PhyTypeOK, RadioTypeOK, RadioAccNoise3State, Steady, NoTimer, Snr, ReceiverFollowsRadio, TrackedOnAir
<1>3. BusTypeOK'
  BY DEF BusTypeOK, PhyTypeOK
<1>4. ReceiverFollowsRadio'
  BY DEF ReceiverFollowsRadio
<1>5. NoTransientForever'
  BY DEF NoTransientForever, Requested, NextTimer, Steady, NoTimer, RadioTypeOK, RadioAccNoise3State
<1>6. TrackedOnAir'
  BY DEF TrackedOnAir, PhyTypeOK, ReceiverFollowsRadio, Snr
<1>7. SignalAndNoise'
  BY DEF SignalAndNoise, PhyTypeOK, TrackedOnAir, ReceiverFollowsRadio
<1>8. PublishedRssiCurrent'
  BY DEF PublishedRssiCurrent
<1>9. SnrListComplete'
  BY DEF SnrListComplete, PhyTypeOK, TrackedOnAir, ReceiverFollowsRadio, Snr
<1>10. ReportedIsWorst'
  BY DEF ReportedIsWorst
<1> QED BY <1>1, <1>2, <1>3, <1>4, <1>5, <1>6, <1>7, <1>8, <1>9, <1>10

LEMMA EndFrameSyncStep ==
  ASSUME RadioNicInv, NEW f \in AirFrame, EndFrameSync(f)
  PROVE  RadioNicInv'
<1> USE PowerAssumption DEF RadioNicInv, RadioNicTypeOK, EndFrameSync, Ends, removeFromNoiseLevel, PublishRSSI, radioVars, busVars
<1>a. snrInfo \in SnrInfo /\ noiseLevel' \in Int /\ noiseLevel \in Int
      /\ Power[f] \in Nat /\ worstNoise \in Int /\ rssi \in Int
  BY DEF PhyTypeOK, SnrInfo
<1>b. addNewSnr
  OBVIOUS
<1>c. /\ snrInfo' \in SnrInfo
      /\ snrInfo'.ptr = snrInfo.ptr /\ snrInfo'.rcvdPower = snrInfo.rcvdPower
      /\ snrInfo'.sList # <<>>
  BY <1>a, <1>b, AddNewSnr
<1>1. RadioTypeOK'
  BY DEF RadioTypeOK, RadioAccNoise3State, RadioState, Steady, Command, NoTimer, Requested, NextTimer, CoarseState
<1>2. PhyTypeOK'
  BY <1>a, <1>c DEF PhyTypeOK, SnrInfo
<1>3. BusTypeOK'
  BY DEF BusTypeOK, PhyTypeOK
<1>4. ReceiverFollowsRadio'
  BY DEF ReceiverFollowsRadio
<1>5. NoTransientForever'
  BY DEF NoTransientForever, Requested, NextTimer, Steady, NoTimer, RadioTypeOK, RadioAccNoise3State
<1>6. TrackedOnAir'
  BY <1>c DEF TrackedOnAir, PhyTypeOK
<1>7. SignalAndNoise'
  <2>1. snrInfo.ptr \in AirFrame => Power[snrInfo.ptr] \in Nat
    OBVIOUS
  <2>2. phyState = "DECODING" => snrInfo.ptr \in AirFrame
    BY <1>a DEF TrackedOnAir, PhyTypeOK
  <2> QED BY <1>a, <1>c, <2>1, <2>2 DEF SignalAndNoise
<1>8. PublishedRssiCurrent'
  BY DEF PublishedRssiCurrent
<1>9. SnrListComplete'
  BY <1>c DEF SnrListComplete
<1>10. ReportedIsWorst'
  BY DEF ReportedIsWorst
<1> QED BY <1>1, <1>2, <1>3, <1>4, <1>5, <1>6, <1>7, <1>8, <1>9, <1>10

LEMMA EndFrameInterfererStep ==
  ASSUME RadioNicInv, NEW f \in AirFrame, EndFrameInterferer(f)
  PROVE  RadioNicInv'
<1> USE PowerAssumption DEF RadioNicInv, RadioNicTypeOK, EndFrameInterferer, Ends, removeFromNoiseLevel, PublishRSSI, radioVars, busVars
<1>a. snrInfo \in SnrInfo /\ noiseLevel' \in Int /\ noiseLevel \in Int
      /\ Power[f] \in Nat /\ worstNoise \in Int /\ rssi \in Int
  BY DEF PhyTypeOK, SnrInfo
<1>b. addNewSnr
  OBVIOUS
<1>c. /\ snrInfo' \in SnrInfo
      /\ snrInfo'.ptr = snrInfo.ptr /\ snrInfo'.rcvdPower = snrInfo.rcvdPower
      /\ snrInfo'.sList # <<>>
  BY <1>a, <1>b, AddNewSnr
<1>1. RadioTypeOK'
  BY DEF RadioTypeOK, RadioAccNoise3State, RadioState, Steady, Command, NoTimer, Requested, NextTimer, CoarseState
<1>2. PhyTypeOK'
  BY <1>a, <1>c DEF PhyTypeOK, SnrInfo
<1>3. BusTypeOK'
  BY DEF BusTypeOK, PhyTypeOK
<1>4. ReceiverFollowsRadio'
  BY DEF ReceiverFollowsRadio
<1>5. NoTransientForever'
  BY DEF NoTransientForever, Requested, NextTimer, Steady, NoTimer, RadioTypeOK, RadioAccNoise3State
<1>6. TrackedOnAir'
  BY <1>c DEF TrackedOnAir, PhyTypeOK
<1>7. SignalAndNoise'
  <2>1. snrInfo.ptr \in AirFrame => Power[snrInfo.ptr] \in Nat
    OBVIOUS
  <2>2. phyState = "DECODING" => snrInfo.ptr \in AirFrame
    BY <1>a DEF TrackedOnAir, PhyTypeOK
  <2> QED BY <1>a, <1>c, <2>1, <2>2 DEF SignalAndNoise
<1>8. PublishedRssiCurrent'
  BY DEF PublishedRssiCurrent
<1>9. SnrListComplete'
  <2> DEFINE k == Len(snrInfo.sList)
  <2>1. /\ k \in Nat /\ Len(snrInfo'.sList) = k + 1
        /\ DOMAIN snrInfo.sList = 1 .. k /\ DOMAIN snrInfo'.sList = 1 .. k + 1
        /\ snrInfo'.sList[k + 1].noise = noiseLevel'
        /\ \A i \in 1 .. k : snrInfo'.sList[i] = snrInfo.sList[i]
    BY <1>a, <1>b, AddNewSnr
  <2>2. \A i \in 1 .. k : snrInfo.sList[i].noise \in Int
    BY <1>a, Entries DEF SnrInfo
  <2>3. /\ snrInfo.sList[k].noise = noiseLevel /\ k \in 1 .. k
        /\ \A i \in 1 .. k : snrInfo.sList[i].noise <= worstNoise
        /\ \E i \in 1 .. k : snrInfo.sList[i].noise = worstNoise
    BY <2>1, <1>a, Entries DEF SnrListComplete, TrackedOnAir, SnrInfo
  <2>4. worstNoise' \in Int /\ worstNoise <= worstNoise' /\ noiseLevel' <= worstNoise'
        /\ worstNoise' \in {worstNoise, noiseLevel'}
    BY <1>a, <2>2, <2>3
  <2> HIDE DEF k
  <2>5. \A i \in 1 .. k + 1 : snrInfo'.sList[i].noise <= worstNoise'
    <3> SUFFICES ASSUME NEW i \in 1 .. k + 1
                 PROVE  snrInfo'.sList[i].noise <= worstNoise'
      OBVIOUS
    <3>1. CASE i = k + 1
      BY <3>1, <2>1, <2>4
    <3>2. CASE i \in 1 .. k
      <4>1. snrInfo'.sList[i].noise = snrInfo.sList[i].noise
        BY <3>2, <2>1
      <4>2. snrInfo.sList[i].noise \in Int /\ snrInfo.sList[i].noise <= worstNoise
        BY <3>2, <2>2, <2>3
      <4> HIDE DEF RadioNicInv
      <4> QED BY <4>1, <4>2, <2>4, <1>a
    <3> QED BY <3>1, <3>2, <2>1
  <2>6. \E i \in 1 .. k + 1 : snrInfo'.sList[i].noise = worstNoise'
    BY <2>1, <2>3, <2>4
  <2> QED BY <2>1, <2>5, <2>6 DEF SnrListComplete
<1>10. ReportedIsWorst'
  BY DEF ReportedIsWorst
<1> QED BY <1>1, <1>2, <1>3, <1>4, <1>5, <1>6, <1>7, <1>8, <1>9, <1>10

LEMMA EndFrameDecodedStep ==
  ASSUME RadioNicInv, NEW f \in AirFrame, EndFrameDecoded(f)
  PROVE  RadioNicInv'
<1> USE PowerAssumption DEF RadioNicInv, RadioNicTypeOK, EndFrameDecoded, Ends, NoDecoding, PublishIndication, PublishRSSI, radioVars, busVars
<1>1. RadioTypeOK'
  BY DEF RadioTypeOK, RadioAccNoise3State, RadioState, Steady, Command, NoTimer, Requested, NextTimer, CoarseState
<1>2. PhyTypeOK'
  <2>1. <<>> \in Seq(Snr) /\ snrInfo.rcvdPower \in Nat /\ snrInfo \in SnrInfo
    BY DEF PhyTypeOK, SnrInfo
  <2>2. [snrInfo EXCEPT !.ptr = NoFrame, !.sList = <<>>] \in SnrInfo
    BY <2>1 DEF SnrInfo
  <2>3. snrInfo' \in SnrInfo
    BY <2>1, <2>2 DEF PhyTypeOK
  <2>4. radioState' \in RadioAccNoise3State /\ recvBuff' \in SUBSET AirFrame
    BY DEF PhyTypeOK, RadioTypeOK, NoTimer
  <2>5. phyState = "DECODING" => snrInfo.ptr \in AirFrame
    BY DEF TrackedOnAir, PhyTypeOK
  <2>6. phyState = "DECODING" => Power[snrInfo.ptr] \in Nat
    BY <2>5
  <2>7. noiseLevel' \in Int /\ rssi' \in Int /\ worstNoise' \in Int
    BY <2>6 DEF PhyTypeOK
  <2> QED BY <2>3, <2>4, <2>7 DEF PhyTypeOK, SnrInfo
<1>3. BusTypeOK'
  BY DEF BusTypeOK, PhyTypeOK
<1>4. ReceiverFollowsRadio'
  BY DEF ReceiverFollowsRadio
<1>5. NoTransientForever'
  BY DEF NoTransientForever, Requested, NextTimer, Steady, NoTimer, RadioTypeOK, RadioAccNoise3State
<1>6. TrackedOnAir'
  BY DEF TrackedOnAir, PhyTypeOK, ReceiverFollowsRadio, Snr
<1>7. SignalAndNoise'
  BY DEF SignalAndNoise, PhyTypeOK, TrackedOnAir, ReceiverFollowsRadio
<1>8. PublishedRssiCurrent'
  BY DEF PublishedRssiCurrent
<1>9. SnrListComplete'
  BY DEF SnrListComplete, PhyTypeOK, TrackedOnAir, ReceiverFollowsRadio, Snr
<1>10. ReportedIsWorst'
  BY SnirMinIsWorst DEF ReportedIsWorst, PhyTypeOK, SnrInfo
<1> QED BY <1>1, <1>2, <1>3, <1>4, <1>5, <1>6, <1>7, <1>8, <1>9, <1>10

LEMMA NextStep == RadioNicInv /\ [RadioNicNext]_radioNicVars => RadioNicInv'
<1> SUFFICES ASSUME RadioNicInv, [RadioNicNext]_radioNicVars PROVE RadioNicInv'
  OBVIOUS
<1>1. ASSUME NEW c \in Command, execute(c) PROVE RadioNicInv'
  BY <1>1, ExecuteStep
<1>2. CASE enterState
  BY <1>2, EnterStateStep
<1>3. ASSUME NEW f \in AirFrame, NewFrame(f) PROVE RadioNicInv'
  BY <1>3, NewFrameSynchronisedStep, NewFrameNoiseStep, NewFrameInterferesStep DEF NewFrame
<1>4. ASSUME NEW f \in AirFrame, EndFrame(f) PROVE RadioNicInv'
  BY <1>4, EndFrameMonitorStep, EndFrameSyncStep, EndFrameInterfererStep,
     EndFrameDecodedStep DEF EndFrame
<1>5. CASE UNCHANGED radioNicVars
  BY <1>5 DEF radioNicVars, radioVars, busVars, RadioNicInv, RadioNicTypeOK, RadioTypeOK, PhyTypeOK, BusTypeOK,
     ReceiverFollowsRadio, NoTransientForever, TrackedOnAir, SignalAndNoise,
     PublishedRssiCurrent, SnrListComplete, ReportedIsWorst
<1> QED BY <1>1, <1>2, <1>3, <1>4, <1>5 DEF RadioNicNext

-----------------------------------------------------------------------------
(* The sum of the powers of a finite set of frames                          *)

\* One element for each unit of power of a frame of S.  The sum over S, which
\* folds S in the order CHOOSE picks its frames, is the number of these units.
Units(S) == UNION {{f} \X (1 .. Power[f]) : f \in S}
Weight(S) == Cardinality(Units(S))

\* One frame has as many units as its power
LEMMA UnitsOfOne ==
  ASSUME NEW f \in AirFrame
  PROVE  /\ IsFiniteSet({f} \X (1 .. Power[f]))
         /\ Cardinality({f} \X (1 .. Power[f])) = Power[f]
<1>1. Power[f] \in Nat
  BY PowerAssumption
<1>2. IsFiniteSet(1 .. Power[f]) /\ Cardinality(1 .. Power[f]) = Power[f]
  BY <1>1, FS_Interval
<1>3. IsFiniteSet({f}) /\ Cardinality({f}) = 1
  BY FS_Singleton
<1>4. /\ IsFiniteSet({f} \X (1 .. Power[f]))
      /\ Cardinality({f} \X (1 .. Power[f])) = Cardinality({f}) * Cardinality(1 .. Power[f])
  BY <1>2, <1>3, FS_Product
<1> QED BY <1>1, <1>2, <1>3, <1>4

LEMMA UnitsFinite ==
  ASSUME NEW S \in SUBSET AirFrame, IsFiniteSet(S)
  PROVE  IsFiniteSet(Units(S)) /\ Weight(S) \in Nat
<1> DEFINE U == {{f} \X (1 .. Power[f]) : f \in S}
           block == [f \in S |-> {f} \X (1 .. Power[f])]
<1>1. IsFiniteSet(U)
  <2>1. block \in Surjection(S, U)
    BY DEF Surjection
  <2> HIDE DEF U, block
  <2> QED BY <2>1, FS_Surjection
<1>2. \A T \in U : IsFiniteSet(T)
  BY UnitsOfOne
<1>3. IsFiniteSet(UNION U)
  BY <1>1, <1>2, FS_UNION
<1> QED BY <1>3, FS_CardinalityType DEF Units, Weight

LEMMA WeightOfNone == Weight({}) = 0
<1>1. Units({}) = {}
  BY DEF Units
<1> QED BY <1>1, FS_EmptySet DEF Weight

\* A frame more adds its power
LEMMA WeightOfMore ==
  ASSUME NEW S \in SUBSET AirFrame, IsFiniteSet(S), NEW f \in AirFrame \ S
  PROVE  Weight(S \cup {f}) = Weight(S) + Power[f]
<1> DEFINE One == {f} \X (1 .. Power[f])
<1>1. Units(S \cup {f}) = Units(S) \cup One
  BY DEF Units
<1>2. Units(S) \cap One = {}
  BY DEF Units
<1>3. IsFiniteSet(Units(S)) /\ IsFiniteSet(One) /\ Cardinality(One) = Power[f]
  BY UnitsFinite, UnitsOfOne
<1>4. Cardinality(Units(S) \cup One)
        = Cardinality(Units(S)) + Cardinality(One) - Cardinality(Units(S) \cap One)
  BY <1>3, FS_Union
<1>5. Cardinality(Units(S) \cap One) = 0
  BY <1>2, FS_EmptySet
<1>6. Cardinality(Units(S)) \in Nat /\ Power[f] \in Nat
  BY UnitsFinite, PowerAssumption DEF Weight
<1>7. Weight(S \cup {f}) = Cardinality(Units(S) \cup One)
  BY <1>1, Zenon DEF Weight
<1> HIDE DEF One
<1> QED BY <1>3, <1>4, <1>5, <1>6, <1>7 DEF Weight

\* A frame less takes its power away
LEMMA WeightOfLess ==
  ASSUME NEW S \in SUBSET AirFrame, IsFiniteSet(S), NEW f \in S
  PROVE  Weight(S) = Power[f] + Weight(S \ {f}) /\ Weight(S \ {f}) \in Nat
<1>1. IsFiniteSet(S \ {f}) /\ S = (S \ {f}) \cup {f}
  BY FS_RemoveElement
<1>2. Weight((S \ {f}) \cup {f}) = Weight(S \ {f}) + Power[f]
  BY <1>1, WeightOfMore
<1>3. Weight(S \ {f}) \in Nat /\ Power[f] \in Nat
  BY <1>1, UnitsFinite, PowerAssumption
<1>4. Weight((S \ {f}) \cup {f}) = Weight(S)
  BY <1>1, Zenon
<1> QED BY <1>2, <1>3, <1>4

\* The fold exists, for Weight satisfies its recursion; it is Weight, for a
\* smallest set on which they differ would differ on a smaller one.
LEMMA SumIsWeight ==
  ASSUME NEW S \in SUBSET AirFrame, IsFiniteSet(S)
  PROVE  MapThenSumSet(LAMBDA f : Power[f], S) = Weight(S)
<1> DEFINE pick(s) == CHOOSE x \in s : TRUE
           Sums(g) == g = [s \in SUBSET S |-> IF s = {} THEN 0
                                              ELSE Power[pick(s)] + g[s \ {pick(s)}]]
           total == MapThenSumSet(LAMBDA f : Power[f], S)
           weights == [s \in SUBSET S |-> Weight(s)]
<1>1. total = (CHOOSE g : Sums(g))[S]
  BY DEF MapThenSumSet, MapThenFoldSet
<1> HIDE DEF total
<1>2. \A s \in SUBSET S : s # {} => pick(s) \in s /\ s \ {pick(s)} \in SUBSET S
  OBVIOUS
<1> HIDE DEF pick
<1>3. Sums(weights)
  <2>2. Weight({}) = 0
    BY WeightOfNone
  <2>3. ASSUME NEW s \in SUBSET S, s # {}
        PROVE  Weight(s) = Power[pick(s)] + Weight(s \ {pick(s)})
    <3>1. pick(s) \in s /\ IsFiniteSet(s) /\ s \in SUBSET AirFrame
      BY <1>2, <2>3, FS_Subset
    <3> QED BY <3>1, WeightOfLess
  <2> QED BY <1>2, <2>2, <2>3
<1>4. PICK g : g = (CHOOSE h : Sums(h)) /\ Sums(g)
  BY <1>3
<1>5. /\ g[{}] = 0 /\ Weight({}) = 0
      /\ \A s \in SUBSET S : s # {} =>
            /\ g[s] = Power[pick(s)] + g[s \ {pick(s)}]
            /\ Weight(s) = Power[pick(s)] + Weight(s \ {pick(s)})
  <2>1. /\ {} \in SUBSET S /\ weights[{}] = 0
        /\ \A s \in SUBSET S : s # {} => weights[s] = Power[pick(s)] + weights[s \ {pick(s)}]
    BY <1>3
  <2> QED BY <1>2, <1>4, <2>1
<1> HIDE DEF Sums, weights
<1>6. g[S] = Weight(S)
  <2> DEFINE W == {s \in SUBSET S : g[s] # Weight(s)}
  <2>1. IsWellFoundedOn(StrictSubsetOrdering(S), SUBSET S)
    BY FS_StrictSubsetOrderingWellFounded, FS_FiniteSubsetsOfFinite
  <2>2. SUFFICES ASSUME W # {} PROVE FALSE
    OBVIOUS
  <2>3. PICK s \in W : \A t \in W : <<t, s>> \notin StrictSubsetOrdering(S)
    BY <2>1, <2>2, WFMin
  <2>4. s \in SUBSET S /\ s # {}
    BY <1>5, <2>3
  <2>5. s \ {pick(s)} \notin W
    BY <1>2, <2>3, <2>4 DEF StrictSubsetOrdering
  <2>6. g[s \ {pick(s)}] = Weight(s \ {pick(s)})
    BY <1>2, <2>4, <2>5
  <2> QED BY <1>5, <2>3, <2>4, <2>6
<1>7. total = Weight(S)
  BY <1>1, <1>4, <1>6
<1> QED BY <1>7 DEF total

-----------------------------------------------------------------------------
(* Two invariants that build on RadioNicInv                                 *)

\* The air at this node holds finitely many frames and their power is the RSSI
Total == IsFiniteSet(recvBuff) /\ rssi = thermalNoise + Weight(recvBuff)

LEMMA InitTotal == RadioNicInit => Total
<1> SUFFICES ASSUME RadioNicInit PROVE Total
  OBVIOUS
<1>1. recvBuff = {} /\ rssi = thermalNoise
  BY DEF RadioNicInit, PhyInit
<1>2. Weight({}) = 0 /\ IsFiniteSet({})
  BY WeightOfNone, FS_EmptySet
<1> QED BY <1>1, <1>2, PowerAssumption DEF Total

LEMMA TotalStep == RadioNicInv /\ Total /\ [RadioNicNext]_radioNicVars => Total'
<1> SUFFICES ASSUME RadioNicInv, Total, [RadioNicNext]_radioNicVars PROVE Total'
  OBVIOUS
<1>1. /\ recvBuff \in SUBSET AirFrame /\ IsFiniteSet(recvBuff)
      /\ rssi = thermalNoise + Weight(recvBuff) /\ Weight(recvBuff) \in Nat
      /\ rssi \in Int /\ thermalNoise \in Nat
  BY UnitsFinite, PowerAssumption DEF RadioNicInv, RadioNicTypeOK, PhyTypeOK, Total
<1>2. ASSUME recvBuff' = recvBuff, rssi' = rssi PROVE Total'
  BY <1>2 DEF Total
<1>3. ASSUME NEW f \in AirFrame, NewFrame(f) PROVE Total'
  <2>1. f \in AirFrame \ recvBuff /\ recvBuff' = recvBuff \cup {f} /\ rssi' = rssi + Power[f]
    BY <1>3 DEF NewFrame, NewFrameSynchronised, NewFrameNoise, NewFrameInterferes, Arrives,
       addToNoiseLevel
  <2>2. Weight(recvBuff \cup {f}) = Weight(recvBuff) + Power[f] /\ Power[f] \in Nat
    BY <1>1, <2>1, WeightOfMore, PowerAssumption
  <2>3. IsFiniteSet(recvBuff \cup {f})
    BY <1>1, FS_AddElement
  <2>4. Weight(recvBuff)' = Weight(recvBuff \cup {f}) /\ IsFiniteSet(recvBuff')
    BY <2>1, <2>3, Zenon DEF Weight, Units
  <2>5. rssi' = thermalNoise + Weight(recvBuff)'
    BY <1>1, <2>1, <2>2, <2>4
  <2> QED BY <2>4, <2>5 DEF Total
<1>4. ASSUME NEW f \in AirFrame, EndFrame(f) PROVE Total'
  <2>1. f \in recvBuff /\ recvBuff' = recvBuff \ {f}
    BY <1>4 DEF EndFrame, EndFrameMonitor, EndFrameSync, EndFrameInterferer, EndFrameDecoded, Ends
  <2>2. Weight(recvBuff) = Power[f] + Weight(recvBuff \ {f}) /\ Weight(recvBuff \ {f}) \in Nat
        /\ Power[f] \in Nat
    BY <1>1, <2>1, WeightOfLess, PowerAssumption
  <2>3. rssi' = rssi - Power[f]
    <3>1. CASE EndFrameDecoded(f)
      <4>1. rssi' = noiseLevel /\ noiseLevel \in Int /\ rssi = noiseLevel + Power[f]
        BY <3>1 DEF EndFrameDecoded, RadioNicInv, RadioNicTypeOK, PhyTypeOK, SignalAndNoise
      <4> QED BY <4>1, <2>2
    <3>2. CASE EndFrameMonitor(f) \/ EndFrameSync(f) \/ EndFrameInterferer(f)
      BY <3>2 DEF EndFrameMonitor, EndFrameSync, EndFrameInterferer, removeFromNoiseLevel
    <3> QED BY <1>4, <3>1, <3>2 DEF EndFrame
  <2>4. IsFiniteSet(recvBuff \ {f})
    BY <1>1, FS_RemoveElement
  <2>5. Weight(recvBuff)' = Weight(recvBuff \ {f}) /\ IsFiniteSet(recvBuff')
    BY <2>1, <2>4, Zenon DEF Weight, Units
  <2>6. rssi' = thermalNoise + Weight(recvBuff)'
    BY <1>1, <2>2, <2>3, <2>5
  <2> QED BY <2>5, <2>6 DEF Total
<1>5. ASSUME NEW c \in Command, execute(c) PROVE Total'
  BY <1>2, <1>5 DEF execute
<1>6. CASE enterState
  BY <1>2, <1>6 DEF enterState
<1>7. CASE UNCHANGED radioNicVars
  BY <1>2, <1>7 DEF radioNicVars
<1> QED BY <1>3, <1>4, <1>5, <1>6, <1>7 DEF RadioNicNext

\* The states the switch timer may be set for on the way to what c asks for
Towards(c) ==
    IF c = "ENTER_SLEEP" THEN {"SLEEP"}
    ELSE IF c = "ENTER_RX" THEN {"SETUP_RX", "SWITCH_TX_RX", "RX"}
    ELSE {"SETUP_TX", "SWITCH_RX_TX", "TX"}

\* The last command, unless it was hasty, is executed or being executed
Commanded ==
    ~hasty /\ lastCommand # "NONE" =>
       IF timer = NoTimer THEN <<lastCommand, detailedState>> \in Target
       ELSE timer \in Towards(lastCommand)

LEMMA CommandedStep == RadioNicInv /\ Commanded /\ [RadioNicNext]_radioNicVars => Commanded'
<1> SUFFICES ASSUME RadioNicInv, Commanded, [RadioNicNext]_radioNicVars PROVE Commanded'
  OBVIOUS
<1>1. RadioTypeOK /\ NoTransientForever
  BY DEF RadioNicInv, RadioNicTypeOK
<1>2. ASSUME NEW c \in Command, execute(c) PROVE Commanded'
  BY <1>1, <1>2 DEF execute, Requested, Commanded, Towards, Target, Command, Steady, NoTimer,
     RadioTypeOK, RadioAccNoise3State, NoTransientForever
<1>3. CASE enterState
  BY <1>1, <1>3 DEF enterState, NextTimer, Commanded, Towards, Target, Command, Steady, NoTimer,
     RadioTypeOK, RadioAccNoise3State
<1>4. ASSUME NEW f \in AirFrame, NewFrame(f) \/ EndFrame(f) PROVE Commanded'
  <2>1. UNCHANGED radioVars
    BY <1>4 DEF NewFrame, NewFrameSynchronised, NewFrameNoise, NewFrameInterferes, Arrives,
       EndFrame, EndFrameMonitor, EndFrameSync, EndFrameInterferer, EndFrameDecoded, Ends
  <2> QED BY <2>1 DEF radioVars, Commanded
<1>5. CASE UNCHANGED radioNicVars
  BY <1>5 DEF radioNicVars, radioVars, Commanded
<1> QED BY <1>2, <1>3, <1>4, <1>5 DEF RadioNicNext

-----------------------------------------------------------------------------
(* The theorems                                                             *)

\* The inductive invariant holds for every set of frames and all powers.
THEOREM RadioNicInvariance == RadioNicSpec => []RadioNicInv
BY RadioNicInitInv, NextStep, PTL DEF RadioNicSpec

\* The receiver searches or decodes exactly while the radio receives, and the
\* radio always leaves its transient states.
THEOREM ReceiverInStep == RadioNicSpec => [](ReceiverFollowsRadio /\ NoTransientForever)
<1>1. RadioNicInv => ReceiverFollowsRadio /\ NoTransientForever
  BY DEF RadioNicInv
<1> QED BY RadioNicInvariance, <1>1, PTL

\* Power moves between signal and noise without loss, and no pointer to a frame
\* outlives it.
THEOREM PowerAccounted == RadioNicSpec => [](SignalAndNoise /\ TrackedOnAir)
<1>1. RadioNicInv => SignalAndNoise /\ TrackedOnAir
  BY DEF RadioNicInv
<1> QED BY RadioNicInvariance, <1>1, PTL

\* A MAC that assesses the channel while its radio receives reads the RSSI of
\* the moment.
THEOREM RssiNeverStale == RadioNicSpec => []PublishedRssiCurrent
<1>1. RadioNicInv => PublishedRssiCurrent
  BY DEF RadioNicInv
<1> QED BY RadioNicInvariance, <1>1, PTL

\* The SNR that goes up with a frame is the one of its worst moment.
THEOREM SnrIsWorst == RadioNicSpec => [](SnrListComplete /\ ReportedIsWorst)
<1>1. RadioNicInv => SnrListComplete /\ ReportedIsWorst
  BY DEF RadioNicInv
<1> QED BY RadioNicInvariance, <1>1, PTL

\* The RSSI is the thermal noise and the power of every frame on the air, after
\* any number of receptions, interruptions and collisions of any frames.
THEOREM RssiTotal == RadioNicSpec => []RssiIsTotal
<1>1. RadioNicInv /\ Total => RssiIsTotal
  <2> SUFFICES ASSUME RadioNicInv, Total PROVE RssiIsTotal
    OBVIOUS
  <2>1. recvBuff \in SUBSET AirFrame /\ IsFiniteSet(recvBuff)
    BY DEF RadioNicInv, RadioNicTypeOK, PhyTypeOK, Total
  <2>2. MapThenSumSet(LAMBDA f : Power[f], recvBuff) = Weight(recvBuff)
    BY <2>1, SumIsWeight
  <2> QED BY <2>2, Zenon DEF RssiIsTotal, Total
<1>2. RadioNicSpec => []Total
  BY RadioNicInvariance, InitTotal, TotalStep, PTL DEF RadioNicSpec
<1> QED BY RadioNicInvariance, <1>1, <1>2, PTL

\* With no switch pending the radio is in the state the MAC asked for last, unless
\* that command came while another waited for its event.
THEOREM CommandsObeyed == RadioNicSpec => []LastCommandObeyed
<1>1. Commanded => LastCommandObeyed
  BY DEF Commanded, LastCommandObeyed
<1>2. RadioNicInit => Commanded
  BY DEF RadioNicInit, RadioInit, Commanded
<1>3. RadioNicSpec => []Commanded
  BY RadioNicInvariance, <1>2, CommandedStep, PTL DEF RadioNicSpec
<1> QED BY <1>1, <1>3, PTL

-----------------------------------------------------------------------------
(* The blackboard                                                           *)

\* The radio and the receiver are modelled with a blackboard that tells everyone at
\* once: a publication is a call, and what it brings about belongs to the action.
\* That is what EveryoneIsTold says of the Blackboard of a host, for any classes of
\* items, subscribers and publications nested in callbacks.

LEMMA Least ==
  ASSUME NEW T \in SUBSET Nat, T # {}
  PROVE  \E k \in T : \A j \in T : k <= j
<1>1. PICK k \in T : \A j \in T : ~(<<j, k>> \in OpToRel(<, Nat))
  BY NatLessThanWellFounded, WFMin
<1>2. OpToRel(<, Nat) = {ss \in Nat \X Nat : ss[1] < ss[2]}
  BY DEF OpToRel
<1>3. \A j \in T : ~(j < k)
  BY <1>1, <1>2
<1>. QED  BY <1>3

-----------------------------------------------------------------------------
(* The classes of the items                                                 *)

\* Single inheritance: each class has a depth below BBItem.
Hierarchy(depth) ==
    /\ Parent \in [Class -> Class \cup {BBItem}] /\ BBItem \notin Class
    /\ ClassOf \in [Item -> Class]
    /\ depth \in [Class -> Nat]
    /\ \A k \in Class : Parent[k] # BBItem => depth[Parent[k]] < depth[k]

\* What a class inherits from its base class, every class has.
LEMMA Inherited ==
  ASSUME NEW CONSTANT depth, Hierarchy(depth), NEW S \in SUBSET Class,
         \A k \in Class : Parent[k] = BBItem \/ Parent[k] \in S => k \in S
  PROVE  S = Class
<1>. SUFFICES ASSUME NEW x \in Class, x \notin S PROVE FALSE
  OBVIOUS
<1>. DEFINE T == {depth[k] : k \in Class \ S}
<1>1. T \in SUBSET Nat /\ T # {}
  BY DEF Hierarchy
<1>2. PICK d \in T : \A j \in T : d <= j
  BY <1>1, Least
<1>3. PICK k \in Class \ S : depth[k] = d
  BY <1>2
<1>4. Parent[k] # BBItem /\ Parent[k] \in Class \ S
  BY <1>3 DEF Hierarchy
<1>5. depth[Parent[k]] \in T /\ depth[Parent[k]] < d /\ depth[Parent[k]] \in Nat /\ d \in Nat
  BY <1>1, <1>3, <1>4 DEF Hierarchy
<1>. QED  BY <1>2, <1>5

\* f collects a[k] and what the base classes of k have, for the classes in K.
Ascends(f, a, K) ==
    f = [k \in K |-> a[k] \o (IF Parent[k] = BBItem THEN <<>> ELSE f[Parent[k]])]

LEMMA AscentUnique ==
  ASSUME NEW CONSTANT depth, Hierarchy(depth), NEW a, NEW K \in SUBSET Class, NEW L \in SUBSET Class,
         NEW f, NEW g, Ascends(f, a, K), Ascends(g, a, L),
         \A k \in Class : Parent[k] # BBItem => (k \in K => Parent[k] \in K) /\ (k \in L => Parent[k] \in L)
  PROVE  \A k \in K \cap L : f[k] = g[k]
<1>. DEFINE S == {k \in Class : k \in K \cap L => f[k] = g[k]}
<1>1. ASSUME NEW k \in Class, Parent[k] = BBItem \/ Parent[k] \in S, k \in K \cap L
      PROVE  f[k] = g[k]
  <2>1. /\ f[k] = a[k] \o (IF Parent[k] = BBItem THEN <<>> ELSE f[Parent[k]])
        /\ g[k] = a[k] \o (IF Parent[k] = BBItem THEN <<>> ELSE g[Parent[k]])
    BY <1>1 DEF Ascends
  <2>2. Parent[k] # BBItem => f[Parent[k]] = g[Parent[k]]
    BY <1>1
  <2>. QED  BY <2>1, <2>2
<1>2. S = Class
  <2>1. S \in SUBSET Class /\ \A k \in Class : Parent[k] = BBItem \/ Parent[k] \in S => k \in S
    BY <1>1
  <2>. HIDE DEF S
  <2>. QED  BY <2>1, Inherited
<1>. QED  BY <1>2

LEMMA AscentExists ==
  ASSUME NEW CONSTANT depth, Hierarchy(depth), NEW a
  PROVE  \E f : Ascends(f, a, Class)
<1>. DEFINE Below(n) == {k \in Class : depth[k] < n}
            Solvable(n) == \E f : Ascends(f, a, Below(n))
            T == {n \in Nat : ~ Solvable(n)}
<1>1. \A n \in Nat, k \in Class : k \in Below(n) /\ Parent[k] # BBItem => Parent[k] \in Below(n)
  BY DEF Hierarchy
<1>2. \A n \in Nat : \A k \in Below(n + 1) : Parent[k] # BBItem => Parent[k] \in Below(n)
  BY DEF Hierarchy
<1>3. Below(0) = {}
  BY DEF Hierarchy
<1>4. \A k \in Class : depth[k] \in Nat /\ k \in Below(depth[k] + 1)
  BY DEF Hierarchy
<1>5. \A n \in Nat : Below(n) \subseteq Below(n + 1) /\ Below(n) \in SUBSET Class
  BY DEF Hierarchy
<1>. HIDE DEF Below
<1>6. T = {}
  <2>. SUFFICES ASSUME T # {} PROVE FALSE
    OBVIOUS
  <2>1. PICK n \in T : \A m \in T : n <= m
    BY Least
  <2>2. n # 0
    <3>1. Ascends([k \in {} |-> <<>>], a, Below(0))
      BY <1>3 DEF Ascends
    <3>. QED  BY <3>1
  <2>3. n - 1 \in Nat /\ n - 1 \notin T /\ n = (n - 1) + 1
    BY <2>1, <2>2
  <2>4. PICK f : Ascends(f, a, Below(n - 1))
    BY <2>3
  <2>. DEFINE g == [k \in Below(n) |-> a[k] \o (IF Parent[k] = BBItem THEN <<>> ELSE f[Parent[k]])]
  <2>5. \A k \in Below(n) : Parent[k] # BBItem => Parent[k] \in Below(n) /\ Parent[k] \in Below(n - 1)
    BY <1>2, <1>5, <2>3
  <2>6. \A k \in Below(n - 1) : k \in Below(n) /\ f[k] = g[k]
    BY <1>5, <2>3, <2>4 DEF Ascends
  <2>7. \A k \in Below(n) : Parent[k] # BBItem => f[Parent[k]] = g[Parent[k]]
    BY <2>5, <2>6
  <2>8. Ascends(g, a, Below(n))
    BY <2>7 DEF Ascends
  <2>. QED  BY <2>8, <2>1
<1>7. \A n \in Nat : \E f : Ascends(f, a, Below(n))
  BY <1>6
<1>. DEFINE part == [n \in Nat |-> CHOOSE f : Ascends(f, a, Below(n))]
            all == [k \in Class |-> part[depth[k] + 1][k]]
<1>8. \A n \in Nat : Ascends(part[n], a, Below(n))
  BY <1>7
<1>. HIDE DEF part
<1>9. \A m, n \in Nat : \A k \in Below(m) \cap Below(n) : part[m][k] = part[n][k]
  <2>. SUFFICES ASSUME NEW m \in Nat, NEW n \in Nat
                PROVE  \A k \in Below(m) \cap Below(n) : part[m][k] = part[n][k]
    OBVIOUS
  <2>1. \A k \in Class : Parent[k] # BBItem => (k \in Below(m) => Parent[k] \in Below(m))
                                          /\ (k \in Below(n) => Parent[k] \in Below(n))
    BY <1>1
  <2>2. Below(m) \in SUBSET Class /\ Below(n) \in SUBSET Class
    BY <1>5
  <2>3. Ascends(part[m], a, Below(m)) /\ Ascends(part[n], a, Below(n))
    BY <1>8
  <2>. QED  BY <2>1, <2>2, <2>3, AscentUnique
<1>10. \A k \in Class : all[k] = a[k] \o (IF Parent[k] = BBItem THEN <<>> ELSE all[Parent[k]])
  <2>. SUFFICES ASSUME NEW k \in Class
                PROVE  all[k] = a[k] \o (IF Parent[k] = BBItem THEN <<>> ELSE all[Parent[k]])
    OBVIOUS
  <2>. DEFINE n == depth[k] + 1
  <2>1. n \in Nat /\ k \in Below(n) /\ Ascends(part[n], a, Below(n)) /\ all[k] = part[n][k]
    BY <1>4, <1>8
  <2>. HIDE DEF n
  <2>2. all[k] = a[k] \o (IF Parent[k] = BBItem THEN <<>> ELSE part[n][Parent[k]])
    BY <2>1 DEF Ascends
  <2>3. ASSUME Parent[k] # BBItem PROVE part[n][Parent[k]] = all[Parent[k]]
    <3>1. Parent[k] \in Class /\ Parent[k] \in Below(n)
      BY <2>1, <2>3, <1>1 DEF Hierarchy
    <3>2. depth[Parent[k]] + 1 \in Nat /\ Parent[k] \in Below(depth[Parent[k]] + 1)
      BY <3>1, <1>4
    <3>. QED  BY <3>1, <3>2, <2>1, <1>9
  <2>. QED  BY <2>2, <2>3
<1>. HIDE DEF all
<1>11. Ascends([k \in Class |-> all[k]], a, Class)
  <2>1. \A k \in Class : Parent[k] # BBItem => Parent[k] \in Class
    BY DEF Hierarchy
  <2>. QED  BY <1>10, <2>1 DEF Ascends
<1>. QED  BY <1>11

-----------------------------------------------------------------------------
(* Lineage and Missing                                                      *)

Bases(k) == Range(Lineage[k])

LEMMA LineageEquation ==
  ASSUME NEW CONSTANT depth, Hierarchy(depth)
  PROVE  \A k \in Class : Lineage[k] = <<k>> \o (IF Parent[k] = BBItem THEN <<>> ELSE Lineage[Parent[k]])
<1>. DEFINE Solves(f) == f = [k \in Class |-> <<k>> \o (IF Parent[k] = BBItem THEN <<>> ELSE f[Parent[k]])]
            a == [k \in Class |-> <<k>>]
<1>1. \E f : Ascends(f, a, Class)
  BY AscentExists
<1>2. \A f : Ascends(f, a, Class) => Solves(f)
  BY DEF Ascends
<1>3. Lineage = CHOOSE f : Solves(f)
  BY DEF Lineage
<1>. HIDE DEF Solves
<1>4. Solves(Lineage)
  BY <1>1, <1>2, <1>3
<1>. QED  BY <1>4 DEF Solves

LEMMA MissingEquation ==
  ASSUME NEW CONSTANT depth, Hierarchy(depth)
  PROVE  \A k \in Class : Missing[k] = (IF Known(k) THEN <<>> ELSE <<k>>) \o
                                       (IF Parent[k] = BBItem THEN <<>> ELSE Missing[Parent[k]])
<1>. DEFINE Solves(f) == f = [k \in Class |-> (IF Known(k) THEN <<>> ELSE <<k>>) \o
                                              (IF Parent[k] = BBItem THEN <<>> ELSE f[Parent[k]])]
            a == [k \in Class |-> IF Known(k) THEN <<>> ELSE <<k>>]
<1>1. \E f : Ascends(f, a, Class)
  BY AscentExists
<1>2. \A f : Ascends(f, a, Class) => Solves(f)
  BY DEF Ascends
<1>3. Missing = CHOOSE f : Solves(f)
  BY DEF Missing
<1>. HIDE DEF Solves
<1>4. Solves(Missing)
  BY <1>1, <1>2, <1>3
<1>. QED  BY <1>4 DEF Solves

LEMMA Concatenated ==
  ASSUME NEW s \in Seq(Class), NEW t \in Seq(Class)
  PROVE  s \o t \in Seq(Class) /\ Range(s \o t) = Range(s) \cup Range(t)
<1>1. /\ s \o t \in Seq(Class) /\ Len(s \o t) = Len(s) + Len(t)
      /\ \A i \in 1..(Len(s) + Len(t)) : (s \o t)[i] = IF i <= Len(s) THEN s[i] ELSE t[i - Len(s)]
  OBVIOUS
<1>2. DOMAIN (s \o t) = 1..(Len(s) + Len(t)) /\ DOMAIN s = 1..Len(s) /\ DOMAIN t = 1..Len(t)
  BY <1>1
<1>3. Range(s) \subseteq Range(s \o t)
  BY <1>1, <1>2 DEF Range
<1>4. Range(t) \subseteq Range(s \o t)
  <2>. SUFFICES ASSUME NEW i \in 1..Len(t) PROVE t[i] \in Range(s \o t)
    BY <1>2 DEF Range
  <2>1. i + Len(s) \in DOMAIN (s \o t) /\ (s \o t)[i + Len(s)] = t[i]
    BY <1>1, <1>2
  <2>. QED  BY <2>1 DEF Range
<1>5. Range(s \o t) \subseteq Range(s) \cup Range(t)
  <2>. SUFFICES ASSUME NEW i \in 1..(Len(s) + Len(t)) PROVE (s \o t)[i] \in Range(s) \cup Range(t)
    BY <1>2 DEF Range
  <2>1. CASE i <= Len(s)
    BY <1>1, <1>2, <2>1 DEF Range
  <2>2. CASE ~(i <= Len(s))
    <3>1. i - Len(s) \in DOMAIN t /\ (s \o t)[i] = t[i - Len(s)]
      BY <1>1, <1>2, <2>2
    <3>. QED  BY <3>1 DEF Range
  <2>. QED  BY <2>1, <2>2
<1>. QED  BY <1>1, <1>3, <1>4, <1>5

LEMMA SingleRange ==
  ASSUME NEW k \in Class
  PROVE  <<k>> \in Seq(Class) /\ Range(<<k>>) = {k} /\ <<>> \in Seq(Class) /\ Range(<<>>) = {}
BY DEF Range

\* A class and the bases of its base class
LEMMA BasesOf ==
  ASSUME NEW CONSTANT depth, Hierarchy(depth)
  PROVE  \A k \in Class : /\ Lineage[k] \in Seq(Class)
                          /\ Bases(k) = {k} \cup IF Parent[k] = BBItem THEN {} ELSE Bases(Parent[k])
<1>. DEFINE S == {k \in Class : Lineage[k] \in Seq(Class)}
<1>1. \A k \in Class : Parent[k] = BBItem \/ Parent[k] \in S => k \in S
  BY LineageEquation, SingleRange, Concatenated
<1>2. S \in SUBSET Class
  OBVIOUS
<1>3. S = Class
  <2>. HIDE DEF S
  <2>. QED  BY <1>1, <1>2, Inherited
<1>4. \A k \in Class : Lineage[k] \in Seq(Class)
  BY <1>3
<1>. SUFFICES ASSUME NEW k \in Class
              PROVE  Bases(k) = {k} \cup IF Parent[k] = BBItem THEN {} ELSE Bases(Parent[k])
  BY <1>4
<1>5. CASE Parent[k] = BBItem
  <2>1. Lineage[k] = <<k>> \o <<>>
    BY <1>5, LineageEquation
  <2>2. Range(<<k>> \o <<>>) = {k}
    BY SingleRange, Concatenated
  <2>. QED  BY <1>5, <2>1, <2>2 DEF Bases
<1>6. CASE Parent[k] # BBItem
  <2>1. Parent[k] \in Class
    BY <1>6 DEF Hierarchy
  <2>2. Lineage[k] = <<k>> \o Lineage[Parent[k]]
    BY <1>6, LineageEquation
  <2>. QED  BY <1>4, <1>6, <2>1, <2>2, SingleRange, Concatenated DEF Bases
<1>. QED  BY <1>5, <1>6

LEMMA BasesClosed ==
  ASSUME NEW CONSTANT depth, Hierarchy(depth)
  PROVE  \A k \in Class : /\ k \in Bases(k) /\ Bases(k) \subseteq Class
                          /\ \A b \in Bases(k) : /\ depth[b] <= depth[k]
                                                 /\ Parent[b] # BBItem => Parent[b] \in Bases(k)
<1>. DEFINE Closed(k) == \A b \in Bases(k) : /\ depth[b] <= depth[k]
                                             /\ Parent[b] # BBItem => Parent[b] \in Bases(k)
            S == {k \in Class : Closed(k)}
<1>0. \A k \in Class : k \in Bases(k) /\ Bases(k) \subseteq Class
  BY BasesOf DEF Bases, Range
<1>1. ASSUME NEW k \in Class, Parent[k] = BBItem \/ Parent[k] \in S PROVE Closed(k)
  <2>1. CASE Parent[k] = BBItem
    <3>1. Bases(k) = {k} /\ depth[k] \in Nat
      BY <2>1, BasesOf DEF Hierarchy
    <3>. QED  BY <2>1, <3>1
  <2>2. CASE Parent[k] # BBItem
    <3>1. Parent[k] \in Class /\ depth[Parent[k]] < depth[k] /\ depth[k] \in Nat /\ Closed(Parent[k])
      BY <1>1, <2>2 DEF Hierarchy
    <3>2. Bases(k) = {k} \cup Bases(Parent[k])
      BY <2>2, BasesOf
    <3>3. \A b \in Class : depth[b] \in Nat
      BY DEF Hierarchy
    <3>4. Parent[k] \in Bases(Parent[k]) /\ Bases(Parent[k]) \subseteq Class
      BY <1>0, <3>1
    <3>. QED  BY <3>1, <3>2, <3>3, <3>4
  <2>. QED  BY <2>1, <2>2
<1>2. S \in SUBSET Class
  OBVIOUS
<1>3. S = Class
  <2>1. \A k \in Class : Parent[k] = BBItem \/ Parent[k] \in S => k \in S
    BY <1>1
  <2>. HIDE DEF S
  <2>. QED  BY <1>2, <2>1, Inherited
<1>. QED  BY <1>0, <1>3

OneToOne(s) == \A i, j \in DOMAIN s : s[i] = s[j] => i = j

LEMMA JoinOneToOne ==
  ASSUME NEW s \in Seq(Class), NEW t \in Seq(Class), OneToOne(s), OneToOne(t),
         \A k \in Class : ~(k \in Range(s) /\ k \in Range(t))
  PROVE  OneToOne(s \o t)
<1>1. /\ s \o t \in Seq(Class) /\ Len(s \o t) = Len(s) + Len(t) /\ Len(s) \in Nat /\ Len(t) \in Nat
      /\ \A i \in 1..(Len(s) + Len(t)) : (s \o t)[i] = IF i <= Len(s) THEN s[i] ELSE t[i - Len(s)]
  OBVIOUS
<1>2. DOMAIN (s \o t) = 1..(Len(s) + Len(t)) /\ DOMAIN s = 1..Len(s) /\ DOMAIN t = 1..Len(t)
  BY <1>1
<1>3. \A i \in 1..Len(s) : s[i] \in Class /\ s[i] \in Range(s)
  BY <1>2 DEF Range
<1>4. \A i \in 1..Len(t) : t[i] \in Range(t)
  BY <1>2 DEF Range
<1>5. \A i \in 1..Len(s), j \in 1..Len(t) : s[i] # t[j]
  BY <1>3, <1>4
<1>. SUFFICES ASSUME NEW i \in 1..(Len(s) + Len(t)), NEW j \in 1..(Len(s) + Len(t)), (s \o t)[i] = (s \o t)[j]
              PROVE  i = j
  BY <1>2 DEF OneToOne
<1>6. (i <= Len(s) => i \in 1..Len(s)) /\ (~(i <= Len(s)) => i - Len(s) \in 1..Len(t))
  BY <1>1
<1>7. (j <= Len(s) => j \in 1..Len(s)) /\ (~(j <= Len(s)) => j - Len(s) \in 1..Len(t))
  BY <1>1
<1>8. CASE i <= Len(s) /\ j <= Len(s)
  BY <1>1, <1>2, <1>6, <1>7, <1>8 DEF OneToOne
<1>9. CASE ~(i <= Len(s)) /\ ~(j <= Len(s))
  <2>1. i - Len(s) = j - Len(s)
    BY <1>1, <1>2, <1>6, <1>7, <1>9 DEF OneToOne
  <2>. QED  BY <2>1, <1>1
<1>. QED  BY <1>1, <1>5, <1>6, <1>7, <1>8, <1>9

\* Missing[k]: the bases of k that are no categories yet, each once
LEMMA MissingOnce ==
  ASSUME NEW CONSTANT depth, Hierarchy(depth)
  PROVE  \A k \in Class : /\ Missing[k] \in Seq(Class) /\ OneToOne(Missing[k])
                          /\ Range(Missing[k]) = {b \in Bases(k) : ~ Known(b)}
<1>. DEFINE Good(k) == /\ Missing[k] \in Seq(Class) /\ OneToOne(Missing[k])
                       /\ Range(Missing[k]) = {b \in Bases(k) : ~ Known(b)}
            S == {k \in Class : Good(k)}
<1>1. ASSUME NEW k \in Class, Parent[k] = BBItem \/ Parent[k] \in S PROVE Good(k)
  <2>. DEFINE own == IF Known(k) THEN <<>> ELSE <<k>>
              rest == IF Parent[k] = BBItem THEN <<>> ELSE Missing[Parent[k]]
              above == IF Parent[k] = BBItem THEN {} ELSE Bases(Parent[k])
  <2>1. Missing[k] = own \o rest
    BY MissingEquation
  <2>2. own \in Seq(Class) /\ Range(own) = {b \in {k} : ~ Known(b)}
    BY SingleRange
  <2>3. OneToOne(own)
    BY DEF OneToOne
  <2>4. OneToOne(<<>>)
    BY DEF OneToOne
  <2>5. rest \in Seq(Class) /\ OneToOne(rest) /\ Range(rest) = {b \in above : ~ Known(b)}
    BY <1>1, <2>4, SingleRange
  <2>6. k \notin above
    <3>1. CASE Parent[k] # BBItem
      <4>1. Parent[k] \in Class /\ depth[Parent[k]] < depth[k]
        BY <3>1 DEF Hierarchy
      <4>2. \A b \in above : depth[b] <= depth[Parent[k]]
        BY <3>1, <4>1, BasesClosed
      <4>3. depth[Parent[k]] \in Nat /\ depth[k] \in Nat
        BY <4>1 DEF Hierarchy
      <4>. QED  BY <4>1, <4>2, <4>3
    <3>. QED  BY <3>1
  <2>7. Bases(k) = {k} \cup above
    BY BasesOf
  <2>. HIDE DEF own, rest, above
  <2>8. OneToOne(own \o rest)
    BY <2>2, <2>3, <2>5, <2>6, JoinOneToOne
  <2>9. own \o rest \in Seq(Class) /\ Range(own \o rest) = Range(own) \cup Range(rest)
    BY <2>2, <2>5, Concatenated
  <2>10. Range(own \o rest) = {b \in Bases(k) : ~ Known(b)}
    BY <2>2, <2>5, <2>7, <2>9
  <2>. QED  BY <2>1, <2>8, <2>9, <2>10
<1>2. S \in SUBSET Class
  OBVIOUS
<1>3. S = Class
  <2>1. \A k \in Class : Parent[k] = BBItem \/ Parent[k] \in S => k \in S
    BY <1>1
  <2>. HIDE DEF S
  <2>. QED  BY <1>2, <2>1, Inherited
<1>. QED  BY <1>3
-----------------------------------------------------------------------------
(* The inductive invariant                                                  *)

Subscriber == [client : Client, scope : Scope \cup {AnyScope}]
Call == [item : Item, next : Nat \ {0}, category : Nat]

\* Every class has one category, and its base class has one as well.
TablesOf(descriptions, clients, parents) ==
    /\ descriptions \in Seq(Class) /\ OneToOne(descriptions)
    /\ clients \in Seq(Seq(Subscriber)) /\ Len(clients) = Len(descriptions)
    /\ DOMAIN parents = DOMAIN descriptions
    /\ \A n \in DOMAIN descriptions :
          IF Parent[descriptions[n]] = BBItem THEN parents[n] = 0
          ELSE parents[n] \in DOMAIN descriptions /\ descriptions[parents[n]] = Parent[descriptions[n]]

BusOK ==
    /\ TablesOf(categoryDescriptions, clientVector, parentVector)
    /\ calls \in Seq(Call) /\ \A f \in DOMAIN calls : calls[f].category \in DOMAIN categoryDescriptions
    /\ stopped \in BOOLEAN /\ (stopped => calls = <<>>)
    /\ value \in [Item -> Nat] /\ seen \in [Client \X Item -> Nat]
    /\ wants \subseteq Client \X Class \X (Scope \cup {AnyScope})
    /\ due \subseteq Client \X Item

\* Client c is a subscriber of the class k in scope s.
Listed(descriptions, clients, c, k, s) ==
    \E n \in DOMAIN descriptions : /\ descriptions[n] = k
                                   /\ \E j \in DOMAIN clients[n] : clients[n][j] = [client |-> c, scope |-> s]

Listening(descriptions, clients) ==
    \A w \in wants : Listed(descriptions, clients, w[1], w[2], w[3])

DueWanted == \A d \in due : d[1] \in MustHear(wants, d[2])

\* The call f has still to come to client c.
Ahead(f, c) ==
    \E n \in DOMAIN categoryDescriptions : \E j \in DOMAIN clientVector[n] :
       /\ clientVector[n][j].client = c /\ Matches(clientVector[n][j].scope, f.item)
       /\ categoryDescriptions[n] \in Bases(categoryDescriptions[f.category])
       /\ n = f.category => j >= f.next

Comes(d) == \E f \in DOMAIN calls : calls[f].item = d[2] /\ Ahead(calls[f], d[1])

\* Who is due has seen the present value, or a call in progress comes to him.
Underway == \A d \in due : seen[d] = value[d[2]] \/ Comes(d)

BusInv ==
    /\ BusOK /\ DueWanted
    /\ ~ stopped => Listening(categoryDescriptions, clientVector) /\ Underway

LEMMA InitBusInv == BlackboardInit => BusInv
<1>. SUFFICES ASSUME BlackboardInit PROVE BusInv
  OBVIOUS
<1>1. /\ <<>> \in Seq(Class) /\ <<>> \in Seq(Seq(Subscriber)) /\ <<>> \in Seq(Call) /\ DOMAIN <<>> = {}
  OBVIOUS
<1>2. OneToOne(<<>>)
  BY <1>1 DEF OneToOne
<1>3. value \in [Item -> Nat] /\ seen \in [Client \X Item -> Nat]
  BY DEF BlackboardInit
<1>4. BusOK
  BY <1>1, <1>2, <1>3 DEF BlackboardInit, BusOK, TablesOf
<1>. QED  BY <1>4 DEF BlackboardInit, BusInv, DueWanted, Listening, Underway

-----------------------------------------------------------------------------
(* New categories                                                           *)

LEMMA Joined ==
  ASSUME NEW S, NEW s \in Seq(S), NEW t \in Seq(S)
  PROVE  s \o t \in Seq(S) /\ Len(s \o t) = Len(s) + Len(t) /\ \A n \in 1..Len(s) : (s \o t)[n] = s[n]
OBVIOUS

\* A known class has all of its bases among the categories.
LEMMA BasesKnown ==
  ASSUME NEW CONSTANT depth, Hierarchy(depth), BusOK
  PROVE  \A k \in Class : Known(k) => Bases(k) \subseteq Range(categoryDescriptions)
<1>. DEFINE S == {k \in Class : Known(k) => Bases(k) \subseteq Range(categoryDescriptions)}
<1>1. ASSUME NEW k \in Class, Parent[k] = BBItem \/ Parent[k] \in S, Known(k)
      PROVE  Bases(k) \subseteq Range(categoryDescriptions)
  <2>1. PICK n \in DOMAIN categoryDescriptions : categoryDescriptions[n] = k
    BY <1>1 DEF Known, Range
  <2>2. Parent[k] # BBItem => Known(Parent[k])
    BY <2>1 DEF BusOK, TablesOf, Known, Range
  <2>3. Bases(k) = {k} \cup IF Parent[k] = BBItem THEN {} ELSE Bases(Parent[k])
    BY BasesOf
  <2>4. k \in Range(categoryDescriptions)
    BY <1>1 DEF Known
  <2>. QED  BY <1>1, <2>2, <2>3, <2>4
<1>2. S = Class
  <2>1. S \in SUBSET Class /\ \A k \in Class : Parent[k] = BBItem \/ Parent[k] \in S => k \in S
    BY <1>1
  <2>. HIDE DEF S
  <2>. QED  BY <2>1, Inherited
<1>. QED  BY <1>2

LEMMA CreatedTables ==
  ASSUME NEW CONSTANT depth, Hierarchy(depth), BusOK, NEW k \in Class
  PROVE  /\ TablesOf(Created(k).descriptions, Created(k).clients, Created(k).parents)
         /\ \A n \in DOMAIN categoryDescriptions :
               /\ n \in DOMAIN Created(k).descriptions
               /\ Created(k).descriptions[n] = categoryDescriptions[n]
               /\ Created(k).clients[n] = clientVector[n]
         /\ k \in Range(Created(k).descriptions)
<1>. DEFINE D == categoryDescriptions
            new == Missing[k]
            all == D \o new
            empty == [n \in DOMAIN new |-> <<>>]
            clients == clientVector \o empty
            grows(n) == ~ Known(k) /\ all[n] \in Bases(k) /\ Parent[all[n]] # BBItem
            parents == [n \in DOMAIN all |-> IF grows(n) THEN CategoryOf(all, Parent[all[n]])
                                             ELSE IF n \in DOMAIN parentVector THEN parentVector[n] ELSE 0]
<1>1. Created(k).descriptions = all /\ Created(k).clients = clients /\ Created(k).parents = parents
  BY DEF Created, Bases
<1>2. /\ D \in Seq(Class) /\ OneToOne(D) /\ clientVector \in Seq(Seq(Subscriber)) /\ Len(clientVector) = Len(D)
      /\ DOMAIN parentVector = DOMAIN D
  BY DEF BusOK, TablesOf
<1>3. new \in Seq(Class) /\ OneToOne(new) /\ Range(new) = {b \in Bases(k) : ~ Known(b)}
  BY MissingOnce
<1>. HIDE DEF new
<1>4. /\ all \in Seq(Class) /\ DOMAIN all = 1..(Len(D) + Len(new)) /\ DOMAIN D = 1..Len(D) /\ DOMAIN new = 1..Len(new)
      /\ Len(D) \in Nat /\ Len(new) \in Nat /\ Len(all) = Len(D) + Len(new)
      /\ \A n \in DOMAIN D : all[n] = D[n]
      /\ \A n \in 1..(Len(D) + Len(new)) : n \notin DOMAIN D => n - Len(D) \in DOMAIN new /\ all[n] = new[n - Len(D)]
  BY <1>2, <1>3
<1>5. OneToOne(all)
  BY <1>2, <1>3, JoinOneToOne DEF Known
<1>6. Range(all) = Range(D) \cup Range(new)
  BY <1>2, <1>3, Concatenated
<1>7. Bases(k) \subseteq Range(all)
  BY <1>3, <1>6 DEF Known
<1>8. k \in Range(all)
  BY <1>7, BasesClosed
<1>9. empty \in Seq(Seq(Subscriber)) /\ Len(empty) = Len(new)
  <2>1. <<>> \in Seq(Subscriber)
    OBVIOUS
  <2>2. empty \in [1..Len(new) -> Seq(Subscriber)]
    BY <1>4, <2>1
  <2>. QED  BY <1>4, <2>2, SeqDef
<1>. HIDE DEF empty
<1>10. /\ clients \in Seq(Seq(Subscriber)) /\ Len(clients) = Len(all)
       /\ \A n \in DOMAIN D : clients[n] = clientVector[n]
  <2>1. clients \in Seq(Seq(Subscriber)) /\ Len(clients) = Len(clientVector) + Len(empty)
    BY <1>2, <1>9, Joined
  <2>2. \A n \in 1..Len(clientVector) : clients[n] = clientVector[n]
    BY <1>2, <1>9, Joined
  <2>3. DOMAIN D = 1..Len(clientVector) /\ Len(clients) = Len(all)
    BY <1>2, <1>4, <1>9, <2>1
  <2>. QED  BY <2>1, <2>2, <2>3
<1>11. ASSUME NEW n \in DOMAIN all
       PROVE  IF Parent[all[n]] = BBItem THEN parents[n] = 0
              ELSE parents[n] \in DOMAIN all /\ all[parents[n]] = Parent[all[n]]
  <2>1. CASE grows(n)
    <3>1. Parent[all[n]] \in Range(all)
      BY <1>7, <2>1, BasesClosed
    <3>2. \E m \in DOMAIN all : all[m] = Parent[all[n]]
      BY <3>1 DEF Range
    <3>3. parents[n] = CategoryOf(all, Parent[all[n]])
      BY <2>1
    <3>. QED  BY <2>1, <3>2, <3>3 DEF CategoryOf
  <2>2. CASE ~ grows(n) /\ n \in DOMAIN D
    <3>1. parents[n] = parentVector[n] /\ all[n] = D[n]
      BY <1>2, <1>4, <2>2
    <3>2. IF Parent[D[n]] = BBItem THEN parentVector[n] = 0
          ELSE parentVector[n] \in DOMAIN D /\ D[parentVector[n]] = Parent[D[n]]
      BY <2>2 DEF BusOK, TablesOf
    <3>3. DOMAIN D \subseteq DOMAIN all
      BY <1>4
    <3>. QED  BY <1>4, <3>1, <3>2, <3>3
  <2>3. CASE ~ grows(n) /\ n \notin DOMAIN D
    <3>1. parents[n] = 0 /\ all[n] \in Range(new)
      BY <1>2, <1>4, <2>3 DEF Range
    <3>2. all[n] \in Bases(k) /\ ~ Known(all[n])
      BY <1>3, <3>1
    <3>3. ~ Known(k)
      <4>. SUFFICES ASSUME Known(k) PROVE FALSE
        OBVIOUS
      <4>1. Bases(k) \subseteq Range(D)
        BY BasesKnown DEF Known
      <4>. QED  BY <3>2, <4>1 DEF Known
    <3>4. Parent[all[n]] = BBItem
      BY <2>3, <3>2, <3>3
    <3>. QED  BY <3>1, <3>4
  <2>. QED  BY <2>1, <2>2, <2>3
<1>12. DOMAIN parents = DOMAIN all
  OBVIOUS
<1>. HIDE DEF parents, clients, all, D
<1>13. TablesOf(all, clients, parents)
  BY <1>4, <1>5, <1>10, <1>11, <1>12 DEF TablesOf
<1>14. DOMAIN D \subseteq DOMAIN all
  BY <1>4
<1>. QED  BY <1>1, <1>4, <1>8, <1>10, <1>13, <1>14 DEF D

LEMMA ListedGrows ==
  ASSUME NEW CONSTANT depth, Hierarchy(depth), BusOK, NEW k \in Class, NEW c, NEW b, NEW s,
         Listed(categoryDescriptions, clientVector, c, b, s)
  PROVE  Listed(Created(k).descriptions, Created(k).clients, c, b, s)
BY CreatedTables DEF Listed

LEMMA getCategoryStep ==
  ASSUME NEW CONSTANT depth, Hierarchy(depth), BusInv, NEW k \in Class, getCategory(k)
  PROVE  BusInv'
<1>1. /\ ~ stopped /\ calls = <<>> /\ categoryDescriptions' = Created(k).descriptions
      /\ clientVector' = Created(k).clients /\ parentVector' = Created(k).parents
      /\ calls' = calls /\ stopped' = stopped /\ value' = value /\ seen' = seen
      /\ wants' = wants /\ due' = due
  BY DEF getCategory
<1>2. BusOK /\ DueWanted /\ Listening(categoryDescriptions, clientVector) /\ Underway
  BY <1>1 DEF BusInv
<1>3. BusOK'
  BY <1>1, <1>2, CreatedTables DEF BusOK
<1>4. DueWanted'
  BY <1>1, <1>2 DEF DueWanted, MustHear
<1>5. Listening(categoryDescriptions, clientVector)'
  BY <1>1, <1>2, ListedGrows DEF Listening
<1>6. Underway'
  BY <1>1, <1>2 DEF Underway, Comes
<1>. QED  BY <1>3, <1>4, <1>5, <1>6 DEF BusInv

LEMMA MustHearGrows ==
  ASSUME NEW ws, NEW more, ws \subseteq more, NEW i
  PROVE  MustHear(ws, i) \subseteq MustHear(more, i)
BY DEF MustHear

LEMMA subscribeStep ==
  ASSUME NEW CONSTANT depth, Hierarchy(depth), BusInv,
         NEW c \in Client, NEW k \in Class, NEW s \in Scope \cup {AnyScope}, subscribe(c, k, s)
  PROVE  BusInv'
<1>. DEFINE D == Created(k).descriptions
            C == Created(k).clients
            n == CategoryOf(D, k)
            entry == [client |-> c, scope |-> s]
            more == [C EXCEPT ![n] = Append(C[n], entry)]
<1>1. /\ ~ stopped /\ calls = <<>> /\ wants' = wants \cup {<<c, k, s>>}
      /\ categoryDescriptions' = D /\ parentVector' = Created(k).parents
      /\ stopped' = Subscribes(c, C[n])
      /\ clientVector' = IF stopped' THEN C ELSE more
      /\ calls' = calls /\ value' = value /\ seen' = seen /\ due' = due
  BY DEF subscribe
<1>2. BusOK /\ DueWanted /\ Listening(categoryDescriptions, clientVector) /\ Underway
  BY <1>1 DEF BusInv
<1>3. TablesOf(D, C, Created(k).parents) /\ k \in Range(D)
  BY <1>2, CreatedTables
<1>4. \A w \in wants : Listed(D, C, w[1], w[2], w[3])
  BY <1>2, ListedGrows DEF Listening
<1>. HIDE DEF D, C
<1>5. n \in DOMAIN D /\ D[n] = k
  <2>1. \E m \in DOMAIN D : D[m] = k
    BY <1>3 DEF Range
  <2>. QED  BY <2>1 DEF CategoryOf
<1>. HIDE DEF n
<1>6. C \in Seq(Seq(Subscriber)) /\ Len(C) = Len(D) /\ D \in Seq(Class)
  BY <1>3 DEF TablesOf
<1>7. n \in 1..Len(C) /\ C[n] \in Seq(Subscriber)
  BY <1>5, <1>6
<1>8. entry \in Subscriber
  BY DEF Subscriber
<1>9. /\ Append(C[n], entry) \in Seq(Subscriber) /\ DOMAIN Append(C[n], entry) = 1..(Len(C[n]) + 1)
      /\ Append(C[n], entry)[Len(C[n]) + 1] = entry /\ DOMAIN C[n] = 1..Len(C[n]) /\ Len(C[n]) \in Nat
      /\ \A j \in DOMAIN C[n] : Append(C[n], entry)[j] = C[n][j] /\ j \in 1..(Len(C[n]) + 1)
  BY <1>7, <1>8
<1>. HIDE DEF entry
<1>10. /\ more \in Seq(Seq(Subscriber)) /\ Len(more) = Len(C) /\ more[n] = Append(C[n], entry)
       /\ \A m \in DOMAIN D : m # n => more[m] = C[m]
  BY <1>6, <1>7, <1>9
<1>. HIDE DEF more
<1>11. BusOK'
  <2>1. TablesOf(D, more, Created(k).parents)
    BY <1>3, <1>10 DEF TablesOf
  <2>2. TablesOf(categoryDescriptions, clientVector, parentVector)'
    BY <1>1, <1>3, <2>1
  <2>3. wants' \subseteq Client \X Class \X (Scope \cup {AnyScope})
    BY <1>1, <1>2 DEF BusOK
  <2>4. stopped' \in BOOLEAN
    BY <1>1 DEF Subscribes
  <2>5. calls' = <<>> /\ DOMAIN <<>> = {}
    BY <1>1
  <2>. QED  BY <1>1, <1>2, <2>2, <2>3, <2>4, <2>5 DEF BusOK
<1>12. DueWanted'
  <2>1. \A d \in due : MustHear(wants, d[2]) \subseteq MustHear(wants', d[2])
    BY <1>1, MustHearGrows
  <2>. QED  BY <1>1, <1>2, <2>1 DEF DueWanted, MustHear
<1>13. ASSUME ~ stopped' PROVE Listening(categoryDescriptions, clientVector)'
  <2>1. \A m \in DOMAIN D : \A j \in DOMAIN C[m] : j \in DOMAIN more[m] /\ more[m][j] = C[m][j]
    BY <1>9, <1>10
  <2>2. \A w \in wants : Listed(D, more, w[1], w[2], w[3])
    BY <1>4, <2>1 DEF Listed
  <2>3. Listed(D, more, c, k, s)
    <3>1. Len(C[n]) + 1 \in DOMAIN more[n] /\ more[n][Len(C[n]) + 1] = entry
      BY <1>9, <1>10
    <3>. QED  BY <1>5, <3>1 DEF Listed, entry
  <2>. QED  BY <1>1, <1>13, <2>2, <2>3 DEF Listening
<1>14. Underway'
  BY <1>1, <1>2 DEF Underway, Comes
<1>. QED  BY <1>11, <1>12, <1>13, <1>14 DEF BusInv

LEMMA unsubscribeStep ==
  ASSUME NEW CONSTANT depth, Hierarchy(depth), BusInv, NEW c \in Client, NEW k \in Class, unsubscribe(c, k)
  PROVE  BusInv'
<1>. DEFINE D == categoryDescriptions
            C == clientVector
            n == CategoryOf(D, k)
            rest == IF C[n] # <<>> /\ C[n][1].client = c THEN Tail(C[n]) ELSE C[n]
<1>1. /\ ~ stopped /\ calls = <<>> /\ (\E w \in wants : w[1] = c /\ w[2] = k)
      /\ wants' = {w \in wants : w[1] # c \/ w[2] # k}
      /\ clientVector' = [C EXCEPT ![n] = rest]
      /\ due' = {d \in due : d[1] \in MustHear(wants', d[2])}
      /\ categoryDescriptions' = D /\ parentVector' = parentVector
      /\ calls' = calls /\ stopped' = stopped /\ value' = value /\ seen' = seen
  BY DEF unsubscribe
<1>2. BusOK /\ DueWanted /\ Listening(D, C) /\ Underway
  BY <1>1 DEF BusInv
<1>3. n \in DOMAIN D /\ D[n] = k
  <2>1. \E m \in DOMAIN D : D[m] = k
    BY <1>1, <1>2 DEF Listening, Listed
  <2>. QED  BY <2>1 DEF CategoryOf
<1>. HIDE DEF n
<1>4. D \in Seq(Class) /\ OneToOne(D) /\ C \in Seq(Seq(Subscriber)) /\ Len(C) = Len(D)
  BY <1>2 DEF BusOK, TablesOf
<1>5. n \in 1..Len(C) /\ C[n] \in Seq(Subscriber)
  BY <1>3, <1>4
<1>6. rest \in Seq(Subscriber)
  BY <1>5
<1>7. \A j \in DOMAIN C[n] : C[n][j].client # c => \E i \in DOMAIN rest : rest[i] = C[n][j]
  <2>. SUFFICES ASSUME NEW j \in DOMAIN C[n], C[n][j].client # c PROVE \E i \in DOMAIN rest : rest[i] = C[n][j]
    OBVIOUS
  <2>1. CASE C[n] # <<>> /\ C[n][1].client = c
    <3>1. j # 1 /\ j \in 1..Len(C[n]) /\ rest = Tail(C[n])
      BY <1>5, <2>1
    <3>2. j - 1 \in DOMAIN Tail(C[n]) /\ Tail(C[n])[j - 1] = C[n][j]
      BY <1>5, <2>1, <3>1
    <3>. QED  BY <3>1, <3>2
  <2>2. CASE ~(C[n] # <<>> /\ C[n][1].client = c)
    BY <2>2
  <2>. QED  BY <2>1, <2>2
<1>. HIDE DEF rest
<1>8. /\ clientVector' \in Seq(Seq(Subscriber)) /\ Len(clientVector') = Len(C) /\ clientVector'[n] = rest
      /\ \A m \in DOMAIN D : m # n => clientVector'[m] = C[m]
  BY <1>1, <1>4, <1>5, <1>6
<1>9. BusOK'
  <2>1. TablesOf(categoryDescriptions, clientVector, parentVector)'
    BY <1>1, <1>2, <1>8 DEF BusOK, TablesOf
  <2>. QED  BY <1>1, <1>2, <2>1 DEF BusOK
<1>10. DueWanted'
  BY <1>1 DEF DueWanted, MustHear
<1>11. Listening(categoryDescriptions, clientVector)'
  <2>. SUFFICES ASSUME NEW w \in wants' PROVE Listed(D, clientVector', w[1], w[2], w[3])
    BY <1>1 DEF Listening
  <2>1. w \in wants /\ (w[1] # c \/ w[2] # k)
    BY <1>1
  <2>2. PICK m \in DOMAIN D : D[m] = w[2] /\ \E j \in DOMAIN C[m] : C[m][j] = [client |-> w[1], scope |-> w[3]]
    BY <1>2, <2>1 DEF Listening, Listed
  <2>3. PICK j \in DOMAIN C[m] : C[m][j] = [client |-> w[1], scope |-> w[3]]
    BY <2>2
  <2>4. CASE m # n
    BY <1>8, <2>2, <2>3, <2>4 DEF Listed
  <2>5. CASE m = n
    <3>1. w[1] # c /\ C[n][j].client = w[1]
      BY <1>3, <2>1, <2>2, <2>3, <2>5
    <3>2. \E i \in DOMAIN rest : rest[i] = C[n][j]
      BY <1>7, <2>3, <2>5, <3>1
    <3>. QED  BY <1>8, <2>2, <2>3, <2>5, <3>2 DEF Listed
  <2>. QED  BY <2>4, <2>5
<1>12. Underway'
  BY <1>1, <1>2 DEF Underway, Comes
<1>. QED  BY <1>9, <1>10, <1>11, <1>12 DEF BusInv

-----------------------------------------------------------------------------
(* Calls                                                                    *)

\* The table below a call in progress
LEMMA CallKnown ==
  ASSUME BusOK, NEW f \in DOMAIN calls
  PROVE  /\ calls[f] \in Call /\ calls[f].item \in Item /\ calls[f].next \in Nat \ {0}
         /\ calls[f].category \in DOMAIN categoryDescriptions
         /\ clientVector[calls[f].category] \in Seq(Subscriber)
<1>1. calls[f] \in Call /\ calls[f].category \in DOMAIN categoryDescriptions
  BY DEF BusOK
<1>2. calls[f].category \in 1..Len(clientVector) /\ clientVector \in Seq(Seq(Subscriber))
  BY <1>1 DEF BusOK, TablesOf
<1>. QED  BY <1>1, <1>2 DEF Call

LEMMA CurrentCall ==
  ASSUME BusOK, calls # <<>>
  PROVE  Len(calls) \in DOMAIN calls /\ DOMAIN calls = 1..Len(calls) /\ Len(calls) \in Nat /\ current = calls[Len(calls)]
BY DEF BusOK, current, Last

\* A published item comes to everyone who has to be told of it.
LEMMA NewCallAhead ==
  ASSUME NEW CONSTANT depth, Hierarchy(depth), BusOK, Listening(categoryDescriptions, clientVector),
         NEW i \in Item, Known(ClassOf[i]), NEW c \in MustHear(wants, i), NEW f \in Call,
         f.item = i, f.next = 1, f.category = CategoryOf(categoryDescriptions, ClassOf[i])
  PROVE  f.category \in DOMAIN categoryDescriptions /\ Ahead(f, c)
<1>1. f.category \in DOMAIN categoryDescriptions /\ categoryDescriptions[f.category] = ClassOf[i]
  BY DEF Known, Range, CategoryOf
<1>2. PICK w \in wants : w[1] = c /\ w[2] \in Bases(ClassOf[i]) /\ Matches(w[3], i)
  BY DEF MustHear, Bases
<1>3. PICK n \in DOMAIN categoryDescriptions :
         /\ categoryDescriptions[n] = w[2]
         /\ \E j \in DOMAIN clientVector[n] : clientVector[n][j] = [client |-> w[1], scope |-> w[3]]
  BY DEF Listening, Listed
<1>4. PICK j \in DOMAIN clientVector[n] : clientVector[n][j] = [client |-> w[1], scope |-> w[3]]
  BY <1>3
<1>5. j >= 1
  <2>1. n \in 1..Len(clientVector) /\ clientVector \in Seq(Seq(Subscriber))
    BY <1>3 DEF BusOK, TablesOf
  <2>2. clientVector[n] \in Seq(Subscriber)
    BY <2>1
  <2>. QED  BY <2>2, <1>4
<1>. QED  BY <1>1, <1>2, <1>3, <1>4, <1>5 DEF Ahead

\* Effect of a publication on top of the calls in stack
Pushed(i, stack) ==
    /\ value' \in [Item -> Nat] /\ \A x \in Item : x # i => value'[x] = value[x]
    /\ due' \subseteq Client \X Item /\ \A d \in due' : d[2] # i => d \in due
    /\ \A d \in due' : d[1] \in MustHear(wants, d[2])
    /\ calls' \in Seq(Call) /\ DOMAIN calls' = 1..(Len(stack) + 1)
    /\ \A f \in 1..Len(stack) : calls'[f] = stack[f]
    /\ LET new == calls'[Len(stack) + 1]
       IN  /\ new.item = i /\ new.category \in DOMAIN categoryDescriptions
           /\ \A d \in due' : d[2] = i => Ahead(new, d[1])

LEMMA ChangeEffect ==
  ASSUME NEW CONSTANT depth, Hierarchy(depth), BusOK, DueWanted,
         Listening(categoryDescriptions, clientVector),
         NEW i \in Item, NEW stack \in Seq(Call), Change(i, stack)
  PROVE  Pushed(i, stack)
<1>. DEFINE new == [item |-> i, next |-> 1, category |-> CategoryOf(categoryDescriptions, ClassOf[i])]
<1>1. /\ Known(ClassOf[i]) /\ value' = [value EXCEPT ![i] = @ + 1]
      /\ due' = due \cup (MustHear(wants, i) \X {i}) /\ calls' = Append(stack, new)
  BY DEF Change
<1>2. value' \in [Item -> Nat] /\ \A x \in Item : x # i => value'[x] = value[x]
  BY <1>1 DEF BusOK
<1>3. due' \subseteq Client \X Item /\ \A d \in due' : d[2] # i => d \in due
  BY <1>1 DEF BusOK, MustHear
<1>4. \A d \in due' : d[1] \in MustHear(wants, d[2])
  BY <1>1 DEF DueWanted
<1>5. new \in Call
  <2>1. \E m \in DOMAIN categoryDescriptions : categoryDescriptions[m] = ClassOf[i]
    BY <1>1 DEF Known, Range
  <2>2. CategoryOf(categoryDescriptions, ClassOf[i]) \in DOMAIN categoryDescriptions
    BY <2>1 DEF CategoryOf
  <2>3. CategoryOf(categoryDescriptions, ClassOf[i]) \in Nat
    BY <2>2 DEF BusOK, TablesOf
  <2>. QED  BY <2>3 DEF Call
<1>6. new.item = i /\ new.next = 1 /\ new.category = CategoryOf(categoryDescriptions, ClassOf[i])
  OBVIOUS
<1>. HIDE DEF new
<1>7. /\ calls' \in Seq(Call) /\ DOMAIN calls' = 1..(Len(stack) + 1) /\ calls'[Len(stack) + 1] = new
      /\ \A f \in 1..Len(stack) : calls'[f] = stack[f]
  BY <1>1, <1>5
<1>8. \A d \in due' : d[2] = i => Ahead(new, d[1])
  BY <1>1, <1>4, <1>5, <1>6, NewCallAhead
<1>9. new.category \in DOMAIN categoryDescriptions
  BY <1>1, <1>6 DEF Known, Range, CategoryOf
<1>. QED  BY <1>2, <1>3, <1>4, <1>6, <1>7, <1>8, <1>9 DEF Pushed

LEMMA SameAhead ==
  ASSUME UNCHANGED tables
  PROVE  \A f, c : Ahead(f, c)' <=> Ahead(f, c)
BY DEF tables, Ahead

\* A publication keeps the invariant, if the calls it is nested in come to everyone
\* else who is due.
LEMMA PushedBusInv ==
  ASSUME BusInv, ~ stopped, UNCHANGED tables, UNCHANGED <<stopped, wants>>,
         NEW i \in Item, NEW stack \in Seq(Call), Pushed(i, stack),
         \A f \in DOMAIN stack : stack[f].category \in DOMAIN categoryDescriptions,
         seen' \in [Client \X Item -> Nat],
         \A d \in due : \/ seen'[d] = value[d[2]]
                        \/ \E f \in DOMAIN stack : stack[f].item = d[2] /\ Ahead(stack[f], d[1])
  PROVE  BusInv'
<1>. USE DEF Pushed
<1>1. DOMAIN stack = 1..Len(stack) /\ Len(stack) \in Nat
  OBVIOUS
<1>2. BusOK'
  <2>1. TablesOf(categoryDescriptions, clientVector, parentVector)'
    BY DEF BusInv, BusOK, tables
  <2>2. \A f \in DOMAIN calls' : calls'[f].category \in DOMAIN categoryDescriptions'
    <3>1. \A f \in 1..(Len(stack) + 1) : f \in 1..Len(stack) \/ f = Len(stack) + 1
      BY <1>1
    <3>. QED  BY <1>1, <3>1 DEF tables
  <2>. QED  BY <2>1, <2>2 DEF BusInv, BusOK
<1>3. DueWanted'
  BY DEF DueWanted, MustHear
<1>4. Listening(categoryDescriptions, clientVector)'
  BY DEF BusInv, Listening, tables
<1>5. Underway'
  <2>. SUFFICES ASSUME NEW d \in due' PROVE seen'[d] = value'[d[2]] \/ Comes(d)'
    BY DEF Underway
  <2>1. CASE d[2] = i
    <3>1. Len(stack) + 1 \in DOMAIN calls' /\ calls'[Len(stack) + 1].item = d[2]
          /\ Ahead(calls'[Len(stack) + 1], d[1])
      BY <1>1, <2>1
    <3>. QED  BY <3>1, SameAhead DEF Comes
  <2>2. CASE d[2] # i
    <3>1. d \in due /\ d[2] \in Item /\ value'[d[2]] = value[d[2]]
      BY <2>2
    <3>2. ASSUME NEW f \in DOMAIN stack, stack[f].item = d[2], Ahead(stack[f], d[1]) PROVE Comes(d)'
      <4>1. f \in DOMAIN calls' /\ calls'[f] = stack[f]
        BY <1>1
      <4>. QED  BY <3>2, <4>1, SameAhead DEF Comes
    <3>. QED  BY <3>1, <3>2
  <2>. QED  BY <2>1, <2>2
<1>. QED  BY <1>2, <1>3, <1>4, <1>5 DEF BusInv

LEMMA publishStep ==
  ASSUME NEW CONSTANT depth, Hierarchy(depth), BusInv, NEW i \in Item, publishBBItem(i)
  PROVE  BusInv'
<1>1. /\ ~ stopped /\ calls = <<>> /\ Change(i, calls) /\ UNCHANGED tables
      /\ UNCHANGED <<stopped, wants>> /\ seen' = seen
  BY DEF publishBBItem
<1>2. BusOK /\ DueWanted /\ Listening(categoryDescriptions, clientVector) /\ Underway
  BY <1>1 DEF BusInv
<1>3. calls \in Seq(Call) /\ Pushed(i, calls)
  BY <1>1, <1>2, ChangeEffect DEF BusOK
<1>4. \A d \in due : \/ seen'[d] = value[d[2]]
                     \/ \E f \in DOMAIN calls : calls[f].item = d[2] /\ Ahead(calls[f], d[1])
  BY <1>1, <1>2 DEF Underway, Comes
<1>5. seen' \in [Client \X Item -> Nat] /\ \A f \in DOMAIN calls : calls[f].category \in DOMAIN categoryDescriptions
  BY <1>1, <1>2 DEF BusOK
<1>. QED  BY <1>1, <1>3, <1>4, <1>5, PushedBusInv

LEMMA SteppedCall ==
  ASSUME NEW f \in Call
  PROVE  LET new == [f EXCEPT !.next = @ + 1]
         IN  new \in Call /\ new.next = f.next + 1 /\ new.item = f.item /\ new.category = f.category
<1>1. /\ f = [item |-> f.item, next |-> f.next, category |-> f.category]
      /\ f.item \in Item /\ f.next \in Nat \ {0} /\ f.category \in Nat
  BY DEF Call
<1>2. [f EXCEPT !.next = @ + 1] = [item |-> f.item, next |-> f.next + 1, category |-> f.category]
  BY <1>1
<1>3. f.next + 1 \in Nat \ {0}
  BY <1>1
<1>. QED  BY <1>1, <1>2, <1>3 DEF Call

\* The call on top went to its next subscriber.
LEMMA Advanced ==
  ASSUME BusOK, calls # <<>>
  PROVE  /\ advanced \in Seq(Call) /\ DOMAIN advanced = DOMAIN calls
         /\ \A f \in DOMAIN calls : /\ advanced[f].item = calls[f].item
                                    /\ advanced[f].category = calls[f].category
                                    /\ f # Len(calls) => advanced[f] = calls[f]
         /\ advanced[Len(calls)].next = current.next + 1
<1>1. Len(calls) \in DOMAIN calls /\ current = calls[Len(calls)] /\ calls \in Seq(Call)
  BY CurrentCall DEF BusOK
<1>. DEFINE new == [calls[Len(calls)] EXCEPT !.next = @ + 1]
<1>2. new \in Call /\ new.next = current.next + 1 /\ new.item = current.item /\ new.category = current.category
  <2>1. calls[Len(calls)] \in Call
    BY <1>1
  <2>. QED  BY <1>1, <2>1, SteppedCall
<1>3. advanced = [calls EXCEPT ![Len(calls)] = new]
  BY DEF advanced
<1>. HIDE DEF new
<1>. QED  BY <1>1, <1>2, <1>3

LEMMA AdvancedAhead ==
  ASSUME BusOK, calls # <<>>, NEW f \in DOMAIN calls, NEW c, Ahead(calls[f], c),
         f = Len(calls) => \/ subscribers[current.next].client # c
                           \/ ~ Matches(subscribers[current.next].scope, current.item)
  PROVE  Ahead(advanced[f], c)
<1>0. current = calls[Len(calls)]
  BY CurrentCall
<1>1. CASE f # Len(calls)
  BY <1>1, Advanced
<1>2. CASE f = Len(calls)
  <2>1. PICK n \in DOMAIN categoryDescriptions : \E j \in DOMAIN clientVector[n] :
           /\ clientVector[n][j].client = c /\ Matches(clientVector[n][j].scope, current.item)
           /\ categoryDescriptions[n] \in Bases(categoryDescriptions[current.category])
           /\ n = current.category => j >= current.next
    BY <1>0, <1>2 DEF Ahead
  <2>2. PICK j \in DOMAIN clientVector[n] :
           /\ clientVector[n][j].client = c /\ Matches(clientVector[n][j].scope, current.item)
           /\ categoryDescriptions[n] \in Bases(categoryDescriptions[current.category])
           /\ n = current.category => j >= current.next
    BY <2>1
  <2>3. n = current.category => j # current.next
    BY <1>2, <2>2 DEF subscribers
  <2>4. n = current.category => j \in Nat /\ current.next \in Nat
    <3>1. clientVector[current.category] \in Seq(Subscriber) /\ current.next \in Nat
      BY <1>0, <1>2, CallKnown
    <3>. QED  BY <3>1
  <2>5. n = current.category => j >= current.next + 1
    BY <2>2, <2>3, <2>4
  <2>6. /\ advanced[f].item = current.item /\ advanced[f].category = current.category
        /\ advanced[f].next = current.next + 1
    BY <1>0, <1>2, Advanced
  <2>. QED  BY <2>2, <2>5, <2>6 DEF Ahead
<1>. QED  BY <1>1, <1>2

\* Only the stack of calls changes, and it still comes to everyone who is due.
LEMMA CallsBusInv ==
  ASSUME BusInv, ~ stopped, UNCHANGED <<tables, stopped, value, wants, due>>,
         seen' \in [Client \X Item -> Nat], calls' \in Seq(Call),
         \A f \in DOMAIN calls' : calls'[f].category \in DOMAIN categoryDescriptions,
         \A d \in due : \/ seen'[d] = value[d[2]]
                        \/ \E f \in DOMAIN calls' : calls'[f].item = d[2] /\ Ahead(calls'[f], d[1])
  PROVE  BusInv'
<1>1. UNCHANGED tables /\ UNCHANGED <<stopped, value, wants, due>>
  OBVIOUS
<1>2. BusOK'
  BY <1>1 DEF BusInv, BusOK, tables
<1>3. DueWanted'
  BY <1>1 DEF BusInv, DueWanted, MustHear
<1>4. Listening(categoryDescriptions, clientVector)'
  BY <1>1 DEF BusInv, Listening, tables
<1>5. Underway'
  <2>. SUFFICES ASSUME NEW d \in due PROVE seen'[d] = value[d[2]] \/ Comes(d)'
    BY <1>1 DEF Underway
  <2>. QED  BY <1>1, SameAhead DEF Comes
<1>. QED  BY <1>2, <1>3, <1>4, <1>5 DEF BusInv

LEMMA NotifyStep ==
  ASSUME NEW CONSTANT depth, Hierarchy(depth), BusInv, Notify
  PROVE  BusInv'
<1>. DEFINE told == <<subscribers[current.next].client, current.item>>
<1>1. /\ calls # <<>> /\ current.next <= Len(subscribers)
      /\ Matches(subscribers[current.next].scope, current.item)
      /\ seen' = [seen EXCEPT ![told] = value[current.item]]
      /\ UNCHANGED tables /\ UNCHANGED <<stopped, wants>>
      /\ \/ calls' = advanced /\ UNCHANGED <<value, due>>
         \/ \E i \in Item : Change(i, advanced)
  BY DEF Notify
<1>2. ~ stopped /\ BusOK /\ DueWanted /\ Listening(categoryDescriptions, clientVector) /\ Underway
  BY <1>1 DEF BusInv, BusOK
<1>3. current.item \in Item /\ subscribers[current.next].client \in Client
  <2>1. /\ current.item \in Item /\ current.next \in Nat \ {0}
        /\ clientVector[current.category] \in Seq(Subscriber)
    BY <1>1, <1>2, CurrentCall, CallKnown
  <2>2. subscribers[current.next] \in Subscriber
    BY <1>1, <2>1 DEF subscribers
  <2>. QED  BY <2>1, <2>2 DEF Subscriber
<1>4. told \in Client \X Item /\ told[2] = current.item /\ told[1] = subscribers[current.next].client
  BY <1>3
<1>5. \A d \in Client \X Item : d[1] = told[1] /\ d[2] = told[2] => d = told
  OBVIOUS
<1>. HIDE DEF told
<1>6. seen' \in [Client \X Item -> Nat]
  BY <1>1, <1>2, <1>3, <1>4 DEF BusOK
<1>7. \A d \in due : \/ seen'[d] = value[d[2]]
                     \/ \E f \in DOMAIN advanced : advanced[f].item = d[2] /\ Ahead(advanced[f], d[1])
  <2>. SUFFICES ASSUME NEW d \in due, seen'[d] # value[d[2]]
                PROVE  \E f \in DOMAIN advanced : advanced[f].item = d[2] /\ Ahead(advanced[f], d[1])
    OBVIOUS
  <2>1. d \in Client \X Item
    BY <1>2 DEF BusOK
  <2>2. d # told /\ seen'[d] = seen[d]
    BY <1>1, <1>2, <1>4, <2>1 DEF BusOK
  <2>3. PICK f \in DOMAIN calls : calls[f].item = d[2] /\ Ahead(calls[f], d[1])
    BY <1>2, <2>2 DEF Underway, Comes
  <2>4. f = Len(calls) => subscribers[current.next].client # d[1]
    BY <1>1, <1>2, <1>4, <1>5, <2>1, <2>2, <2>3, CurrentCall
  <2>5. Ahead(advanced[f], d[1])
    BY <1>1, <1>2, <2>3, <2>4, AdvancedAhead
  <2>. QED  BY <1>1, <1>2, <2>3, <2>5, Advanced
<1>8. advanced \in Seq(Call) /\ \A f \in DOMAIN advanced : advanced[f].category \in DOMAIN categoryDescriptions
  BY <1>1, <1>2, Advanced, CallKnown
<1>9. CASE calls' = advanced /\ UNCHANGED <<value, due>>
  BY <1>1, <1>2, <1>6, <1>7, <1>8, <1>9, CallsBusInv
<1>10. ASSUME NEW i \in Item, Change(i, advanced) PROVE BusInv'
  <2>1. Pushed(i, advanced)
    BY <1>2, <1>8, <1>10, ChangeEffect
  <2>. QED  BY <1>1, <1>2, <1>6, <1>7, <1>8, <2>1, PushedBusInv
<1>. QED  BY <1>1, <1>9, <1>10

LEMMA SkipStep ==
  ASSUME BusInv, SkipOtherScope
  PROVE  BusInv'
<1>1. /\ calls # <<>> /\ ~ Matches(subscribers[current.next].scope, current.item) /\ calls' = advanced
      /\ UNCHANGED <<tables, stopped, value, wants, due>> /\ seen' = seen
  BY DEF SkipOtherScope
<1>2. ~ stopped /\ BusOK /\ Underway
  BY <1>1 DEF BusInv, BusOK
<1>3. advanced \in Seq(Call) /\ \A f \in DOMAIN advanced : advanced[f].category \in DOMAIN categoryDescriptions
  BY <1>1, <1>2, Advanced, CallKnown
<1>4. \A d \in due : \/ seen'[d] = value[d[2]]
                     \/ \E f \in DOMAIN advanced : advanced[f].item = d[2] /\ Ahead(advanced[f], d[1])
  BY <1>1, <1>2, Advanced, AdvancedAhead DEF Underway, Comes
<1>5. seen' \in [Client \X Item -> Nat]
  BY <1>1, <1>2 DEF BusOK
<1>. QED  BY <1>1, <1>2, <1>3, <1>4, <1>5, CallsBusInv

\* Who is still ahead when a list is done is a subscriber of a base class.
LEMMA AheadInBase ==
  ASSUME NEW CONSTANT depth, Hierarchy(depth), BusOK, calls # <<>>, current.next > Len(subscribers),
         NEW c, Ahead(current, c), NEW up \in Call, up.item = current.item, up.next = 1,
         up.category = parentVector[current.category]
  PROVE  up.category \in DOMAIN categoryDescriptions /\ Ahead(up, c)
<1>0. /\ current.category \in DOMAIN categoryDescriptions /\ current.next \in Nat
      /\ clientVector[current.category] \in Seq(Subscriber)
  BY CurrentCall, CallKnown
<1>. DEFINE K == categoryDescriptions[current.category]
<1>1. K \in Class
  BY <1>0 DEF BusOK, TablesOf
<1>2. PICK n \in DOMAIN categoryDescriptions : \E j \in DOMAIN clientVector[n] :
         /\ clientVector[n][j].client = c /\ Matches(clientVector[n][j].scope, current.item)
         /\ categoryDescriptions[n] \in Bases(K) /\ (n = current.category => j >= current.next)
  BY DEF Ahead
<1>3. PICK j \in DOMAIN clientVector[n] :
         /\ clientVector[n][j].client = c /\ Matches(clientVector[n][j].scope, current.item)
         /\ categoryDescriptions[n] \in Bases(K) /\ (n = current.category => j >= current.next)
  BY <1>2
<1>4. n # current.category
  BY <1>0, <1>3 DEF subscribers
<1>5. categoryDescriptions[n] # K
  BY <1>0, <1>4 DEF BusOK, TablesOf, OneToOne
<1>6. Parent[K] # BBItem /\ categoryDescriptions[n] \in Bases(Parent[K])
  <2>1. Bases(K) = {K} \cup IF Parent[K] = BBItem THEN {} ELSE Bases(Parent[K])
    BY <1>1, BasesOf
  <2>. QED  BY <1>3, <1>5, <2>1
<1>7. up.category \in DOMAIN categoryDescriptions /\ categoryDescriptions[up.category] = Parent[K]
  BY <1>0, <1>6 DEF BusOK, TablesOf
<1>8. j >= 1
  <2>1. n \in 1..Len(clientVector) /\ clientVector \in Seq(Seq(Subscriber))
    BY <1>2 DEF BusOK, TablesOf
  <2>2. clientVector[n] \in Seq(Subscriber)
    BY <2>1
  <2>. QED  BY <2>2
<1>. QED  BY <1>3, <1>6, <1>7, <1>8 DEF Ahead

LEMMA ParentStep ==
  ASSUME NEW CONSTANT depth, Hierarchy(depth), BusInv, PublishToParent
  PROVE  BusInv'
<1>. DEFINE up == [item |-> current.item, next |-> 1, category |-> parentVector[current.category]]
<1>1. /\ calls # <<>> /\ current.next > Len(subscribers)
      /\ calls' = IF parentVector[current.category] # 0 THEN [calls EXCEPT ![Len(calls)] = up] ELSE Front(calls)
      /\ UNCHANGED <<tables, stopped, value, wants, due>> /\ seen' = seen
  BY DEF PublishToParent
<1>2. ~ stopped /\ BusOK /\ Underway
  BY <1>1 DEF BusInv, BusOK
<1>3. /\ Len(calls) \in DOMAIN calls /\ DOMAIN calls = 1..Len(calls) /\ Len(calls) \in Nat
      /\ current = calls[Len(calls)] /\ current \in Call /\ calls \in Seq(Call)
      /\ current.category \in DOMAIN categoryDescriptions
  BY <1>1, <1>2, CurrentCall, CallKnown DEF BusOK
<1>4. seen' \in [Client \X Item -> Nat]
  BY <1>1, <1>2 DEF BusOK
<1>5. \A d \in due : seen'[d] = value[d[2]] \/ \E f \in DOMAIN calls : calls[f].item = d[2] /\ Ahead(calls[f], d[1])
  BY <1>1, <1>2 DEF Underway, Comes
<1>6. CASE parentVector[current.category] # 0
  <2>1. parentVector[current.category] \in DOMAIN categoryDescriptions /\ parentVector[current.category] \in Nat
    BY <1>2, <1>3, <1>6 DEF BusOK, TablesOf
  <2>2. up \in Call /\ up.item = current.item /\ up.next = 1 /\ up.category = parentVector[current.category]
    BY <1>3, <2>1 DEF Call
  <2>. HIDE DEF up
  <2>3. /\ calls' \in Seq(Call) /\ DOMAIN calls' = DOMAIN calls /\ calls'[Len(calls)] = up
        /\ \A f \in DOMAIN calls : f # Len(calls) => calls'[f] = calls[f]
    BY <1>1, <1>3, <1>6, <2>2
  <2>4. \A f \in DOMAIN calls' : calls'[f].category \in DOMAIN categoryDescriptions
    BY <1>2, <2>1, <2>2, <2>3, CallKnown
  <2>5. \A c : Ahead(current, c) => Ahead(up, c)
    BY <1>1, <1>2, <2>2, AheadInBase
  <2>6. \A d \in due : \/ seen'[d] = value[d[2]]
                       \/ \E f \in DOMAIN calls' : calls'[f].item = d[2] /\ Ahead(calls'[f], d[1])
    BY <1>3, <1>5, <2>2, <2>3, <2>5
  <2>. QED  BY <1>1, <1>2, <1>4, <2>3, <2>4, <2>6, CallsBusInv
<1>7. CASE parentVector[current.category] = 0
  <2>1. calls' = SubSeq(calls, 1, Len(calls) - 1)
    BY <1>1, <1>7 DEF Front
  <2>2. /\ calls' \in Seq(Call) /\ DOMAIN calls' = 1..(Len(calls) - 1)
        /\ \A f \in 1..(Len(calls) - 1) : calls'[f] = calls[f] /\ f \in DOMAIN calls
    BY <1>3, <2>1
  <2>3. \A f \in DOMAIN calls' : calls'[f].category \in DOMAIN categoryDescriptions
    BY <1>2, <2>2, CallKnown
  <2>4. ASSUME NEW c, Ahead(current, c) PROVE FALSE
    <3>. DEFINE top == [item |-> current.item, next |-> 1, category |-> parentVector[current.category]]
    <3>1. top \in Call /\ top.item = current.item /\ top.next = 1 /\ top.category = 0
      BY <1>3, <1>7 DEF Call
    <3>. HIDE DEF top
    <3>2. top.category \in DOMAIN categoryDescriptions
      BY <1>1, <1>2, <1>7, <2>4, <3>1, AheadInBase
    <3>3. 0 \notin DOMAIN categoryDescriptions
      BY <1>2 DEF BusOK, TablesOf
    <3>. QED  BY <3>1, <3>2, <3>3
  <2>5. \A f \in DOMAIN calls : f # Len(calls) => f \in DOMAIN calls' /\ calls'[f] = calls[f]
    BY <1>3, <2>2
  <2>6. \A d \in due : \/ seen'[d] = value[d[2]]
                       \/ \E f \in DOMAIN calls' : calls'[f].item = d[2] /\ Ahead(calls'[f], d[1])
    BY <1>3, <1>5, <2>4, <2>5
  <2>. QED  BY <1>1, <1>2, <1>4, <2>2, <2>3, <2>6, CallsBusInv
<1>. QED  BY <1>6, <1>7

LEMMA StepBusInv ==
  ASSUME NEW CONSTANT depth, Hierarchy(depth)
  PROVE  BusInv /\ [BlackboardNext]_blackboardVars => BusInv'
<1>. SUFFICES ASSUME BusInv, [BlackboardNext]_blackboardVars PROVE BusInv'
  OBVIOUS
<1>1. ASSUME NEW k \in Class, getCategory(k) PROVE BusInv'
  BY <1>1, getCategoryStep
<1>2. ASSUME NEW c \in Client, NEW k \in Class, unsubscribe(c, k) PROVE BusInv'
  BY <1>2, unsubscribeStep
<1>3. ASSUME NEW c \in Client, NEW k \in Class, NEW s \in Scope \cup {AnyScope}, subscribe(c, k, s) PROVE BusInv'
  BY <1>3, subscribeStep
<1>4. ASSUME NEW i \in Item, publishBBItem(i) PROVE BusInv'
  BY <1>4, publishStep
<1>5. CASE UNCHANGED blackboardVars
  BY <1>5 DEF blackboardVars, tables, BusInv, BusOK, DueWanted, MustHear, Listening, Underway, Comes, Ahead
<1>. QED  BY <1>1, <1>2, <1>3, <1>4, <1>5, NotifyStep, SkipStep, ParentStep DEF BlackboardNext

\* Blackboard.h:156, both subscribe functions "subscribe also to children of this category
\* class": whatever is published from within callbacks, in whichever order the classes
\* became categories, when the calls have returned who had to be told of an item through its
\* class or a base class has seen its present value. The hypothesis is single inheritance.
THEOREM EveryoneIsTold ==
  ASSUME NEW CONSTANT depth, Hierarchy(depth)
  PROVE  BlackboardSpec => []EveryoneTold
<1>1. BusInv => EveryoneTold
  <2>. SUFFICES ASSUME BusInv, calls = <<>>, ~ stopped, NEW d \in due PROVE seen[d] = value[d[2]]
    BY DEF EveryoneTold
  <2>1. ~ Comes(d)
    BY DEF Comes
  <2>. QED  BY <2>1 DEF BusInv, Underway
<1>2. BusInv /\ [BlackboardNext]_blackboardVars => BusInv'
  BY StepBusInv
<1>. QED  BY <1>1, <1>2, InitBusInv, PTL DEF BlackboardSpec

-----------------------------------------------------------------------------
(* LMAC *)

USE DEF NoSlot

\* The current slot stays a slot
LEMMA NextSlotType == ASSUME TypeOK PROVE NextSlot \in Slot
<1>1. numSlots \in Nat /\ currSlot \in Nat /\ numSlots > 0
  BY SlotAssumption DEF TypeOK, Slot
<1>2. (currSlot + 1) % numSlots \in 0 .. numSlots - 1
  BY <1>1
<1> QED BY <1>2 DEF NextSlot, Slot

\* What is heard is a table again
LEMMA HeardType ==
    ASSUME NEW t \in [Slot -> Node \cup {Free}], NEW m \in Node
    PROVE  Heard(t, m) \in [Slot -> Node \cup {Free}]
BY DEF Heard

\* A new slot is a slot, or none
LEMMA NewSlotsType ==
    ASSUME TypeOK, NEW n \in Node, NEW m \in Node
    PROVE  NewSlots(n, m) \subseteq Slot \cup {NoSlot}
<1>1. Choice \subseteq Slot
  BY SlotAssumption DEF Choice, Slot
<1>2. mySlot[n] \in Slot \cup {NoSlot}
  BY DEF TypeOK
<1>3. \A away : findNewSlot(away) \subseteq Slot \cup {NoSlot}
  BY <1>1 DEF findNewSlot
<1> QED BY <1>2, <1>3 DEF NewSlots

\* What a reception changes, as far as the proofs need it
LEMMA ReceiveEffect ==
    ASSUME TypeOK, NEW n \in Node, NEW m \in Node, NEW forMe \in BOOLEAN,
           handleLowerMsg(n, m, forMe)
    PROVE  /\ <<m, n>> \in air /\ n \in listening
           /\ \A k \in Node \ {n} : mySlot'[k] = mySlot[k]
                                    /\ occSlotsDirect'[k] = occSlotsDirect[k]
           /\ mySlot'[n] \in NewSlots(n, m)
           /\ occSlotsDirect'[n] = Heard(occSlotsDirect[n], m)
           /\ checkChannel' = checkChannel \ {n}
           /\ listening' \subseteq listening
           /\ n \in listening' \/ listening' = listening \ {n}
           /\ listening \ {n} \subseteq listening'
           /\ air' \subseteq air
           /\ currSlot' = currSlot
BY DEF handleLowerMsg, TypeOK

LEMMA InitIInv == Init => IInv
<1> SUFFICES ASSUME Init PROVE IInv
  OBVIOUS
<1>1. Choice \subseteq Slot /\ 0 \in Slot
  BY SlotAssumption DEF Choice, Slot
<1>2. \A n \in Mobile : myId[n] \in Slot
  BY SlotAssumption, NodeAssumption DEF Slot
<1>3. TypeOK
  BY <1>1, <1>2 DEF Init, TypeOK
<1>4. Roles /\ SenderOwnsSlot
  BY DEF Init, Roles, SenderOwnsSlot
<1>5. OneEntryPerNeighbour
  BY DEF Init, OneEntryPerNeighbour
<1> QED BY <1>3, <1>4, <1>5 DEF IInv

LEMMA TypeStep == TypeOK /\ [Next]_vars => TypeOK'
<1> SUFFICES ASSUME TypeOK, [Next]_vars PROVE TypeOK'
  OBVIOUS
<1>1. CASE Wakeup
  BY <1>1, NextSlotType DEF Wakeup, TypeOK
<1>2. ASSUME NEW n \in Node, CheckChannel(n) \/ MediumBusy(n) PROVE TypeOK'
  <2>1. Nbr[n] \subseteq Node
    BY RangeAssumption
  <2> QED BY <1>2, <2>1 DEF CheckChannel, MediumBusy, TypeOK
<1>3. ASSUME NEW n \in Node, NEW m \in Node, NEW forMe \in BOOLEAN,
             handleLowerMsg(n, m, forMe)
      PROVE  TypeOK'
  <2>1. Heard(occSlotsDirect[n], m) \in [Slot -> Node \cup {Free}]
    BY HeardType DEF TypeOK
  <2>2. PICK s \in NewSlots(n, m) : mySlot' = [mySlot EXCEPT ![n] = s]
    BY <1>3 DEF handleLowerMsg
  <2>3. s \in Slot \cup {NoSlot}
    BY NewSlotsType
  <2> QED BY <1>3, <2>1, <2>2, <2>3 DEF handleLowerMsg, TypeOK
<1>4. CASE UNCHANGED vars
  BY <1>4 DEF vars, TypeOK
<1> QED BY <1>1, <1>2, <1>3, <1>4 DEF Next, Receive

LEMMA StepIInv == IInv /\ [Next]_vars => IInv'
<1> SUFFICES ASSUME IInv, [Next]_vars PROVE IInv'
  OBVIOUS
<1> USE DEF IInv
<1>0. TypeOK'
  BY TypeStep
<1>1. CASE Wakeup
  <2>1. Roles' /\ SenderOwnsSlot'
    BY <1>1 DEF Wakeup, Roles, SenderOwnsSlot
  <2>2. OneEntryPerNeighbour'
    BY <1>1 DEF Wakeup, OneEntryPerNeighbour
  <2> QED BY <1>0, <2>1, <2>2
<1>2. ASSUME NEW n \in Node, CheckChannel(n) PROVE IInv'
  <2>1. air' = {p \in air : p[2] # n} \cup {<<n, m>> : m \in Nbr[n]}
    BY <1>2 DEF CheckChannel
  <2>2. Roles'
    BY <1>2, <2>1, RangeAssumption DEF CheckChannel, Roles
  <2>3. SenderOwnsSlot'
    BY <1>2, <2>1 DEF CheckChannel, SenderOwnsSlot
  <2>4. OneEntryPerNeighbour'
    BY <1>2 DEF CheckChannel, OneEntryPerNeighbour
  <2> QED BY <1>0, <2>2, <2>3, <2>4
<1>3. ASSUME NEW n \in Node, MediumBusy(n) PROVE IInv'
  <2>1. Roles' /\ SenderOwnsSlot' /\ OneEntryPerNeighbour'
    BY <1>3 DEF MediumBusy, Roles, SenderOwnsSlot, OneEntryPerNeighbour
  <2> QED BY <1>0, <2>1
<1>4. ASSUME NEW n \in Node, NEW m \in Node, NEW forMe \in BOOLEAN,
             handleLowerMsg(n, m, forMe)
      PROVE  IInv'
  <2>1. /\ <<m, n>> \in air /\ n \in listening
        /\ \A k \in Node \ {n} : mySlot'[k] = mySlot[k]
                                 /\ occSlotsDirect'[k] = occSlotsDirect[k]
        /\ occSlotsDirect'[n] = Heard(occSlotsDirect[n], m)
        /\ checkChannel' = checkChannel \ {n}
        /\ listening' \subseteq listening
        /\ listening \ {n} \subseteq listening'
        /\ air' \subseteq air
        /\ currSlot' = currSlot
    BY <1>4, ReceiveEffect
  <2>2. Roles'
    BY <2>1 DEF Roles
  <2>3. \A p \in air : p[1] \in Node \ {n}
    BY <2>1 DEF Roles, TypeOK
  <2>4. SenderOwnsSlot'
    BY <2>1, <2>3 DEF SenderOwnsSlot, TypeOK
  <2>5. m \in Nbr[n] /\ m # n
    BY <2>1, RangeAssumption DEF Roles
  <2>6. OneEntryPerNeighbour'
    <3>1. SUFFICES ASSUME NEW k \in Node, NEW s \in Slot, NEW t \in Slot,
                          occSlotsDirect'[k][s] # Free
                   PROVE  /\ occSlotsDirect'[k][s] \in Nbr[k]
                          /\ occSlotsDirect'[k][s] = occSlotsDirect'[k][t] => s = t
      BY DEF OneEntryPerNeighbour
    <3>2. CASE k # n
      BY <3>1, <3>2, <2>1 DEF OneEntryPerNeighbour
    <3>3. CASE k = n
      <4>1. \A u \in Slot : Heard(occSlotsDirect[n], m)[u] =
               IF u = mySlot[m] THEN m
               ELSE IF occSlotsDirect[n][u] = m THEN Free ELSE occSlotsDirect[n][u]
        BY DEF Heard
      <4>2. m # Free
        BY NodeAssumption
      <4> QED BY <3>1, <3>3, <4>1, <4>2, <2>1, <2>5 DEF OneEntryPerNeighbour
    <3> QED BY <3>2, <3>3
  <2> QED BY <1>0, <2>2, <2>4, <2>6
<1>5. CASE UNCHANGED vars
  <2>1. Roles' /\ SenderOwnsSlot' /\ OneEntryPerNeighbour'
    BY <1>5 DEF vars, Roles, SenderOwnsSlot, OneEntryPerNeighbour
  <2> QED BY <1>0, <2>1
<1> QED BY <1>1, <1>2, <1>3, <1>4, <1>5 DEF Next, Receive

\* The inductive invariant holds for any network and any loss.
THEOREM Invariance == Spec => []IInv
<1>1. Init => IInv
  BY InitIInv
<1>2. IInv /\ [Next]_vars => IInv'
  BY StepIInv
<1> QED BY <1>1, <1>2, PTL DEF Spec

\* A sender is the owner of the current slot until the slot is over.
THEOREM SendersOwnTheirSlot == Spec => []SenderOwnsSlot
<1>1. IInv => SenderOwnsSlot
  BY DEF IInv
<1> QED BY <1>1, Invariance, PTL

\* In an assignment without conflicts no control packet makes its receiver move:
\* the sender has another slot, and whoever it knows in the slot of the receiver
\* is within two hops of it.
LEMMA SettledNeedsNoMove ==
    ASSUME IInv, Settled, NEW n \in Node, NEW m \in Node,
           <<m, n>> \in air, n \in listening
    PROVE  ~MustMove(n, m)
<1>1. n \in Nbr[m] /\ m \in Nbr[n] /\ m # n
  BY RangeAssumption DEF IInv, Roles
<1>2. mySlot[n] \in Slot /\ mySlot[n] # NoSlot
  BY DEF Settled, IInv, TypeOK
<1>3. mySlot[n] # mySlot[m]
  BY <1>1 DEF Settled, WithinTwoHops
<1>4. n \notin checkChannel
  BY <1>3 DEF IInv, SenderOwnsSlot
<1>5. ASSUME occSlotsDirect[m][mySlot[n]] \notin {Free, n} PROVE FALSE
  <2> DEFINE k == occSlotsDirect[m][mySlot[n]]
  <2>1. k \in Nbr[m] /\ k \in Node /\ k # n
    BY <1>2, <1>5, RangeAssumption DEF IInv, OneEntryPerNeighbour
  <2>2. mySlot[k] = mySlot[n]
    BY <1>2, <1>5 DEF Settled
  <2>3. WithinTwoHops(n, k)
    BY <1>1, <2>1 DEF WithinTwoHops
  <2> QED BY <2>1, <2>2, <2>3 DEF Settled
<1> QED BY <1>2, <1>3, <1>4, <1>5 DEF MustMove

LEMMA SettledStep == IInv /\ Settled /\ [Next]_vars => Settled' /\ mySlot' = mySlot
<1> SUFFICES ASSUME IInv, Settled, [Next]_vars PROVE Settled' /\ mySlot' = mySlot
  OBVIOUS
<1>1. CASE mySlot' = mySlot /\ occSlotsDirect' = occSlotsDirect
  BY <1>1 DEF Settled
<1>2. ASSUME NEW n \in Node, NEW m \in Node, NEW forMe \in BOOLEAN,
             handleLowerMsg(n, m, forMe)
      PROVE  Settled' /\ mySlot' = mySlot
  <2>1. /\ <<m, n>> \in air /\ n \in listening
        /\ \A k \in Node \ {n} : occSlotsDirect'[k] = occSlotsDirect[k]
        /\ occSlotsDirect'[n] = Heard(occSlotsDirect[n], m)
    BY <1>2, ReceiveEffect DEF IInv
  <2>2. ~MustMove(n, m)
    BY <2>1, SettledNeedsNoMove
  <2>3. NewSlots(n, m) = {mySlot[n]}
    BY <2>2 DEF NewSlots
  <2>4. mySlot' = mySlot
    BY <1>2, <2>3 DEF handleLowerMsg, IInv, TypeOK
  <2>5. ASSUME NEW k \in Node, NEW s \in Slot, occSlotsDirect'[k][s] # Free
        PROVE  mySlot[occSlotsDirect'[k][s]] = s
    <3>1. CASE k # n
      BY <2>1, <2>5, <3>1 DEF Settled
    <3>2. CASE k = n
      <4>1. occSlotsDirect'[n][s] =
               IF s = mySlot[m] THEN m
               ELSE IF occSlotsDirect[n][s] = m THEN Free ELSE occSlotsDirect[n][s]
        BY <2>1 DEF Heard
      <4> QED BY <2>5, <3>2, <4>1 DEF Settled
    <3> QED BY <3>1, <3>2
  <2> QED BY <2>4, <2>5 DEF Settled
<1> QED BY <1>1, <1>2 DEF Next, Receive, Wakeup, CheckChannel, MediumBusy, vars

\* Once every node has a slot that is its own within two hops, and the tables say
\* so, no loss and no overlap makes any node give up its slot.
THEOREM SlotsStable == Spec => SettledStays
<1>1. IInv /\ [Next]_vars => (Settled => Settled' /\ mySlot' = mySlot)
  BY SettledStep
<1> QED BY <1>1, Invariance, PTL DEF Spec, SettledStays

-----------------------------------------------------------------------------
(* LMACData.  A node that expects data is put to sleep by nothing but a      *)
(* packet of another sender it hears, and there is none without a conflict.  *)

\* Whether a control packet announces data for its receiver
LEMMA ReceiveControlForMe ==
    ASSUME NEW n \in Node, NEW m \in Node, ReceiveControl(n, m)
    PROVE  \E forMe \in BOOLEAN :
              /\ forMe <=> onAir[m].dest \in {n, Broadcast}
              /\ handleLowerMsg(n, m, forMe)
<1> DEFINE forMe == onAir[m].dest \in {n, Broadcast}
<1>1. forMe \in BOOLEAN
  OBVIOUS
<1>2. handleLowerMsg(n, m, forMe)
  BY DEF ReceiveControl
<1> QED BY <1>1, <1>2

\* Every step of the data phase is one of the slot assignment, or none
LEMMA SlotStep ==
    DataIInv /\ [DataNext]_<<vars, dataVars>> => [Next]_vars
<1> SUFFICES ASSUME DataIInv, [DataNext]_<<vars, dataVars>>
             PROVE  [Next]_vars
  OBVIOUS
<1>1. CASE SlotStarts
  BY <1>1 DEF SlotStarts, Next
<1>2. ASSUME NEW n \in Node, SendControl(n) PROVE Next
  BY <1>2 DEF SendControl, Next
<1>3. ASSUME NEW n \in Node, OwnSlotBusy(n) PROVE [Next]_vars
  BY <1>3 DEF OwnSlotBusy, Next
<1>4. ASSUME NEW n \in Node, NEW m \in Node, ReceiveControl(n, m) PROVE Next
  <2>1. PICK forMe \in BOOLEAN : handleLowerMsg(n, m, forMe)
    BY <1>4, ReceiveControlForMe
  <2> QED BY <2>1 DEF Next, Receive
<1>5. ASSUME NEW n \in Node, NEW m \in Node, ReceiveData(n, m) PROVE UNCHANGED vars
  <2>1. checkChannel = {}
    BY <1>5 DEF ReceiveData, DataIInv, ChecksBeforeData
  <2> QED BY <1>5, <2>1 DEF ReceiveData, vars
<1>6. ASSUME NEW n \in Node,
             \/ \E d \in Traffic[n] : handleUpperMsg(n, d)
             \/ Timeout(n) \/ TransmissionOver(n) \/ SendData(n)
      PROVE  UNCHANGED vars
  BY <1>6 DEF handleUpperMsg, Timeout, TransmissionOver, SendData
<1>7. CASE SetupPhaseEnd
  BY <1>7 DEF SetupPhaseEnd
<1>8. CASE UNCHANGED <<vars, dataVars>>
  BY <1>8
<1> QED BY <1>1, <1>2, <1>3, <1>4, <1>5, <1>6, <1>7, <1>8 DEF DataNext

\* Within a slot nobody starts to listen, and who does not listen keeps its slot
LEMMA SenderStays ==
    ASSUME DataIInv, [DataNext]_<<vars, dataVars>>, ~SlotStarts
    PROVE  /\ currSlot' = currSlot
           /\ listening' \subseteq listening
           /\ \A k \in Node \ listening : mySlot'[k] = mySlot[k]
<1>1. ASSUME NEW n \in Node, SendControl(n) \/ OwnSlotBusy(n)
      PROVE  currSlot' = currSlot /\ listening' \subseteq listening /\ mySlot' = mySlot
  BY <1>1 DEF SendControl, OwnSlotBusy, CheckChannel, MediumBusy, vars
<1>2. ASSUME NEW n \in Node, NEW m \in Node, ReceiveControl(n, m)
      PROVE  /\ currSlot' = currSlot /\ listening' \subseteq listening
             /\ \A k \in Node \ listening : mySlot'[k] = mySlot[k]
  <2>1. PICK forMe \in BOOLEAN : handleLowerMsg(n, m, forMe)
    BY <1>2, ReceiveControlForMe
  <2> QED BY <2>1, ReceiveEffect DEF DataIInv, IInv
<1>3. ASSUME NEW n \in Node, NEW m \in Node, ReceiveData(n, m)
      PROVE  currSlot' = currSlot /\ listening' \subseteq listening /\ mySlot' = mySlot
  BY <1>3 DEF ReceiveData
<1>4. ASSUME UNCHANGED vars
      PROVE  currSlot' = currSlot /\ listening' \subseteq listening /\ mySlot' = mySlot
  BY <1>4 DEF vars
<1>5. ASSUME NEW n \in Node,
             \/ \E d \in Traffic[n] : handleUpperMsg(n, d)
             \/ Timeout(n) \/ TransmissionOver(n) \/ SendData(n)
      PROVE  UNCHANGED vars
  BY <1>5 DEF handleUpperMsg, Timeout, TransmissionOver, SendData
<1>6. SetupPhaseEnd => UNCHANGED vars
  BY DEF SetupPhaseEnd
<1> QED BY <1>1, <1>2, <1>3, <1>4, <1>5, <1>6 DEF DataNext

LEMMA DataTypeStep ==
    ASSUME DataIInv, [DataNext]_<<vars, dataVars>>, TypeOK'
    PROVE  DataTypeOK'
<1> USE DEF DataIInv, DataTypeOK
<1>1. CASE SetupPhaseEnd
  BY <1>1 DEF SetupPhaseEnd
<1>2. CASE SlotStarts
  BY <1>2 DEF SlotStarts
<1>3. ASSUME NEW n \in Node, NEW d \in Traffic[n], handleUpperMsg(n, d) PROVE DataTypeOK'
  <2>1. d \in Address
    BY AddressAssumption DEF Address
  <2> QED BY <1>3, <2>1 DEF handleUpperMsg
<1>4. ASSUME NEW n \in Node, SendControl(n) PROVE DataTypeOK'
  <2>1. macQueue[n] # <<>> => Head(macQueue[n]) \in Address
    OBVIOUS
  <2>2. \A f \in Frame : [onAir EXCEPT ![n] = f] \in [Node -> Frame]
    OBVIOUS
  <2> QED BY <1>4, <2>1, <2>2 DEF SendControl, Frame
<1>5. ASSUME NEW n \in Node, OwnSlotBusy(n) \/ Timeout(n) PROVE DataTypeOK'
  BY <1>5 DEF OwnSlotBusy, Timeout
<1>6. ASSUME NEW n \in Node, NEW m \in Node, ReceiveControl(n, m) \/ ReceiveData(n, m)
      PROVE  DataTypeOK'
  <2>1. CASE ReceiveControl(n, m)
    <3>1. macState' = macState \/ macState' = [macState EXCEPT ![n] = "SLEEP"]
      BY <2>1 DEF ReceiveControl
    <3>2. expecting' = expecting \/ expecting' = expecting \cup {<<m, n>>}
      BY <2>1 DEF ReceiveControl
    <3>3. timeout' = timeout \ {n}
          /\ UNCHANGED <<SETUP_PHASE, macQueue, sendData, onAir, requests>>
      BY <2>1 DEF ReceiveControl
    <3> QED BY <3>1, <3>2, <3>3
  <2>2. CASE ReceiveData(n, m)
    BY <2>2 DEF ReceiveData
  <2> QED BY <1>6, <2>1, <2>2
<1>7. ASSUME NEW n \in Node, TransmissionOver(n) PROVE DataTypeOK'
  BY <1>7 DEF TransmissionOver, Frame, Silence
<1>8. ASSUME NEW n \in Node, SendData(n) PROVE DataTypeOK'
  <2>1. macQueue[n] # <<>>
    BY <1>8 DEF SendData, OwnSlotRoles
  <2>2. Head(macQueue[n]) \in Address /\ Tail(macQueue[n]) \in Seq(Address)
    BY <2>1
  <2> QED BY <1>8, <2>2 DEF SendData, Frame
<1>9. CASE UNCHANGED <<vars, dataVars>>
  BY <1>9 DEF dataVars
<1> QED BY <1>1, <1>2, <1>3, <1>4, <1>5, <1>6, <1>7, <1>8, <1>9 DEF DataNext

\* What the reception of a control packet changes in the data phase
LEMMA ReceiveControlEffect ==
    ASSUME DataIInv, NEW n \in Node, NEW m \in Node, ReceiveControl(n, m)
    PROVE  /\ onAir[m].kind = "control" /\ macState[n] = "RX"
           /\ <<m, n>> \in air /\ n \in listening
           /\ listening \ {n} \subseteq listening' /\ listening' \subseteq listening
           /\ checkChannel' = checkChannel \ {n} /\ timeout' = timeout \ {n}
           /\ \A k \in Node \ {n} : macState'[k] = macState[k] /\ mySlot'[k] = mySlot[k]
           /\ air' = air \ {<<m, n>>} /\ currSlot' = currSlot
           /\ mySlot'[n] \in NewSlots(n, m)
           /\ UNCHANGED <<SETUP_PHASE, macQueue, sendData, onAir, requests>>
           /\ \/ expecting' = expecting
              \/ /\ onAir[m].dest \in {n, Broadcast}
                 /\ expecting' = expecting \cup {<<m, n>>}
                 /\ macState' = macState /\ listening' = listening
<1>1. PICK forMe \in BOOLEAN :
         /\ forMe <=> onAir[m].dest \in {n, Broadcast}
         /\ handleLowerMsg(n, m, forMe)
  BY ReceiveControlForMe
<1>2. /\ onAir[m].kind = "control" /\ macState[n] = "RX"
      /\ timeout' = timeout \ {n}
      /\ UNCHANGED <<SETUP_PHASE, macQueue, sendData, onAir, requests>>
  BY DEF ReceiveControl
<1>3. macState' = macState \/ macState' = [macState EXCEPT ![n] = "SLEEP"]
  BY DEF ReceiveControl
<1>4. \A k \in Node \ {n} : macState'[k] = macState[k]
  BY <1>3 DEF DataIInv, DataTypeOK
<1>5. air' = air \ {<<m, n>>}
  BY <1>1 DEF handleLowerMsg
<1>6. \/ expecting' = expecting
      \/ /\ onAir[m].dest \in {n, Broadcast}
         /\ expecting' = expecting \cup {<<m, n>>}
         /\ macState' = macState
  BY DEF ReceiveControl
<1>7. onAir[m].dest \in {n, Broadcast} => listening' = listening
  BY <1>1 DEF handleLowerMsg
<1> QED BY <1>1, <1>2, <1>4, <1>5, <1>6, <1>7, ReceiveEffect DEF DataIInv, IInv

\* Appending to a queue that is not empty keeps its head
LEMMA HeadKept ==
    ASSUME NEW S, NEW q \in Seq(S), q # <<>>, NEW d \in S
    PROVE  Append(q, d) # <<>> /\ Head(Append(q, d)) = Head(q)
OBVIOUS

\* What a packet of the upper layer changes
LEMMA UpperMsgEffect ==
    ASSUME DataIInv, NEW n \in Node, NEW d \in Traffic[n], handleUpperMsg(n, d)
    PROVE  /\ \A k \in Node : macQueue[k] # <<>> =>
                 macQueue'[k] # <<>> /\ Head(macQueue'[k]) = Head(macQueue[k])
           /\ UNCHANGED <<vars, SETUP_PHASE, macState, timeout, sendData, onAir, expecting>>
<1>1. d \in Address
  BY AddressAssumption DEF Address
<1>2. macQueue[n] \in Seq(Address)
  BY DEF DataIInv, DataTypeOK
<1>3. \A k \in Node : macQueue'[k] = macQueue[k]
                     \/ (k = n /\ macQueue'[k] = Append(macQueue[n], d))
  BY DEF handleUpperMsg, DataIInv, DataTypeOK
<1>4. macQueue[n] # <<>> => /\ Append(macQueue[n], d) # <<>>
                            /\ Head(Append(macQueue[n], d)) = Head(macQueue[n])
  BY <1>1, <1>2, HeadKept
<1> QED BY <1>3, <1>4 DEF handleUpperMsg

LEMMA TimeoutStep ==
    ASSUME DataIInv, [DataNext]_<<vars, dataVars>>
    PROVE  TimeoutInRx'
<1> USE DEF DataIInv, TimeoutInRx
<1>1. ASSUME UNCHANGED <<macState, timeout>> PROVE TimeoutInRx'
  BY <1>1
<1>2. CASE SlotStarts
  BY <1>2 DEF SlotStarts
<1>3. ASSUME NEW n \in Node, SendControl(n) PROVE TimeoutInRx'
  <2>1. n \notin timeout /\ timeout' = timeout
    BY <1>3 DEF SendControl, CheckChannel, OwnSlotRoles
  <2> QED BY <1>3, <2>1 DEF SendControl, DataTypeOK
<1>4. ASSUME NEW n \in Node, OwnSlotBusy(n) \/ Timeout(n) PROVE TimeoutInRx'
  BY <1>4 DEF OwnSlotBusy, Timeout, DataTypeOK
<1>5. ASSUME NEW n \in Node, NEW m \in Node, ReceiveControl(n, m) PROVE TimeoutInRx'
  BY <1>5, ReceiveControlEffect DEF DataTypeOK
<1>6. ASSUME NEW n \in Node, NEW m \in Node, ReceiveData(n, m) PROVE TimeoutInRx'
  BY <1>6 DEF ReceiveData, DataTypeOK
<1>7. ASSUME NEW n \in Node, TransmissionOver(n) PROVE TimeoutInRx'
  BY <1>7 DEF TransmissionOver, DataTypeOK
<1> QED BY <1>1, <1>2, <1>3, <1>4, <1>5, <1>6, <1>7
        DEF DataNext, dataVars, handleUpperMsg, SetupPhaseEnd, SendData

LEMMA OwnSlotStep ==
    ASSUME DataIInv, [DataNext]_<<vars, dataVars>>
    PROVE  OwnSlotRoles'
<1> USE DEF DataIInv, OwnSlotRoles
<1>1. ASSUME UNCHANGED <<vars, macState, macQueue, timeout, sendData, onAir>> PROVE OwnSlotRoles'
  BY <1>1 DEF vars
<1>2. CASE SlotStarts
  BY <1>2 DEF SlotStarts, Wakeup
<1>3. ASSUME NEW n \in Node, NEW d \in Traffic[n], handleUpperMsg(n, d) PROVE OwnSlotRoles'
  BY <1>3, UpperMsgEffect DEF vars, DataTypeOK
<1>4. ASSUME NEW n \in Node, SendControl(n) PROVE OwnSlotRoles'
  <2>1. mySlot[n] = currSlot
    BY <1>4 DEF SendControl, CheckChannel, IInv, SenderOwnsSlot
  <2> QED BY <1>4, <2>1 DEF SendControl, CheckChannel, DataTypeOK
<1>5. ASSUME NEW n \in Node, OwnSlotBusy(n) PROVE OwnSlotRoles'
  BY <1>5 DEF OwnSlotBusy, MediumBusy, vars
<1>6. ASSUME NEW n \in Node, Timeout(n) PROVE OwnSlotRoles'
  BY <1>6 DEF Timeout, vars, DataTypeOK, TimeoutInRx
<1>7. ASSUME NEW n \in Node, NEW m \in Node, ReceiveControl(n, m) PROVE OwnSlotRoles'
  <2>1. \A k \in Node : k \in sendData \/ onAir[k] # Silence => k # n
    BY <1>7, ReceiveControlEffect
  <2>2. /\ UNCHANGED <<currSlot, sendData, onAir, macQueue>>
        /\ listening' \subseteq listening
        /\ checkChannel' = checkChannel \ {n} /\ timeout' = timeout \ {n}
        /\ \A k \in Node \ {n} : macState'[k] = macState[k] /\ mySlot'[k] = mySlot[k]
    BY <1>7, ReceiveControlEffect
  <2>3. \A k \in checkChannel' : macState'[k] = "RX" /\ k \notin timeout'
    BY <2>2 DEF IInv, TypeOK
  <2>4. \A k \in sendData' : macQueue'[k] # <<>>
    BY <2>2
  <2>5. \A k \in Node : k \in sendData' \/ onAir'[k] # Silence =>
           macState'[k] = "TX" /\ k \notin listening' /\ mySlot'[k] = currSlot'
    BY <2>1, <2>2
  <2> QED BY <2>3, <2>4, <2>5
<1>8. ASSUME NEW n \in Node, NEW m \in Node, ReceiveData(n, m) PROVE OwnSlotRoles'
  BY <1>8 DEF ReceiveData, DataTypeOK
<1>9. ASSUME NEW n \in Node, TransmissionOver(n) PROVE OwnSlotRoles'
  <2>1. n \notin checkChannel
    BY <1>9 DEF TransmissionOver, IInv, Roles
  <2> QED BY <1>9, <2>1 DEF TransmissionOver, vars, DataTypeOK, IInv, TypeOK
<1>10. ASSUME NEW n \in Node, SendData(n) PROVE OwnSlotRoles'
  BY <1>10 DEF SendData, vars, DataTypeOK
<1> QED BY <1>1, <1>2, <1>3, <1>4, <1>5, <1>6, <1>7, <1>8, <1>9, <1>10
        DEF DataNext, dataVars, SetupPhaseEnd

LEMMA HeadStep ==
    ASSUME DataIInv, [DataNext]_<<vars, dataVars>>
    PROVE  HeadAnnounced' /\ ChecksBeforeData'
<1> USE DEF DataIInv, HeadAnnounced, ChecksBeforeData
<1>1. ASSUME UNCHANGED <<macQueue, sendData, onAir>>, checkChannel' \subseteq checkChannel
      PROVE  HeadAnnounced' /\ ChecksBeforeData'
  BY <1>1
<1>2. CASE SlotStarts
  BY <1>2 DEF SlotStarts, Silence
<1>3. ASSUME NEW n \in Node, NEW d \in Traffic[n], handleUpperMsg(n, d)
      PROVE  HeadAnnounced' /\ ChecksBeforeData'
  BY <1>3, UpperMsgEffect DEF vars, OwnSlotRoles
<1>4. ASSUME NEW n \in Node, SendControl(n) PROVE HeadAnnounced' /\ ChecksBeforeData'
  <2>1. n \in checkChannel /\ checkChannel # {}
    BY <1>4 DEF SendControl, CheckChannel
  <2>2. \A k \in Node : onAir[k].kind # "data" /\ onAir'[k].kind # "data"
    BY <1>4, <2>1 DEF SendControl, DataTypeOK
  <2> QED BY <1>4, <2>2 DEF SendControl, DataTypeOK
<1>5. ASSUME NEW n \in Node, OwnSlotBusy(n) \/ Timeout(n)
      PROVE  HeadAnnounced' /\ ChecksBeforeData'
  BY <1>1, <1>5 DEF OwnSlotBusy, MediumBusy, Timeout, vars
<1>6. ASSUME NEW n \in Node, NEW m \in Node, ReceiveControl(n, m)
      PROVE  HeadAnnounced' /\ ChecksBeforeData'
  BY <1>1, <1>6, ReceiveControlEffect
<1>7. ASSUME NEW n \in Node, NEW m \in Node, ReceiveData(n, m)
      PROVE  HeadAnnounced' /\ ChecksBeforeData'
  BY <1>1, <1>7 DEF ReceiveData
<1>8. ASSUME NEW n \in Node, TransmissionOver(n) PROVE HeadAnnounced' /\ ChecksBeforeData'
  BY <1>8 DEF TransmissionOver, Silence, vars, DataTypeOK
<1>9. ASSUME NEW n \in Node, SendData(n) PROVE HeadAnnounced' /\ ChecksBeforeData'
  BY <1>9 DEF SendData, Silence, vars, DataTypeOK
<1> QED BY <1>1, <1>2, <1>3, <1>4, <1>5, <1>6, <1>7, <1>8, <1>9
        DEF DataNext, vars, dataVars, SetupPhaseEnd

\* A disturbed reception stays disturbed until the slot is over
LEMMA DisturbedStays ==
    ASSUME DataIInv, [DataNext]_<<vars, dataVars>>, ~SlotStarts,
           NEW n \in Node, NEW m \in Node, Disturbed(n, m)
    PROVE  Disturbed(n, m)'
<1>1. Nbr[n] \subseteq Node
  BY RangeAssumption
<1> QED BY <1>1, SenderStays DEF Disturbed

\* A node that moves because of a control packet leaves the slot of the sender
LEMMA MovesAway ==
    ASSUME DataIInv, NEW n \in Node, NEW m \in Node, mySlot[m] = currSlot,
           NEW s \in NewSlots(n, m)
    PROVE  s # currSlot
<1>1. currSlot \in Slot /\ currSlot # NoSlot
  BY SlotAssumption DEF DataIInv, IInv, TypeOK, Slot
<1>2. CASE MustMove(n, m)
  <2> DEFINE away == Heard(occSlotsDirect[m], m)
  <2>1. away[currSlot] = m /\ m # Free
    BY <1>1, NodeAssumption DEF Heard
  <2>2. s \in findNewSlot(away)
    BY <1>2 DEF NewSlots
  <2> HIDE DEF away
  <2> QED BY <1>1, <2>1, <2>2 DEF findNewSlot
<1>3. CASE ~MustMove(n, m)
  BY <1>3 DEF NewSlots, MustMove
<1> QED BY <1>2, <1>3

\* The data that a node expects, after a control packet
LEMMA AwaitedReceive ==
    ASSUME DataIInv, [DataNext]_<<vars, dataVars>>, ~SlotStarts,
           NEW k \in Node, NEW j \in Node, ReceiveControl(k, j)
    PROVE  Awaited'
<1> USE DEF DataIInv
<1>1. /\ onAir[j].kind = "control" /\ macState[k] = "RX"
      /\ <<j, k>> \in air /\ k \in listening
      /\ listening \ {k} \subseteq listening' /\ listening' \subseteq listening
      /\ checkChannel' = checkChannel \ {k} /\ timeout' = timeout \ {k}
      /\ \A i \in Node \ {k} : macState'[i] = macState[i] /\ mySlot'[i] = mySlot[i]
      /\ air' = air \ {<<j, k>>} /\ currSlot' = currSlot
      /\ mySlot'[k] \in NewSlots(k, j)
      /\ UNCHANGED <<SETUP_PHASE, macQueue, sendData, onAir, requests>>
      /\ \/ expecting' = expecting
         \/ /\ onAir[j].dest \in {k, Broadcast}
            /\ expecting' = expecting \cup {<<j, k>>}
            /\ macState' = macState /\ listening' = listening
  BY ReceiveControlEffect
<1>2. k \in Nbr[j] /\ j \in Nbr[k] /\ j # k /\ j \notin listening /\ mySlot[j] = currSlot
  BY <1>1, RangeAssumption DEF IInv, Roles, SenderOwnsSlot
<1> SUFFICES ASSUME NEW m \in Node, NEW n \in Node, <<m, n>> \in expecting'
             PROVE  /\ <<m, n>> \notin air' /\ n \in Nbr[m]
                    /\ m \notin listening' /\ mySlot'[m] = currSlot'
                    /\ m \in sendData' => Head(macQueue'[m]) \in {n, Broadcast}
                    /\ \/ Disturbed(n, m)'
                       \/ /\ macState'[n] = "RX" /\ n \in listening'
                          /\ n \notin timeout' \cup checkChannel' /\ mySlot'[n] # currSlot'
  <2>1. expecting' \subseteq Node \X Node
    BY <1>1 DEF DataTypeOK
  <2> QED BY <2>1 DEF Awaited
<1>3. CASE <<m, n>> \in expecting
  <2>1. /\ <<m, n>> \notin air /\ n \in Nbr[m]
        /\ m \notin listening /\ mySlot[m] = currSlot
        /\ m \in sendData => Head(macQueue[m]) \in {n, Broadcast}
        /\ \/ Disturbed(n, m)
           \/ /\ macState[n] = "RX" /\ n \in listening
              /\ n \notin timeout \cup checkChannel /\ mySlot[n] # currSlot
    BY <1>3 DEF Awaited
  <2>2. /\ <<m, n>> \notin air' /\ m \notin listening' /\ mySlot'[m] = currSlot'
        /\ m \in sendData' => Head(macQueue'[m]) \in {n, Broadcast}
    BY <1>1, <2>1
  <2>3. CASE Disturbed(n, m)
    BY <2>1, <2>2, <2>3, DisturbedStays
  <2>4. CASE ~Disturbed(n, m) /\ n # k
    BY <1>1, <2>1, <2>2, <2>4
  <2>5. CASE n = k
    <3>1. j \in Nbr[n] \ {m}
      BY <1>1, <1>2, <2>1, <2>5
    <3>2. Disturbed(n, m)
      BY <1>2, <3>1 DEF Disturbed
    <3> QED BY <2>1, <2>2, <3>2, DisturbedStays
  <2> QED BY <2>3, <2>4, <2>5
<1>4. CASE <<m, n>> \notin expecting
  <2>1. /\ m = j /\ n = k /\ onAir[j].dest \in {k, Broadcast}
        /\ macState' = macState /\ listening' = listening
    BY <1>1, <1>4
  <2>2. j \in sendData /\ Head(macQueue[j]) \in {k, Broadcast}
    BY <1>1, <2>1, AddressAssumption DEF HeadAnnounced
  <2>3. mySlot'[k] # currSlot
    BY <1>1, <1>2, MovesAway
  <2>4. /\ <<m, n>> \notin air' /\ n \in Nbr[m]
        /\ m \notin listening' /\ mySlot'[m] = currSlot'
    BY <1>1, <1>2, <2>1
  <2>5. m \in sendData' => Head(macQueue'[m]) \in {n, Broadcast}
    BY <1>1, <2>1, <2>2
  <2> QED BY <1>1, <2>1, <2>3, <2>4, <2>5
<1> QED BY <1>3, <1>4

LEMMA AwaitedStep ==
    ASSUME DataIInv, [DataNext]_<<vars, dataVars>>
    PROVE  Awaited'
<1> USE DEF DataIInv
<1>1. CASE SlotStarts
  BY <1>1 DEF SlotStarts, Awaited
<1> SUFFICES ASSUME ~SlotStarts PROVE Awaited'
  BY <1>1
<1>2. ASSUME NEW k \in Node, NEW j \in Node, ReceiveControl(k, j) PROVE Awaited'
  BY <1>2, AwaitedReceive
<1> SUFFICES ASSUME ~(\E k, j \in Node : ReceiveControl(k, j)),
                    NEW m \in Node, NEW n \in Node, <<m, n>> \in expecting'
             PROVE  /\ <<m, n>> \notin air' /\ n \in Nbr[m]
                    /\ m \notin listening' /\ mySlot'[m] = currSlot'
                    /\ m \in sendData' => Head(macQueue'[m]) \in {n, Broadcast}
                    /\ \/ Disturbed(n, m)'
                       \/ /\ macState'[n] = "RX" /\ n \in listening'
                          /\ n \notin timeout' \cup checkChannel' /\ mySlot'[n] # currSlot'
  <2>1. DataTypeOK'
    BY SlotStep, TypeStep, DataTypeStep DEF IInv
  <2> QED BY <1>2, <2>1 DEF Awaited, DataTypeOK
<1> DEFINE Awake == /\ macState[n] = "RX" /\ n \in listening
                    /\ n \notin timeout \cup checkChannel /\ mySlot[n] # currSlot
           AwakeNext == /\ macState'[n] = "RX" /\ n \in listening'
                        /\ n \notin timeout' \cup checkChannel' /\ mySlot'[n] # currSlot'
<1>3. <<m, n>> \in expecting
  BY DEF DataNext, dataVars, SetupPhaseEnd, handleUpperMsg, SendControl, OwnSlotBusy,
         Timeout, ReceiveData, TransmissionOver, SendData
<1>4. /\ <<m, n>> \notin air /\ n \in Nbr[m]
      /\ m \notin listening /\ mySlot[m] = currSlot
      /\ m \in sendData => Head(macQueue[m]) \in {n, Broadcast}
      /\ Disturbed(n, m) \/ Awake
  BY <1>3 DEF Awaited
<1>5. m \notin listening' /\ mySlot'[m] = currSlot'
  BY <1>4, SenderStays
<1>6. Disturbed(n, m) => Disturbed(n, m)'
  BY DisturbedStays
<1> SUFFICES /\ <<m, n>> \notin air'
             /\ m \in sendData' => Head(macQueue'[m]) \in {n, Broadcast}
             /\ ~Disturbed(n, m) => Disturbed(n, m)' \/ AwakeNext
  BY <1>4, <1>5, <1>6
<1>7. ASSUME UNCHANGED <<vars, macState, timeout>>
      PROVE  <<m, n>> \notin air' /\ (~Disturbed(n, m) => AwakeNext)
  BY <1>4, <1>7 DEF vars
<1>8. ASSUME NEW k \in Node, NEW d \in Traffic[k], handleUpperMsg(k, d)
      PROVE  m \in sendData' => Head(macQueue'[m]) \in {n, Broadcast}
  BY <1>4, <1>8, UpperMsgEffect DEF OwnSlotRoles
<1>9. ASSUME NEW k \in Node, SendControl(k)
      PROVE  /\ <<m, n>> \notin air'
             /\ m \in sendData' => Head(macQueue'[m]) \in {n, Broadcast}
             /\ ~Disturbed(n, m) => AwakeNext
  <2>1. k \in checkChannel /\ k \in listening /\ k # m
    BY <1>4, <1>9 DEF SendControl, CheckChannel, IInv, Roles
  <2>2. <<m, n>> \notin air'
    BY <1>4, <1>9, <2>1 DEF SendControl, CheckChannel
  <2>3. Awake => n # k /\ AwakeNext
    BY <1>9, <2>1 DEF SendControl, CheckChannel, DataTypeOK
  <2> QED BY <1>4, <1>9, <2>1, <2>2, <2>3 DEF SendControl
<1>10. ASSUME NEW k \in Node, OwnSlotBusy(k)
       PROVE  /\ <<m, n>> \notin air'
              /\ m \in sendData' => Head(macQueue'[m]) \in {n, Broadcast}
              /\ ~Disturbed(n, m) => AwakeNext
  <2>1. mySlot[k] = currSlot
    BY <1>10 DEF OwnSlotBusy, MediumBusy, IInv, SenderOwnsSlot
  <2>2. /\ UNCHANGED <<currSlot, mySlot, listening, air, macState, macQueue, sendData>>
        /\ checkChannel' \subseteq checkChannel /\ timeout' = timeout \cup {k}
    BY <1>10 DEF OwnSlotBusy, MediumBusy, vars
  <2> QED BY <1>4, <2>1, <2>2
<1>11. ASSUME NEW k \in Node, Timeout(k)
       PROVE  /\ <<m, n>> \notin air'
              /\ m \in sendData' => Head(macQueue'[m]) \in {n, Broadcast}
              /\ ~Disturbed(n, m) => AwakeNext
  BY <1>4, <1>11 DEF Timeout, vars, DataTypeOK
<1>12. ASSUME NEW k \in Node, NEW j \in Node, ReceiveData(k, j)
       PROVE  /\ <<m, n>> \notin air'
              /\ m \in sendData' => Head(macQueue'[m]) \in {n, Broadcast}
              /\ ~Disturbed(n, m) => AwakeNext
  <2>1. /\ j \in Nbr[k] /\ onAir[j].kind = "data"
        /\ expecting' = expecting \ {<<j, k>>}
        /\ UNCHANGED <<currSlot, mySlot, listening, air, macQueue, sendData>>
        /\ checkChannel' = checkChannel \ {k} /\ timeout' = timeout \ {k}
    BY <1>12 DEF ReceiveData
  <2>2. j \notin listening /\ mySlot[j] = currSlot
    BY <2>1 DEF OwnSlotRoles, Silence
  <2>3. n = k => j # m
    BY <2>1
  <2>4. n = k => Disturbed(n, m)
    BY <2>1, <2>2, <2>3 DEF Disturbed
  <2>5. n # k => macState'[n] = macState[n]
    BY <1>12 DEF ReceiveData, DataTypeOK
  <2> QED BY <1>4, <2>1, <2>4, <2>5
<1>13. ASSUME NEW k \in Node, TransmissionOver(k)
       PROVE  /\ <<m, n>> \notin air'
              /\ m \in sendData' => Head(macQueue'[m]) \in {n, Broadcast}
              /\ ~Disturbed(n, m) => AwakeNext
  <2>1. k \notin listening
    BY <1>13 DEF TransmissionOver, OwnSlotRoles
  <2>2. /\ UNCHANGED <<currSlot, mySlot, listening, air, checkChannel, macQueue, sendData>>
        /\ timeout' \subseteq timeout
    BY <1>13 DEF TransmissionOver, vars
  <2>3. n # k => macState'[n] = macState[n]
    BY <1>13 DEF TransmissionOver, DataTypeOK
  <2> QED BY <1>4, <2>1, <2>2, <2>3
<1>14. ASSUME NEW k \in Node, SendData(k)
       PROVE  /\ UNCHANGED <<vars, macState, timeout>>
              /\ m \in sendData' => Head(macQueue'[m]) \in {n, Broadcast}
  BY <1>4, <1>14 DEF SendData, DataTypeOK
<1>15. ASSUME SetupPhaseEnd \/ UNCHANGED <<vars, dataVars>>
       PROVE  UNCHANGED <<vars, macState, timeout, macQueue, sendData>>
  BY <1>15 DEF SetupPhaseEnd, dataVars
<1>16. ASSUME NEW k \in Node, NEW d \in Traffic[k], handleUpperMsg(k, d)
       PROVE  UNCHANGED <<vars, macState, timeout>>
  BY <1>16 DEF handleUpperMsg
<1> HIDE DEF AwakeNext, Awake
<1>17. CASE SetupPhaseEnd \/ UNCHANGED <<vars, dataVars>>
  BY <1>4, <1>7, <1>15, <1>17
<1> QED BY <1>7, <1>8, <1>9, <1>10, <1>11, <1>12, <1>13, <1>14, <1>16, <1>17 DEF DataNext

LEMMA DataInitInv == DataInit => DataIInv
<1> SUFFICES ASSUME DataInit PROVE DataIInv
  OBVIOUS
<1>1. IInv
  BY InitIInv DEF DataInit
<1>2. DataTypeOK
  BY DEF DataInit, DataTypeOK, Frame, Silence
<1>3. TimeoutInRx /\ HeadAnnounced /\ ChecksBeforeData /\ Awaited
  BY DEF DataInit, TimeoutInRx, HeadAnnounced, ChecksBeforeData, Awaited, Silence
<1>4. OwnSlotRoles
  BY DEF DataInit, Init, OwnSlotRoles
<1> QED BY <1>1, <1>2, <1>3, <1>4 DEF DataIInv

LEMMA DataStepInv == DataIInv /\ [DataNext]_<<vars, dataVars>> => DataIInv'
<1> SUFFICES ASSUME DataIInv, [DataNext]_<<vars, dataVars>> PROVE DataIInv'
  OBVIOUS
<1>1. IInv'
  BY SlotStep, StepIInv DEF DataIInv
<1>2. DataTypeOK'
  BY <1>1, DataTypeStep DEF IInv
<1> QED BY <1>1, <1>2, TimeoutStep, OwnSlotStep, HeadStep, AwaitedStep DEF DataIInv

\* The inductive invariant of the data phase, for any network, traffic and loss.
THEOREM DataInvariance == DataSpec => []DataIInv
BY DataInitInv, DataStepInv, PTL DEF DataSpec

\* The data phase implements the slot assignment: what holds of LMAC holds with data.
THEOREM DataImplementsSlots == DataSpec => Spec
<1>1. DataInit => Init
  BY DEF DataInit
<1>2. DataIInv /\ [DataNext]_<<vars, dataVars>> => [Next]_vars
  BY SlotStep
<1> QED BY <1>1, <1>2, DataInvariance, PTL DEF DataSpec, Spec

\* In every network, with any loss and any choice of slots, a node has every neighbour in
\* its table once at most and nobody else: a neighbour that moves to another slot leaves
\* the old one (occSlotsDirect in LMACLayer::handleLowerMsg).
THEOREM TablesHoldNeighboursOnce == DataSpec => []OneEntryPerNeighbour
<1>1. IInv => OneEntryPerNeighbour
  BY DEF IInv
<1> QED BY <1>1, Invariance, DataImplementsSlots, PTL

\* Data goes out in the slot of its sender, to whom was announced; and in an assignment
\* without conflicts whoever decoded the announcement is awake until the data comes.
THEOREM DataComesAsAnnounced == DataSpec => []DataAsAnnounced
<1>1. DataIInv => DataAsAnnounced
  <2> SUFFICES ASSUME DataIInv PROVE DataAsAnnounced
    OBVIOUS
  <2> USE DEF DataIInv
  <2>1. \A n \in sendData : mySlot[n] = currSlot
    BY DEF OwnSlotRoles, DataTypeOK
  <2>2. \A p \in expecting : p[1] \in sendData => Head(macQueue[p[1]]) \in {p[2], Broadcast}
    BY DEF Awaited
  <2>3. ASSUME Settled, NEW p \in expecting PROVE macState[p[2]] = "RX"
    <3> DEFINE m == p[1]
               n == p[2]
    <3>1. m \in Node /\ n \in Node /\ n \in Nbr[m] /\ mySlot[m] = currSlot
      BY DEF Awaited, DataTypeOK
    <3>2. ASSUME Disturbed(n, m) PROVE FALSE
      <4>1. PICK k \in Nbr[n] \ {m} : mySlot[k] = currSlot
        BY <3>2 DEF Disturbed
      <4>2. k \in Node /\ m \in Nbr[n] /\ WithinTwoHops(k, m)
        BY <3>1, <4>1, RangeAssumption DEF WithinTwoHops
      <4> QED BY <2>3, <3>1, <4>1, <4>2 DEF Settled
    <3> QED BY <3>2 DEF Awaited
  <2> QED BY <2>1, <2>2, <2>3 DEF DataAsAnnounced
<1> QED BY <1>1, DataInvariance, PTL
=============================================================================
