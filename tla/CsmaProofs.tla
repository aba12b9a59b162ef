----------------------------- MODULE CsmaProofs -----------------------------
(***************************************************************************)
(* Proofs about Csma: IInv is an inductive invariant, for any number of    *)
(* nodes, any traffic and any value of the parameters.  Two invariants     *)
(* build on it: Accounted, where every packet is, and Past, what the       *)
(* packets passed up leave behind.                                         *)
(***************************************************************************)
EXTENDS Csma, SequenceTheorems, FiniteSetTheorems, TLAPS

LEMMA InitIInv == Init => IInv
<1> SUFFICES ASSUME Init PROVE IInv
  OBVIOUS
<1> USE AddressAssumption, ParameterAssumption DEF Init
<1>1. TypeOK
  BY DEF TypeOK, MachineTypeOK, CycleTypeOK, SeqNrTypeOK, FrameTypeOK, UpTypeOK,
         MacState, Command
<1>2. TimerOfState /\ OneTransmission /\ HeadPresent /\ AckReady
  BY DEF TimerOfState, OneTransmission, HeadPresent, AckReady
<1>3. NeverDeaf /\ NoFrameDuringSifs /\ AttemptsCounted /\ CycleBounded
  BY DEF NeverDeaf, NoFrameDuringSifs, AttemptsCounted, CycleBounded
<1> QED BY <1>1, <1>2, <1>3 DEF IInv

LEMMA NewPacketType ==
  ASSUME NEW n \in Node, NEW d \in Flow[n], SeqNrTypeOK
  PROVE  d \in Address /\ NewPacket(n, d) \in Packet
BY AddressAssumption DEF NewPacket, Packet, SeqNrTypeOK, Address

LEMMA AppendAt ==
  ASSUME NEW S, NEW f \in [Node -> Seq(S)], NEW n \in Node, NEW e \in S
  PROVE  [f EXCEPT ![n] = Append(@, e)] \in [Node -> Seq(S)]
BY AppendProperties

LEMMA ReportType ==
  ASSUME UpTypeOK, NEW n \in Node, NEW p \in Packet, NEW r \in Outcome,
         Report(n, p, r), sentUp' = sentUp
  PROVE  UpTypeOK'
<1>1. [pkt |-> p, outcome |-> r] \in [pkt : Packet, outcome : Outcome]
  OBVIOUS
<1>2. [reports EXCEPT ![n] = Append(@, [pkt |-> p, outcome |-> r])]
         \in [Node -> Seq([pkt : Packet, outcome : Outcome])]
  BY <1>1, AppendAt DEF UpTypeOK
<1> QED BY <1>2 DEF UpTypeOK, Report

LEMMA ManageQueueStep ==
  ASSUME MachineTypeOK, CycleTypeOK, FrameTypeOK, HeadPresent, CycleBounded,
         NEW n \in Node, NEW q \in Seq(Packet), NEW nb \in Nat, NEW be \in Nat,
         NEW done, manageQueue(n, q, nb, be, done),
         nb <= macMaxCSMABackoffs + 1, be <= macMaxBE,
         interrupted[n] => nb <= macMaxCSMABackoffs /\ q # <<>>
  PROVE  /\ macQueue' \in [Node -> Seq(Packet)]
         /\ macState' \in [Node -> MacState] /\ timers' \in [Node -> SUBSET Timer]
         /\ NB' \in [Node -> Nat] /\ BE' \in [Node -> Nat]
         /\ interrupted' \in [Node -> BOOLEAN]
         /\ HeadPresent'
         /\ CycleBounded'
<1> USE ParameterAssumption DEF manageQueue, FreshCycle
<1>1. HeadPresent'
  BY DEF HeadPresent, MachineTypeOK, FrameTypeOK, CycleTypeOK
<1>2. CycleBounded'
  <2>1. \A m \in Node : (BE[m] <= macMaxBE /\ NB[m] <= macMaxCSMABackoffs + 1)'
    BY DEF CycleBounded, CycleTypeOK
  <2>2. ASSUME NEW m \in Node, (macState[m] \in {"BACKOFF_2", "CCA_3"} \/ interrupted[m])'
        PROVE  NB'[m] <= macMaxCSMABackoffs
    BY <2>2 DEF CycleBounded, CycleTypeOK, MachineTypeOK
  <2> QED BY <2>1, <2>2 DEF CycleBounded
<1>3. macQueue' \in [Node -> Seq(Packet)]
  BY DEF FrameTypeOK
<1>4. macState' \in [Node -> MacState] /\ timers' \in [Node -> SUBSET Timer]
  BY DEF MachineTypeOK, MacState, Timer
<1>5. NB' \in [Node -> Nat] /\ BE' \in [Node -> Nat]
  BY DEF CycleTypeOK
<1>6. interrupted' \in [Node -> BOOLEAN]
  BY DEF CycleTypeOK
<1> QED BY <1>1, <1>2, <1>3, <1>4, <1>5, <1>6

LEMMA HeadDone ==
  ASSUME AttemptsCounted, CycleTypeOK, NEW n \in Node,
         txAttempts' = [txAttempts EXCEPT ![n] = 0],
         txCount' = [txCount EXCEPT ![n] = 0],
         macState'[n] \in {"BACKOFF_2", "IDLE_1"},
         \A m \in Node \ {n} : macState'[m] = macState[m] /\ macQueue'[m] = macQueue[m]
  PROVE  AttemptsCounted'
<1>1. txAttempts'[n] = 0 /\ txCount'[n] = 0
  BY DEF CycleTypeOK
<1>2. \A m \in Node \ {n} : txAttempts'[m] = txAttempts[m] /\ txCount'[m] = txCount[m]
  BY DEF CycleTypeOK
<1> QED BY <1>1, <1>2, ParameterAssumption DEF AttemptsCounted

LEMMA OneFrame ==
  ASSUME FrameTypeOK, OneTransmission, NEW n \in Node, lower[n] # <<>>
  PROVE  Head(lower[n]) \in Frame /\ Tail(lower[n]) = <<>>
<1>1. lower[n] \in Seq(Frame)
  BY DEF FrameTypeOK
<1>2. Len(lower[n]) = 1
  BY DEF OneTransmission
<1>3. Len(Tail(lower[n])) = 0 /\ Tail(lower[n]) \in Seq(Frame)
  BY <1>1, <1>2, HeadTailProperties
<1>4. Tail(lower[n]) = <<>>
  BY <1>3, EmptySeq
<1> QED BY <1>1, <1>4, HeadTailProperties

LEMMA SendDownType ==
  ASSUME FrameTypeOK, NEW n \in Node, NEW f \in Frame, lower[n] = <<>>, SendDown(n, f)
  PROVE  /\ lower' \in [Node -> Seq(Frame)]
         /\ Len(lower'[n]) = 1 /\ Head(lower'[n]) = f
         /\ \A m \in Node \ {n} : lower'[m] = lower[m]
<1>1. lower'[n] = Append(<<>>, f)
  BY DEF SendDown, FrameTypeOK
<1>2. Len(lower'[n]) = 1 /\ Head(lower'[n]) = f
  BY <1>1
<1> QED BY <1>2, AppendProperties DEF SendDown, FrameTypeOK

LEMMA PassUpType ==
  ASSUME UpTypeOK, NEW n \in Node, NEW f \in Packet,
         sentUp' = [sentUp EXCEPT ![n] = Append(@, f)] \/ sentUp' = sentUp,
         reports' = reports
  PROVE  UpTypeOK'
<1>1. [sentUp EXCEPT ![n] = Append(@, f)] \in [Node -> Seq(Packet)]
  BY AppendAt DEF UpTypeOK
<1> QED BY <1>1 DEF UpTypeOK

LEMMA EncapsMsgType ==
  ASSUME SeqNrTypeOK, NEW n \in Node, NEW d \in Address, EncapsMsg(n, d),
         SeqNrChild' = SeqNrChild
  PROVE  SeqNrTypeOK'
<1>1. SeqNrParent' \in [Node -> [Address -> Nat]]
  BY DEF SeqNrTypeOK, EncapsMsg
<1> QED BY <1>1 DEF SeqNrTypeOK

LEMMA CancelledTimer ==
  ASSUME NEW s \in {"IDLE_1", "BACKOFF_2", "CCA_3"}
  PROVE  Cancelled[s] = IF s = "BACKOFF_2" THEN {"backoffTimer"}
                        ELSE IF s = "CCA_3" THEN {"ccaTimer"} ELSE {}
BY DEF Cancelled

LEMMA LeastBE ==
  ASSUME CycleTypeOK, CycleBounded, NEW n \in Node
  PROVE  Least(BE[n] + 1, macMaxBE) \in Nat /\ Least(BE[n] + 1, macMaxBE) <= macMaxBE
BY ParameterAssumption DEF Least, CycleTypeOK, CycleBounded

LEMMA SendRequestIdleStep ==
  ASSUME IInv, NEW n \in Node, NEW d \in Flow[n], SendRequestIdle(n, d)
  PROVE  IInv'
<1> USE ParameterAssumption DEF IInv, TypeOK, SendRequestIdle, Enqueue, upVars
<1>a. d \in Address /\ NewPacket(n, d) \in Packet
  BY NewPacketType
<1>1. MachineTypeOK'
  BY DEF MachineTypeOK, MacState, Timer, Command
<1>2. CycleTypeOK'
  BY DEF CycleTypeOK
<1>3. SeqNrTypeOK'
  BY <1>a DEF SeqNrTypeOK, EncapsMsg
<1>4. FrameTypeOK'
  BY <1>a DEF FrameTypeOK
<1>5. UpTypeOK'
  BY <1>a DEF UpTypeOK
<1>6. TimerOfState'
  BY DEF TimerOfState, MachineTypeOK
<1>7. OneTransmission'
  BY <1>a DEF OneTransmission, MachineTypeOK, FrameTypeOK, HeadPresent
<1>8. HeadPresent'
  BY <1>a DEF HeadPresent, MachineTypeOK, FrameTypeOK
<1>9. AckReady'
  BY DEF AckReady, MachineTypeOK, FrameTypeOK
<1>10. NeverDeaf'
  BY DEF NeverDeaf, MachineTypeOK
<1>11. NoFrameDuringSifs'
  BY DEF NoFrameDuringSifs, MachineTypeOK, FrameTypeOK
<1>12. AttemptsCounted'
  BY <1>a DEF AttemptsCounted, HeadPresent, MachineTypeOK, CycleTypeOK, FrameTypeOK
<1>13. CycleBounded'
  BY DEF CycleBounded, HeadPresent, MachineTypeOK, CycleTypeOK, FrameTypeOK
<1> QED BY <1>1, <1>2, <1>3, <1>4, <1>5, <1>6, <1>7, <1>8, <1>9, <1>10, <1>11, <1>12, <1>13

LEMMA SendRequestNotIdleStep ==
  ASSUME IInv, NEW n \in Node, NEW d \in Flow[n], SendRequestNotIdle(n, d)
  PROVE  IInv'
<1> USE ParameterAssumption DEF IInv, TypeOK, SendRequestNotIdle, Enqueue, cycleVars, upVars
<1>a. d \in Address /\ NewPacket(n, d) \in Packet
  BY NewPacketType
<1>1. MachineTypeOK'
  BY DEF MachineTypeOK, MacState, Timer, Command
<1>2. CycleTypeOK'
  BY DEF CycleTypeOK
<1>3. SeqNrTypeOK'
  BY <1>a DEF SeqNrTypeOK, EncapsMsg
<1>4. FrameTypeOK'
  BY <1>a DEF FrameTypeOK
<1>5. UpTypeOK'
  BY <1>a DEF UpTypeOK
<1>6. TimerOfState'
  BY DEF TimerOfState, MachineTypeOK
<1>7. OneTransmission'
  BY <1>a DEF OneTransmission, MachineTypeOK, FrameTypeOK, HeadPresent
<1>8. HeadPresent'
  <2>1. \A m \in Node : macQueue[m] # <<>> => macQueue'[m] # <<>>
    BY <1>a DEF FrameTypeOK
  <2>2. \A m \in Node : macState[m] = "IDLE_1" => macQueue'[m] = macQueue[m]
    BY DEF FrameTypeOK
  <2> QED BY <2>1, <2>2 DEF HeadPresent
<1>9. AckReady'
  BY DEF AckReady, MachineTypeOK, FrameTypeOK
<1>10. NeverDeaf'
  BY DEF NeverDeaf, MachineTypeOK
<1>11. NoFrameDuringSifs'
  BY DEF NoFrameDuringSifs, MachineTypeOK, FrameTypeOK
<1>12. AttemptsCounted'
  BY <1>a DEF AttemptsCounted, HeadPresent, MachineTypeOK, CycleTypeOK, FrameTypeOK
<1>13. CycleBounded'
  BY DEF CycleBounded, HeadPresent, MachineTypeOK, CycleTypeOK, FrameTypeOK
<1> QED BY <1>1, <1>2, <1>3, <1>4, <1>5, <1>6, <1>7, <1>8, <1>9, <1>10, <1>11, <1>12, <1>13

LEMMA SendRequestQueueFullStep ==
  ASSUME IInv, NEW n \in Node, NEW d \in Flow[n], SendRequestQueueFull(n, d)
  PROVE  IInv'
<1> USE ParameterAssumption DEF IInv, TypeOK, SendRequestQueueFull, cycleVars
<1>a. d \in Address /\ NewPacket(n, d) \in Packet
  BY NewPacketType
<1>1. MachineTypeOK'
  BY DEF MachineTypeOK, MacState, Timer, Command
<1>2. CycleTypeOK'
  BY DEF CycleTypeOK
<1>3. SeqNrTypeOK'
  <2>1. EncapsMsg(n, d) /\ SeqNrChild' = SeqNrChild
    OBVIOUS
  <2> QED BY <1>a, <2>1, EncapsMsgType
<1>4. FrameTypeOK'
  BY <1>a DEF FrameTypeOK
<1>5. UpTypeOK'
  <2>1. NewPacket(n, d) \in Packet /\ "MAC ERROR" \in Outcome
    BY <1>a DEF Outcome
  <2> QED BY <2>1, ReportType
<1>6. TimerOfState'
  BY DEF TimerOfState, MachineTypeOK
<1>7. OneTransmission'
  BY <1>a DEF OneTransmission, MachineTypeOK, FrameTypeOK, HeadPresent
<1>8. HeadPresent'
  BY <1>a DEF HeadPresent, MachineTypeOK, FrameTypeOK
<1>9. AckReady'
  BY DEF AckReady, MachineTypeOK, FrameTypeOK
<1>10. NeverDeaf'
  BY DEF NeverDeaf, MachineTypeOK
<1>11. NoFrameDuringSifs'
  BY DEF NoFrameDuringSifs, MachineTypeOK, FrameTypeOK
<1>12. AttemptsCounted'
  BY <1>a DEF AttemptsCounted, HeadPresent, MachineTypeOK, CycleTypeOK, FrameTypeOK
<1>13. CycleBounded'
  BY DEF CycleBounded, HeadPresent, MachineTypeOK, CycleTypeOK, FrameTypeOK
<1> QED BY <1>1, <1>2, <1>3, <1>4, <1>5, <1>6, <1>7, <1>8, <1>9, <1>10, <1>11, <1>12, <1>13

LEMMA TimerBackoffStep ==
  ASSUME IInv, NEW n \in Node, TimerBackoff(n)
  PROVE  IInv'
<1> USE ParameterAssumption DEF IInv, TypeOK, TimerBackoff, Execute, cycleVars, seqVars, upVars
<1>1. MachineTypeOK'
  BY DEF MachineTypeOK, MacState, Timer, Command
<1>2. CycleTypeOK'
  BY DEF CycleTypeOK
<1>3. SeqNrTypeOK'
  BY DEF SeqNrTypeOK
<1>4. FrameTypeOK'
  BY DEF FrameTypeOK
<1>5. UpTypeOK'
  BY DEF UpTypeOK
<1>6. TimerOfState'
  BY DEF TimerOfState, MachineTypeOK
<1>7. OneTransmission'
  BY DEF OneTransmission, MachineTypeOK, FrameTypeOK
<1>8. HeadPresent'
  BY DEF HeadPresent, MachineTypeOK, FrameTypeOK
<1>9. AckReady'
  BY DEF AckReady, MachineTypeOK, FrameTypeOK
<1>10. NeverDeaf'
  BY DEF NeverDeaf, MachineTypeOK
<1>11. NoFrameDuringSifs'
  BY DEF NoFrameDuringSifs, MachineTypeOK, FrameTypeOK
<1>12. AttemptsCounted'
  BY DEF AttemptsCounted, HeadPresent, MachineTypeOK, CycleTypeOK, FrameTypeOK
<1>13. CycleBounded'
  BY DEF CycleBounded, HeadPresent, MachineTypeOK, CycleTypeOK, FrameTypeOK
<1> QED BY <1>1, <1>2, <1>3, <1>4, <1>5, <1>6, <1>7, <1>8, <1>9, <1>10, <1>11, <1>12, <1>13

LEMMA TimerCcaIdleStep ==
  ASSUME IInv, NEW n \in Node, TimerCcaIdle(n)
  PROVE  IInv'
<1> USE ParameterAssumption DEF IInv, TypeOK, TimerCcaIdle, CcaTimerFires, Execute, seqVars, upVars
<1>a. /\ macQueue[n] # <<>>
        /\ Head(macQueue[n]) \in Packet
        /\ Tail(macQueue[n]) \in Seq(Packet)
  BY HeadTailProperties DEF HeadPresent, FrameTypeOK, MachineTypeOK
<1>b. /\ lower' \in [Node -> Seq(Frame)]
        /\ Len(lower'[n]) = 1 /\ Head(lower'[n]) = Head(macQueue[n])
        /\ \A m \in Node \ {n} : lower'[m] = lower[m]
  <2>1. lower[n] = <<>>
    BY DEF OneTransmission
  <2>2. Head(macQueue[n]) \in Frame /\ SendDown(n, Head(macQueue[n]))
    BY <1>a DEF Frame
  <2> QED BY <2>1, <2>2, SendDownType
<1>1. MachineTypeOK'
  BY DEF MachineTypeOK, MacState, Timer, Command
<1>2. CycleTypeOK'
  BY DEF CycleTypeOK
<1>3. SeqNrTypeOK'
  BY DEF SeqNrTypeOK
<1>4. FrameTypeOK'
  BY <1>b DEF FrameTypeOK
<1>5. UpTypeOK'
  BY DEF UpTypeOK
<1>6. TimerOfState'
  BY DEF TimerOfState, MachineTypeOK
<1>7. OneTransmission'
  BY <1>b DEF OneTransmission, MachineTypeOK
<1>8. HeadPresent'
  BY DEF HeadPresent, MachineTypeOK, FrameTypeOK
<1>9. AckReady'
  BY DEF AckReady, MachineTypeOK, FrameTypeOK
<1>10. NeverDeaf'
  BY DEF NeverDeaf, MachineTypeOK
<1>11. NoFrameDuringSifs'
  BY DEF NoFrameDuringSifs, MachineTypeOK, FrameTypeOK
<1>12. AttemptsCounted'
  <2>1. txCount'[n] = txCount[n] + 1 /\ txCount[n] = txAttempts[n] + 0
    BY DEF AttemptsCounted, CycleTypeOK
  <2>2. \A m \in Node \ {n} : txCount'[m] = txCount[m] /\ macState'[m] = macState[m]
    BY DEF CycleTypeOK, MachineTypeOK
  <2>3. macState'[n] = "TRANSMITFRAME_4"
    BY DEF MachineTypeOK
  <2> QED BY <1>a, <2>1, <2>2, <2>3 DEF AttemptsCounted, CycleTypeOK
<1>13. CycleBounded'
  BY DEF CycleBounded, HeadPresent, MachineTypeOK, CycleTypeOK, FrameTypeOK
<1> QED BY <1>1, <1>2, <1>3, <1>4, <1>5, <1>6, <1>7, <1>8, <1>9, <1>10, <1>11, <1>12, <1>13

LEMMA TimerCcaBusyStep ==
  ASSUME IInv, NEW n \in Node, TimerCcaBusy(n)
  PROVE  IInv'
<1> USE ParameterAssumption DEF IInv, TypeOK, TimerCcaBusy, CcaTimerFires, Least, seqVars, upVars
<1>1. MachineTypeOK'
  BY DEF MachineTypeOK, MacState, Timer, Command
<1>2. CycleTypeOK'
  BY DEF CycleTypeOK
<1>3. SeqNrTypeOK'
  BY DEF SeqNrTypeOK
<1>4. FrameTypeOK'
  BY DEF FrameTypeOK
<1>5. UpTypeOK'
  BY DEF UpTypeOK
<1>6. TimerOfState'
  BY DEF TimerOfState, MachineTypeOK
<1>7. OneTransmission'
  BY DEF OneTransmission, MachineTypeOK, FrameTypeOK
<1>8. HeadPresent'
  BY DEF HeadPresent, MachineTypeOK, FrameTypeOK
<1>9. AckReady'
  BY DEF AckReady, MachineTypeOK, FrameTypeOK
<1>10. NeverDeaf'
  BY DEF NeverDeaf, MachineTypeOK
<1>11. NoFrameDuringSifs'
  BY DEF NoFrameDuringSifs, MachineTypeOK, FrameTypeOK
<1>12. AttemptsCounted'
  BY DEF AttemptsCounted, HeadPresent, MachineTypeOK, CycleTypeOK, FrameTypeOK
<1>13. CycleBounded'
  BY DEF CycleBounded, HeadPresent, MachineTypeOK, CycleTypeOK, FrameTypeOK
<1> QED BY <1>1, <1>2, <1>3, <1>4, <1>5, <1>6, <1>7, <1>8, <1>9, <1>10, <1>11, <1>12, <1>13

\* The backoff counter of a CCA may grow by one
LEMMA NextNB ==
  ASSUME CycleTypeOK, CycleBounded, NEW n \in Node, macState[n] = "CCA_3"
  PROVE  NB[n] + 1 \in Nat /\ NB[n] + 1 <= macMaxCSMABackoffs + 1
<1>1. NB[n] \in Nat
  BY DEF CycleTypeOK
<1>2. NB[n] <= macMaxCSMABackoffs
  BY DEF CycleBounded
<1> QED BY <1>1, <1>2, ParameterAssumption

LEMMA TimerCcaDropStep ==
  ASSUME IInv, NEW n \in Node, TimerCcaDrop(n)
  PROVE  IInv'
<1> USE ParameterAssumption DEF IInv, TypeOK, TimerCcaDrop, CcaTimerFires, seqVars
<1>a. /\ macQueue[n] # <<>>
        /\ Head(macQueue[n]) \in Packet
        /\ Tail(macQueue[n]) \in Seq(Packet)
  BY HeadTailProperties DEF HeadPresent, FrameTypeOK, MachineTypeOK
<1>b. /\ macQueue' \in [Node -> Seq(Packet)]
        /\ macState' \in [Node -> MacState] /\ timers' \in [Node -> SUBSET Timer]
        /\ NB' \in [Node -> Nat] /\ BE' \in [Node -> Nat]
        /\ interrupted' \in [Node -> BOOLEAN]
        /\ HeadPresent' /\ CycleBounded'
  <2>0. Least(BE[n] + 1, macMaxBE) \in Nat /\ Least(BE[n] + 1, macMaxBE) <= macMaxBE
    BY LeastBE
  <2>1. NB[n] + 1 \in Nat
    BY NextNB
  <2>2. NB[n] + 1 <= macMaxCSMABackoffs + 1
    BY NextNB
  <2>3. interrupted[n] => NB[n] + 1 <= macMaxCSMABackoffs /\ Tail(macQueue[n]) # <<>>
    BY DEF HeadPresent, CycleBounded
  <2>4. manageQueue(n, Tail(macQueue[n]), NB[n] + 1, Least(BE[n] + 1, macMaxBE), {"ccaTimer"})
    OBVIOUS
  <2> QED BY <1>a, <2>0, <2>1, <2>2, <2>3, <2>4, ManageQueueStep
<1>1. MachineTypeOK'
  BY <1>b DEF MachineTypeOK, MacState, Timer, Command
<1>2. CycleTypeOK'
  BY <1>b DEF CycleTypeOK
<1>3. SeqNrTypeOK'
  BY DEF SeqNrTypeOK
<1>4. FrameTypeOK'
  BY <1>a, <1>b DEF FrameTypeOK
<1>5. UpTypeOK'
  <2>1. Head(macQueue[n]) \in Packet /\ "MAC ERROR" \in Outcome
    BY <1>a DEF Outcome
  <2> QED BY <2>1, ReportType
<1>6. TimerOfState'
  BY DEF TimerOfState, manageQueue, MachineTypeOK
<1>7. OneTransmission'
  BY <1>a DEF OneTransmission, manageQueue, MachineTypeOK, FrameTypeOK
<1>8. HeadPresent'
  BY <1>b DEF HeadPresent, MachineTypeOK, FrameTypeOK
<1>9. AckReady'
  BY DEF AckReady, manageQueue, MachineTypeOK, FrameTypeOK
<1>10. NeverDeaf'
  BY DEF NeverDeaf, manageQueue, MachineTypeOK
<1>11. NoFrameDuringSifs'
  BY DEF NoFrameDuringSifs, manageQueue, MachineTypeOK, FrameTypeOK
<1>12. AttemptsCounted'
  <2>1. macState'[n] \in {"BACKOFF_2", "IDLE_1"}
    BY DEF manageQueue, MachineTypeOK
  <2>2. \A m \in Node \ {n} : macState'[m] = macState[m] /\ macQueue'[m] = macQueue[m]
    BY DEF manageQueue, MachineTypeOK, FrameTypeOK
  <2> QED BY <2>1, <2>2, HeadDone
<1>13. CycleBounded'
  BY <1>b DEF CycleBounded, HeadPresent, MachineTypeOK, CycleTypeOK, FrameTypeOK
<1> QED BY <1>1, <1>2, <1>3, <1>4, <1>5, <1>6, <1>7, <1>8, <1>9, <1>10, <1>11, <1>12, <1>13

LEMMA TimerSifsStep ==
  ASSUME IInv, NEW n \in Node, TimerSifs(n)
  PROVE  IInv'
<1> USE ParameterAssumption DEF IInv, TypeOK, TimerSifs, cycleVars, seqVars, upVars
<1>a. ackMessage[n] \in Ack
  BY DEF AckReady, FrameTypeOK
<1>b. /\ lower' \in [Node -> Seq(Frame)]
        /\ Len(lower'[n]) = 1 /\ Head(lower'[n]) = ackMessage[n]
        /\ \A m \in Node \ {n} : lower'[m] = lower[m]
  <2>1. lower[n] = <<>>
    BY DEF OneTransmission
  <2>2. ackMessage[n] \in Frame /\ SendDown(n, ackMessage[n])
    BY <1>a DEF Frame
  <2> QED BY <2>1, <2>2, SendDownType
<1>1. MachineTypeOK'
  BY DEF MachineTypeOK, MacState, Timer, Command
<1>2. CycleTypeOK'
  BY DEF CycleTypeOK
<1>3. SeqNrTypeOK'
  BY DEF SeqNrTypeOK
<1>4. FrameTypeOK'
  BY <1>b DEF FrameTypeOK
<1>5. UpTypeOK'
  BY DEF UpTypeOK
<1>6. TimerOfState'
  BY DEF TimerOfState, MachineTypeOK
<1>7. OneTransmission'
  BY <1>a, <1>b DEF OneTransmission, MachineTypeOK, FrameTypeOK
<1>8. HeadPresent'
  BY DEF HeadPresent, MachineTypeOK, FrameTypeOK
<1>9. AckReady'
  BY DEF AckReady, MachineTypeOK, FrameTypeOK
<1>10. NeverDeaf'
  BY DEF NeverDeaf, MachineTypeOK
<1>11. NoFrameDuringSifs'
  BY DEF NoFrameDuringSifs, MachineTypeOK, FrameTypeOK
<1>12. AttemptsCounted'
  BY DEF AttemptsCounted, HeadPresent, MachineTypeOK, CycleTypeOK, FrameTypeOK
<1>13. CycleBounded'
  BY DEF CycleBounded, HeadPresent, MachineTypeOK, CycleTypeOK, FrameTypeOK
<1> QED BY <1>1, <1>2, <1>3, <1>4, <1>5, <1>6, <1>7, <1>8, <1>9, <1>10, <1>11, <1>12, <1>13

LEMMA AckTimeoutRetryStep ==
  ASSUME IInv, NEW n \in Node, AckTimeoutRetry(n)
  PROVE  IInv'
<1> USE ParameterAssumption DEF IInv, TypeOK, AckTimeoutRetry, MayRetry, AckTimeout, seqVars, upVars
<1>a. /\ macQueue[n] # <<>>
        /\ Head(macQueue[n]) \in Packet
        /\ Tail(macQueue[n]) \in Seq(Packet)
  BY HeadTailProperties DEF HeadPresent, FrameTypeOK, MachineTypeOK
<1>b. /\ macQueue' \in [Node -> Seq(Packet)]
        /\ macState' \in [Node -> MacState] /\ timers' \in [Node -> SUBSET Timer]
        /\ NB' \in [Node -> Nat] /\ BE' \in [Node -> Nat]
        /\ interrupted' \in [Node -> BOOLEAN]
        /\ HeadPresent' /\ CycleBounded'
  <2>1. macQueue[n] \in Seq(Packet) /\ NB[n] \in Nat /\ BE[n] \in Nat
    BY <1>a DEF CycleTypeOK, FrameTypeOK
  <2>2. NB[n] <= macMaxCSMABackoffs + 1 /\ BE[n] <= macMaxBE
    BY DEF CycleBounded, CycleTypeOK
  <2>3. interrupted[n] => NB[n] <= macMaxCSMABackoffs /\ macQueue[n] # <<>>
    BY DEF HeadPresent, CycleBounded
  <2>4. manageQueue(n, macQueue[n], NB[n], BE[n], {"rxAckTimer"})
    OBVIOUS
  <2> QED BY <2>1, <2>2, <2>3, <2>4, ManageQueueStep
<1>1. MachineTypeOK'
  BY <1>b DEF MachineTypeOK, MacState, Timer, Command
<1>2. CycleTypeOK'
  <2>1. txAttempts' \in [Node -> Nat] /\ txCount' = txCount
    BY DEF CycleTypeOK
  <2> QED BY <1>b, <2>1 DEF CycleTypeOK
<1>3. SeqNrTypeOK'
  BY DEF SeqNrTypeOK
<1>4. FrameTypeOK'
  BY <1>a, <1>b DEF FrameTypeOK
<1>5. UpTypeOK'
  BY DEF UpTypeOK
<1>6. TimerOfState'
  BY DEF TimerOfState, manageQueue, MachineTypeOK
<1>7. OneTransmission'
  BY <1>a DEF OneTransmission, manageQueue, MachineTypeOK, FrameTypeOK
<1>8. HeadPresent'
  BY <1>b DEF HeadPresent, MachineTypeOK, FrameTypeOK
<1>9. AckReady'
  BY DEF AckReady, manageQueue, MachineTypeOK, FrameTypeOK
<1>10. NeverDeaf'
  BY DEF NeverDeaf, manageQueue, MachineTypeOK
<1>11. NoFrameDuringSifs'
  BY DEF NoFrameDuringSifs, manageQueue, MachineTypeOK, FrameTypeOK
<1>12. AttemptsCounted'
  <2>1. /\ macState'[n] = "BACKOFF_2" /\ macQueue'[n] = macQueue[n]
        /\ \A m \in Node \ {n} : macState'[m] = macState[m] /\ macQueue'[m] = macQueue[m]
    BY <1>a DEF manageQueue, MachineTypeOK, FrameTypeOK
  <2>2. /\ txAttempts'[n] = txAttempts[n] + 1 /\ txCount' = txCount
        /\ \A m \in Node \ {n} : txAttempts'[m] = txAttempts[m]
    BY DEF CycleTypeOK
  <2>3. /\ txAttempts[n] \in Nat /\ txAttempts[n] < macMaxFrameRetries + 1
        /\ macState[n] = "WAITACK_5"
    BY DEF CycleTypeOK
  <2>4. txAttempts'[n] <= macMaxFrameRetries + 1
    BY <2>2, <2>3
  <2> QED BY <2>1, <2>2, <2>3, <2>4 DEF AttemptsCounted
<1>13. CycleBounded'
  BY <1>b DEF CycleBounded, HeadPresent, MachineTypeOK, CycleTypeOK, FrameTypeOK
<1> QED BY <1>1, <1>2, <1>3, <1>4, <1>5, <1>6, <1>7, <1>8, <1>9, <1>10, <1>11, <1>12, <1>13

LEMMA AckTimeoutDropStep ==
  ASSUME IInv, NEW n \in Node, AckTimeoutDrop(n)
  PROVE  IInv'
<1> USE ParameterAssumption DEF IInv, TypeOK, AckTimeoutDrop, MayRetry, AckTimeout, seqVars
<1>a. /\ macQueue[n] # <<>>
        /\ Head(macQueue[n]) \in Packet
        /\ Tail(macQueue[n]) \in Seq(Packet)
  BY HeadTailProperties DEF HeadPresent, FrameTypeOK, MachineTypeOK
<1>b. /\ macQueue' \in [Node -> Seq(Packet)]
        /\ macState' \in [Node -> MacState] /\ timers' \in [Node -> SUBSET Timer]
        /\ NB' \in [Node -> Nat] /\ BE' \in [Node -> Nat]
        /\ interrupted' \in [Node -> BOOLEAN]
        /\ HeadPresent' /\ CycleBounded'
  <2>1. Tail(macQueue[n]) \in Seq(Packet) /\ NB[n] \in Nat /\ BE[n] \in Nat
    BY <1>a DEF CycleTypeOK, FrameTypeOK
  <2>2. NB[n] <= macMaxCSMABackoffs + 1 /\ BE[n] <= macMaxBE
    BY DEF CycleBounded, CycleTypeOK
  <2>3. interrupted[n] => NB[n] <= macMaxCSMABackoffs /\ Tail(macQueue[n]) # <<>>
    BY DEF HeadPresent, CycleBounded
  <2>4. manageQueue(n, Tail(macQueue[n]), NB[n], BE[n], {"rxAckTimer"})
    OBVIOUS
  <2> QED BY <2>1, <2>2, <2>3, <2>4, ManageQueueStep
<1>1. MachineTypeOK'
  BY <1>b DEF MachineTypeOK, MacState, Timer, Command
<1>2. CycleTypeOK'
  BY <1>b DEF CycleTypeOK
<1>3. SeqNrTypeOK'
  BY DEF SeqNrTypeOK
<1>4. FrameTypeOK'
  BY <1>a, <1>b DEF FrameTypeOK
<1>5. UpTypeOK'
  <2>1. Head(macQueue[n]) \in Packet /\ "MAC ERROR" \in Outcome
    BY <1>a DEF Outcome
  <2> QED BY <2>1, ReportType
<1>6. TimerOfState'
  BY DEF TimerOfState, manageQueue, MachineTypeOK
<1>7. OneTransmission'
  BY <1>a DEF OneTransmission, manageQueue, MachineTypeOK, FrameTypeOK
<1>8. HeadPresent'
  BY <1>b DEF HeadPresent, MachineTypeOK, FrameTypeOK
<1>9. AckReady'
  BY DEF AckReady, manageQueue, MachineTypeOK, FrameTypeOK
<1>10. NeverDeaf'
  BY DEF NeverDeaf, manageQueue, MachineTypeOK
<1>11. NoFrameDuringSifs'
  BY DEF NoFrameDuringSifs, manageQueue, MachineTypeOK, FrameTypeOK
<1>12. AttemptsCounted'
  <2>1. macState'[n] \in {"BACKOFF_2", "IDLE_1"}
    BY DEF manageQueue, MachineTypeOK
  <2>2. \A m \in Node \ {n} : macState'[m] = macState[m] /\ macQueue'[m] = macQueue[m]
    BY DEF manageQueue, MachineTypeOK, FrameTypeOK
  <2> QED BY <2>1, <2>2, HeadDone
<1>13. CycleBounded'
  BY <1>b DEF CycleBounded, HeadPresent, MachineTypeOK, CycleTypeOK, FrameTypeOK
<1> QED BY <1>1, <1>2, <1>3, <1>4, <1>5, <1>6, <1>7, <1>8, <1>9, <1>10, <1>11, <1>12, <1>13

LEMMA UnicastTransmittedStep ==
  ASSUME IInv, NEW n \in Node, NEW R \in SUBSET (Node \ {n}),
         UnicastTransmitted(n, R)
  PROVE  IInv'
<1> USE ParameterAssumption DEF IInv, TypeOK, UnicastTransmitted, TransmissionOver, Execute, cycleVars, seqVars, upVars
<1>a. /\ Head(lower[n]) \in Frame
        /\ Tail(lower[n]) = <<>>
  BY OneFrame DEF OneTransmission, FrameTypeOK, TransmissionOver
<1>1. MachineTypeOK'
  BY DEF MachineTypeOK, MacState, Timer, Command
<1>2. CycleTypeOK'
  BY DEF CycleTypeOK
<1>3. SeqNrTypeOK'
  BY DEF SeqNrTypeOK
<1>4. FrameTypeOK'
  BY <1>a DEF FrameTypeOK
<1>5. UpTypeOK'
  BY DEF UpTypeOK
<1>6. TimerOfState'
  BY DEF TimerOfState, MachineTypeOK
<1>7. OneTransmission'
  BY <1>a DEF OneTransmission, MachineTypeOK, FrameTypeOK
<1>8. HeadPresent'
  BY DEF HeadPresent, MachineTypeOK, FrameTypeOK
<1>9. AckReady'
  BY DEF AckReady, MachineTypeOK, FrameTypeOK
<1>10. NeverDeaf'
  BY DEF NeverDeaf, MachineTypeOK
<1>11. NoFrameDuringSifs'
  BY DEF NoFrameDuringSifs, MachineTypeOK, FrameTypeOK, NeverDeaf
<1>12. AttemptsCounted'
  BY DEF AttemptsCounted, HeadPresent, MachineTypeOK, CycleTypeOK, FrameTypeOK
<1>13. CycleBounded'
  BY DEF CycleBounded, HeadPresent, MachineTypeOK, CycleTypeOK, FrameTypeOK
<1> QED BY <1>1, <1>2, <1>3, <1>4, <1>5, <1>6, <1>7, <1>8, <1>9, <1>10, <1>11, <1>12, <1>13

LEMMA BroadcastTransmittedStep ==
  ASSUME IInv, NEW n \in Node, NEW R \in SUBSET (Node \ {n}),
         BroadcastTransmitted(n, R)
  PROVE  IInv'
<1> USE ParameterAssumption DEF IInv, TypeOK, BroadcastTransmitted, TransmissionOver, Execute, seqVars, upVars
<1>a. /\ Head(lower[n]) \in Frame
        /\ Tail(lower[n]) = <<>>
  BY OneFrame DEF OneTransmission, FrameTypeOK, TransmissionOver
<1>b. /\ macQueue[n] # <<>>
        /\ Head(macQueue[n]) \in Packet
        /\ Tail(macQueue[n]) \in Seq(Packet)
  BY HeadTailProperties DEF HeadPresent, FrameTypeOK, MachineTypeOK
<1>c. /\ macQueue' \in [Node -> Seq(Packet)]
        /\ macState' \in [Node -> MacState] /\ timers' \in [Node -> SUBSET Timer]
        /\ NB' \in [Node -> Nat] /\ BE' \in [Node -> Nat]
        /\ interrupted' \in [Node -> BOOLEAN]
        /\ HeadPresent' /\ CycleBounded'
  <2>1. Tail(macQueue[n]) \in Seq(Packet) /\ NB[n] \in Nat /\ BE[n] \in Nat
    BY <1>b DEF CycleTypeOK, FrameTypeOK
  <2>2. NB[n] <= macMaxCSMABackoffs + 1 /\ BE[n] <= macMaxBE
    BY DEF CycleBounded, CycleTypeOK
  <2>3. interrupted[n] => NB[n] <= macMaxCSMABackoffs /\ Tail(macQueue[n]) # <<>>
    BY DEF HeadPresent, CycleBounded
  <2>4. manageQueue(n, Tail(macQueue[n]), NB[n], BE[n], {})
    OBVIOUS
  <2> QED BY <2>1, <2>2, <2>3, <2>4, ManageQueueStep
<1>1. MachineTypeOK'
  BY <1>c DEF MachineTypeOK, MacState, Timer, Command
<1>2. CycleTypeOK'
  BY <1>c DEF CycleTypeOK
<1>3. SeqNrTypeOK'
  BY DEF SeqNrTypeOK
<1>4. FrameTypeOK'
  <2>1. lower' \in [Node -> Seq(Frame)] /\ inbound' \in [Node -> Frame \cup {NoFrame}]
    BY <1>a DEF FrameTypeOK
  <2>2. macQueue' \in [Node -> Seq(Packet)] /\ ackMessage' = ackMessage
    BY <1>c
  <2> QED BY <2>1, <2>2 DEF FrameTypeOK
<1>5. UpTypeOK'
  BY DEF UpTypeOK
<1>6. TimerOfState'
  BY DEF TimerOfState, manageQueue, MachineTypeOK
<1>7. OneTransmission'
  BY <1>a DEF OneTransmission, manageQueue, MachineTypeOK, FrameTypeOK
<1>8. HeadPresent'
  BY <1>c DEF HeadPresent, MachineTypeOK, FrameTypeOK
<1>9. AckReady'
  BY DEF AckReady, manageQueue, MachineTypeOK, FrameTypeOK
<1>10. NeverDeaf'
  BY DEF NeverDeaf, manageQueue, MachineTypeOK
<1>11. NoFrameDuringSifs'
  BY DEF NoFrameDuringSifs, manageQueue, MachineTypeOK, FrameTypeOK, NeverDeaf
<1>12. AttemptsCounted'
  <2>1. macState'[n] \in {"BACKOFF_2", "IDLE_1"}
    BY DEF manageQueue, MachineTypeOK
  <2>2. \A m \in Node \ {n} : macState'[m] = macState[m] /\ macQueue'[m] = macQueue[m]
    BY DEF manageQueue, MachineTypeOK, FrameTypeOK
  <2>3. txAttempts[n] = 0
    BY DEF AttemptsCounted, CycleTypeOK
  <2>4. txAttempts' = [txAttempts EXCEPT ![n] = 0]
    BY <2>3 DEF CycleTypeOK
  <2> QED BY <2>1, <2>2, <2>4, HeadDone
<1>13. CycleBounded'
  BY <1>c DEF CycleBounded, HeadPresent, MachineTypeOK, CycleTypeOK, FrameTypeOK
<1> QED BY <1>1, <1>2, <1>3, <1>4, <1>5, <1>6, <1>7, <1>8, <1>9, <1>10, <1>11, <1>12, <1>13

LEMMA AckTransmittedStep ==
  ASSUME IInv, NEW n \in Node, NEW R \in SUBSET (Node \ {n}),
         AckTransmitted(n, R)
  PROVE  IInv'
<1> USE ParameterAssumption DEF IInv, TypeOK, AckTransmitted, TransmissionOver, Execute, seqVars, upVars
<1>a. /\ Head(lower[n]) \in Frame
        /\ Tail(lower[n]) = <<>>
  BY OneFrame DEF OneTransmission, FrameTypeOK, TransmissionOver
<1>b. /\ macQueue' \in [Node -> Seq(Packet)]
        /\ macState' \in [Node -> MacState] /\ timers' \in [Node -> SUBSET Timer]
        /\ NB' \in [Node -> Nat] /\ BE' \in [Node -> Nat]
        /\ interrupted' \in [Node -> BOOLEAN]
        /\ HeadPresent' /\ CycleBounded'
  <2>1. macQueue[n] \in Seq(Packet) /\ NB[n] \in Nat /\ BE[n] \in Nat
    BY DEF CycleTypeOK, FrameTypeOK
  <2>2. NB[n] <= macMaxCSMABackoffs + 1 /\ BE[n] <= macMaxBE
    BY DEF CycleBounded, CycleTypeOK
  <2>3. interrupted[n] => NB[n] <= macMaxCSMABackoffs /\ macQueue[n] # <<>>
    BY DEF HeadPresent, CycleBounded
  <2>4. manageQueue(n, macQueue[n], NB[n], BE[n], {})
    OBVIOUS
  <2> QED BY <2>1, <2>2, <2>3, <2>4, ManageQueueStep
<1>1. MachineTypeOK'
  BY <1>b DEF MachineTypeOK, MacState, Timer, Command
<1>2. CycleTypeOK'
  BY <1>b DEF CycleTypeOK
<1>3. SeqNrTypeOK'
  BY DEF SeqNrTypeOK
<1>4. FrameTypeOK'
  <2>1. lower' \in [Node -> Seq(Frame)] /\ inbound' \in [Node -> Frame \cup {NoFrame}]
    BY <1>a DEF FrameTypeOK
  <2>2. macQueue' \in [Node -> Seq(Packet)] /\ ackMessage' = ackMessage
    BY <1>b
  <2> QED BY <2>1, <2>2 DEF FrameTypeOK
<1>5. UpTypeOK'
  BY DEF UpTypeOK
<1>6. TimerOfState'
  BY DEF TimerOfState, manageQueue, MachineTypeOK
<1>7. OneTransmission'
  BY <1>a DEF OneTransmission, manageQueue, MachineTypeOK, FrameTypeOK
<1>8. HeadPresent'
  BY <1>b DEF HeadPresent, MachineTypeOK, FrameTypeOK
<1>9. AckReady'
  BY DEF AckReady, manageQueue, MachineTypeOK, FrameTypeOK
<1>10. NeverDeaf'
  BY DEF NeverDeaf, manageQueue, MachineTypeOK
<1>11. NoFrameDuringSifs'
  BY DEF NoFrameDuringSifs, manageQueue, MachineTypeOK, FrameTypeOK, NeverDeaf
<1>12. AttemptsCounted'
  BY DEF AttemptsCounted, manageQueue, HeadPresent, MachineTypeOK, CycleTypeOK, FrameTypeOK
<1>13. CycleBounded'
  BY <1>b DEF CycleBounded, HeadPresent, MachineTypeOK, CycleTypeOK, FrameTypeOK
<1> QED BY <1>1, <1>2, <1>3, <1>4, <1>5, <1>6, <1>7, <1>8, <1>9, <1>10, <1>11, <1>12, <1>13

LEMMA ReceiveDataStep ==
  ASSUME IInv, NEW n \in Node, ReceiveData(n)
  PROVE  IInv'
<1> USE ParameterAssumption DEF IInv, TypeOK, ReceiveData, AckFor, Suspend, Take
<1>a. inbound[n] \in Packet /\ inbound[n].src \in Node /\ inbound[n].seq \in Nat
  BY DEF FrameTypeOK, Frame, Ack, Packet, Take
<1>b. [kind |-> "ack", src |-> n, dest |-> inbound[n].src, seq |-> 0] \in Ack
  BY <1>a DEF Ack
<1>c. ASSUME Answers(n)
      PROVE  /\ macState[n] \in {"IDLE_1", "BACKOFF_2", "CCA_3"}
             /\ macState' = [macState EXCEPT ![n] = "WAITSIFS_6"]
             /\ radioCmd' = [radioCmd EXCEPT ![n] = "ENTER_TX"]
             /\ interrupted' = [interrupted EXCEPT ![n] =
                                   IF macState[n] = "IDLE_1" THEN @ ELSE TRUE]
             /\ timers'[n] = {"sifsTimer"}
             /\ \A m \in Node \ {n} : timers'[m] = timers[m]
             /\ timers' \in [Node -> SUBSET Timer]
  <2>1. macState[n] \in {"IDLE_1", "BACKOFF_2", "CCA_3"}
    BY <1>c DEF Answers, Cancelled
  <2>2. /\ macState' = [macState EXCEPT ![n] = "WAITSIFS_6"]
        /\ radioCmd' = [radioCmd EXCEPT ![n] = "ENTER_TX"]
    BY <1>c DEF Execute
  <2>3. interrupted' = [interrupted EXCEPT ![n] = IF macState[n] = "IDLE_1" THEN @ ELSE TRUE]
    BY <1>c
  <2>4. timers' = [timers EXCEPT ![n] = (@ \ Cancelled[macState[n]]) \cup {"sifsTimer"}]
    BY <1>c
  <2>5. Cancelled[macState[n]] = IF macState[n] = "BACKOFF_2" THEN {"backoffTimer"}
                                 ELSE IF macState[n] = "CCA_3" THEN {"ccaTimer"} ELSE {}
    BY <2>1, CancelledTimer
  <2>6. timers'[n] = {"sifsTimer"}
    BY <2>1, <2>4, <2>5 DEF MachineTypeOK, TimerOfState, Timer
  <2>7. timers' \in [Node -> SUBSET Timer] /\ \A m \in Node \ {n} : timers'[m] = timers[m]
    BY <2>4 DEF MachineTypeOK, Timer
  <2> QED BY <2>1, <2>2, <2>3, <2>6, <2>7
<1>1. MachineTypeOK'
  <2>1. CASE ~Answers(n)
    BY <2>1 DEF MachineTypeOK
  <2>2. CASE Answers(n)
    <3>1. macState' \in [Node -> MacState]
      BY <1>c, <2>2 DEF MachineTypeOK, MacState
    <3>2. radioCmd' \in [Node -> Command]
      BY <1>c, <2>2 DEF MachineTypeOK, Command
    <3> QED BY <1>c, <2>2, <3>1, <3>2 DEF MachineTypeOK
  <2> QED BY <2>1, <2>2
<1>2. CycleTypeOK'
  BY DEF CycleTypeOK, Answers, Cancelled
<1>3. SeqNrTypeOK'
  <2>1. SeqNrChild' = [SeqNrChild EXCEPT ![n][inbound[n].src] =
                          IF inbound[n].seq < SeqNrChild[n][inbound[n].src] THEN @
                          ELSE inbound[n].seq + 1]
    OBVIOUS
  <2>2. SeqNrChild' \in [Node -> [Node -> Nat]] /\ SeqNrParent' = SeqNrParent
    BY <1>a, <2>1 DEF SeqNrTypeOK
  <2> QED BY <2>2 DEF SeqNrTypeOK
<1>4. FrameTypeOK'
  BY <1>b DEF FrameTypeOK
<1>5. UpTypeOK'
  <2>1. \/ sentUp' = [sentUp EXCEPT ![n] = Append(@, inbound[n])]
        \/ sentUp' = sentUp
    BY DEF UpTypeOK
  <2> QED BY <1>a, <2>1, PassUpType
<1>6. TimerOfState'
  <2>1. CASE ~Answers(n)
    BY <2>1 DEF TimerOfState
  <2>2. CASE Answers(n)
    <3>1. \A m \in Node \ {n} : macState'[m] = macState[m] /\ timers'[m] = timers[m]
      BY <1>c, <2>2 DEF MachineTypeOK
    <3>2. macState'[n] = "WAITSIFS_6" /\ timers'[n] = {"sifsTimer"}
      BY <1>c, <2>2 DEF MachineTypeOK
    <3> QED BY <3>1, <3>2 DEF TimerOfState
  <2> QED BY <2>1, <2>2
<1>7. OneTransmission'
  BY DEF OneTransmission, MachineTypeOK, FrameTypeOK, Answers, Cancelled
<1>8. HeadPresent'
  <2>1. CASE ~Answers(n)
    BY <2>1 DEF HeadPresent
  <2>2. CASE Answers(n)
    <3>1. macQueue' = macQueue
      OBVIOUS
    <3>2. \A m \in Node \ {n} : macState'[m] = macState[m] /\ interrupted'[m] = interrupted[m]
      BY <1>c, <2>2 DEF MachineTypeOK, CycleTypeOK
    <3>3. macState'[n] = "WAITSIFS_6" /\ (interrupted'[n] => macQueue[n] # <<>>)
      BY <1>c, <2>2 DEF MachineTypeOK, CycleTypeOK, HeadPresent
    <3> QED BY <3>1, <3>2, <3>3 DEF HeadPresent
  <2> QED BY <2>1, <2>2
<1>9. AckReady'
  BY <1>b, AddressAssumption DEF AckReady, MachineTypeOK, FrameTypeOK, Frame, Answers, Cancelled
<1>10. NeverDeaf'
  BY DEF NeverDeaf, MachineTypeOK, Answers, Cancelled, Execute
<1>11. NoFrameDuringSifs'
  BY DEF NoFrameDuringSifs, MachineTypeOK, FrameTypeOK, Answers, Cancelled
<1>12. AttemptsCounted'
  BY DEF AttemptsCounted, HeadPresent, MachineTypeOK, CycleTypeOK, FrameTypeOK, Answers, Cancelled
<1>13. CycleBounded'
  BY DEF CycleBounded, HeadPresent, MachineTypeOK, CycleTypeOK, FrameTypeOK, Answers, Cancelled
<1> QED BY <1>1, <1>2, <1>3, <1>4, <1>5, <1>6, <1>7, <1>8, <1>9, <1>10, <1>11, <1>12, <1>13

LEMMA ReceiveBroadcastStep ==
  ASSUME IInv, NEW n \in Node, ReceiveBroadcast(n)
  PROVE  IInv'
<1> USE ParameterAssumption DEF IInv, TypeOK, ReceiveBroadcast, Take, cycleVars, seqVars
<1>a. inbound[n] \in Packet
  BY AddressAssumption DEF FrameTypeOK, Frame, Ack, Packet, Take
<1>1. MachineTypeOK'
  BY DEF MachineTypeOK, MacState, Timer, Command
<1>2. CycleTypeOK'
  BY DEF CycleTypeOK
<1>3. SeqNrTypeOK'
  BY DEF SeqNrTypeOK
<1>4. FrameTypeOK'
  BY DEF FrameTypeOK
<1>5. UpTypeOK'
  <2>1. \/ sentUp' = [sentUp EXCEPT ![n] = Append(@, inbound[n])]
        \/ sentUp' = sentUp
    BY DEF UpTypeOK
  <2> QED BY <1>a, <2>1, PassUpType
<1>6. TimerOfState'
  BY DEF TimerOfState, MachineTypeOK
<1>7. OneTransmission'
  BY DEF OneTransmission, MachineTypeOK, FrameTypeOK
<1>8. HeadPresent'
  BY DEF HeadPresent, MachineTypeOK, FrameTypeOK
<1>9. AckReady'
  BY DEF AckReady, MachineTypeOK, FrameTypeOK
<1>10. NeverDeaf'
  BY DEF NeverDeaf, MachineTypeOK
<1>11. NoFrameDuringSifs'
  BY DEF NoFrameDuringSifs, MachineTypeOK, FrameTypeOK
<1>12. AttemptsCounted'
  BY DEF AttemptsCounted, HeadPresent, MachineTypeOK, CycleTypeOK, FrameTypeOK
<1>13. CycleBounded'
  BY DEF CycleBounded, HeadPresent, MachineTypeOK, CycleTypeOK, FrameTypeOK
<1> QED BY <1>1, <1>2, <1>3, <1>4, <1>5, <1>6, <1>7, <1>8, <1>9, <1>10, <1>11, <1>12, <1>13

LEMMA ReceiveAckStep ==
  ASSUME IInv, NEW n \in Node, ReceiveAck(n)
  PROVE  IInv'
<1> USE ParameterAssumption DEF IInv, TypeOK, ReceiveAck, Take, AckExpected, seqVars
<1>a. /\ macQueue[n] # <<>>
        /\ Head(macQueue[n]) \in Packet
        /\ Tail(macQueue[n]) \in Seq(Packet)
  BY HeadTailProperties DEF HeadPresent, FrameTypeOK, MachineTypeOK
<1>b. /\ macQueue' \in [Node -> Seq(Packet)]
        /\ macState' \in [Node -> MacState] /\ timers' \in [Node -> SUBSET Timer]
        /\ NB' \in [Node -> Nat] /\ BE' \in [Node -> Nat]
        /\ interrupted' \in [Node -> BOOLEAN]
        /\ HeadPresent' /\ CycleBounded'
  <2>1. Tail(macQueue[n]) \in Seq(Packet) /\ NB[n] \in Nat /\ BE[n] \in Nat
    BY <1>a DEF CycleTypeOK, FrameTypeOK
  <2>2. NB[n] <= macMaxCSMABackoffs + 1 /\ BE[n] <= macMaxBE
    BY DEF CycleBounded, CycleTypeOK
  <2>3. interrupted[n] => NB[n] <= macMaxCSMABackoffs /\ Tail(macQueue[n]) # <<>>
    BY DEF HeadPresent, CycleBounded
  <2>4. manageQueue(n, Tail(macQueue[n]), NB[n], BE[n], {"rxAckTimer"})
    OBVIOUS
  <2> QED BY <2>1, <2>2, <2>3, <2>4, ManageQueueStep
<1>1. MachineTypeOK'
  BY <1>b DEF MachineTypeOK, MacState, Timer, Command
<1>2. CycleTypeOK'
  BY <1>b DEF CycleTypeOK
<1>3. SeqNrTypeOK'
  BY DEF SeqNrTypeOK
<1>4. FrameTypeOK'
  BY <1>a, <1>b DEF FrameTypeOK
<1>5. UpTypeOK'
  <2>1. Head(macQueue[n]) \in Packet /\ "MAC SUCCESS" \in Outcome
    BY <1>a DEF Outcome
  <2> QED BY <2>1, ReportType
<1>6. TimerOfState'
  BY DEF TimerOfState, manageQueue, MachineTypeOK
<1>7. OneTransmission'
  BY <1>a DEF OneTransmission, manageQueue, MachineTypeOK, FrameTypeOK
<1>8. HeadPresent'
  BY <1>b DEF HeadPresent, MachineTypeOK, FrameTypeOK
<1>9. AckReady'
  BY DEF AckReady, manageQueue, MachineTypeOK, FrameTypeOK
<1>10. NeverDeaf'
  BY DEF NeverDeaf, manageQueue, MachineTypeOK
<1>11. NoFrameDuringSifs'
  BY DEF NoFrameDuringSifs, manageQueue, MachineTypeOK, FrameTypeOK
<1>12. AttemptsCounted'
  <2>1. macState'[n] \in {"BACKOFF_2", "IDLE_1"}
    BY DEF manageQueue, MachineTypeOK
  <2>2. \A m \in Node \ {n} : macState'[m] = macState[m] /\ macQueue'[m] = macQueue[m]
    BY DEF manageQueue, MachineTypeOK, FrameTypeOK
  <2> QED BY <2>1, <2>2, HeadDone
<1>13. CycleBounded'
  BY <1>b DEF CycleBounded, HeadPresent, MachineTypeOK, CycleTypeOK, FrameTypeOK
<1> QED BY <1>1, <1>2, <1>3, <1>4, <1>5, <1>6, <1>7, <1>8, <1>9, <1>10, <1>11, <1>12, <1>13

LEMMA ReceiveOtherStep ==
  ASSUME IInv, NEW n \in Node, ReceiveOther(n)
  PROVE  IInv'
<1> USE ParameterAssumption DEF IInv, TypeOK, ReceiveOther, Take, cycleVars, seqVars, upVars
<1>1. MachineTypeOK'
  BY DEF MachineTypeOK, MacState, Timer, Command
<1>2. CycleTypeOK'
  BY DEF CycleTypeOK
<1>3. SeqNrTypeOK'
  BY DEF SeqNrTypeOK
<1>4. FrameTypeOK'
  BY DEF FrameTypeOK
<1>5. UpTypeOK'
  BY DEF UpTypeOK
<1>6. TimerOfState'
  BY DEF TimerOfState, MachineTypeOK
<1>7. OneTransmission'
  BY DEF OneTransmission, MachineTypeOK, FrameTypeOK
<1>8. HeadPresent'
  BY DEF HeadPresent, MachineTypeOK, FrameTypeOK
<1>9. AckReady'
  BY DEF AckReady, MachineTypeOK, FrameTypeOK
<1>10. NeverDeaf'
  BY DEF NeverDeaf, MachineTypeOK
<1>11. NoFrameDuringSifs'
  BY DEF NoFrameDuringSifs, MachineTypeOK, FrameTypeOK
<1>12. AttemptsCounted'
  BY DEF AttemptsCounted, HeadPresent, MachineTypeOK, CycleTypeOK, FrameTypeOK
<1>13. CycleBounded'
  BY DEF CycleBounded, HeadPresent, MachineTypeOK, CycleTypeOK, FrameTypeOK
<1> QED BY <1>1, <1>2, <1>3, <1>4, <1>5, <1>6, <1>7, <1>8, <1>9, <1>10, <1>11, <1>12, <1>13

LEMMA NextStep == IInv /\ [Next]_vars => IInv'
<1> SUFFICES ASSUME IInv, [Next]_vars PROVE IInv'
  OBVIOUS
<1>1. ASSUME NEW n \in Node, SendRequest(n) PROVE IInv'
  BY <1>1, SendRequestIdleStep, SendRequestNotIdleStep, SendRequestQueueFullStep
  DEF SendRequest
<1>2. ASSUME NEW n \in Node, handleSelfMsg(n) PROVE IInv'
  <2>1. CASE TimerBackoff(n) \/ TimerSifs(n)
    BY <2>1, TimerBackoffStep, TimerSifsStep
  <2>2. CASE TimerCca(n)
    BY <2>2, TimerCcaIdleStep, TimerCcaBusyStep, TimerCcaDropStep DEF TimerCca
  <2>3. CASE TimerRxAck(n)
    BY <2>3, AckTimeoutRetryStep, AckTimeoutDropStep DEF TimerRxAck
  <2> QED BY <1>2, <2>1, <2>2, <2>3 DEF handleSelfMsg
<1>3. ASSUME NEW n \in Node, FrameTransmitted(n) PROVE IInv'
  BY <1>3, UnicastTransmittedStep, BroadcastTransmittedStep, AckTransmittedStep
  DEF FrameTransmitted
<1>4. ASSUME NEW n \in Node, handleLowerMsg(n) PROVE IInv'
  BY <1>4, ReceiveDataStep, ReceiveBroadcastStep, ReceiveAckStep, ReceiveOtherStep
  DEF handleLowerMsg
<1>5. CASE UNCHANGED vars
  BY <1>5 DEF vars, cycleVars, seqVars, upVars, IInv, TypeOK, MachineTypeOK,
     CycleTypeOK, SeqNrTypeOK, FrameTypeOK, UpTypeOK, TimerOfState,
     OneTransmission, HeadPresent, AckReady, NeverDeaf, NoFrameDuringSifs,
     AttemptsCounted, CycleBounded
<1> QED BY <1>1, <1>2, <1>3, <1>4, <1>5 DEF Next

-----------------------------------------------------------------------------
(* What a step does to the queue, the verdicts and the numbers              *)

\* The places of a sequence to which e was appended
LEMMA AppendedAt ==
  ASSUME NEW S, NEW f \in [Node -> Seq(S)], NEW n \in Node, NEW e \in S,
         NEW g, g = [f EXCEPT ![n] = Append(@, e)]
  PROVE  /\ Len(f[n]) \in Nat /\ DOMAIN f[n] = 1 .. Len(f[n])
         /\ DOMAIN g[n] = 1 .. Len(f[n]) + 1
         /\ \A i \in 1 .. Len(f[n]) : g[n][i] = f[n][i]
         /\ g[n][Len(f[n]) + 1] = e
         /\ \A m \in Node \ {n} : g[m] = f[m]
<1>1. f[n] \in Seq(S) /\ g[n] = Append(f[n], e)
  OBVIOUS
<1> QED BY <1>1, AppendProperties

\* The places of a sequence that lost its head
LEMMA TailAt ==
  ASSUME NEW S, NEW f \in [Node -> Seq(S)], NEW n \in Node, f[n] # <<>>,
         NEW g, g = [f EXCEPT ![n] = Tail(@)]
  PROVE  /\ Len(f[n]) \in Nat \ {0} /\ DOMAIN f[n] = 1 .. Len(f[n])
         /\ Head(f[n]) = f[n][1] /\ f[n][1] \in S
         /\ DOMAIN g[n] = 1 .. Len(f[n]) - 1
         /\ \A i \in 1 .. Len(f[n]) - 1 : g[n][i] = f[n][i + 1]
         /\ \A m \in Node \ {n} : g[m] = f[m]
<1>1. f[n] \in Seq(S) /\ g[n] = Tail(f[n]) /\ Len(f[n]) \in Nat
  OBVIOUS
<1>2. Len(f[n]) # 0
  BY <1>1, EmptySeq
<1> QED BY <1>1, <1>2, HeadTailProperties

Refused(n, p) == Report(n, p, "MAC ERROR")
Answered(n, p) == \E o \in Outcome : Report(n, p, o)

\* A packet is numbered, and queued or refused
Numbered(n, d) ==
    /\ d \in Flow[n]
    /\ SeqNrParent' = [SeqNrParent EXCEPT ![n][d] = @ + 1]
    /\ \/ /\ macQueue' = [macQueue EXCEPT ![n] = Append(@, NewPacket(n, d))]
          /\ UNCHANGED reports
       \/ Refused(n, NewPacket(n, d)) /\ UNCHANGED macQueue

\* The head leaves the queue, with a verdict unless it is a broadcast
HeadLeaves(n) ==
    /\ macQueue[n] # <<>>
    /\ macQueue' = [macQueue EXCEPT ![n] = Tail(@)]
    /\ UNCHANGED SeqNrParent
    /\ \/ Answered(n, Head(macQueue[n]))
       \/ Head(macQueue[n]).dest = Broadcast /\ UNCHANGED reports

LEMMA QueueSteps ==
  ASSUME IInv, [Next]_vars
  PROVE  \/ UNCHANGED <<macQueue, reports, SeqNrParent>>
         \/ \E n \in Node : \E d \in Flow[n] : Numbered(n, d)
         \/ \E n \in Node : HeadLeaves(n)
<1> DEFINE Goal == \/ UNCHANGED <<macQueue, reports, SeqNrParent>>
                   \/ \E n \in Node : \E d \in Flow[n] : Numbered(n, d)
                   \/ \E n \in Node : HeadLeaves(n)
<1> SUFFICES Goal
  OBVIOUS
<1>0. ASSUME NEW n \in Node
      PROVE  [macQueue EXCEPT ![n] = macQueue[n]] = macQueue
  BY DEF IInv, TypeOK, FrameTypeOK
<1>a. "MAC ERROR" \in Outcome /\ "MAC SUCCESS" \in Outcome
  BY DEF Outcome
<1>1. ASSUME NEW n \in Node, SendRequest(n) PROVE Goal
  BY <1>1 DEF SendRequest, SendRequestIdle, SendRequestNotIdle, SendRequestQueueFull,
     EncapsMsg, Enqueue, Numbered, Refused, upVars
<1>2. ASSUME NEW n \in Node, handleSelfMsg(n) PROVE Goal
  <2>1. CASE TimerBackoff(n) \/ TimerSifs(n) \/ TimerCcaIdle(n) \/ TimerCcaBusy(n)
    BY <2>1 DEF TimerBackoff, TimerSifs, TimerCcaIdle, TimerCcaBusy, seqVars, upVars
  <2>2. CASE TimerCcaDrop(n)
    <3>1. macQueue[n] # <<>>
      BY <2>2 DEF TimerCcaDrop, CcaTimerFires, IInv, HeadPresent
    <3>2. HeadLeaves(n)
      BY <1>a, <2>2, <3>1 DEF TimerCcaDrop, manageQueue, HeadLeaves, Answered, seqVars
    <3> QED BY <3>2
  <2>3. CASE AckTimeoutRetry(n)
    BY <1>0, <2>3 DEF AckTimeoutRetry, manageQueue, seqVars, upVars
  <2>4. CASE AckTimeoutDrop(n)
    <3>1. macQueue[n] # <<>>
      BY <2>4 DEF AckTimeoutDrop, AckTimeout, IInv, HeadPresent
    <3>2. HeadLeaves(n)
      BY <1>a, <2>4, <3>1 DEF AckTimeoutDrop, manageQueue, HeadLeaves, Answered, seqVars
    <3> QED BY <3>2
  <2> QED BY <1>2, <2>1, <2>2, <2>3, <2>4 DEF handleSelfMsg, TimerCca, TimerRxAck
<1>3. ASSUME NEW n \in Node, FrameTransmitted(n) PROVE Goal
  <2>1. PICK R \in SUBSET (Node \ {n}) :
           UnicastTransmitted(n, R) \/ BroadcastTransmitted(n, R) \/ AckTransmitted(n, R)
    BY <1>3 DEF FrameTransmitted
  <2>2. CASE UnicastTransmitted(n, R)
    BY <2>2 DEF UnicastTransmitted, seqVars, upVars
  <2>3. CASE BroadcastTransmitted(n, R)
    <3>1. macQueue[n] # <<>>
      BY <2>3 DEF BroadcastTransmitted, IInv, HeadPresent
    <3>2. HeadLeaves(n)
      BY <2>3, <3>1 DEF BroadcastTransmitted, manageQueue, HeadLeaves, Answered, seqVars, upVars
    <3> QED BY <3>2
  <2>4. CASE AckTransmitted(n, R)
    BY <1>0, <2>4 DEF AckTransmitted, manageQueue, seqVars, upVars
  <2> QED BY <2>1, <2>2, <2>3, <2>4
<1>4. ASSUME NEW n \in Node, handleLowerMsg(n) PROVE Goal
  <2>1. CASE ReceiveData(n) \/ ReceiveBroadcast(n) \/ ReceiveOther(n)
    BY <2>1 DEF ReceiveData, ReceiveBroadcast, ReceiveOther, seqVars, upVars
  <2>2. CASE ReceiveAck(n)
    <3>1. macQueue[n] # <<>>
      BY <2>2 DEF ReceiveAck, AckExpected
    <3>2. HeadLeaves(n)
      BY <1>a, <2>2, <3>1 DEF ReceiveAck, manageQueue, HeadLeaves, Answered, seqVars
    <3> QED BY <3>2
  <2> QED BY <1>4, <2>1, <2>2 DEF handleLowerMsg
<1>5. CASE UNCHANGED vars
  BY <1>5 DEF vars, seqVars, upVars
<1> QED BY <1>1, <1>2, <1>3, <1>4, <1>5 DEF Next

-----------------------------------------------------------------------------
(* Every packet has one verdict                                             *)

\* p and q are the same packet of their source
Same(p, q) == p.dest = q.dest /\ p.seq = q.seq

\* Every packet with the MAC, or answered, has a number the MAC has given out
NumbersUsed == \A n \in Node :
    /\ \A i \in DOMAIN macQueue[n] :
          /\ macQueue[n][i].src = n
          /\ macQueue[n][i].seq < SeqNrParent[n][macQueue[n][i].dest]
    /\ \A i \in DOMAIN reports[n] :
          reports[n][i].pkt.seq < SeqNrParent[n][reports[n][i].pkt.dest]

\* The queue keeps the order of the numbers
QueueInOrder == \A n \in Node : \A i, j \in DOMAIN macQueue[n] :
    i < j /\ macQueue[n][i].dest = macQueue[n][j].dest
       => macQueue[n][i].seq < macQueue[n][j].seq

\* No packet is answered twice, nor while it is in the queue
AnsweredOnce == \A n \in Node :
    /\ \A i, j \in DOMAIN reports[n] : Same(reports[n][i].pkt, reports[n][j].pkt) => i = j
    /\ \A i \in DOMAIN macQueue[n], j \in DOMAIN reports[n] :
          ~Same(macQueue[n][i], reports[n][j].pkt)

\* No unicast packet is lost from both
NoneForgotten == \A n \in Node : \A d \in Address \ {Broadcast} :
    \A k \in 0 .. SeqNrParent[n][d] - 1 : Waiting(n, d, k) # {} \/ Verdicts(n, d, k) # {}

Accounted == NumbersUsed /\ QueueInOrder /\ AnsweredOnce /\ NoneForgotten

LEMMA Entries ==
  ASSUME IInv, NEW n \in Node
  PROVE  /\ Len(macQueue[n]) \in Nat /\ DOMAIN macQueue[n] = 1 .. Len(macQueue[n])
         /\ Len(reports[n]) \in Nat /\ DOMAIN reports[n] = 1 .. Len(reports[n])
         /\ \A i \in DOMAIN macQueue[n] : macQueue[n][i] \in Packet
         /\ \A i \in DOMAIN reports[n] : reports[n][i].pkt \in Packet
<1>1. macQueue[n] \in Seq(Packet) /\ reports[n] \in Seq([pkt : Packet, outcome : Outcome])
  BY DEF IInv, TypeOK, FrameTypeOK, UpTypeOK
<1>2. /\ Len(macQueue[n]) \in Nat /\ DOMAIN macQueue[n] = 1 .. Len(macQueue[n])
      /\ Len(reports[n]) \in Nat /\ DOMAIN reports[n] = 1 .. Len(reports[n])
  BY <1>1
<1>3. \A i \in 1 .. Len(reports[n]) : reports[n][i] \in [pkt : Packet, outcome : Outcome]
  BY <1>1, ElementOfSeq
<1>4. \A i \in 1 .. Len(macQueue[n]) : macQueue[n][i] \in Packet
  BY <1>1, ElementOfSeq
<1> QED BY <1>2, <1>3, <1>4

LEMMA ReportedAt ==
  ASSUME IInv, NEW n \in Node, NEW p \in Packet, Answered(n, p)
  PROVE  /\ Len(reports[n]) \in Nat /\ DOMAIN reports[n] = 1 .. Len(reports[n])
         /\ DOMAIN reports'[n] = 1 .. Len(reports[n]) + 1
         /\ \A i \in 1 .. Len(reports[n]) : reports'[n][i] = reports[n][i]
         /\ reports'[n][Len(reports[n]) + 1].pkt = p
         /\ \A m \in Node \ {n} : reports'[m] = reports[m]
<1>0. PICK o \in Outcome : Report(n, p, o)
  BY DEF Answered
<1> DEFINE e == [pkt |-> p, outcome |-> o]
<1>1. reports \in [Node -> Seq([pkt : Packet, outcome : Outcome])]
  BY DEF IInv, TypeOK, UpTypeOK
<1>2. e \in [pkt : Packet, outcome : Outcome] /\ e.pkt = p
  OBVIOUS
<1>3. reports' = [reports EXCEPT ![n] = Append(@, e)]
  BY <1>0 DEF Report
<1> HIDE DEF e
<1> QED BY <1>1, <1>2, <1>3, AppendedAt

LEMMA InitAccounted == Init => Accounted
<1> SUFFICES ASSUME Init PROVE Accounted
  OBVIOUS
<1>1. ASSUME NEW n \in Node
      PROVE  macQueue[n] = <<>> /\ reports[n] = <<>> /\ \A d \in Address : SeqNrParent[n][d] = 0
  <2>1. macQueue[n] = <<>> /\ reports[n] = <<>>
    BY Zenon DEF Init
  <2>2. SeqNrParent[n] = [d \in Address |-> 0]
    BY Zenon DEF Init
  <2> QED BY <2>1, <2>2
<1>2. \A n \in Node : DOMAIN macQueue[n] = {} /\ DOMAIN reports[n] = {}
  BY <1>1
<1> QED BY <1>1, <1>2 DEF Accounted, NumbersUsed, QueueInOrder, AnsweredOnce, NoneForgotten

\* Numbers only grow
LEMMA NumberedGrows ==
  ASSUME IInv, NEW n \in Node, NEW d \in Flow[n], Numbered(n, d)
  PROVE  /\ d \in Address /\ NewPacket(n, d) \in Packet
         /\ NewPacket(n, d).src = n /\ NewPacket(n, d).dest = d
         /\ NewPacket(n, d).seq = SeqNrParent[n][d]
         /\ SeqNrParent'[n][d] = SeqNrParent[n][d] + 1
         /\ \A m \in Node, e \in Address : /\ SeqNrParent[m][e] \in Nat
                                           /\ SeqNrParent[m][e] <= SeqNrParent'[m][e]
                                           /\ m # n \/ e # d =>
                                                 SeqNrParent[m][e] = SeqNrParent'[m][e]
<1>1. d \in Address /\ NewPacket(n, d) \in Packet
  BY NewPacketType DEF IInv, TypeOK
<1>2. SeqNrParent \in [Node -> [Address -> Nat]]
  BY DEF IInv, TypeOK, SeqNrTypeOK
<1>3. /\ SeqNrParent'[n][d] = SeqNrParent[n][d] + 1
      /\ \A m \in Node, e \in Address : m # n \/ e # d => SeqNrParent[m][e] = SeqNrParent'[m][e]
  BY <1>1, <1>2 DEF Numbered
<1>4. \A m \in Node, e \in Address : SeqNrParent[m][e] \in Nat
  BY <1>2
<1>5. \A m \in Node, e \in Address : SeqNrParent[m][e] <= SeqNrParent'[m][e]
  BY <1>1, <1>3, <1>4
<1>6. NewPacket(n, d).src = n /\ NewPacket(n, d).dest = d /\ NewPacket(n, d).seq = SeqNrParent[n][d]
  BY DEF NewPacket
<1> QED BY <1>1, <1>3, <1>4, <1>5, <1>6

\* A packet just numbered is not the one at any place
LEMMA NewAtPlaces ==
  ASSUME IInv, Accounted, NEW n \in Node, NEW d \in Flow[n], Numbered(n, d),
         NEW m \in Node
  PROVE  /\ \A i \in DOMAIN macQueue[m] :
               /\ macQueue[m][i].seq \in Nat /\ macQueue[m][i].dest \in Address
               /\ macQueue[m][i].src = m
               /\ macQueue[m][i].seq < SeqNrParent'[m][macQueue[m][i].dest]
               /\ m = n /\ macQueue[m][i].dest = d => macQueue[m][i].seq < NewPacket(n, d).seq
         /\ \A i \in DOMAIN reports[m] :
               /\ reports[m][i].pkt.seq \in Nat /\ reports[m][i].pkt.dest \in Address
               /\ reports[m][i].pkt.seq < SeqNrParent'[m][reports[m][i].pkt.dest]
               /\ m = n /\ reports[m][i].pkt.dest = d => reports[m][i].pkt.seq < NewPacket(n, d).seq
<1>1. NumbersUsed
  BY DEF Accounted
<1>2. ASSUME NEW p \in Packet, p.seq < SeqNrParent[m][p.dest]
      PROVE  /\ p.seq \in Nat /\ p.dest \in Address
             /\ p.seq < SeqNrParent'[m][p.dest]
             /\ m = n /\ p.dest = d => p.seq < NewPacket(n, d).seq
  <2>1. p.seq \in Nat /\ p.dest \in Address
    BY DEF Packet
  <2>2. /\ SeqNrParent[m][p.dest] \in Nat
        /\ SeqNrParent[m][p.dest] <= SeqNrParent'[m][p.dest]
        /\ SeqNrParent'[m][p.dest] \in Nat
        /\ NewPacket(n, d).seq = SeqNrParent[n][d]
    BY <2>1, NumberedGrows
  <2> QED BY <1>2, <2>1, <2>2
<1>3. ASSUME NEW i \in DOMAIN macQueue[m]
      PROVE  macQueue[m][i] \in Packet /\ macQueue[m][i].src = m
             /\ macQueue[m][i].seq < SeqNrParent[m][macQueue[m][i].dest]
  BY <1>1, Entries DEF NumbersUsed
<1>4. ASSUME NEW i \in DOMAIN reports[m]
      PROVE  reports[m][i].pkt \in Packet
             /\ reports[m][i].pkt.seq < SeqNrParent[m][reports[m][i].pkt.dest]
  BY <1>1, Entries DEF NumbersUsed
<1> QED BY <1>2, <1>3, <1>4

LEMMA QueuedStep ==
  ASSUME IInv, Accounted, NEW n \in Node, NEW d \in Flow[n], Numbered(n, d),
         macQueue' = [macQueue EXCEPT ![n] = Append(@, NewPacket(n, d))], UNCHANGED reports
  PROVE  Accounted'
<1> DEFINE p == NewPacket(n, d)
           k == Len(macQueue[n])
<1>1. /\ d \in Address /\ p \in Packet /\ p.src = n /\ p.dest = d /\ p.seq = SeqNrParent[n][d]
      /\ SeqNrParent[n][d] \in Nat /\ SeqNrParent'[n][d] = SeqNrParent[n][d] + 1
      /\ \A m \in Node, e \in Address : m # n \/ e # d => SeqNrParent[m][e] = SeqNrParent'[m][e]
  BY NumberedGrows
<1>2. /\ k \in Nat /\ DOMAIN macQueue[n] = 1 .. k /\ DOMAIN macQueue'[n] = 1 .. k + 1
      /\ \A i \in 1 .. k : macQueue'[n][i] = macQueue[n][i]
      /\ macQueue'[n][k + 1] = p
      /\ \A m \in Node \ {n} : macQueue'[m] = macQueue[m]
  <2>1. macQueue \in [Node -> Seq(Packet)]
    BY DEF IInv, TypeOK, FrameTypeOK
  <2> HIDE DEF p
  <2> QED BY <1>1, <2>1, AppendedAt DEF p
<1>3. \A i \in 1 .. k + 1 : i \in 1 .. k \/ i = k + 1
  BY <1>2
<1> HIDE DEF p, k
<1>4. NumbersUsed'
  <2> SUFFICES ASSUME NEW m \in Node
               PROVE  /\ \A i \in DOMAIN macQueue'[m] :
                            /\ macQueue'[m][i].src = m
                            /\ macQueue'[m][i].seq < SeqNrParent'[m][macQueue'[m][i].dest]
                      /\ \A i \in DOMAIN reports[m] :
                            reports[m][i].pkt.seq < SeqNrParent'[m][reports[m][i].pkt.dest]
    BY DEF NumbersUsed
  <2>1. \A i \in DOMAIN macQueue[m] : /\ macQueue[m][i].src = m
                                      /\ macQueue[m][i].seq < SeqNrParent'[m][macQueue[m][i].dest]
    BY NewAtPlaces
  <2>2. p.src = n /\ p.seq < SeqNrParent'[n][p.dest]
    BY <1>1
  <2>3. \A i \in DOMAIN reports[m] :
           reports[m][i].pkt.seq < SeqNrParent'[m][reports[m][i].pkt.dest]
    BY NewAtPlaces
  <2>4. CASE m = n
    BY <1>2, <1>3, <2>1, <2>2, <2>3, <2>4
  <2>5. CASE m # n
    BY <1>2, <2>1, <2>3, <2>5
  <2> QED BY <2>4, <2>5
<1>5. QueueInOrder'
  <2> SUFFICES ASSUME NEW m \in Node, NEW i \in DOMAIN macQueue'[m], NEW j \in DOMAIN macQueue'[m],
                      i < j, macQueue'[m][i].dest = macQueue'[m][j].dest
               PROVE  macQueue'[m][i].seq < macQueue'[m][j].seq
    BY DEF QueueInOrder
  <2>1. CASE m # n
    BY <1>2, <2>1 DEF Accounted, QueueInOrder
  <2>2. CASE m = n /\ j = k + 1
    <3>1. i \in DOMAIN macQueue[n] /\ macQueue'[n][i] = macQueue[n][i] /\ macQueue'[n][j] = p
      BY <1>2, <2>2
    <3>2. macQueue[n][i].dest = d => macQueue[n][i].seq < p.seq
      BY <3>1, NewAtPlaces DEF p
    <3> QED BY <1>1, <2>2, <3>1, <3>2
  <2>3. CASE m = n /\ j \in 1 .. k
    <3>1. i \in DOMAIN macQueue[n] /\ macQueue'[n][i] = macQueue[n][i] /\ macQueue'[n][j] = macQueue[n][j]
      BY <1>2, <2>3
    <3> QED BY <1>2, <2>3, <3>1 DEF Accounted, QueueInOrder
  <2> QED BY <1>2, <1>3, <2>1, <2>2, <2>3
<1>6. AnsweredOnce'
  <2>1. ASSUME NEW m \in Node, NEW i \in DOMAIN reports[m]
        PROVE  \A j \in DOMAIN macQueue'[m] : ~Same(macQueue'[m][j], reports[m][i].pkt)
    <3>1. \A j \in DOMAIN macQueue[m] : ~Same(macQueue[m][j], reports[m][i].pkt)
      BY DEF Accounted, AnsweredOnce
    <3>2. m = n => ~Same(p, reports[m][i].pkt)
      BY <1>1, NewAtPlaces DEF Same, p
    <3>3. CASE m = n
      BY <1>2, <1>3, <3>1, <3>2, <3>3
    <3>4. CASE m # n
      BY <1>2, <3>1, <3>4
    <3> QED BY <3>3, <3>4
  <2>2. \A m \in Node : \A i, j \in DOMAIN reports[m] :
           Same(reports[m][i].pkt, reports[m][j].pkt) => i = j
    BY DEF Accounted, AnsweredOnce
  <2> QED BY <2>1, <2>2 DEF AnsweredOnce, Same
<1>7. NoneForgotten'
  <2> SUFFICES ASSUME NEW m \in Node, NEW e \in Address \ {Broadcast},
                      NEW x \in 0 .. SeqNrParent'[m][e] - 1
               PROVE  Waiting(m, e, x)' # {} \/ Verdicts(m, e, x)' # {}
    BY DEF NoneForgotten
  <2>1. Verdicts(m, e, x)' = Verdicts(m, e, x)
    BY DEF Verdicts
  <2>2. Waiting(m, e, x) \subseteq Waiting(m, e, x)'
    BY <1>2 DEF Waiting
  <2>3. CASE m = n /\ e = d /\ x = SeqNrParent[n][d]
    <3>1. k + 1 \in Waiting(m, e, x)'
      BY <1>1, <1>2, <2>3 DEF Waiting
    <3> QED BY <3>1
  <2>4. CASE ~(m = n /\ e = d /\ x = SeqNrParent[n][d])
    <3>1. SeqNrParent[m][e] \in Nat
      BY NumberedGrows
    <3>2. x \in 0 .. SeqNrParent[m][e] - 1
      BY <1>1, <2>4, <3>1
    <3>3. Waiting(m, e, x) # {} \/ Verdicts(m, e, x) # {}
      BY <3>2 DEF Accounted, NoneForgotten
    <3> QED BY <2>1, <2>2, <3>3
  <2> QED BY <2>3, <2>4
<1> QED BY <1>4, <1>5, <1>6, <1>7 DEF Accounted

LEMMA RefusedStep ==
  ASSUME IInv, Accounted, NEW n \in Node, NEW d \in Flow[n], Numbered(n, d), UNCHANGED macQueue,
         Refused(n, NewPacket(n, d))
  PROVE  Accounted'
<1> DEFINE p == NewPacket(n, d)
           k == Len(reports[n])
<1>1. /\ d \in Address /\ p \in Packet /\ p.src = n /\ p.dest = d /\ p.seq = SeqNrParent[n][d]
      /\ SeqNrParent[n][d] \in Nat /\ SeqNrParent'[n][d] = SeqNrParent[n][d] + 1
      /\ \A m \in Node, e \in Address : m # n \/ e # d => SeqNrParent[m][e] = SeqNrParent'[m][e]
  BY NumberedGrows
<1>2. /\ k \in Nat /\ DOMAIN reports[n] = 1 .. k /\ DOMAIN reports'[n] = 1 .. k + 1
      /\ \A i \in 1 .. k : reports'[n][i] = reports[n][i]
      /\ reports'[n][k + 1].pkt = p
      /\ \A m \in Node \ {n} : reports'[m] = reports[m]
  <2> HIDE DEF p
  <2>1. Answered(n, p)
    BY DEF p, Outcome, Answered, Refused
  <2> QED BY <1>1, <2>1, ReportedAt
<1>3. \A i \in 1 .. k + 1 : i \in 1 .. k \/ i = k + 1
  BY <1>2
<1> HIDE DEF p, k
<1>4. NumbersUsed'
  <2> SUFFICES ASSUME NEW m \in Node
               PROVE  /\ \A i \in DOMAIN macQueue[m] :
                            /\ macQueue[m][i].src = m
                            /\ macQueue[m][i].seq < SeqNrParent'[m][macQueue[m][i].dest]
                      /\ \A i \in DOMAIN reports'[m] :
                            reports'[m][i].pkt.seq < SeqNrParent'[m][reports'[m][i].pkt.dest]
    BY DEF NumbersUsed
  <2>1. \A i \in DOMAIN macQueue[m] : /\ macQueue[m][i].src = m
                                      /\ macQueue[m][i].seq < SeqNrParent'[m][macQueue[m][i].dest]
    BY NewAtPlaces
  <2>2. p.seq < SeqNrParent'[n][p.dest]
    BY <1>1
  <2>3. \A i \in DOMAIN reports[m] :
           reports[m][i].pkt.seq < SeqNrParent'[m][reports[m][i].pkt.dest]
    BY NewAtPlaces
  <2>4. CASE m = n
    BY <1>2, <1>3, <2>1, <2>2, <2>3, <2>4
  <2>5. CASE m # n
    BY <1>2, <2>1, <2>3, <2>5
  <2> QED BY <2>4, <2>5
<1>5. QueueInOrder'
  BY DEF Accounted, QueueInOrder
<1>6. AnsweredOnce'
  <2> SUFFICES ASSUME NEW m \in Node, NEW j \in DOMAIN reports'[m]
               PROVE  /\ \A i \in DOMAIN macQueue[m] : ~Same(macQueue[m][i], reports'[m][j].pkt)
                      /\ \A i \in DOMAIN reports'[m] :
                            Same(reports'[m][i].pkt, reports'[m][j].pkt) => i = j
    BY DEF AnsweredOnce, Same
  <2>1. CASE m # n
    BY <1>2, <2>1 DEF Accounted, AnsweredOnce
  <2>2. /\ \A i \in DOMAIN macQueue[n] : ~Same(macQueue[n][i], p)
        /\ \A i \in 1 .. k : ~Same(reports[n][i].pkt, p) /\ ~Same(p, reports[n][i].pkt)
    BY <1>1, <1>2, NewAtPlaces DEF Same, p
  <2>3. CASE m = n /\ j = k + 1
    BY <1>2, <1>3, <2>2, <2>3
  <2>4. CASE m = n /\ j \in 1 .. k
    <3>1. reports'[m][j] = reports[n][j] /\ j \in DOMAIN reports[n]
      BY <1>2, <2>4
    <3>2. \A i \in 1 .. k : Same(reports[n][i].pkt, reports[n][j].pkt) => i = j
      BY <1>2, <3>1 DEF Accounted, AnsweredOnce
    <3>3. \A i \in DOMAIN macQueue[n] : ~Same(macQueue[n][i], reports[n][j].pkt)
      BY <3>1 DEF Accounted, AnsweredOnce
    <3> QED BY <1>2, <1>3, <2>2, <2>4, <3>1, <3>2, <3>3
  <2> QED BY <1>2, <1>3, <2>1, <2>3, <2>4
<1>7. NoneForgotten'
  <2> SUFFICES ASSUME NEW m \in Node, NEW e \in Address \ {Broadcast},
                      NEW x \in 0 .. SeqNrParent'[m][e] - 1
               PROVE  Waiting(m, e, x)' # {} \/ Verdicts(m, e, x)' # {}
    BY DEF NoneForgotten
  <2>1. Waiting(m, e, x)' = Waiting(m, e, x)
    BY DEF Waiting
  <2>2. Verdicts(m, e, x) \subseteq Verdicts(m, e, x)'
    BY <1>2 DEF Verdicts
  <2>3. CASE m = n /\ e = d /\ x = SeqNrParent[n][d]
    <3>1. k + 1 \in Verdicts(m, e, x)'
      BY <1>1, <1>2, <2>3 DEF Verdicts
    <3> QED BY <3>1
  <2>4. CASE ~(m = n /\ e = d /\ x = SeqNrParent[n][d])
    <3>1. SeqNrParent[m][e] \in Nat
      BY NumberedGrows
    <3>2. x \in 0 .. SeqNrParent[m][e] - 1
      BY <1>1, <2>4, <3>1
    <3>3. Waiting(m, e, x) # {} \/ Verdicts(m, e, x) # {}
      BY <3>2 DEF Accounted, NoneForgotten
    <3> QED BY <2>1, <2>2, <3>3
  <2> QED BY <2>3, <2>4
<1> QED BY <1>4, <1>5, <1>6, <1>7 DEF Accounted

\* The queue without its head, and the verdicts with at most one more, on it
LEMMA HeadLeavesPlaces ==
  ASSUME IInv, NEW n \in Node, HeadLeaves(n),
         NEW k, k = Len(macQueue[n]), NEW r, r = Len(reports[n])
  PROVE  /\ k \in Nat \ {0} /\ DOMAIN macQueue[n] = 1 .. k
         /\ DOMAIN macQueue'[n] = 1 .. k - 1
         /\ \A i \in 1 .. k - 1 : macQueue'[n][i] = macQueue[n][i + 1]
         /\ \A m \in Node \ {n} : macQueue'[m] = macQueue[m] /\ reports'[m] = reports[m]
         /\ macQueue[n][1] \in Packet
         /\ r \in Nat /\ DOMAIN reports[n] = 1 .. r
         /\ \A i \in 1 .. r : reports'[n][i] = reports[n][i]
         /\ \/ /\ DOMAIN reports'[n] = 1 .. r + 1
               /\ reports'[n][r + 1].pkt = macQueue[n][1]
            \/ DOMAIN reports'[n] = 1 .. r /\ macQueue[n][1].dest = Broadcast
<1>1. macQueue \in [Node -> Seq(Packet)]
  BY DEF IInv, TypeOK, FrameTypeOK
<1>2. /\ k \in Nat \ {0} /\ DOMAIN macQueue[n] = 1 .. k
      /\ Head(macQueue[n]) = macQueue[n][1] /\ macQueue[n][1] \in Packet
      /\ DOMAIN macQueue'[n] = 1 .. k - 1
      /\ \A i \in 1 .. k - 1 : macQueue'[n][i] = macQueue[n][i + 1]
      /\ \A m \in Node \ {n} : macQueue'[m] = macQueue[m]
  BY <1>1, TailAt DEF HeadLeaves
<1>3. r \in Nat /\ DOMAIN reports[n] = 1 .. r
  BY Entries
<1>4. CASE reports' = reports /\ Head(macQueue[n]).dest = Broadcast
  BY <1>2, <1>3, <1>4
<1>5. ASSUME Answered(n, Head(macQueue[n]))
      PROVE  /\ DOMAIN reports'[n] = 1 .. r + 1
             /\ reports'[n][r + 1].pkt = macQueue[n][1]
             /\ \A i \in 1 .. r : reports'[n][i] = reports[n][i]
             /\ \A m \in Node \ {n} : reports'[m] = reports[m]
  BY <1>2, <1>5, ReportedAt
<1>6. /\ \A m \in Node \ {n} : reports'[m] = reports[m]
      /\ \A i \in 1 .. r : reports'[n][i] = reports[n][i]
      /\ \/ /\ DOMAIN reports'[n] = 1 .. r + 1
            /\ reports'[n][r + 1].pkt = macQueue[n][1]
         \/ DOMAIN reports'[n] = 1 .. r /\ macQueue[n][1].dest = Broadcast
  BY <1>2, <1>3, <1>4, <1>5 DEF HeadLeaves
<1> QED BY <1>2, <1>3, <1>6

LEMMA HeadLeavesStep ==
  ASSUME IInv, Accounted, NEW n \in Node, HeadLeaves(n)
  PROVE  Accounted'
<1> DEFINE k == Len(macQueue[n])
           r == Len(reports[n])
           p == macQueue[n][1]
           answered == DOMAIN reports'[n] = 1 .. r + 1 /\ reports'[n][r + 1].pkt = p
<1>a. k = Len(macQueue[n]) /\ r = Len(reports[n])
  OBVIOUS
<1> HIDE DEF k, r
<1>1. /\ k \in Nat \ {0} /\ DOMAIN macQueue[n] = 1 .. k
      /\ DOMAIN macQueue'[n] = 1 .. k - 1
      /\ \A i \in 1 .. k - 1 : macQueue'[n][i] = macQueue[n][i + 1]
      /\ \A m \in Node \ {n} : macQueue'[m] = macQueue[m] /\ reports'[m] = reports[m]
      /\ p \in Packet
      /\ r \in Nat /\ DOMAIN reports[n] = 1 .. r
      /\ \A i \in 1 .. r : reports'[n][i] = reports[n][i]
      /\ answered \/ (DOMAIN reports'[n] = 1 .. r /\ p.dest = Broadcast)
  BY <1>a, HeadLeavesPlaces
<1>0. SeqNrParent' = SeqNrParent
  BY DEF HeadLeaves
<1> HIDE DEF p
<1>2. \A i \in DOMAIN macQueue'[n] : i + 1 \in DOMAIN macQueue[n] /\ macQueue'[n][i] = macQueue[n][i + 1]
  BY <1>1
<1>3. \A i \in DOMAIN reports'[n] : \/ i \in DOMAIN reports[n] /\ reports'[n][i] = reports[n][i]
                                    \/ i = r + 1 /\ reports'[n][i].pkt = p
  BY <1>1
<1>4. 1 \in DOMAIN macQueue[n] /\ \A i \in DOMAIN macQueue'[n] : 1 < i + 1
  BY <1>1
<1>5. NumbersUsed'
  <2> SUFFICES ASSUME NEW m \in Node
               PROVE  /\ \A i \in DOMAIN macQueue'[m] :
                            /\ macQueue'[m][i].src = m
                            /\ macQueue'[m][i].seq < SeqNrParent[m][macQueue'[m][i].dest]
                      /\ \A i \in DOMAIN reports'[m] :
                            reports'[m][i].pkt.seq < SeqNrParent[m][reports'[m][i].pkt.dest]
    BY <1>0, <1>1 DEF NumbersUsed
  <2>1. CASE m = n
    <3>1. \A i \in DOMAIN macQueue[n] : /\ macQueue[n][i].src = n
                                        /\ macQueue[n][i].seq < SeqNrParent[n][macQueue[n][i].dest]
      BY DEF Accounted, NumbersUsed
    <3>2. \A i \in DOMAIN reports[n] : reports[n][i].pkt.seq < SeqNrParent[n][reports[n][i].pkt.dest]
      BY DEF Accounted, NumbersUsed
    <3>3. p.seq < SeqNrParent[n][p.dest]
      BY <1>4, <3>1 DEF p
    <3> QED BY <1>2, <1>3, <2>1, <3>1, <3>2, <3>3
  <2>2. CASE m # n
    BY <1>1, <2>2 DEF Accounted, NumbersUsed
  <2> QED BY <2>1, <2>2
<1>6. QueueInOrder'
  <2> SUFFICES ASSUME NEW m \in Node, NEW i \in DOMAIN macQueue'[m], NEW j \in DOMAIN macQueue'[m],
                      i < j, macQueue'[m][i].dest = macQueue'[m][j].dest
               PROVE  macQueue'[m][i].seq < macQueue'[m][j].seq
    BY DEF QueueInOrder
  <2>1. CASE m = n
    <3>1. /\ i + 1 \in DOMAIN macQueue[n] /\ macQueue'[n][i] = macQueue[n][i + 1]
          /\ j + 1 \in DOMAIN macQueue[n] /\ macQueue'[n][j] = macQueue[n][j + 1]
          /\ i + 1 < j + 1
      BY <1>1, <1>2, <2>1
    <3> QED BY <2>1, <3>1 DEF Accounted, QueueInOrder
  <2>2. CASE m # n
    BY <1>1, <2>2 DEF Accounted, QueueInOrder
  <2> QED BY <2>1, <2>2
<1>7. AnsweredOnce'
  <2> SUFFICES ASSUME NEW m \in Node, NEW j \in DOMAIN reports'[m]
               PROVE  /\ \A i \in DOMAIN macQueue'[m] : ~Same(macQueue'[m][i], reports'[m][j].pkt)
                      /\ \A i \in DOMAIN reports'[m] :
                            Same(reports'[m][i].pkt, reports'[m][j].pkt) => i = j
    BY DEF AnsweredOnce, Same
  <2>1. CASE m # n
    BY <1>1, <2>1 DEF Accounted, AnsweredOnce
  <2>2. \A i \in DOMAIN macQueue'[n] : ~Same(macQueue'[n][i], p)
    <3> SUFFICES ASSUME NEW i \in DOMAIN macQueue'[n], Same(macQueue'[n][i], p) PROVE FALSE
      OBVIOUS
    <3>1. macQueue[n][1].seq < macQueue[n][i + 1].seq
      BY <1>2, <1>4 DEF Accounted, QueueInOrder, Same, p
    <3>2. macQueue[n][1].seq = macQueue[n][i + 1].seq /\ macQueue[n][1].seq \in Nat
      BY <1>1, <1>2 DEF Same, p, Packet
    <3> QED BY <3>1, <3>2
  <2>3. \A i \in DOMAIN reports[n] : ~Same(p, reports[n][i].pkt) /\ ~Same(reports[n][i].pkt, p)
    BY <1>4 DEF Accounted, AnsweredOnce, Same, p
  <2>4. \A i, x \in DOMAIN reports[n] : Same(reports[n][i].pkt, reports[n][x].pkt) => i = x
    BY DEF Accounted, AnsweredOnce
  <2>5. \A i \in DOMAIN macQueue[n], x \in DOMAIN reports[n] : ~Same(macQueue[n][i], reports[n][x].pkt)
    BY DEF Accounted, AnsweredOnce
  <2>6. CASE m = n
    <3>1. \A i \in DOMAIN macQueue'[n] : ~Same(macQueue'[n][i], reports'[n][j].pkt)
      BY <1>2, <1>3, <2>2, <2>5, <2>6
    <3>2. \A i \in DOMAIN reports'[n] : Same(reports'[n][i].pkt, reports'[n][j].pkt) => i = j
      BY <1>3, <2>3, <2>4, <2>6
    <3> QED BY <2>6, <3>1, <3>2
  <2> QED BY <2>1, <2>6
<1>8. NoneForgotten'
  <2> SUFFICES ASSUME NEW m \in Node, NEW e \in Address \ {Broadcast},
                      NEW x \in 0 .. SeqNrParent[m][e] - 1
               PROVE  Waiting(m, e, x)' # {} \/ Verdicts(m, e, x)' # {}
    BY <1>0, <1>1 DEF NoneForgotten
  <2>1. Waiting(m, e, x) # {} \/ Verdicts(m, e, x) # {}
    BY DEF Accounted, NoneForgotten
  <2>2. CASE m # n
    BY <1>1, <2>1, <2>2 DEF Waiting, Verdicts
  <2>3. CASE m = n /\ Verdicts(m, e, x) # {}
    <3>1. PICK i \in DOMAIN reports[n] : reports[n][i].pkt.dest = e /\ reports[n][i].pkt.seq = x
      BY <2>3 DEF Verdicts
    <3>2. i \in DOMAIN reports'[n] /\ reports'[n][i] = reports[n][i]
      BY <1>1, <3>1
    <3>3. i \in Verdicts(m, e, x)'
      BY <2>3, <3>1, <3>2 DEF Verdicts
    <3> QED BY <3>3
  <2>4. ASSUME m = n, NEW i \in Waiting(m, e, x)
        PROVE  Waiting(m, e, x)' # {} \/ Verdicts(m, e, x)' # {}
    <3>1. i \in 1 .. k /\ macQueue[n][i].dest = e /\ macQueue[n][i].seq = x
      BY <1>1, <2>4 DEF Waiting
    <3>2. CASE i = 1
      <4>1. answered
        BY <1>1, <3>1, <3>2 DEF p
      <4>2. r + 1 \in Verdicts(m, e, x)'
        BY <1>1, <2>4, <3>1, <3>2, <4>1 DEF Verdicts, p
      <4> QED BY <4>2
    <3>3. CASE i # 1
      <4>1. i - 1 \in 1 .. k - 1 /\ macQueue'[n][i - 1] = macQueue[n][i]
        BY <1>1, <3>1, <3>3
      <4>2. i - 1 \in Waiting(m, e, x)'
        BY <1>1, <2>4, <3>1, <4>1 DEF Waiting
      <4> QED BY <4>2
    <3> QED BY <3>2, <3>3
  <2> QED BY <2>1, <2>2, <2>3, <2>4
<1> QED BY <1>5, <1>6, <1>7, <1>8 DEF Accounted

LEMMA AccountedStep == IInv /\ Accounted /\ [Next]_vars => Accounted'
<1> SUFFICES ASSUME IInv, Accounted, [Next]_vars PROVE Accounted'
  OBVIOUS
<1>1. CASE UNCHANGED <<macQueue, reports, SeqNrParent>>
  BY <1>1 DEF Accounted, NumbersUsed, QueueInOrder, AnsweredOnce, NoneForgotten, Waiting, Verdicts, Same
<1>2. ASSUME NEW n \in Node, NEW d \in Flow[n], Numbered(n, d) PROVE Accounted'
  BY <1>2, QueuedStep, RefusedStep DEF Numbered
<1>3. ASSUME NEW n \in Node, HeadLeaves(n) PROVE Accounted'
  BY <1>3, HeadLeavesStep
<1> QED BY <1>1, <1>2, <1>3, QueueSteps

\* A set with at most one element
LEMMA AtMostOne ==
  ASSUME NEW S, \A x, y \in S : x = y
  PROVE  Cardinality(S) = IF S = {} THEN 0 ELSE 1
<1>1. CASE S = {}
  BY <1>1, FS_EmptySet
<1>2. ASSUME NEW x \in S PROVE Cardinality(S) = 1
  <2>1. S = {x}
    OBVIOUS
  <2> QED BY <2>1, FS_Singleton
<1> QED BY <1>1, <1>2

LEMMA AccountedPlaces == IInv /\ Accounted => OneVerdict
<1> SUFFICES ASSUME IInv, Accounted, NEW n \in Node, NEW d \in Address
             PROVE  /\ \A k \in 0 .. SeqNrParent[n][d] - 1 :
                          LET places == Cardinality(Waiting(n, d, k)) + Cardinality(Verdicts(n, d, k))
                          IN  IF d = Broadcast THEN places <= 1 ELSE places = 1
                    /\ Verdicts(n, d, SeqNrParent[n][d]) = {}
  BY DEF OneVerdict
<1>1. ASSUME NEW k \in 0 .. SeqNrParent[n][d] - 1
      PROVE  LET places == Cardinality(Waiting(n, d, k)) + Cardinality(Verdicts(n, d, k))
             IN  IF d = Broadcast THEN places <= 1 ELSE places = 1
  <2> DEFINE W == Waiting(n, d, k)
             V == Verdicts(n, d, k)
  <2>1. \A x, y \in W : x = y
    <3> SUFFICES ASSUME NEW x \in W, NEW y \in W, x # y PROVE FALSE
      OBVIOUS
    <3>1. /\ x \in DOMAIN macQueue[n] /\ y \in DOMAIN macQueue[n]
          /\ macQueue[n][x].dest = macQueue[n][y].dest
          /\ macQueue[n][x].seq = k /\ macQueue[n][y].seq = k
      BY DEF Waiting
    <3>2. x < y \/ y < x
      BY <3>1, Entries
    <3>3. macQueue[n][x].seq < macQueue[n][y].seq \/ macQueue[n][y].seq < macQueue[n][x].seq
      BY <3>1, <3>2 DEF Accounted, QueueInOrder
    <3> QED BY <3>1, <3>3
  <2>2. \A x, y \in V : x = y
    BY DEF Verdicts, Accounted, AnsweredOnce, Same
  <2>3. W = {} \/ V = {}
    BY DEF Waiting, Verdicts, Accounted, AnsweredOnce, Same
  <2>4. d # Broadcast => W # {} \/ V # {}
    BY DEF Accounted, NoneForgotten
  <2> HIDE DEF W, V
  <2>5. /\ Cardinality(W) = IF W = {} THEN 0 ELSE 1
        /\ Cardinality(V) = IF V = {} THEN 0 ELSE 1
    BY <2>1, <2>2, AtMostOne
  <2>6. IF d = Broadcast THEN Cardinality(W) + Cardinality(V) <= 1
        ELSE Cardinality(W) + Cardinality(V) = 1
    BY <2>3, <2>4, <2>5
  <2> QED BY <2>6 DEF W, V
<1>2. Verdicts(n, d, SeqNrParent[n][d]) = {}
  <2> SUFFICES ASSUME NEW i \in DOMAIN reports[n], reports[n][i].pkt.dest = d,
                      reports[n][i].pkt.seq = SeqNrParent[n][d]
               PROVE  FALSE
    BY DEF Verdicts
  <2>1. SeqNrParent[n][d] < SeqNrParent[n][d] /\ SeqNrParent[n][d] \in Nat
    BY DEF Accounted, NumbersUsed, IInv, TypeOK, SeqNrTypeOK
  <2> QED BY <2>1
<1> QED BY <1>1, <1>2

-----------------------------------------------------------------------------
(* A suspended cycle resumes as it was                                      *)

\* Between two states, the cycle of n is the same
SameCycle(n) ==
    /\ NB'[n] = NB[n] /\ BE'[n] = BE[n] /\ txAttempts'[n] = txAttempts[n]
    /\ Head(macQueue'[n]) = Head(macQueue[n])

LEMMA SuspendedStep ==
  ASSUME IInv, [Next]_vars, NEW n \in Node, interrupted[n]
  PROVE  SameCycle(n)
<1>1. /\ macState[n] \in {"WAITSIFS_6", "TRANSMITACK_7"}
      /\ macQueue[n] # <<>> /\ macQueue[n] \in Seq(Packet)
      /\ inbound[n] = NoFrame
  BY DEF IInv, TypeOK, FrameTypeOK, HeadPresent, NoFrameDuringSifs
<1>2. /\ NB \in [Node -> Nat] /\ BE \in [Node -> Nat] /\ txAttempts \in [Node -> Nat]
      /\ macQueue \in [Node -> Seq(Packet)]
  BY DEF IInv, TypeOK, CycleTypeOK, FrameTypeOK
<1>3. ASSUME NB'[n] = NB[n], BE'[n] = BE[n], txAttempts'[n] = txAttempts[n],
             macQueue'[n] = macQueue[n]
      PROVE  SameCycle(n)
  BY <1>3 DEF SameCycle
<1>4. ASSUME NEW m \in Node, SendRequest(m) PROVE SameCycle(n)
  <2>1. PICK d \in Flow[m] :
           SendRequestIdle(m, d) \/ SendRequestNotIdle(m, d) \/ SendRequestQueueFull(m, d)
    BY <1>4 DEF SendRequest
  <2>2. CASE SendRequestIdle(m, d)
    <3>1. m # n
      BY <1>1, <2>2 DEF SendRequestIdle
    <3> QED BY <1>2, <1>3, <2>2, <3>1 DEF SendRequestIdle
  <2>3. CASE SendRequestNotIdle(m, d)
    <3>1. NB' = NB /\ BE' = BE /\ txAttempts' = txAttempts
          /\ macQueue' = [macQueue EXCEPT ![m] = Append(@, NewPacket(m, d))]
      BY <2>3 DEF SendRequestNotIdle, Enqueue, cycleVars
    <3>2. NewPacket(m, d) \in Packet
      BY NewPacketType DEF IInv, TypeOK
    <3>3. Head(macQueue'[n]) = Head(macQueue[n])
      BY <1>1, <1>2, <3>1, <3>2, AppendProperties
    <3> QED BY <3>1, <3>3 DEF SameCycle
  <2>4. CASE SendRequestQueueFull(m, d)
    BY <1>3, <2>4 DEF SendRequestQueueFull, cycleVars
  <2> QED BY <2>1, <2>2, <2>3, <2>4
<1>5. ASSUME NEW m \in Node, handleSelfMsg(m) PROVE SameCycle(n)
  <2>1. CASE TimerSifs(m)
    BY <1>3, <2>1 DEF TimerSifs, cycleVars
  <2>2. CASE TimerBackoff(m) \/ TimerCcaIdle(m)
    BY <1>3, <2>2 DEF TimerBackoff, TimerCcaIdle, cycleVars
  <2>3. CASE TimerCcaBusy(m) \/ TimerCcaDrop(m) \/ AckTimeoutRetry(m) \/ AckTimeoutDrop(m)
    <3>1. m # n
      BY <1>1, <2>3 DEF TimerCcaBusy, TimerCcaDrop, CcaTimerFires, AckTimeoutRetry,
         AckTimeoutDrop, AckTimeout
    <3>2. CASE TimerCcaBusy(m)
      BY <1>2, <1>3, <3>1, <3>2 DEF TimerCcaBusy
    <3>3. CASE TimerCcaDrop(m)
      BY <1>2, <1>3, <3>1, <3>3 DEF TimerCcaDrop, manageQueue
    <3>4. CASE AckTimeoutRetry(m)
      BY <1>2, <1>3, <3>1, <3>4 DEF AckTimeoutRetry, manageQueue
    <3>5. CASE AckTimeoutDrop(m)
      BY <1>2, <1>3, <3>1, <3>5 DEF AckTimeoutDrop, manageQueue
    <3> QED BY <2>3, <3>2, <3>3, <3>4, <3>5
  <2> QED BY <1>5, <2>1, <2>2, <2>3 DEF handleSelfMsg, TimerCca, TimerRxAck
<1>6. ASSUME NEW m \in Node, FrameTransmitted(m) PROVE SameCycle(n)
  <2>1. PICK R \in SUBSET (Node \ {m}) :
           UnicastTransmitted(m, R) \/ BroadcastTransmitted(m, R) \/ AckTransmitted(m, R)
    BY <1>6 DEF FrameTransmitted
  <2>2. CASE UnicastTransmitted(m, R)
    BY <1>3, <2>2 DEF UnicastTransmitted, cycleVars
  <2>3. CASE BroadcastTransmitted(m, R)
    <3>1. m # n
      BY <1>1, <2>3 DEF BroadcastTransmitted
    <3> QED BY <1>2, <1>3, <2>3, <3>1 DEF BroadcastTransmitted, manageQueue
  <2>4. CASE AckTransmitted(m, R)
    <3>1. CASE m # n
      BY <1>2, <1>3, <2>4, <3>1 DEF AckTransmitted, manageQueue
    <3>2. CASE m = n
      BY <1>1, <1>2, <1>3, <2>4, <3>2 DEF AckTransmitted, manageQueue, FreshCycle
    <3> QED BY <3>1, <3>2
  <2> QED BY <2>1, <2>2, <2>3, <2>4
<1>7. ASSUME NEW m \in Node, handleLowerMsg(m) PROVE SameCycle(n)
  <2>1. CASE ReceiveData(m) \/ ReceiveBroadcast(m) \/ ReceiveOther(m)
    BY <1>3, <2>1 DEF ReceiveData, ReceiveBroadcast, ReceiveOther, cycleVars
  <2>2. CASE ReceiveAck(m)
    <3>1. m # n
      BY <1>1, <2>2 DEF ReceiveAck, Take
    <3> QED BY <1>2, <1>3, <2>2, <3>1 DEF ReceiveAck, manageQueue
  <2> QED BY <1>7, <2>1, <2>2 DEF handleLowerMsg
<1>8. CASE UNCHANGED vars
  BY <1>3, <1>8 DEF vars, cycleVars
<1> QED BY <1>4, <1>5, <1>6, <1>7, <1>8 DEF Next

-----------------------------------------------------------------------------
(* What is passed up is new                                                 *)

\* Number k lies before every broadcast of src that is still to be sent
Earlier(src, k) ==
    /\ k < SeqNrParent[src][Broadcast]
    /\ \A j \in DOMAIN macQueue[src] :
          macQueue[src][j].dest = Broadcast => k < macQueue[src][j].seq

EarlierNext(src, k) ==
    /\ k < SeqNrParent'[src][Broadcast]
    /\ \A j \in DOMAIN macQueue'[src] :
          macQueue'[src][j].dest = Broadcast => k < macQueue'[src][j].seq

\* A broadcast that was decoded or passed up is never sent again, and the one
\* decoded is later than those passed up
BroadcastsPast == \A n \in Node :
    /\ inbound[n] # NoFrame /\ inbound[n].dest = Broadcast =>
          /\ Earlier(inbound[n].src, inbound[n].seq)
          /\ \A i \in DOMAIN sentUp[n] :
                sentUp[n][i].dest = Broadcast /\ sentUp[n][i].src = inbound[n].src
                => sentUp[n][i].seq < inbound[n].seq
    /\ \A i \in DOMAIN sentUp[n] :
          sentUp[n][i].dest = Broadcast => Earlier(sentUp[n][i].src, sentUp[n][i].seq)

\* What was passed up for this node lies before the number expected next
UnicastsPast == \A n \in Node : \A i \in DOMAIN sentUp[n] :
    sentUp[n][i].dest = n => sentUp[n][i].seq < SeqNrChild[n][sentUp[n][i].src]

Past == BroadcastsPast /\ UnicastsPast

\* A transmission ends: some nodes decode it
Transmits(n) ==
    /\ \E R \in SUBSET Node :
          /\ \A m \in R : inbound[m] = NoFrame
          /\ inbound' = [m \in Node |-> IF m \in R THEN Head(lower[n]) ELSE inbound[m]]
    /\ \/ Head(lower[n]).dest # Broadcast
       \/ Head(lower[n]) = Head(macQueue[n]) /\ HeadLeaves(n)
    /\ UNCHANGED <<sentUp, SeqNrChild>>

\* A decoded frame is dealt with: it may be passed up
Receives(n) ==
    /\ inbound[n] # NoFrame
    /\ inbound' = [inbound EXCEPT ![n] = NoFrame]
    /\ \A m, s \in Node : SeqNrChild[m][s] <= SeqNrChild'[m][s]
    /\ \/ UNCHANGED sentUp
       \/ /\ sentUp' = [sentUp EXCEPT ![n] = Append(@, inbound[n])]
          /\ inbound[n] \in Packet
          /\ \/ inbound[n].dest = Broadcast
             \/ /\ inbound[n].dest = n
                /\ inbound[n].seq < SeqNrChild'[n][inbound[n].src]
                /\ macState[n] # "CCA_3" =>
                      SeqNrChild[n][inbound[n].src] <= inbound[n].seq

LEMMA AcksAreUnicast == \A f \in Ack : f.dest # Broadcast
BY AddressAssumption DEF Ack

LEMMA ReceiveDataEffect ==
  ASSUME IInv, NEW n \in Node, ReceiveData(n)
  PROVE  Receives(n)
<1> DEFINE f == inbound[n]
<1>1. /\ f # NoFrame /\ f \in Packet /\ f.dest = n /\ f.src \in Node /\ f.seq \in Nat
      /\ inbound' = [inbound EXCEPT ![n] = NoFrame]
  BY DEF ReceiveData, Take, IInv, TypeOK, FrameTypeOK, Frame, Ack, Packet
<1>2. SeqNrChild \in [Node -> [Node -> Nat]]
  BY DEF IInv, TypeOK, SeqNrTypeOK
<1>3. SeqNrChild' = [SeqNrChild EXCEPT ![n][f.src] =
                        IF f.seq < SeqNrChild[n][f.src] THEN @ ELSE f.seq + 1]
  BY DEF ReceiveData
<1>4. sentUp' = [sentUp EXCEPT ![n] = IF PassedUp(n, f.seq < SeqNrChild[n][f.src])
                                      THEN Append(@, f) ELSE @]
  BY DEF ReceiveData
<1>5. PassedUp(n, f.seq < SeqNrChild[n][f.src]) /\ macState[n] # "CCA_3" =>
         SeqNrChild[n][f.src] <= f.seq
  BY <1>1, <1>2 DEF PassedUp
<1>6. sentUp \in [Node -> Seq(Packet)]
  BY DEF IInv, TypeOK, UpTypeOK
<1> HIDE DEF f
<1>7. /\ \A m, s \in Node : SeqNrChild[m][s] <= SeqNrChild'[m][s]
      /\ f.seq < SeqNrChild'[n][f.src]
  BY <1>1, <1>2, <1>3
<1>8. CASE PassedUp(n, f.seq < SeqNrChild[n][f.src])
  <2>1. sentUp' = [sentUp EXCEPT ![n] = Append(@, f)]
    BY <1>4, <1>8
  <2> QED BY <1>1, <1>5, <1>7, <1>8, <2>1 DEF Receives, f
<1>9. CASE ~PassedUp(n, f.seq < SeqNrChild[n][f.src])
  <2>1. sentUp' = sentUp
    BY <1>4, <1>6, <1>9
  <2> QED BY <1>1, <1>7, <2>1 DEF Receives, f
<1> QED BY <1>8, <1>9

LEMMA FrameSteps ==
  ASSUME IInv, [Next]_vars
  PROVE  \/ UNCHANGED <<inbound, sentUp, SeqNrChild>>
         \/ \E n \in Node : Transmits(n)
         \/ \E n \in Node : Receives(n)
<1> DEFINE Goal == \/ UNCHANGED <<inbound, sentUp, SeqNrChild>>
                   \/ \E n \in Node : Transmits(n)
                   \/ \E n \in Node : Receives(n)
<1> SUFFICES Goal
  OBVIOUS
<1>1. ASSUME NEW n \in Node, SendRequest(n) PROVE Goal
  BY <1>1 DEF SendRequest, SendRequestIdle, SendRequestNotIdle, SendRequestQueueFull, upVars
<1>2. ASSUME NEW n \in Node, handleSelfMsg(n) PROVE Goal
  BY <1>2 DEF handleSelfMsg, TimerBackoff, TimerSifs, TimerCca, TimerCcaIdle, TimerCcaBusy,
     TimerCcaDrop, TimerRxAck, AckTimeoutRetry, AckTimeoutDrop, seqVars, upVars
<1>3. ASSUME NEW n \in Node, FrameTransmitted(n) PROVE Goal
  <2>1. PICK R \in SUBSET (Node \ {n}) :
           UnicastTransmitted(n, R) \/ BroadcastTransmitted(n, R) \/ AckTransmitted(n, R)
    BY <1>3 DEF FrameTransmitted
  <2>2. /\ \A m \in R : inbound[m] = NoFrame
        /\ inbound' = [m \in Node |-> IF m \in R THEN Head(lower[n]) ELSE inbound[m]]
        /\ UNCHANGED <<sentUp, SeqNrChild>>
    BY <2>1 DEF UnicastTransmitted, BroadcastTransmitted, AckTransmitted, TransmissionOver,
       seqVars, upVars
  <2>3. CASE UnicastTransmitted(n, R)
    <3>1. Head(lower[n]).dest # Broadcast
      BY <2>3 DEF UnicastTransmitted, IInv, OneTransmission
    <3> QED BY <2>2, <3>1 DEF Transmits
  <2>4. CASE AckTransmitted(n, R)
    <3>1. Head(lower[n]).dest # Broadcast
      BY <2>4, AcksAreUnicast DEF AckTransmitted, IInv, OneTransmission
    <3> QED BY <2>2, <3>1 DEF Transmits
  <2>5. CASE BroadcastTransmitted(n, R)
    <3>1. Head(lower[n]) = Head(macQueue[n]) /\ macQueue[n] # <<>>
      BY <2>5 DEF BroadcastTransmitted, IInv, OneTransmission, HeadPresent
    <3>2. HeadLeaves(n)
      BY <2>5, <3>1 DEF BroadcastTransmitted, manageQueue, HeadLeaves, seqVars, upVars
    <3> QED BY <2>2, <3>1, <3>2 DEF Transmits
  <2> QED BY <2>1, <2>3, <2>4, <2>5
<1>4. ASSUME NEW n \in Node, handleLowerMsg(n) PROVE Goal
  <2>0. \A m, s \in Node : SeqNrChild[m][s] \in Nat
    BY DEF IInv, TypeOK, SeqNrTypeOK
  <2>1. CASE ReceiveData(n)
    BY <2>1, ReceiveDataEffect
  <2>2. CASE ReceiveBroadcast(n)
    <3>1. inbound[n] # NoFrame /\ inbound[n].dest = Broadcast /\ inbound[n] \in Packet
      BY <2>2, AcksAreUnicast DEF ReceiveBroadcast, Take, IInv, TypeOK, FrameTypeOK, Frame
    <3>2. /\ inbound' = [inbound EXCEPT ![n] = NoFrame] /\ SeqNrChild' = SeqNrChild
          /\ \/ sentUp' = sentUp
             \/ sentUp' = [sentUp EXCEPT ![n] = Append(@, inbound[n])]
      BY <2>2 DEF ReceiveBroadcast, Take, seqVars, IInv, TypeOK, UpTypeOK
    <3>3. Receives(n)
      BY <2>0, <3>1, <3>2 DEF Receives
    <3> QED BY <3>3
  <2>3. CASE ReceiveAck(n) \/ ReceiveOther(n)
    <3>1. /\ inbound[n] # NoFrame /\ inbound' = [inbound EXCEPT ![n] = NoFrame]
          /\ SeqNrChild' = SeqNrChild /\ sentUp' = sentUp
      BY <2>3 DEF ReceiveAck, ReceiveOther, Take, seqVars, upVars
    <3>2. Receives(n)
      BY <2>0, <3>1 DEF Receives
    <3> QED BY <3>2
  <2> QED BY <1>4, <2>1, <2>2, <2>3 DEF handleLowerMsg
<1>5. CASE UNCHANGED vars
  BY <1>5 DEF vars, seqVars, upVars
<1> QED BY <1>1, <1>2, <1>3, <1>4, <1>5 DEF Next

\* What lies before the queue of src stays before it
LEMMA EarlierStays ==
  ASSUME IInv, Accounted, [Next]_vars, NEW src \in Node, NEW x \in Nat, Earlier(src, x)
  PROVE  EarlierNext(src, x)
<1>1. \A e \in Address : SeqNrParent[src][e] \in Nat
  BY DEF IInv, TypeOK, SeqNrTypeOK
<1>2. Broadcast \in Address
  BY DEF Address
<1>3. CASE UNCHANGED <<macQueue, reports, SeqNrParent>>
  BY <1>3 DEF Earlier, EarlierNext
<1>4. ASSUME NEW n \in Node, NEW d \in Flow[n], Numbered(n, d) PROVE EarlierNext(src, x)
  <2>1. SeqNrParent[src][Broadcast] <= SeqNrParent'[src][Broadcast]
        /\ SeqNrParent'[src][Broadcast] \in Nat
    BY <1>2, <1>4, NumberedGrows DEF IInv
  <2>2. x < SeqNrParent[src][Broadcast] /\ x < SeqNrParent'[src][Broadcast]
    BY <1>1, <1>2, <2>1 DEF Earlier, EarlierNext
  <2>3. ASSUME UNCHANGED macQueue PROVE EarlierNext(src, x)
    BY <2>2, <2>3 DEF Earlier, EarlierNext
  <2>4. ASSUME macQueue' = [macQueue EXCEPT ![n] = Append(@, NewPacket(n, d))]
        PROVE  EarlierNext(src, x)
    <3> DEFINE p == NewPacket(n, d)
               k == Len(macQueue[n])
    <3>1. p \in Packet /\ p.dest = d /\ p.seq = SeqNrParent[n][d]
      BY <1>4, NumberedGrows
    <3>2. macQueue \in [Node -> Seq(Packet)]
      BY DEF IInv, TypeOK, FrameTypeOK
    <3>3. /\ k \in Nat /\ DOMAIN macQueue[n] = 1 .. k /\ DOMAIN macQueue'[n] = 1 .. k + 1
          /\ \A i \in 1 .. k : macQueue'[n][i] = macQueue[n][i]
          /\ macQueue'[n][k + 1] = p
          /\ \A m \in Node \ {n} : macQueue'[m] = macQueue[m]
      <4> HIDE DEF p
      <4> QED BY <2>4, <3>1, <3>2, AppendedAt DEF p
    <3> HIDE DEF p, k
    <3>4. CASE src # n
      BY <2>2, <3>3, <3>4 DEF Earlier, EarlierNext
    <3>5. CASE src = n
      <4>1. \A i \in 1 .. k : macQueue'[n][i].dest = Broadcast => x < macQueue'[n][i].seq
        BY <3>3, <3>5 DEF Earlier, EarlierNext
      <4>2. macQueue'[n][k + 1].dest = Broadcast => x < macQueue'[n][k + 1].seq
        BY <2>2, <3>1, <3>3, <3>5
      <4>3. \A i \in 1 .. k + 1 : i \in 1 .. k \/ i = k + 1
        BY <3>3
      <4>4. \A i \in DOMAIN macQueue'[n] : macQueue'[n][i].dest = Broadcast => x < macQueue'[n][i].seq
        BY <3>3, <4>1, <4>2, <4>3
      <4> QED BY <2>2, <3>5, <4>4 DEF Earlier, EarlierNext
    <3> QED BY <3>4, <3>5
  <2> QED BY <1>4, <2>3, <2>4 DEF Numbered
<1>5. ASSUME NEW n \in Node, HeadLeaves(n) PROVE EarlierNext(src, x)
  <2>1. macQueue \in [Node -> Seq(Packet)]
    BY DEF IInv, TypeOK, FrameTypeOK
  <2>2. SeqNrParent' = SeqNrParent /\ macQueue[n] # <<>> /\ macQueue' = [macQueue EXCEPT ![n] = Tail(@)]
    BY <1>5 DEF HeadLeaves
  <2>3. /\ Len(macQueue[n]) \in Nat /\ DOMAIN macQueue[n] = 1 .. Len(macQueue[n])
        /\ DOMAIN macQueue'[n] = 1 .. Len(macQueue[n]) - 1
        /\ \A i \in 1 .. Len(macQueue[n]) - 1 : macQueue'[n][i] = macQueue[n][i + 1]
        /\ \A m \in Node \ {n} : macQueue'[m] = macQueue[m]
    BY <2>1, <2>2, TailAt
  <2>4. \A i \in DOMAIN macQueue'[n] : i + 1 \in DOMAIN macQueue[n] /\ macQueue'[n][i] = macQueue[n][i + 1]
    BY <2>3
  <2>5. CASE src # n
    BY <2>2, <2>3, <2>5 DEF Earlier, EarlierNext
  <2>6. CASE src = n
    BY <2>2, <2>4, <2>6 DEF Earlier, EarlierNext
  <2> QED BY <2>5, <2>6
<1> QED BY <1>3, <1>4, <1>5, QueueSteps

\* A broadcast that leaves the queue lies before those that follow it
LEMMA HeadBecomesEarlier ==
  ASSUME IInv, Accounted, NEW n \in Node, HeadLeaves(n), Head(macQueue[n]).dest = Broadcast
  PROVE  /\ Head(macQueue[n]).src = n /\ Head(macQueue[n]).seq \in Nat
         /\ EarlierNext(n, Head(macQueue[n]).seq)
<1>1. macQueue \in [Node -> Seq(Packet)]
  BY DEF IInv, TypeOK, FrameTypeOK
<1>2. SeqNrParent' = SeqNrParent /\ macQueue[n] # <<>> /\ macQueue' = [macQueue EXCEPT ![n] = Tail(@)]
  BY DEF HeadLeaves
<1>3. /\ Len(macQueue[n]) \in Nat \ {0} /\ DOMAIN macQueue[n] = 1 .. Len(macQueue[n])
      /\ Head(macQueue[n]) = macQueue[n][1] /\ macQueue[n][1] \in Packet
      /\ DOMAIN macQueue'[n] = 1 .. Len(macQueue[n]) - 1
      /\ \A i \in 1 .. Len(macQueue[n]) - 1 : macQueue'[n][i] = macQueue[n][i + 1]
  BY <1>1, <1>2, TailAt
<1>4. /\ 1 \in DOMAIN macQueue[n]
      /\ \A i \in DOMAIN macQueue'[n] : /\ i + 1 \in DOMAIN macQueue[n] /\ 1 < i + 1
                                        /\ macQueue'[n][i] = macQueue[n][i + 1]
  BY <1>3
<1>5. macQueue[n][1].src = n /\ macQueue[n][1].seq < SeqNrParent[n][macQueue[n][1].dest]
  BY <1>4 DEF Accounted, NumbersUsed
<1>6. \A i \in DOMAIN macQueue'[n] :
         macQueue'[n][i].dest = Broadcast => macQueue[n][1].seq < macQueue'[n][i].seq
  BY <1>3, <1>4 DEF Accounted, QueueInOrder
<1>7. macQueue[n][1].seq \in Nat
  BY <1>3 DEF Packet
<1> QED BY <1>2, <1>3, <1>5, <1>6, <1>7 DEF Earlier, EarlierNext

LEMMA UpEntries ==
  ASSUME IInv, NEW n \in Node
  PROVE  /\ Len(sentUp[n]) \in Nat /\ DOMAIN sentUp[n] = 1 .. Len(sentUp[n])
         /\ \A i \in DOMAIN sentUp[n] : /\ sentUp[n][i] \in Packet
                                        /\ sentUp[n][i].src \in Node /\ sentUp[n][i].seq \in Nat
<1>1. sentUp[n] \in Seq(Packet)
  BY DEF IInv, TypeOK, UpTypeOK
<1>2. Len(sentUp[n]) \in Nat /\ DOMAIN sentUp[n] = 1 .. Len(sentUp[n])
  BY <1>1
<1>3. \A i \in 1 .. Len(sentUp[n]) : sentUp[n][i] \in Packet
  BY <1>1, ElementOfSeq
<1> QED BY <1>2, <1>3 DEF Packet

\* A decoded broadcast is a packet
LEMMA InboundBroadcast ==
  ASSUME IInv, NEW n \in Node, inbound[n] # NoFrame, inbound[n].dest = Broadcast
  PROVE  inbound[n] \in Packet /\ inbound[n].src \in Node /\ inbound[n].seq \in Nat
<1>1. inbound[n] \in Packet
  BY AcksAreUnicast DEF IInv, TypeOK, FrameTypeOK, Frame
<1> QED BY <1>1 DEF Packet

LEMMA TransmitsStep ==
  ASSUME IInv, Accounted, Past, [Next]_vars, NEW n \in Node, Transmits(n)
  PROVE  Past'
<1>1. PICK R \in SUBSET Node :
         /\ \A m \in R : inbound[m] = NoFrame
         /\ inbound' = [m \in Node |-> IF m \in R THEN Head(lower[n]) ELSE inbound[m]]
  BY DEF Transmits
<1>2. sentUp' = sentUp /\ SeqNrChild' = SeqNrChild
  BY DEF Transmits
<1>3. UnicastsPast'
  BY <1>2 DEF Past, UnicastsPast
<1>4. BroadcastsPast'
  <2> SUFFICES ASSUME NEW m \in Node
               PROVE  /\ inbound'[m] # NoFrame /\ inbound'[m].dest = Broadcast =>
                            /\ EarlierNext(inbound'[m].src, inbound'[m].seq)
                            /\ \A i \in DOMAIN sentUp[m] :
                                  sentUp[m][i].dest = Broadcast /\ sentUp[m][i].src = inbound'[m].src
                                  => sentUp[m][i].seq < inbound'[m].seq
                      /\ \A i \in DOMAIN sentUp[m] :
                            sentUp[m][i].dest = Broadcast => EarlierNext(sentUp[m][i].src, sentUp[m][i].seq)
    BY <1>2 DEF BroadcastsPast, Earlier, EarlierNext
  <2>1. ASSUME NEW i \in DOMAIN sentUp[m], sentUp[m][i].dest = Broadcast
        PROVE  Earlier(sentUp[m][i].src, sentUp[m][i].seq)
    BY <2>1 DEF Past, BroadcastsPast
  <2>2. ASSUME NEW i \in DOMAIN sentUp[m], sentUp[m][i].dest = Broadcast
        PROVE  EarlierNext(sentUp[m][i].src, sentUp[m][i].seq)
    BY <2>1, <2>2, UpEntries, EarlierStays
  <2>3. CASE m \notin R
    <3>1. inbound'[m] = inbound[m]
      BY <1>1, <2>3
    <3>2. ASSUME inbound[m] # NoFrame, inbound[m].dest = Broadcast
          PROVE  /\ EarlierNext(inbound[m].src, inbound[m].seq)
                 /\ \A i \in DOMAIN sentUp[m] :
                       sentUp[m][i].dest = Broadcast /\ sentUp[m][i].src = inbound[m].src
                       => sentUp[m][i].seq < inbound[m].seq
      BY <3>2, InboundBroadcast, EarlierStays DEF Past, BroadcastsPast
    <3>3. inbound'[m] # NoFrame /\ inbound'[m].dest = Broadcast =>
            EarlierNext(inbound'[m].src, inbound'[m].seq)
      BY <3>1, <3>2, Zenon
    <3> QED BY <2>2, <3>1, <3>2, <3>3
  <2>4. CASE m \in R
    <3> DEFINE h == Head(macQueue[n])
    <3>1. inbound'[m] = Head(lower[n])
      BY <1>1, <2>4
    <3>2. CASE Head(lower[n]).dest # Broadcast
      BY <2>2, <3>1, <3>2
    <3>3. CASE Head(lower[n]) = h /\ HeadLeaves(n) /\ h.dest = Broadcast
      <4>1. h.src = n /\ h.seq \in Nat /\ EarlierNext(n, h.seq)
        BY <3>3, HeadBecomesEarlier
      <4>2. h = macQueue[n][1] /\ 1 \in DOMAIN macQueue[n]
        <5>1. macQueue \in [Node -> Seq(Packet)] /\ macQueue[n] # <<>>
          BY <3>3 DEF IInv, TypeOK, FrameTypeOK, HeadLeaves
        <5>2. macQueue[n] \in Seq(Packet) /\ Len(macQueue[n]) \in Nat /\ Len(macQueue[n]) # 0
          BY <5>1, EmptySeq
        <5> QED BY <5>2
      <4>3. ASSUME NEW i \in DOMAIN sentUp[m], sentUp[m][i].dest = Broadcast, sentUp[m][i].src = n
            PROVE  sentUp[m][i].seq < h.seq
        BY <2>1, <3>3, <4>2, <4>3 DEF Earlier, EarlierNext
      <4> HIDE DEF h
      <4>4. inbound'[m] = h
        BY <3>1, <3>3
      <4>5. EarlierNext(inbound'[m].src, inbound'[m].seq)
        BY <4>1, <4>4, Zenon
      <4> QED BY <2>2, <4>1, <4>3, <4>4, <4>5
    <3> QED BY <3>2, <3>3 DEF Transmits
  <2> QED BY <2>3, <2>4
<1> QED BY <1>3, <1>4 DEF Past

LEMMA ReceivesStep ==
  ASSUME IInv, Accounted, Past, [Next]_vars, NEW n \in Node, Receives(n)
  PROVE  Past'
<1>1. /\ inbound[n] # NoFrame
      /\ inbound' = [inbound EXCEPT ![n] = NoFrame]
      /\ \A m, s \in Node : SeqNrChild[m][s] <= SeqNrChild'[m][s]
  BY DEF Receives
<1>2. /\ \A m, s \in Node : SeqNrChild[m][s] \in Nat /\ SeqNrChild'[m][s] \in Nat
      /\ inbound \in [Node -> Frame \cup {NoFrame}]
  BY NextStep DEF IInv, TypeOK, SeqNrTypeOK, FrameTypeOK
<1>3. inbound'[n] = NoFrame /\ \A m \in Node \ {n} : inbound'[m] = inbound[m]
  BY <1>1, <1>2
<1>4. ASSUME NEW m \in Node, NEW i \in DOMAIN sentUp[m]
      PROVE  /\ sentUp[m][i].dest = Broadcast => EarlierNext(sentUp[m][i].src, sentUp[m][i].seq)
             /\ sentUp[m][i].dest = m => sentUp[m][i].seq < SeqNrChild'[m][sentUp[m][i].src]
  <2>1. sentUp[m][i].src \in Node /\ sentUp[m][i].seq \in Nat
    BY UpEntries
  <2>2. sentUp[m][i].dest = Broadcast => EarlierNext(sentUp[m][i].src, sentUp[m][i].seq)
    BY <2>1, EarlierStays DEF Past, BroadcastsPast
  <2>3. sentUp[m][i].dest = m => sentUp[m][i].seq < SeqNrChild[m][sentUp[m][i].src]
    BY DEF Past, UnicastsPast
  <2> QED BY <1>1, <1>2, <2>1, <2>2, <2>3
<1>5. ASSUME NEW m \in Node, m # n, inbound[m] # NoFrame, inbound[m].dest = Broadcast
      PROVE  /\ EarlierNext(inbound[m].src, inbound[m].seq)
             /\ \A i \in DOMAIN sentUp[m] :
                   sentUp[m][i].dest = Broadcast /\ sentUp[m][i].src = inbound[m].src
                   => sentUp[m][i].seq < inbound[m].seq
  BY <1>5, InboundBroadcast, EarlierStays DEF Past, BroadcastsPast
<1>6. CASE UNCHANGED sentUp
  <2>1. UnicastsPast'
    BY <1>4, <1>6 DEF UnicastsPast
  <2>2. BroadcastsPast'
    BY <1>3, <1>4, <1>5, <1>6 DEF BroadcastsPast, Earlier, EarlierNext
  <2> QED BY <2>1, <2>2 DEF Past
<1>7. CASE /\ sentUp' = [sentUp EXCEPT ![n] = Append(@, inbound[n])]
           /\ inbound[n] \in Packet
           /\ \/ inbound[n].dest = Broadcast
              \/ /\ inbound[n].dest = n
                 /\ inbound[n].seq < SeqNrChild'[n][inbound[n].src]
  <2> DEFINE k == Len(sentUp[n])
             f == inbound[n]
  <2>1. /\ k \in Nat /\ DOMAIN sentUp[n] = 1 .. k /\ DOMAIN sentUp'[n] = 1 .. k + 1
        /\ \A i \in 1 .. k : sentUp'[n][i] = sentUp[n][i]
        /\ sentUp'[n][k + 1] = f
        /\ \A m \in Node \ {n} : sentUp'[m] = sentUp[m]
    <3>1. sentUp \in [Node -> Seq(Packet)]
      BY DEF IInv, TypeOK, UpTypeOK
    <3> QED BY <1>7, <3>1, AppendedAt
  <2>2. /\ f.dest = Broadcast => EarlierNext(f.src, f.seq)
        /\ f.dest = n => f.seq < SeqNrChild'[n][f.src]
    <3>1. ASSUME f.dest = Broadcast PROVE EarlierNext(f.src, f.seq)
      <4>1. Earlier(f.src, f.seq) /\ f.src \in Node /\ f.seq \in Nat
        BY <1>1, <3>1, InboundBroadcast DEF Past, BroadcastsPast
      <4> QED BY <4>1, EarlierStays
    <3>2. n # Broadcast
      BY AddressAssumption
    <3> QED BY <1>7, <3>1, <3>2
  <2> HIDE DEF k, f
  <2>3. ASSUME NEW m \in Node, NEW i \in DOMAIN sentUp'[m]
        PROVE  \/ i \in DOMAIN sentUp[m] /\ sentUp'[m][i] = sentUp[m][i]
               \/ m = n /\ sentUp'[m][i] = f
    BY <2>1, <2>3
  <2>4. UnicastsPast'
    BY <1>4, <2>2, <2>3 DEF UnicastsPast
  <2>5. ASSUME NEW m \in Node, NEW i \in DOMAIN sentUp'[m], sentUp'[m][i].dest = Broadcast
        PROVE  EarlierNext(sentUp'[m][i].src, sentUp'[m][i].seq)
    <3>1. CASE i \in DOMAIN sentUp[m] /\ sentUp'[m][i] = sentUp[m][i]
      <4>1. EarlierNext(sentUp[m][i].src, sentUp[m][i].seq)
        BY <1>4, <2>5, <3>1
      <4> QED BY <3>1, <4>1, Zenon
    <3>2. CASE m = n /\ sentUp'[m][i] = f
      <4>1. EarlierNext(f.src, f.seq)
        BY <2>2, <2>5, <3>2
      <4> QED BY <3>2, <4>1, Zenon DEF f
    <3> QED BY <2>3, <3>1, <3>2
  <2>6. BroadcastsPast'
    <3>1. ASSUME NEW m \in Node, inbound'[m] # NoFrame, inbound'[m].dest = Broadcast
          PROVE  /\ EarlierNext(inbound'[m].src, inbound'[m].seq)
                 /\ \A i \in DOMAIN sentUp'[m] :
                       sentUp'[m][i].dest = Broadcast /\ sentUp'[m][i].src = inbound'[m].src
                       => sentUp'[m][i].seq < inbound'[m].seq
      <4>1. m # n /\ inbound'[m] = inbound[m] /\ sentUp'[m] = sentUp[m]
        BY <1>3, <2>1, <3>1
      <4>2. EarlierNext(inbound[m].src, inbound[m].seq)
        BY <1>5, <3>1, <4>1
      <4>3. EarlierNext(inbound'[m].src, inbound'[m].seq)
        BY <4>1, <4>2, Zenon
      <4> QED BY <1>5, <3>1, <4>1, <4>3
    <3> QED BY <2>5, <3>1 DEF BroadcastsPast, Earlier, EarlierNext
  <2> QED BY <2>4, <2>6 DEF Past
<1> QED BY <1>6, <1>7 DEF Receives

LEMMA PastStep == IInv /\ Accounted /\ Past /\ [Next]_vars => Past'
<1> SUFFICES ASSUME IInv, Accounted, Past, [Next]_vars PROVE Past'
  OBVIOUS
<1>1. CASE UNCHANGED <<inbound, sentUp, SeqNrChild>>
  <2>1. UnicastsPast'
    BY <1>1 DEF Past, UnicastsPast
  <2>2. \A n \in Node, x \in Nat : Earlier(n, x) => EarlierNext(n, x)
    BY EarlierStays
  <2>3. BroadcastsPast'
    BY <1>1, <2>2, UpEntries, InboundBroadcast DEF Past, BroadcastsPast, Earlier, EarlierNext
  <2> QED BY <2>1, <2>3 DEF Past
<1>2. ASSUME NEW n \in Node, Transmits(n) PROVE Past'
  BY <1>2, TransmitsStep
<1>3. ASSUME NEW n \in Node, Receives(n) PROVE Past'
  BY <1>3, ReceivesStep
<1> QED BY <1>1, <1>2, <1>3, FrameSteps

LEMMA InitPast == Init => Past
<1> SUFFICES ASSUME Init, NEW n \in Node
             PROVE  inbound[n] = NoFrame /\ DOMAIN sentUp[n] = {}
  BY DEF Past, UnicastsPast, BroadcastsPast
<1>1. inbound[n] = NoFrame /\ sentUp[n] = <<>>
  BY Zenon DEF Init
<1> QED BY <1>1

\* The packet passed up last is later than those before it
LaterUp == \A n \in Node :
    sentUp'[n] # sentUp[n] /\ macState[n] # "CCA_3" =>
       LET new == sentUp'[n][Len(sentUp'[n])]
       IN  \A i \in DOMAIN sentUp[n] :
              sentUp[n][i].src = new.src /\ sentUp[n][i].dest = new.dest
              => sentUp[n][i].seq < new.seq

LEMMA UpInOrderStep == IInv /\ Past /\ [Next]_vars => LaterUp
<1> SUFFICES ASSUME IInv, Past, [Next]_vars, NEW n \in Node,
                    sentUp'[n] # sentUp[n], macState[n] # "CCA_3",
                    NEW i \in DOMAIN sentUp[n],
                    sentUp[n][i].src = sentUp'[n][Len(sentUp'[n])].src,
                    sentUp[n][i].dest = sentUp'[n][Len(sentUp'[n])].dest
             PROVE  sentUp[n][i].seq < sentUp'[n][Len(sentUp'[n])].seq
  BY DEF LaterUp
<1> DEFINE f == inbound[n]
<1>1. sentUp \in [Node -> Seq(Packet)]
  BY DEF IInv, TypeOK, UpTypeOK
<1>2. PICK m \in Node : Receives(m) /\ sentUp' # sentUp
  BY FrameSteps DEF Transmits
<1>3. m = n
  BY <1>1, <1>2 DEF Receives
<1>4. /\ f # NoFrame /\ f \in Packet
      /\ sentUp' = [sentUp EXCEPT ![n] = Append(@, f)]
      /\ \/ f.dest = Broadcast
         \/ f.dest = n /\ SeqNrChild[n][f.src] <= f.seq
  BY <1>2, <1>3 DEF Receives
<1>5. sentUp'[n][Len(sentUp'[n])] = f
  <2>1. sentUp'[n] = Append(sentUp[n], f) /\ sentUp[n] \in Seq(Packet)
    BY <1>1, <1>4
  <2> HIDE DEF f
  <2> QED BY <1>4, <2>1, AppendProperties
<1>6. sentUp[n][i].src = f.src /\ sentUp[n][i].dest = f.dest
  BY <1>5
<1>7. CASE f.dest = Broadcast
  BY <1>4, <1>5, <1>6, <1>7 DEF Past, BroadcastsPast
<1>8. CASE f.dest = n /\ SeqNrChild[n][f.src] <= f.seq
  <2>1. sentUp[n][i].seq < SeqNrChild[n][f.src]
    BY <1>6, <1>8 DEF Past, UnicastsPast
  <2>2. sentUp[n][i].seq \in Nat /\ f.seq \in Nat /\ SeqNrChild[n][f.src] \in Nat
    BY <1>4, UpEntries DEF Packet, IInv, TypeOK, SeqNrTypeOK
  <2> QED BY <1>5, <1>8, <2>1, <2>2
<1> QED BY <1>4, <1>7, <1>8

-----------------------------------------------------------------------------
(* The theorems                                                             *)

\* The inductive invariant holds in every reachable state of every instance.
THEOREM Invariance == Spec => []IInv
BY InitIInv, NextStep, PTL DEF Spec

\* Type correctness.
THEOREM TypeCorrect == Spec => []TypeOK
<1>1. IInv => TypeOK
  BY DEF IInv
<1> QED BY Invariance, <1>1, PTL

\* The timer of each state, and no other, is scheduled: the MAC is never left
\* without the event that ends its state, and no timer reaches fsmError.
THEOREM TimersMatch == Spec => []TimerOfState
<1>1. IInv => TimerOfState
  BY DEF IInv
<1> QED BY Invariance, <1>1, PTL

\* The physical layer holds a frame exactly while the MAC is transmitting.
THEOREM TransmissionsMatch == Spec => []OneTransmission
<1>1. IInv => OneTransmission
  BY DEF IInv
<1> QED BY Invariance, <1>1, PTL

\* macQueue.front() is never called on an empty queue, and a suspended cycle
\* still has its packet.
THEOREM HeadAlwaysPresent == Spec => []HeadPresent
<1>1. IInv => HeadPresent
  BY DEF IInv
<1> QED BY Invariance, <1>1, PTL

\* No acknowledgement is overwritten or missing during the SIFS, and the radio
\* listens in every state that waits for a frame.
THEOREM SifsUndisturbed == Spec => [](AckReady /\ NeverDeaf /\ NoFrameDuringSifs)
<1>1. IInv => AckReady /\ NeverDeaf /\ NoFrameDuringSifs
  BY DEF IInv
<1> QED BY Invariance, <1>1, PTL

\* No packet goes on the air more than macMaxFrameRetries + 2 times and no
\* backoff is started beyond macMaxCSMABackoffs.
THEOREM EffortBounded == Spec => []BoundedEffort
<1>1. IInv => BoundedEffort
  <2> SUFFICES ASSUME IInv, NEW n \in Node
               PROVE  /\ txCount[n] <= macMaxFrameRetries + 2
                      /\ NB[n] <= macMaxCSMABackoffs + 1
                      /\ macState[n] \in {"BACKOFF_2", "CCA_3"} => NB[n] <= macMaxCSMABackoffs
                      /\ BE[n] <= macMaxBE
    BY DEF BoundedEffort
  <2>1. txCount[n] <= macMaxFrameRetries + 2
    <3>1. txAttempts[n] \in Nat /\ macMaxFrameRetries \in Nat
      BY ParameterAssumption DEF IInv, TypeOK, CycleTypeOK
    <3>2. txAttempts[n] <= macMaxFrameRetries + 1
      BY DEF IInv, AttemptsCounted
    <3>3. txCount[n] = txAttempts[n] \/ txCount[n] = txAttempts[n] + 1
      BY <3>1 DEF IInv, AttemptsCounted
    <3> QED BY <3>1, <3>2, <3>3
  <2> QED BY <2>1 DEF IInv, CycleBounded
<1> QED BY Invariance, <1>1, PTL

\* Every unicast packet taken from the upper layer is in the queue or was answered,
\* once: in every instance, under every loss and interleaving.
THEOREM EachPacketAnswered == Spec => []OneVerdict
<1>1. Spec => []Accounted
  BY Invariance, InitAccounted, AccountedStep, PTL DEF Spec
<1> QED BY Invariance, <1>1, AccountedPlaces, PTL

\* A cycle suspended to acknowledge a frame resumes with the same packet and counters.
THEOREM CycleResumes == Spec => ResumeAsSuspended
<1>1. IInv /\ [Next]_vars =>
        [\A n \in Node : interrupted[n] =>
            /\ NB'[n] = NB[n] /\ BE'[n] = BE[n] /\ txAttempts'[n] = txAttempts[n]
            /\ Head(macQueue'[n]) = Head(macQueue[n])]_vars
  BY SuspendedStep DEF SameCycle
<1> QED BY Invariance, <1>1, PTL DEF Spec, ResumeAsSuspended

\* Whatever is lost, sent again or delayed, packets of one source and address go up
\* in order and once, but for the duplicates passed up in CCA_3.
THEOREM PassedUpInOrder == Spec => UpInOrderOnce
<1>1. Spec => []Accounted
  BY Invariance, InitAccounted, AccountedStep, PTL DEF Spec
<1>2. Spec => []Past
  BY Invariance, <1>1, InitPast, PastStep, PTL DEF Spec
<1>3. IInv /\ Past /\ [Next]_vars => [LaterUp]_vars
  BY UpInOrderStep
<1> QED BY Invariance, <1>2, <1>3, PTL DEF Spec, UpInOrderOnce, LaterUp
=============================================================================
