----------------------------- MODULE BMACProofs -----------------------------
(***************************************************************************)
(* Proofs about BMAC, for any network, any packets and any moments of      *)
(* wakeup, as long as switches are quick and the timeout outlasts a        *)
(* preamble: when the data of a node begins that has sent alone since its  *)
(* first preamble, its neighbours are awake or wake up at once, those      *)
(* excepted that have packets themselves; and no timer is refused by the   *)
(* kernel but the wakeup of a MAC that is given data in its sleep.         *)
(*                                                                         *)
(* The invariant has three parts.  NodeOK is about one node: which timers  *)
(* run in each state of its MAC, what its radio may do meanwhile, what its *)
(* receiver measures and what lies between the nic and the MAC.  LinkOK is *)
(* about a frame on its way: it is over at the receiver when it is over at *)
(* the sender.  Pair is about a node that sends alone and one neighbour: a *)
(* sleeping neighbour wakes up before the preambles are over, or hardly    *)
(* later (Fits), and one that waits for the data will meet a preamble      *)
(* before it gives up, or may give up and sleep for a slot (Ready).        *)
(*                                                                         *)
(* First the effects of the handlers, field by field; then what each does  *)
(* to NodeOK, LinkOK and Pair, with the two nodes as records; then the     *)
(* steps of the specification, one lemma each; last the timers that each   *)
(* step schedules.                                                         *)
(***************************************************************************)
EXTENDS BMAC, SequenceTheorems, FiniteSetTheorems, TLAPS

-----------------------------------------------------------------------------
(* The fields of a MAC and of a nic *)

MacFields ==
  {"macState", "macQueue", "sendData", "indication", "wakeup", "checkChannel", "timeoutData",
   "sendPreambles", "error", "cmd", "tx", "up"}

\* m2 differs from m in the fields C at most.
Alters(m, m2, C) ==
  /\ MacFields \subseteq DOMAIN m /\ MacFields \subseteq DOMAIN m2
  /\ \A x \in MacFields \ C : m2[x] = m[x]

NicFields == {"radioState", "switchTimer", "txOverTimer", "recvBuff", "ptr", "sList", "missed",
              "noiseLevel", "rssi", "indication"}

NicAlters(c, d, C) ==
  /\ NicFields \subseteq DOMAIN c /\ NicFields \subseteq DOMAIN d
  /\ \A x \in NicFields \ C : d[x] = c[x]

Timer == Nat \cup {Off}

Data == [kind : {"data"}, src : Node, dest : Node \cup {L2BROADCAST}, id : Nat]
Preamble == [kind : {"BMAC_CONTROL"}, src : Node, dest : {L2BROADCAST}, id : {0}]
Frame == Data \cup Preamble

LEMMA Constants ==
  /\ slotDuration \in Nat /\ CheckTime \in Nat /\ DataTimeout \in Nat /\ SoonTime \in Nat
  /\ PreambleTime \in Nat /\ DataTime \in Nat /\ slotDuration > 0 /\ CheckTime > 0 /\ DataTimeout > 0
  /\ SoonTime > 0 /\ PreambleTime > 0 /\ DataTime > 0 /\ queueLength \in Nat /\ queueLength > 0
  /\ swSleep \in Nat /\ swSend \in Nat /\ swRecv \in Nat /\ NoFrame \notin Node
  /\ Off = -1 /\ Off \notin Nat
  /\ \A s, n \in Node : Power[s][n] \in Nat
  /\ \A f \in Frame : Duration(f) \in Nat /\ Duration(f) > 0
  /\ \A f \in Preamble : Duration(f) = PreambleTime
BY BMACAssumption, SnrNicAssumption DEF Off, Duration, Frame, Preamble, Data

LEMMA RadioStates ==
  /\ Steady = {"SLEEP", "RECV", "SEND"}
  /\ DOMAIN Switching = {"SWITCH_TO_SLEEP", "SWITCH_TO_RECV", "SWITCH_TO_SEND"}
  /\ Switching["SWITCH_TO_SLEEP"] = "SLEEP" /\ Switching["SWITCH_TO_RECV"] = "RECV"
  /\ Switching["SWITCH_TO_SEND"] = "SEND"
  /\ SwitchTime("SWITCH_TO_SLEEP") = swSleep /\ SwitchTime("SWITCH_TO_RECV") = swRecv
  /\ SwitchTime("SWITCH_TO_SEND") = swSend
BY DEF Steady, Switching, SwitchTime

-----------------------------------------------------------------------------
(* What the frames on the air at n add to the noise *)

\* One element for each unit of power of a frame of S
Units(n, S) == UNION {{s} \X (1..Power[s][n]) : s \in S}
Weight(n, S) == Cardinality(Units(n, S))

LEMMA UnitsOfOne ==
  ASSUME NEW n \in Node, NEW s \in Node
  PROVE  /\ IsFiniteSet({s} \X (1..Power[s][n]))
         /\ Cardinality({s} \X (1..Power[s][n])) = Power[s][n]
<1>. DEFINE p == Power[s][n]
<1>1. p \in Nat
  BY Constants
<1>. HIDE DEF p
<1>2. IsFiniteSet(1..p) /\ Cardinality(1..p) = p
  BY <1>1, FS_Interval
<1>3. IsFiniteSet({s}) /\ Cardinality({s}) = 1
  BY FS_Singleton
<1>4. /\ IsFiniteSet({s} \X (1..p))
      /\ Cardinality({s} \X (1..p)) = Cardinality({s}) * Cardinality(1..p)
  BY <1>2, <1>3, FS_Product
<1>. QED  BY <1>1, <1>2, <1>3, <1>4 DEF p

LEMMA UnitsFinite ==
  ASSUME NEW n \in Node, NEW S \in SUBSET Node, IsFiniteSet(S)
  PROVE  IsFiniteSet(Units(n, S)) /\ Weight(n, S) \in Nat
<1>. DEFINE block == [s \in S |-> {s} \X (1..Power[s][n])]
            U == {{s} \X (1..Power[s][n]) : s \in S}
<1>1. IsFiniteSet(U)
  <2>1. block \in Surjection(S, U)
    BY DEF Surjection
  <2>. HIDE DEF U, block
  <2>. QED  BY <2>1, FS_Surjection
<1>2. \A T \in U : IsFiniteSet(T)
  BY UnitsOfOne
<1>3. IsFiniteSet(UNION U)
  BY <1>1, <1>2, FS_UNION
<1>. QED  BY <1>3, FS_CardinalityType DEF Units, Weight

LEMMA WeightOfNone == ASSUME NEW n PROVE Weight(n, {}) = 0
<1>1. Units(n, {}) = {}
  BY DEF Units
<1>. QED  BY <1>1, FS_EmptySet DEF Weight

LEMMA WeightOfMore ==
  ASSUME NEW n \in Node, NEW S \in SUBSET Node, IsFiniteSet(S), NEW s \in Node \ S
  PROVE  Weight(n, S \cup {s}) = Weight(n, S) + Power[s][n]
<1>. DEFINE One == {s} \X (1..Power[s][n])
<1>1. Units(n, S \cup {s}) = Units(n, S) \cup One
  BY DEF Units
<1>2. Units(n, S) \cap One = {}
  BY DEF Units
<1>3. IsFiniteSet(Units(n, S)) /\ IsFiniteSet(One) /\ Cardinality(One) = Power[s][n]
  BY UnitsFinite, UnitsOfOne
<1>4. Cardinality(Units(n, S) \cup One)
        = Cardinality(Units(n, S)) + Cardinality(One) - Cardinality(Units(n, S) \cap One)
  BY <1>3, FS_Union
<1>5. Cardinality(Units(n, S) \cap One) = 0
  BY <1>2, FS_EmptySet
<1>6. Cardinality(Units(n, S)) \in Nat /\ Power[s][n] \in Nat
  BY UnitsFinite, Constants DEF Weight
<1>7. Weight(n, S \cup {s}) = Cardinality(Units(n, S) \cup One)
  BY <1>1, Zenon DEF Weight
<1>. HIDE DEF One
<1>. QED  BY <1>3, <1>4, <1>5, <1>6, <1>7 DEF Weight

LEMMA WeightOfLess ==
  ASSUME NEW n \in Node, NEW S \in SUBSET Node, IsFiniteSet(S), NEW s \in S
  PROVE  Weight(n, S \ {s}) = Weight(n, S) - Power[s][n]
<1>1. IsFiniteSet(S \ {s}) /\ S = (S \ {s}) \cup {s}
  BY FS_RemoveElement
<1>2. Weight(n, (S \ {s}) \cup {s}) = Weight(n, S \ {s}) + Power[s][n]
  BY <1>1, WeightOfMore
<1>3. Weight(n, S \ {s}) \in Nat /\ Power[s][n] \in Nat
  BY <1>1, UnitsFinite, Constants
<1>4. Weight(n, (S \ {s}) \cup {s}) = Weight(n, S)
  BY <1>1, Zenon
<1>. QED  BY <1>2, <1>3, <1>4

-----------------------------------------------------------------------------
(* The receiver of a node *)

EntryFields == {"frame", "left", "duration"}

NicTyped(c) ==
  /\ NicFields \subseteq DOMAIN c
  /\ c.radioState \in Steady \cup DOMAIN Switching
  /\ c.switchTimer \in Timer /\ (c.switchTimer = Off <=> c.radioState \in Steady)
  /\ c.txOverTimer \in Timer
  /\ DOMAIN c.recvBuff \in SUBSET Node /\ IsFiniteSet(DOMAIN c.recvBuff)
  /\ \A s \in DOMAIN c.recvBuff : /\ EntryFields \subseteq DOMAIN c.recvBuff[s]
                                  /\ c.recvBuff[s].left \in Nat /\ c.recvBuff[s].frame \in Frame

\* The frame that is received is one of those on the air, and the others are the noise.
Receiver(n, m, c) ==
  /\ c.ptr \in DOMAIN c.recvBuff \cup {NoFrame}
  /\ c.noiseLevel = thermalNoise + Weight(n, DOMAIN c.recvBuff \ {c.ptr})
  /\ c.indication = IF c.ptr = NoFrame THEN "IDLE" ELSE "BUSY"
  /\ m.indication \in {"IDLE", "BUSY"} /\ (c.radioState = "RECV" => m.indication = c.indication)

\* A list with one entry, of a clear signal
Clear(list) == \E e : list = <<e>> /\ "clear" \in DOMAIN e /\ e.clear

LEMMA addNewSnrEffect ==
  ASSUME NEW c, NEW n, NicFields \subseteq DOMAIN c
  PROVE  /\ NicAlters(c, addNewSnr(c, n), {"sList"})
         /\ addNewSnr(c, n).sList = Append(c.sList, [clear |-> clearNow(c, c.ptr, c.noiseLevel, n),
                                                     made |-> "now"])
BY DEF addNewSnr, NicAlters, NicFields

Measured == {"sList", "missed", "noiseLevel", "rssi", "indication", "recvBuff", "ptr"}

\* Frame f of s, which lasts t, has begun.
Started(c, d, n, s, f, t) ==
  /\ NicAlters(c, d, Measured)
  /\ DOMAIN d.recvBuff = DOMAIN c.recvBuff \cup {s}
  /\ d.recvBuff[s].frame = f /\ d.recvBuff[s].left = t /\ EntryFields \subseteq DOMAIN d.recvBuff[s]
  /\ \A x \in DOMAIN c.recvBuff : d.recvBuff[x] = c.recvBuff[x]
  /\ IsSignal(c, n, s) =>
       /\ d.ptr = s /\ d.indication = "BUSY" /\ d.noiseLevel = c.noiseLevel
       /\ Power[s][n] > SnrThreshold * c.noiseLevel => Clear(d.sList)
  /\ ~IsSignal(c, n, s) => d.ptr = c.ptr /\ d.indication = c.indication
                           /\ d.noiseLevel = c.noiseLevel + Power[s][n]

LEMMA StartEffect ==
  ASSUME NEW c, NicFields \subseteq DOMAIN c, NEW n, NEW s, s \notin DOMAIN c.recvBuff, NEW f, NEW t
  PROVE  Started(c, handleLowerMsgStart(c, n, s, f, t), n, s, f, t)
<1>. DEFINE entry == [frame |-> f, left |-> t, duration |-> t]
            buff == [x \in DOMAIN c.recvBuff \cup {s} |-> IF x = s THEN entry ELSE c.recvBuff[x]]
            heard == Heard(c, s, f, t)
            noisier == [heard EXCEPT !.noiseLevel = @ + Power[s][n], !.rssi = @ + heard.noiseLevel + Power[s][n]]
            caught == [heard EXCEPT !.ptr = s, !.sList = <<>>, !.missed = 0]
            listed == addNewSnr(caught, n)
            signal == [listed EXCEPT !.rssi = @ + Power[s][n], !.indication = "BUSY"]
            d == handleLowerMsgStart(c, n, s, f, t)
<1>1. d = IF IsSignal(c, n, s) THEN signal
          ELSE IF c.ptr = NoFrame THEN noisier ELSE addNewSnr(noisier, n)
  BY DEF handleLowerMsgStart
<1>2. heard = [c EXCEPT !.recvBuff = buff]
  BY DEF Heard
<1>3. /\ DOMAIN buff = DOMAIN c.recvBuff \cup {s} /\ buff[s].frame = f /\ buff[s].left = t
      /\ EntryFields \subseteq DOMAIN buff[s]
      /\ \A x \in DOMAIN c.recvBuff : buff[x] = c.recvBuff[x]
  BY DEF EntryFields
<1>. HIDE DEF buff, d, heard
<1>4. NicAlters(c, heard, {"recvBuff"}) /\ heard.recvBuff = buff
  BY <1>2 DEF NicAlters, NicFields
<1>5. NicAlters(heard, noisier, {"noiseLevel", "rssi"}) /\ noisier.noiseLevel = c.noiseLevel + Power[s][n]
  BY <1>4 DEF NicAlters, NicFields
<1>6. /\ NicAlters(heard, caught, {"ptr", "sList", "missed"}) /\ caught.ptr = s /\ caught.sList = <<>>
      /\ caught.noiseLevel = c.noiseLevel
  BY <1>4 DEF NicAlters, NicFields
<1>. HIDE DEF noisier, caught
<1>b. NicFields \subseteq DOMAIN noisier /\ NicFields \subseteq DOMAIN caught
  BY <1>5, <1>6 DEF NicAlters
<1>7. NicAlters(noisier, addNewSnr(noisier, n), {"sList"}) /\ NicAlters(caught, listed, {"sList"})
  BY <1>b, addNewSnrEffect
<1>a. listed.sList = <<[clear |-> clearNow(caught, s, c.noiseLevel, n), made |-> "now"]>>
  <2>1. NicFields \subseteq DOMAIN caught
    BY <1>6 DEF NicAlters
  <2>2. listed.sList = Append(<<>>, [clear |-> clearNow(caught, s, c.noiseLevel, n), made |-> "now"])
    BY <1>6, <2>1, addNewSnrEffect
  <2>. QED  BY <2>2
<1>. HIDE DEF listed
<1>8. NicAlters(listed, signal, {"rssi", "indication"}) /\ signal.indication = "BUSY" /\ signal.sList = listed.sList
  BY <1>7 DEF NicAlters, NicFields
<1>. HIDE DEF signal
<1>9. /\ NicAlters(heard, signal, {"rssi", "indication", "sList", "ptr", "missed"}) /\ signal.ptr = s
      /\ signal.noiseLevel = c.noiseLevel
  BY <1>4, <1>6, <1>7, <1>8 DEF NicAlters, NicFields
<1>10. NicAlters(heard, addNewSnr(noisier, n), {"noiseLevel", "rssi", "sList"})
  BY <1>5, <1>7 DEF NicAlters
<1>11. CASE IsSignal(c, n, s)
  <2>1. NicAlters(c, d, Measured) /\ d.recvBuff = buff
    BY <1>1, <1>4, <1>9, <1>11 DEF NicAlters, NicFields, Measured
  <2>2. Power[s][n] > SnrThreshold * c.noiseLevel => Clear(d.sList)
    <3>. HAVE Power[s][n] > SnrThreshold * c.noiseLevel
    <3>. DEFINE e == [clear |-> clearNow(caught, s, c.noiseLevel, n), made |-> "now"]
    <3>1. e.clear
      <4>1. clearNow(caught, s, c.noiseLevel, n)
        BY DEF clearNow
      <4>. QED  BY <4>1
    <3>2. d.sList = <<e>>
      BY <1>1, <1>a, <1>8, <1>11
    <3>. QED  BY <3>1, <3>2 DEF Clear
  <2>3. Started(c, d, n, s, f, t)
    BY <1>1, <1>3, <1>8, <1>9, <1>11, <2>1, <2>2 DEF Started
  <2>. QED  BY <2>3 DEF d
<1>12. CASE ~IsSignal(c, n, s)
  <2>1. NicAlters(heard, d, {"noiseLevel", "rssi", "sList"}) /\ d.noiseLevel = c.noiseLevel + Power[s][n]
    <3>1. NicAlters(heard, noisier, {"noiseLevel", "rssi", "sList"})
      BY <1>5 DEF NicAlters
    <3>2. addNewSnr(noisier, n).noiseLevel = noisier.noiseLevel
      BY <1>7 DEF NicAlters, NicFields
    <3>. QED  BY <1>1, <1>5, <1>10, <1>12, <3>1, <3>2
  <2>2. NicAlters(c, d, Measured) /\ d.recvBuff = buff
        /\ d.ptr = c.ptr /\ d.indication = c.indication
    BY <1>4, <2>1 DEF NicAlters, NicFields, Measured
  <2>3. Started(c, d, n, s, f, t)
    BY <1>3, <1>12, <2>1, <2>2 DEF Started
  <2>. QED  BY <2>3 DEF d
<1>. QED  BY <1>11, <1>12

\* The frame of s has ended.
Ended(c, d, n, s) ==
  /\ NicAlters(c, d, Measured)
  /\ DOMAIN d.recvBuff = DOMAIN c.recvBuff \ {s}
  /\ \A x \in DOMAIN c.recvBuff \ {s} : d.recvBuff[x] = c.recvBuff[x]
  /\ s = c.ptr => d.ptr = NoFrame /\ d.indication = "IDLE" /\ d.noiseLevel = c.noiseLevel
  /\ s # c.ptr => d.ptr = c.ptr /\ d.indication = c.indication
                  /\ d.noiseLevel = c.noiseLevel - Power[s][n]

LEMMA EndEffect ==
  ASSUME NEW c, NicFields \subseteq DOMAIN c, NEW n, NEW s
  PROVE  Ended(c, handleLowerMsgEnd(c, n, s), n, s)
<1>. DEFINE left == Restrict(c.recvBuff, DOMAIN c.recvBuff \ {s})
            gone == [c EXCEPT !.recvBuff = left]
            quieter == [gone EXCEPT !.noiseLevel = @ - Power[s][n], !.rssi = c.noiseLevel - Power[s][n]]
            ended == [gone EXCEPT !.ptr = NoFrame, !.sList = <<>>, !.missed = 0,
                                  !.rssi = c.noiseLevel, !.indication = "IDLE"]
            d == handleLowerMsgEnd(c, n, s)
<1>1. DOMAIN left = DOMAIN c.recvBuff \ {s} /\ \A x \in DOMAIN left : left[x] = c.recvBuff[x]
  BY DEF Restrict
<1>2. d = IF s = c.ptr THEN ended ELSE IF c.ptr = NoFrame THEN quieter ELSE addNewSnr(quieter, n)
  BY DEF handleLowerMsgEnd
<1>. HIDE DEF left, d
<1>3. NicAlters(c, gone, {"recvBuff"}) /\ gone.recvBuff = left
  BY DEF NicAlters, NicFields
<1>. HIDE DEF gone
<1>4. /\ NicAlters(gone, quieter, {"noiseLevel", "rssi"}) /\ quieter.noiseLevel = c.noiseLevel - Power[s][n]
      /\ NicAlters(gone, ended, {"ptr", "sList", "missed", "rssi", "indication"})
      /\ ended.ptr = NoFrame /\ ended.indication = "IDLE" /\ ended.noiseLevel = c.noiseLevel
  BY <1>3 DEF NicAlters, NicFields
<1>. HIDE DEF quieter, ended
<1>5. NicAlters(quieter, addNewSnr(quieter, n), {"sList"})
  BY <1>4, addNewSnrEffect DEF NicAlters
<1>a. addNewSnr(quieter, n).noiseLevel = quieter.noiseLevel
  BY <1>5 DEF NicAlters, NicFields
<1>6. CASE s = c.ptr
  <2>1. NicAlters(c, d, Measured) /\ d.recvBuff = left
    BY <1>2, <1>3, <1>4, <1>6 DEF NicAlters, NicFields, Measured
  <2>2. Ended(c, d, n, s)
    BY <1>1, <1>2, <1>4, <1>6, <2>1 DEF Ended
  <2>. QED  BY <2>2 DEF d
<1>7. CASE s # c.ptr
  <2>1. NicAlters(gone, d, {"noiseLevel", "rssi", "sList"}) /\ d.noiseLevel = c.noiseLevel - Power[s][n]
    BY <1>2, <1>4, <1>5, <1>a, <1>7 DEF NicAlters
  <2>2. NicAlters(c, d, Measured) /\ d.recvBuff = left
        /\ d.ptr = c.ptr /\ d.indication = c.indication
    BY <1>3, <2>1 DEF NicAlters, NicFields, Measured
  <2>3. Ended(c, d, n, s)
    BY <1>1, <1>7, <2>1, <2>2 DEF Ended
  <2>. QED  BY <2>3 DEF d
<1>. QED  BY <1>6, <1>7

LEMMA ClearGoesUp == ASSUME NEW c, Clear(c.sList) PROVE snrOverThreshold(c)
<1>. DEFINE list == c.sList
            later == {i \in DOMAIN list : list[i].made # "before"}
<1>1. PICK e : list = <<e>> /\ e.clear
  BY DEF Clear
<1>2. Len(list) = 1 /\ DOMAIN list = {1} /\ list[1] = e
  BY <1>1
<1>3. CASE e.made # "before"
  <2>1. SnrListUp(c) = list
    BY <1>2, <1>3 DEF SnrListUp
  <2>. QED  BY <1>1, <1>2, <2>1 DEF snrOverThreshold
<1>4. CASE e.made = "before"
  <2>1. later = {}
    BY <1>2, <1>4
  <2>2. SnrListUp(c) = SubSeq(list, 1, 1)
    BY <1>2, <1>4, <2>1 DEF SnrListUp, modifySnrList
  <2>3. SubSeq(list, 1, 1) = <<e>>
    <3>. DEFINE l == SubSeq(list, 1, 1)
    <3>1. list \in Seq({e})
      BY <1>1
    <3>2. l \in Seq({e}) /\ Len(l) = 1 /\ l[1] = list[1]
      BY <1>2, <3>1, SubSeqProperties
    <3>3. <<e>> \in Seq({e}) /\ Len(<<e>>) = 1 /\ <<e>>[1] = e
      OBVIOUS
    <3>. HIDE DEF l
    <3>4. l = <<e>>
      BY <1>2, <3>2, <3>3, SeqEqual
    <3>. QED  BY <3>4 DEF l
  <2>4. SnrListUp(c) = <<e>>
    BY <2>2, <2>3
  <2>. QED  BY <1>1, <2>4 DEF snrOverThreshold
<1>. QED  BY <1>3, <1>4

LEMMA ClearStays ==
  ASSUME NEW list, Clear(list), NEW from, NEW to
  PROVE  Clear([i \in DOMAIN list |-> IF list[i].made = from THEN [list[i] EXCEPT !.made = to] ELSE list[i]])
<1>1. PICK e : list = <<e>> /\ "clear" \in DOMAIN e /\ e.clear
  BY DEF Clear
<1>. DEFINE d == IF e.made = from THEN [e EXCEPT !.made = to] ELSE e
<1>2. "clear" \in DOMAIN d
  BY <1>1
<1>3. d.clear = e.clear
  BY <1>1
<1>4. [i \in DOMAIN list |-> IF list[i].made = from THEN [list[i] EXCEPT !.made = to] ELSE list[i]] = <<d>>
  BY <1>1
<1>. HIDE DEF d
<1>5. d.clear
  BY <1>1, <1>3
<1>. QED  BY <1>2, <1>4, <1>5 DEF Clear

\* The radio has entered the state that it was switching to.
Switched(c, d) ==
  /\ NicAlters(c, d, {"radioState", "switchTimer", "sList", "missed"})
  /\ d.radioState = Switching[c.radioState] /\ d.switchTimer = Off
  /\ Clear(c.sList) => Clear(d.sList)

LEMMA SwitchEffect ==
  ASSUME NEW c, NicFields \subseteq DOMAIN c
  PROVE  Switched(c, SwitchDone(c))
<1>. DEFINE done == [c EXCEPT !.radioState = Switching[c.radioState], !.switchTimer = Off]
            d == SwitchDone(c)
<1>1. /\ NicAlters(c, done, {"radioState", "switchTimer"})
      /\ done.radioState = Switching[c.radioState] /\ done.switchTimer = Off
  BY DEF NicAlters, NicFields
<1>2. d = IF done.radioState = "RECV" THEN EnterRecv(done) ELSE done
  BY DEF SwitchDone
<1>. HIDE DEF done, d
<1>3. NicAlters(done, EnterRecv(done), {"sList", "missed"})
  BY <1>1 DEF EnterRecv, NicAlters, NicFields
<1>4. Clear(done.sList) => Clear(EnterRecv(done).sList)
  <2>. DEFINE l == [i \in DOMAIN done.sList |-> IF done.sList[i].made = "earlier"
                                                THEN [done.sList[i] EXCEPT !.made = "before"] ELSE done.sList[i]]
  <2>1. EnterRecv(done).sList = l
    BY <1>1 DEF EnterRecv, NicAlters, NicFields
  <2>2. Clear(done.sList) => Clear(l)
    BY ClearStays
  <2>. HIDE DEF l
  <2>. QED  BY <2>1, <2>2
<1>5. done.sList = c.sList
  BY <1>1 DEF NicAlters, NicFields
<1>6. NicAlters(done, d, {"sList", "missed"})
  BY <1>1, <1>2, <1>3 DEF NicAlters
<1>7. NicAlters(c, d, {"radioState", "switchTimer", "sList", "missed"})
      /\ d.radioState = Switching[c.radioState] /\ d.switchTimer = Off
  BY <1>1, <1>6 DEF NicAlters, NicFields
<1>8. Clear(c.sList) => Clear(d.sList)
  BY <1>2, <1>4, <1>5
<1>. QED  BY <1>7, <1>8 DEF Switched, d

\* A unit of time has passed.
Older(c, d) ==
  /\ NicAlters(c, d, {"switchTimer", "txOverTimer", "recvBuff", "sList"})
  /\ d.switchTimer = Later(c.switchTimer, 1) /\ d.txOverTimer = Later(c.txOverTimer, 1)
  /\ DOMAIN d.recvBuff = DOMAIN c.recvBuff
  /\ \A s \in DOMAIN c.recvBuff : /\ EntryFields \subseteq DOMAIN d.recvBuff[s]
                                  /\ d.recvBuff[s].left = c.recvBuff[s].left - 1
                                  /\ d.recvBuff[s].frame = c.recvBuff[s].frame
  /\ Clear(c.sList) => Clear(d.sList)

LEMMA AfterEffect ==
  ASSUME NEW c, NicTyped(c)
  PROVE  Older(c, NicAfter(c, 1))
<1>. DEFINE d == NicAfter(c, 1)
            buff == [s \in DOMAIN c.recvBuff |-> [c.recvBuff[s] EXCEPT !.left = @ - 1]]
            l == [i \in DOMAIN c.sList |-> IF c.sList[i].made = "now"
                                           THEN [c.sList[i] EXCEPT !.made = "earlier"] ELSE c.sList[i]]
<1>1. d = [c EXCEPT !.switchTimer = Later(@, 1), !.txOverTimer = Later(@, 1), !.recvBuff = buff, !.sList = l]
  BY DEF NicAfter
<1>2. Clear(c.sList) => Clear(l)
  BY ClearStays
<1>3. /\ DOMAIN buff = DOMAIN c.recvBuff
      /\ \A s \in DOMAIN c.recvBuff : /\ EntryFields \subseteq DOMAIN buff[s]
                                      /\ buff[s].left = c.recvBuff[s].left - 1
                                      /\ buff[s].frame = c.recvBuff[s].frame
  BY DEF NicTyped, EntryFields
<1>. HIDE DEF d, buff, l
<1>4. /\ NicAlters(c, d, {"switchTimer", "txOverTimer", "recvBuff", "sList"})
      /\ d.switchTimer = Later(c.switchTimer, 1) /\ d.txOverTimer = Later(c.txOverTimer, 1)
      /\ d.recvBuff = buff /\ d.sList = l
  BY <1>1 DEF NicTyped, NicAlters, NicFields
<1>5. Older(c, d)
  BY <1>2, <1>3, <1>4 DEF Older
<1>. QED  BY <1>5 DEF d

-----------------------------------------------------------------------------
(* The receiver stays right *)

LEMMA StartReceiver ==
  ASSUME NEW n \in Node, NEW m, NEW c, NicTyped(c), Receiver(n, m, c),
         NEW s \in Node, s \notin DOMAIN c.recvBuff, NEW f \in Frame, NEW d, Started(c, d, n, s, f, Duration(f)),
         NEW k, k.indication = IF IsSignal(c, n, s) /\ c.radioState = "RECV" THEN "BUSY" ELSE m.indication
  PROVE  NicTyped(d) /\ Receiver(n, k, d)
<1>1. Duration(f) \in Nat /\ NoFrame \notin Node
  BY Constants
<1>2. IsFiniteSet(DOMAIN d.recvBuff) /\ IsFiniteSet(DOMAIN c.recvBuff) /\ DOMAIN c.recvBuff \in SUBSET Node
  BY FS_AddElement DEF NicTyped, Started
<1>3. /\ d.radioState = c.radioState /\ d.switchTimer = c.switchTimer /\ d.txOverTimer = c.txOverTimer
      /\ NicFields \subseteq DOMAIN d
  BY DEF Started, NicAlters, NicFields, Measured
<1>4. NicTyped(d)
  BY <1>1, <1>2, <1>3 DEF NicTyped, Started
<1>5. d.noiseLevel = thermalNoise + Weight(n, DOMAIN d.recvBuff \ {d.ptr})
  <2>1. CASE IsSignal(c, n, s)
    <3>1. DOMAIN c.recvBuff \ {c.ptr} = DOMAIN d.recvBuff \ {d.ptr}
      BY <1>1, <1>2, <2>1 DEF IsSignal, Started
    <3>2. d.noiseLevel = c.noiseLevel
      BY <2>1 DEF Started
    <3>. QED  BY <3>1, <3>2, Zenon DEF Receiver
  <2>2. CASE ~IsSignal(c, n, s)
    <3>. DEFINE S == DOMAIN c.recvBuff \ {c.ptr}
    <3>1. DOMAIN d.recvBuff \ {d.ptr} = S \cup {s}
      BY <1>1, <1>2, <2>2 DEF Started, Receiver
    <3>2. IsFiniteSet(S) /\ S \in SUBSET Node /\ s \in Node \ S
      BY <1>2, FS_Subset
    <3>3. Weight(n, S \cup {s}) = Weight(n, S) + Power[s][n] /\ Weight(n, S) \in Nat
      BY <3>2, WeightOfMore, UnitsFinite
    <3>4. d.noiseLevel = c.noiseLevel + Power[s][n] /\ c.noiseLevel = thermalNoise + Weight(n, S)
      BY <2>2 DEF Started, Receiver
    <3>5. thermalNoise \in Nat /\ Power[s][n] \in Nat
      BY SnrNicAssumption, Constants
    <3>. HIDE DEF S
    <3>6. d.noiseLevel = thermalNoise + Weight(n, S \cup {s})
      <4>. DEFINE w == Weight(n, S)
                  p == Power[s][n]
                  v == Weight(n, S \cup {s})
      <4>1. w \in Nat /\ p \in Nat /\ thermalNoise \in Nat /\ v = w + p
            /\ c.noiseLevel = thermalNoise + w /\ d.noiseLevel = c.noiseLevel + p
        BY <3>3, <3>4, <3>5
      <4>. HIDE DEF w, p, v
      <4>2. d.noiseLevel = thermalNoise + v
        BY <4>1
      <4>. QED  BY <4>2 DEF v
    <3>. QED  BY <3>1, <3>6, Zenon
  <2>. QED  BY <2>1, <2>2
<1>6. /\ d.ptr \in DOMAIN d.recvBuff \cup {NoFrame}
      /\ d.indication = IF d.ptr = NoFrame THEN "IDLE" ELSE "BUSY"
  <2>1. CASE IsSignal(c, n, s)
    BY <1>1, <2>1 DEF Started
  <2>2. CASE ~IsSignal(c, n, s)
    BY <2>2 DEF Started, Receiver
  <2>. QED  BY <2>1, <2>2
<1>7. d.radioState = "RECV" => k.indication = d.indication
  <2>1. CASE IsSignal(c, n, s)
    BY <1>3, <2>1 DEF Started
  <2>2. CASE ~IsSignal(c, n, s)
    BY <1>3, <2>2 DEF Started, Receiver
  <2>. QED  BY <2>1, <2>2
<1>. QED  BY <1>4, <1>5, <1>6, <1>7 DEF Receiver

LEMMA EndReceiver ==
  ASSUME NEW n \in Node, NEW m, NEW c, NicTyped(c), Receiver(n, m, c),
         NEW s \in DOMAIN c.recvBuff, NEW d, Ended(c, d, n, s),
         NEW k, k.indication = IF s = c.ptr /\ c.radioState = "RECV" THEN "IDLE" ELSE m.indication
  PROVE  NicTyped(d) /\ Receiver(n, k, d)
<1>1. NoFrame \notin Node
  BY Constants
<1>2. IsFiniteSet(DOMAIN d.recvBuff) /\ IsFiniteSet(DOMAIN c.recvBuff) /\ DOMAIN c.recvBuff \in SUBSET Node
  BY FS_Subset DEF NicTyped, Ended
<1>3. /\ d.radioState = c.radioState /\ d.switchTimer = c.switchTimer /\ d.txOverTimer = c.txOverTimer
      /\ NicFields \subseteq DOMAIN d
  BY DEF Ended, NicAlters, NicFields, Measured
<1>4. NicTyped(d)
  BY <1>1, <1>2, <1>3 DEF NicTyped, Ended
<1>5. d.noiseLevel = thermalNoise + Weight(n, DOMAIN d.recvBuff \ {d.ptr})
  <2>1. CASE s = c.ptr
    <3>1. DOMAIN c.recvBuff \ {c.ptr} = DOMAIN d.recvBuff \ {d.ptr}
      BY <1>1, <1>2, <2>1 DEF Ended
    <3>2. d.noiseLevel = c.noiseLevel
      BY <2>1 DEF Ended
    <3>. QED  BY <3>1, <3>2, Zenon DEF Receiver
  <2>2. CASE s # c.ptr
    <3>. DEFINE S == DOMAIN c.recvBuff \ {c.ptr}
    <3>1. DOMAIN d.recvBuff \ {d.ptr} = S \ {s}
      BY <1>1, <1>2, <2>2 DEF Ended, Receiver
    <3>2. IsFiniteSet(S) /\ S \in SUBSET Node /\ s \in S
      BY <1>2, <2>2, FS_Subset
    <3>3. Weight(n, S \ {s}) = Weight(n, S) - Power[s][n] /\ Weight(n, S) \in Nat
      BY <3>2, WeightOfLess, UnitsFinite
    <3>4. d.noiseLevel = c.noiseLevel - Power[s][n] /\ c.noiseLevel = thermalNoise + Weight(n, S)
      BY <2>2 DEF Ended, Receiver
    <3>5. thermalNoise \in Nat /\ Power[s][n] \in Nat
      BY <1>2, SnrNicAssumption, Constants
    <3>. HIDE DEF S
    <3>6. d.noiseLevel = thermalNoise + Weight(n, S \ {s})
      <4>. DEFINE w == Weight(n, S)
                  p == Power[s][n]
                  v == Weight(n, S \ {s})
      <4>1. w \in Nat /\ p \in Nat /\ thermalNoise \in Nat /\ v = w - p
            /\ c.noiseLevel = thermalNoise + w /\ d.noiseLevel = c.noiseLevel - p
        BY <3>3, <3>4, <3>5
      <4>. HIDE DEF w, p, v
      <4>2. d.noiseLevel = thermalNoise + v
        BY <4>1
      <4>. QED  BY <4>2 DEF v
    <3>. QED  BY <3>1, <3>6, Zenon
  <2>. QED  BY <2>1, <2>2
<1>6. /\ d.ptr \in DOMAIN d.recvBuff \cup {NoFrame}
      /\ d.indication = IF d.ptr = NoFrame THEN "IDLE" ELSE "BUSY"
  <2>1. CASE s = c.ptr
    BY <1>1, <2>1 DEF Ended
  <2>2. CASE s # c.ptr
    BY <2>2 DEF Ended, Receiver
  <2>. QED  BY <2>1, <2>2
<1>7. d.radioState = "RECV" => k.indication = d.indication
  <2>1. CASE s = c.ptr
    BY <1>3, <2>1 DEF Ended
  <2>2. CASE s # c.ptr
    BY <1>3, <2>2 DEF Ended, Receiver
  <2>. QED  BY <2>1, <2>2
<1>. QED  BY <1>4, <1>5, <1>6, <1>7 DEF Receiver

-----------------------------------------------------------------------------
(* What holds of one node: its MAC m, its nic c and what it has sent to its MAC, q *)

\* How far the wakeup of a node that is to receive data may lie behind the beginning of the data
slack == swSend + PreambleTime

\* What is heard is received, if nothing else is heard.
StrongLinks ==
  \A s, n \in Node : Power[s][n] > 0 => Power[s][n] >= sensitivity /\ Power[s][n] > SnrThreshold * thermalNoise

QuickSwitches == swSleep < slotDuration /\ swRecv < CheckTime

LongTimeout == swRecv + PreambleTime < DataTimeout

MacTyped(n, m) ==
  /\ MacFields \subseteq DOMAIN m
  /\ m.macState \in {"SLEEP", "RX", "TX"} /\ m.error = NoError
  /\ m.wakeup \in Timer /\ m.checkChannel \in Timer /\ m.timeoutData \in Timer /\ m.sendPreambles \in Timer
  /\ m.sendData \in BOOLEAN
  /\ m.macQueue \in Seq(Data)

Idle(m) == m.cmd = "none" /\ m.tx = <<>> /\ m.up = {}

\* The timers that run and the state of the radio, in each state of the MAC.  A radio that
\* is still falling asleep when packets come refuses the switches of the next wakeup.
Phase(m, c) ==
  /\ m.macState = "SLEEP" =>
       /\ m.wakeup # Off /\ m.checkChannel = Off /\ m.timeoutData = Off
       /\ m.macQueue = <<>> => m.wakeup <= slotDuration
       /\ c.radioState \in {"SWITCH_TO_SLEEP", "SLEEP", "SWITCH_TO_RECV", "RECV"}
       /\ c.radioState = "SWITCH_TO_SLEEP" /\ m.macQueue = <<>> => c.switchTimer < m.wakeup
  /\ m.macState = "RX" =>
       /\ m.wakeup = Off /\ (m.checkChannel = Off \/ m.timeoutData = Off)
       /\ c.radioState \in {"SWITCH_TO_SLEEP", "SLEEP", "SWITCH_TO_RECV", "RECV"}
       /\ c.radioState \in {"SWITCH_TO_SLEEP", "SLEEP"} => m.macQueue # <<>>
       /\ c.radioState = "SWITCH_TO_RECV" =>
            /\ m.checkChannel # Off => c.switchTimer < m.checkChannel
            /\ m.timeoutData # Off => c.switchTimer + PreambleTime < m.timeoutData
  /\ m.macState = "TX" =>
       /\ m.wakeup = Off /\ m.checkChannel = Off /\ m.timeoutData = Off
       /\ c.radioState \in {"SWITCH_TO_SEND", "SEND", "SWITCH_TO_SLEEP", "SLEEP"}
  /\ c.radioState = "SWITCH_TO_RECV" => c.switchTimer <= swRecv

\* The preambles are not over, or the data is still to be sent.
Preambles(m) == m.sendPreambles # Off \/ m.sendData

Outbox(m, c, q) ==
  /\ m.macState = "TX" =>
       /\ c.txOverTimer # Off => c.radioState = "SEND" /\ q = <<>>
       /\ c.txOverTimer = Off => q = IF c.radioState = "SEND" THEN <<TransmissionOverMsg>> ELSE <<>>
       /\ c.radioState # "SEND" => Preambles(m)
       /\ Preambles(m) => c.txOverTimer <= PreambleTime /\ m.macQueue # <<>>
  /\ m.macState # "TX" =>
       c.txOverTimer = Off /\ q \in Seq(Frame) /\ m.sendPreambles = Off /\ ~m.sendData

NodeOK(n, m, c, q) ==
  MacTyped(n, m) /\ Idle(m) /\ NicTyped(c) /\ Receiver(n, m, c) /\ Phase(m, c) /\ Outbox(m, c, q)

\* The commands of m have been carried out by the nic c, and they left m2 and c2.
Radio == {"radioState", "switchTimer", "txOverTimer"}

Carried(m, c, m2, c2) ==
  /\ Alters(m, m2, {"cmd", "tx", "up"}) /\ Idle(m2)
  /\ m.tx # <<>> => c.txOverTimer = Off
  /\ NicAlters(c, c2, Radio)
  /\ c2.txOverTimer = IF m.tx = <<>> THEN c.txOverTimer ELSE Duration(m.tx[1])
  /\ IF m.cmd # "none" /\ c.radioState \in Steady
     THEN c2.radioState = m.cmd /\ c2.switchTimer = SwitchTime(m.cmd)
     ELSE c2.radioState = c.radioState /\ c2.switchTimer = c.switchTimer

LEMMA FailIfEffect ==
  ASSUME NEW m, MacFields \subseteq DOMAIN m, NEW bad, NEW what, what # NoError
  PROVE  /\ Alters(m, FailIf(m, bad, what), {"error"})
         /\ FailIf(m, bad, what).error = NoError => m.error = NoError /\ ~bad
BY DEF FailIf, Alters, MacFields

LEMMA CarriedReceiver ==
  ASSUME NEW n, NEW m, NEW c, NicTyped(c), Receiver(n, m, c), NEW k, NEW m2, NEW c2,
         Carried(k, c, m2, c2), k.indication = m.indication,
         k.cmd \in {"none", "SWITCH_TO_SLEEP", "SWITCH_TO_RECV", "SWITCH_TO_SEND"},
         k.tx = <<>> \/ k.tx[1] \in Frame
  PROVE  NicTyped(c2) /\ Receiver(n, m2, c2) /\ (c2.radioState = "RECV" => c.radioState = "RECV")
<1>1. /\ c2.recvBuff = c.recvBuff /\ c2.ptr = c.ptr /\ c2.noiseLevel = c.noiseLevel
      /\ c2.indication = c.indication /\ NicFields \subseteq DOMAIN c2
      /\ m2.indication = m.indication
  BY DEF Carried, NicAlters, NicFields, Radio, Alters, MacFields
<1>2. c2.txOverTimer \in Timer
  BY Constants DEF Carried, NicTyped, Timer
<1>3. /\ c2.radioState \in Steady \cup DOMAIN Switching
      /\ c2.switchTimer \in Timer /\ (c2.switchTimer = Off <=> c2.radioState \in Steady)
      /\ c2.radioState = "RECV" => c.radioState = "RECV"
  BY RadioStates, Constants DEF Carried, NicTyped, Timer
<1>4. NicTyped(c2)
  BY <1>1, <1>2, <1>3 DEF NicTyped
<1>5. Receiver(n, m2, c2)
  BY <1>1, <1>3 DEF Receiver
<1>. QED  BY <1>3, <1>4, <1>5

LEMMA GoToSleepEffect ==
  ASSUME NEW m, MacFields \subseteq DOMAIN m, NEW r
  PROVE  LET g == GoToSleep(m, r)
         IN  /\ Alters(m, g, {"macState", "cmd", "wakeup", "error"})
             /\ g.macState = "SLEEP" /\ g.cmd = "SWITCH_TO_SLEEP"
             /\ g.wakeup = IF m.macQueue # <<>> THEN r ELSE slotDuration
             /\ g.error = NoError => m.error = NoError /\ m.wakeup = Off
<1>. DEFINE t == IF m.macQueue # <<>> THEN r ELSE slotDuration
            a == [m EXCEPT !.macState = "SLEEP", !.cmd = "SWITCH_TO_SLEEP"]
            b == [a EXCEPT !.wakeup = t]
            bad == a.wakeup # Off
            g == FailIf(b, bad, "wakeup scheduled twice")
<1>1. GoToSleep(m, r) = g
  BY DEF GoToSleep, ScheduleWakeup
<1>. HIDE DEF t
<1>2. /\ Alters(m, a, {"macState", "cmd"}) /\ a.macState = "SLEEP" /\ a.cmd = "SWITCH_TO_SLEEP"
      /\ bad <=> m.wakeup # Off
  BY DEF Alters, MacFields
<1>. HIDE DEF a, bad
<1>3. Alters(a, b, {"wakeup"}) /\ b.wakeup = t
  BY <1>2 DEF Alters, MacFields
<1>. HIDE DEF b
<1>4. Alters(b, g, {"error"}) /\ (g.error = NoError => b.error = NoError /\ ~bad)
  <2>1. "wakeup scheduled twice" # NoError /\ MacFields \subseteq DOMAIN b
    BY <1>3 DEF NoError, Alters
  <2>. QED  BY <2>1, FailIfEffect
<1>. HIDE DEF g
<1>5. /\ Alters(m, g, {"macState", "cmd", "wakeup", "error"})
      /\ g.macState = "SLEEP" /\ g.cmd = "SWITCH_TO_SLEEP" /\ g.wakeup = t
      /\ g.error = NoError => m.error = NoError /\ m.wakeup = Off
  BY <1>2, <1>3, <1>4 DEF Alters, MacFields
<1>. QED  BY <1>1, <1>5 DEF t

LEMMA Slack ==
  slack \in Nat /\ slack = swSend + PreambleTime /\ \A r \in Soon : r \in Nat
BY Constants DEF slack, Soon

\* The MAC goes to sleep, when it has received or lost what it was waiting for, or has sent all.
LEMMA SleepNode ==
  ASSUME QuickSwitches, NEW n \in Node, NEW m0, NEW c, NEW q, NodeOK(n, m0, c, q),
         NEW m, Alters(m0, m, {"checkChannel", "timeoutData", "up"}),
         m.checkChannel = Off, m.timeoutData = Off, m0.macState # "SLEEP",
         m0.macState = "TX" => c.radioState = "SEND" /\ c.txOverTimer = Off /\ ~Preambles(m0),
         NEW r \in Soon, NEW m2, NEW c2, Carried(GoToSleep(m, r), c, m2, c2), m2.error = NoError,
         NEW p \in Seq(Frame)
  PROVE  /\ NodeOK(n, m2, c2, p) /\ m2.macState = "SLEEP"
         /\ m2.wakeup = (IF m0.macQueue # <<>> THEN r ELSE slotDuration) /\ m2.macQueue = m0.macQueue
         /\ m2.sendPreambles = m0.sendPreambles /\ m2.sendData = m0.sendData
         /\ c2.txOverTimer = c.txOverTimer
<1>. DEFINE g == GoToSleep(m, r)
            t == IF m.macQueue # <<>> THEN r ELSE slotDuration
<1>1. /\ Alters(m, g, {"macState", "cmd", "wakeup", "error"})
      /\ g.macState = "SLEEP" /\ g.cmd = "SWITCH_TO_SLEEP" /\ g.wakeup = t
  BY GoToSleepEffect DEF Alters
<1>2. Carried(g, c, m2, c2)
  OBVIOUS
<1>. HIDE DEF g, t
<1>3. /\ m2.macState = "SLEEP" /\ m2.wakeup = t /\ m2.macQueue = m0.macQueue
      /\ m2.checkChannel = Off /\ m2.timeoutData = Off /\ m2.sendPreambles = m0.sendPreambles
      /\ m2.sendData = m0.sendData /\ g.indication = m0.indication /\ g.tx = <<>> /\ MacFields \subseteq DOMAIN m2
      /\ m.macQueue = m0.macQueue /\ Idle(m2)
  BY <1>1, <1>2 DEF Carried, Alters, MacFields, NodeOK, Idle
<1>4. NicTyped(c2) /\ Receiver(n, m2, c2)
  BY <1>1, <1>2, <1>3, CarriedReceiver DEF NodeOK
<1>5. t \in Nat /\ (m0.macQueue = <<>> => t = slotDuration)
  BY <1>3, Slack, Constants DEF t
<1>6. MacTyped(n, m2)
  BY <1>3, <1>5, Constants DEF NodeOK, MacTyped, Timer
<1>7. Phase(m2, c2)
  <2>1. c.radioState \in {"SWITCH_TO_SLEEP", "SLEEP", "SWITCH_TO_RECV", "RECV", "SEND"}
    BY DEF NodeOK, Phase, MacTyped
  <2>2. c2.radioState \in {"SWITCH_TO_SLEEP", "SWITCH_TO_RECV"}
        /\ (c2.radioState = "SWITCH_TO_RECV" => c.radioState = "SWITCH_TO_RECV" /\ c2.switchTimer = c.switchTimer)
    BY <1>1, <1>2, <2>1, RadioStates DEF Carried
  <2>3. c2.radioState = "SWITCH_TO_SLEEP" /\ m0.macQueue = <<>> => c2.switchTimer = swSleep
    <3>1. m0.macQueue = <<>> => c.radioState # "SWITCH_TO_SLEEP"
      BY DEF NodeOK, Phase, MacTyped
    <3>. QED  BY <1>1, <1>2, <2>1, <3>1, RadioStates DEF Carried
  <2>4. c.radioState = "SWITCH_TO_RECV" => c.switchTimer <= swRecv
    BY DEF NodeOK, Phase
  <2>. QED  BY <1>3, <1>5, <2>2, <2>3, <2>4, Constants DEF Phase, QuickSwitches
<1>8. c2.txOverTimer = c.txOverTimer
  BY <1>2, <1>3 DEF Carried
<1>9. Outbox(m2, c2, p)
  BY <1>3, <1>8 DEF Outbox, NodeOK, MacTyped, Preambles
<1>10. NodeOK(n, m2, c2, p)
  BY <1>3, <1>4, <1>6, <1>7, <1>9 DEF NodeOK
<1>. QED  BY <1>3, <1>8, <1>10 DEF t

LEMMA UpperMsgEffect ==
  ASSUME NEW n \in Node, NEW m, MacTyped(n, m), NEW p \in Data, NEW r
  PROVE  LET h == UpperMsg(m, p, r)
         IN  /\ Alters(m, h, {"macQueue", "wakeup"}) /\ h.macQueue \in Seq(Data) /\ h.macQueue # <<>>
             /\ h.wakeup = IF m.wakeup # Off /\ m.macState = "SLEEP" THEN r ELSE m.wakeup
<1>. DEFINE long == Len(m.macQueue) <= queueLength
            a == IF long THEN [m EXCEPT !.macQueue = Append(@, p)] ELSE m
            h == IF m.wakeup # Off /\ m.macState = "SLEEP" THEN [a EXCEPT !.wakeup = r] ELSE a
<1>1. UpperMsg(m, p, r) = h
  BY DEF UpperMsg
<1>2. /\ Alters(m, a, {"macQueue"})
      /\ a.macQueue = IF long THEN Append(m.macQueue, p) ELSE m.macQueue
  BY DEF MacTyped, Alters, MacFields
<1>. HIDE DEF a
<1>3. a.macQueue \in Seq(Data) /\ a.macQueue # <<>>
  <2>1. m.macQueue \in Seq(Data) /\ Len(m.macQueue) \in Nat
    BY DEF MacTyped
  <2>2. CASE long
    <3>1. a.macQueue = Append(m.macQueue, p)
      BY <1>2, <2>2
    <3>. QED  BY <2>1, <3>1, AppendProperties
  <2>3. CASE ~long
    BY <1>2, <2>1, <2>3, Constants
  <2>. QED  BY <2>2, <2>3
<1>4. Alters(m, h, {"macQueue", "wakeup"}) /\ h.macQueue = a.macQueue
      /\ h.wakeup = IF m.wakeup # Off /\ m.macState = "SLEEP" THEN r ELSE m.wakeup
  BY <1>2 DEF Alters, MacFields
<1>. QED  BY <1>1, <1>3, <1>4

LEMMA UpperNode ==
  ASSUME NEW n \in Node, NEW m, NEW c, NEW q, NodeOK(n, m, c, q),
         NEW p \in Data, NEW r \in Soon,
         NEW m2, NEW c2, Carried(UpperMsg(m, p, r), c, m2, c2)
  PROVE  NodeOK(n, m2, c2, q)
<1>. DEFINE h == UpperMsg(m, p, r)
<1>1. /\ Alters(m, h, {"macQueue", "wakeup"}) /\ h.macQueue \in Seq(Data) /\ h.macQueue # <<>>
      /\ h.wakeup = IF m.wakeup # Off /\ m.macState = "SLEEP" THEN r ELSE m.wakeup
  BY UpperMsgEffect DEF NodeOK
<1>2. Carried(h, c, m2, c2)
  OBVIOUS
<1>. HIDE DEF h
<1>3. /\ h.indication = m.indication /\ h.cmd = "none" /\ h.tx = <<>>
      /\ m2.macState = m.macState /\ m2.macQueue = h.macQueue /\ m2.wakeup = h.wakeup
      /\ m2.checkChannel = m.checkChannel /\ m2.timeoutData = m.timeoutData
      /\ m2.sendPreambles = m.sendPreambles /\ m2.sendData = m.sendData /\ m2.error = m.error
      /\ MacFields \subseteq DOMAIN m2 /\ Idle(m2)
  BY <1>1, <1>2 DEF Carried, Alters, MacFields, NodeOK, Idle
<1>4. NicTyped(c2) /\ Receiver(n, m2, c2)
  BY <1>2, <1>3, CarriedReceiver DEF NodeOK
<1>5. r \in Nat
  BY Slack
<1>6. c2.radioState = c.radioState /\ c2.switchTimer = c.switchTimer /\ c2.txOverTimer = c.txOverTimer
  BY <1>2, <1>3 DEF Carried
<1>7. MacTyped(n, m2)
  BY <1>1, <1>3, <1>5 DEF NodeOK, MacTyped, Timer
<1>8. Phase(m2, c2)
  BY <1>1, <1>3, <1>5, <1>6, Constants DEF NodeOK, Phase
<1>9. Outbox(m2, c2, q)
  BY <1>1, <1>3, <1>6 DEF NodeOK, Outbox, Preambles
<1>. QED  BY <1>3, <1>4, <1>7, <1>8, <1>9 DEF NodeOK

ScheduledTimeout(m, k) ==
  /\ Alters(m, k, {"timeoutData", "error"}) /\ k.timeoutData = DataTimeout
  /\ k.error = NoError => m.error = NoError /\ m.timeoutData = Off

LEMMA ScheduleTimeoutEffect ==
  ASSUME NEW m, MacFields \subseteq DOMAIN m
  PROVE  ScheduledTimeout(m, ScheduleTimeout(m))
<1>. DEFINE a == [m EXCEPT !.timeoutData = DataTimeout]
            bad == m.timeoutData # Off
            k == FailIf(a, bad, "timeoutData scheduled twice")
<1>1. ScheduleTimeout(m) = k
  BY DEF ScheduleTimeout
<1>2. Alters(m, a, {"timeoutData"}) /\ a.timeoutData = DataTimeout
  BY DEF Alters, MacFields
<1>. HIDE DEF a, bad
<1>3. Alters(a, k, {"error"}) /\ (k.error = NoError => a.error = NoError /\ ~bad)
  <2>1. "timeoutData scheduled twice" # NoError /\ MacFields \subseteq DOMAIN a
    BY <1>2 DEF NoError, Alters
  <2>. QED  BY <2>1, FailIfEffect
<1>. HIDE DEF k
<1>4. ScheduledTimeout(m, k)
  <2>1. Alters(m, k, {"timeoutData", "error"}) /\ k.timeoutData = DataTimeout
    BY <1>2, <1>3 DEF Alters, MacFields
  <2>2. a.error = m.error
    BY <1>2 DEF Alters, MacFields
  <2>. QED  BY <1>3, <2>1, <2>2 DEF ScheduledTimeout, bad
<1>. QED  BY <1>1, <1>4

\* What a preamble changes: the data is waited for, from now on.
Awaits(m, k) ==
  /\ Alters(m, k, {"checkChannel", "timeoutData", "error"})
  /\ IF m.checkChannel # Off THEN k.checkChannel = Off /\ k.timeoutData = DataTimeout
     ELSE /\ k.checkChannel = Off
          /\ k.timeoutData = IF m.timeoutData # Off THEN DataTimeout ELSE Off

LEMMA PreambleEffect ==
  ASSUME NEW m, MacFields \subseteq DOMAIN m
  PROVE  Awaits(m, PreambleReceived(m))
<1>1. CASE m.checkChannel # Off
  <2>. DEFINE a == [m EXCEPT !.checkChannel = Off]
  <2>1. Alters(m, a, {"checkChannel"}) /\ a.checkChannel = Off
    BY DEF Alters, MacFields
  <2>2. PreambleReceived(m) = ScheduleTimeout(a)
    BY <1>1 DEF PreambleReceived
  <2>. HIDE DEF a
  <2>3. ScheduledTimeout(a, ScheduleTimeout(a))
    BY <2>1, ScheduleTimeoutEffect DEF Alters
  <2>. DEFINE k == ScheduleTimeout(a)
  <2>. HIDE DEF k
  <2>4. Awaits(m, k)
    BY <1>1, <2>1, <2>3 DEF Awaits, ScheduledTimeout, Alters, MacFields, k
  <2>. QED  BY <2>2, <2>4 DEF k
<1>2. CASE m.checkChannel = Off /\ m.timeoutData # Off
  <2>. DEFINE k == [m EXCEPT !.timeoutData = DataTimeout]
  <2>1. Awaits(m, k)
    BY <1>2 DEF Awaits, Alters, MacFields
  <2>. QED  BY <1>2, <2>1 DEF PreambleReceived
<1>3. CASE m.checkChannel = Off /\ m.timeoutData = Off
  <2>1. PreambleReceived(m) = m
    BY <1>3 DEF PreambleReceived
  <2>. QED  BY <1>3, <2>1 DEF Awaits, Alters
<1>. QED  BY <1>1, <1>2, <1>3

LEMMA PreambleNode ==
  ASSUME LongTimeout, NEW n \in Node, NEW m, NEW c, NEW q, NodeOK(n, m, c, q), m.macState # "TX",
         NEW m2, NEW c2, Carried(PreambleReceived(m), c, m2, c2), m2.error = NoError,
         NEW p \in Seq(Frame)
  PROVE  NodeOK(n, m2, c2, p)
<1>. DEFINE k == PreambleReceived(m)
<1>1. Awaits(m, k)
  BY PreambleEffect DEF NodeOK, MacTyped
<1>2. Carried(k, c, m2, c2)
  OBVIOUS
<1>. HIDE DEF k
<1>3. /\ k.indication = m.indication /\ k.cmd = "none" /\ k.tx = <<>>
      /\ m2.macState = m.macState /\ m2.macQueue = m.macQueue /\ m2.wakeup = m.wakeup
      /\ m2.checkChannel = k.checkChannel /\ m2.timeoutData = k.timeoutData
      /\ m2.sendPreambles = m.sendPreambles /\ m2.sendData = m.sendData
      /\ MacFields \subseteq DOMAIN m2 /\ Idle(m2)
  BY <1>1, <1>2 DEF Carried, Awaits, Alters, MacFields, NodeOK, Idle
<1>4. NicTyped(c2) /\ Receiver(n, m2, c2)
  BY <1>2, <1>3, CarriedReceiver DEF NodeOK
<1>5. c2.radioState = c.radioState /\ c2.switchTimer = c.switchTimer /\ c2.txOverTimer = c.txOverTimer
  BY <1>2, <1>3 DEF Carried
<1>6. m2.checkChannel = Off /\ m2.timeoutData \in {Off, DataTimeout}
      /\ (m.checkChannel = Off /\ m.timeoutData = Off => m2.timeoutData = Off)
  BY <1>1, <1>3 DEF Awaits
<1>7. MacTyped(n, m2)
  BY <1>3, <1>6, Constants DEF NodeOK, MacTyped, Timer
<1>8. Phase(m2, c2)
  <2>1. c2.radioState = "SWITCH_TO_RECV" => c2.switchTimer \in Nat /\ c2.switchTimer <= swRecv
    BY <1>4, <1>5, RadioStates, Constants DEF NodeOK, NicTyped, Timer, Phase
  <2>2. c2.radioState = "SWITCH_TO_RECV" => c2.switchTimer + PreambleTime < DataTimeout
    BY <2>1, Constants DEF LongTimeout
  <2>. QED  BY <1>3, <1>5, <1>6, <2>2, Constants DEF NodeOK, Phase, MacTyped
<1>9. Outbox(m2, c2, p)
  BY <1>3, <1>5 DEF NodeOK, Outbox, Preambles
<1>. QED  BY <1>3, <1>4, <1>7, <1>8, <1>9 DEF NodeOK

LEMMA WakeupEffect ==
  ASSUME NEW m, MacFields \subseteq DOMAIN m
  PROVE  LET k == Wakeup(m)
         IN  /\ Alters(m, k, {"wakeup", "macState", "cmd", "checkChannel", "error"})
             /\ k.wakeup = Off /\ k.macState = "RX" /\ k.cmd = "SWITCH_TO_RECV" /\ k.checkChannel = CheckTime
<1>. DEFINE bad == m.checkChannel # Off
            a == [m EXCEPT !.wakeup = Off, !.macState = "RX", !.cmd = "SWITCH_TO_RECV", !.checkChannel = CheckTime]
            k == FailIf(a, bad, "checkChannel scheduled twice")
<1>1. Wakeup(m) = k
  BY DEF Wakeup
<1>2. /\ Alters(m, a, {"wakeup", "macState", "cmd", "checkChannel"})
      /\ a.wakeup = Off /\ a.macState = "RX" /\ a.cmd = "SWITCH_TO_RECV" /\ a.checkChannel = CheckTime
  BY DEF Alters, MacFields
<1>. HIDE DEF a, bad
<1>3. Alters(a, k, {"error"})
  <2>1. "checkChannel scheduled twice" # NoError /\ MacFields \subseteq DOMAIN a
    BY <1>2 DEF NoError, Alters
  <2>. QED  BY <2>1, FailIfEffect
<1>. HIDE DEF k
<1>4. /\ Alters(m, k, {"wakeup", "macState", "cmd", "checkChannel", "error"})
      /\ k.wakeup = Off /\ k.macState = "RX" /\ k.cmd = "SWITCH_TO_RECV" /\ k.checkChannel = CheckTime
  BY <1>2, <1>3 DEF Alters, MacFields
<1>. QED  BY <1>1, <1>4

LEMMA WakeupNode ==
  ASSUME QuickSwitches, NEW n \in Node, NEW m, NEW c, NEW q, NodeOK(n, m, c, q), m.wakeup = 0,
         NEW m2, NEW c2, Carried(Wakeup(m), c, m2, c2), m2.error = NoError
  PROVE  /\ NodeOK(n, m2, c2, q) /\ m.macState = "SLEEP" /\ m2.macState = "RX" /\ m2.timeoutData = Off
         /\ m2.sendPreambles = m.sendPreambles /\ m2.sendData = m.sendData /\ c2.txOverTimer = c.txOverTimer
<1>. DEFINE k == Wakeup(m)
<1>0. m.macState = "SLEEP"
  BY Constants DEF NodeOK, Phase, MacTyped
<1>2. /\ Alters(m, k, {"wakeup", "macState", "cmd", "checkChannel", "error"})
      /\ k.wakeup = Off /\ k.macState = "RX" /\ k.cmd = "SWITCH_TO_RECV" /\ k.checkChannel = CheckTime
  BY WakeupEffect DEF NodeOK, MacTyped
<1>4. Carried(k, c, m2, c2)
  OBVIOUS
<1>. HIDE DEF k
<1>5. /\ k.indication = m.indication /\ k.cmd = "SWITCH_TO_RECV" /\ k.tx = <<>>
      /\ m2.macState = "RX" /\ m2.macQueue = m.macQueue /\ m2.wakeup = Off
      /\ m2.checkChannel = CheckTime /\ m2.timeoutData = m.timeoutData
      /\ m2.sendPreambles = m.sendPreambles /\ m2.sendData = m.sendData
      /\ MacFields \subseteq DOMAIN m2 /\ Idle(m2)
  BY <1>2, <1>4 DEF Carried, Alters, MacFields, NodeOK, Idle
<1>6. NicTyped(c2) /\ Receiver(n, m2, c2)
  BY <1>4, <1>5, CarriedReceiver DEF NodeOK
<1>7. c2.txOverTimer = c.txOverTimer
  BY <1>4, <1>5 DEF Carried
<1>8. MacTyped(n, m2)
  BY <1>5, Constants DEF NodeOK, MacTyped, Timer
<1>9. m.timeoutData = Off /\ (c.radioState = "SWITCH_TO_SLEEP" => m.macQueue # <<>>)
      /\ c.radioState \in {"SWITCH_TO_SLEEP", "SLEEP", "SWITCH_TO_RECV", "RECV"}
      /\ (c.radioState = "SWITCH_TO_RECV" => c.switchTimer <= swRecv)
  <2>1. c.radioState = "SWITCH_TO_SLEEP" => c.switchTimer \in Nat
    BY RadioStates DEF NodeOK, NicTyped, Timer
  <2>. QED  BY <1>0, <2>1 DEF NodeOK, Phase
<1>10. /\ c2.radioState \in {"SWITCH_TO_SLEEP", "SWITCH_TO_RECV"}
       /\ c2.radioState = "SWITCH_TO_SLEEP" => m.macQueue # <<>>
       /\ c2.radioState = "SWITCH_TO_RECV" => c2.switchTimer <= swRecv
  BY <1>4, <1>5, <1>9, RadioStates, Constants DEF Carried
<1>11. Phase(m2, c2)
  <2>1. c2.radioState = "SWITCH_TO_RECV" => c2.switchTimer \in Nat
    BY <1>6, RadioStates DEF NicTyped, Timer
  <2>. QED  BY <1>5, <1>9, <1>10, <2>1, Constants DEF Phase, QuickSwitches
<1>12. Outbox(m2, c2, q)
  BY <1>0, <1>5, <1>7 DEF NodeOK, Outbox, Preambles
<1>. QED  BY <1>0, <1>5, <1>6, <1>7, <1>8, <1>9, <1>11, <1>12 DEF NodeOK

\* The channel is checked: it is busy,
LEMMA BusyNode ==
  ASSUME NEW n \in Node, NEW m, NEW c, NEW q, NodeOK(n, m, c, q), m.checkChannel = 0,
         NEW a, Alters(m, a, {"checkChannel"}), a.checkChannel = Off, NEW k, ScheduledTimeout(a, k),
         NEW m2, NEW c2, Carried(k, c, m2, c2), m2.error = NoError
  PROVE  /\ NodeOK(n, m2, c2, q) /\ m2.macState = "RX" /\ m2.timeoutData = DataTimeout
         /\ m2.macQueue = m.macQueue /\ (Preambles(m2) => Preambles(m))
<1>0. m.macState = "RX" /\ c.radioState # "SWITCH_TO_RECV"
  <2>1. m.macState = "RX"
    BY Constants DEF NodeOK, Phase, MacTyped
  <2>2. c.radioState = "SWITCH_TO_RECV" => c.switchTimer \in Nat
    BY RadioStates DEF NodeOK, NicTyped, Timer
  <2>. QED  BY <2>1, <2>2, Constants DEF NodeOK, Phase
<1>4. /\ k.indication = m.indication /\ k.cmd = "none" /\ k.tx = <<>>
      /\ m2.macState = "RX" /\ m2.macQueue = m.macQueue /\ m2.wakeup = m.wakeup
      /\ m2.checkChannel = Off /\ m2.timeoutData = DataTimeout
      /\ m2.sendPreambles = m.sendPreambles /\ m2.sendData = m.sendData
      /\ MacFields \subseteq DOMAIN m2 /\ Idle(m2)
  BY <1>0 DEF Carried, ScheduledTimeout, Alters, MacFields, NodeOK, Idle
<1>5. NicTyped(c2) /\ Receiver(n, m2, c2)
  BY <1>4, CarriedReceiver DEF NodeOK
<1>6. c2.radioState = c.radioState /\ c2.switchTimer = c.switchTimer /\ c2.txOverTimer = c.txOverTimer
  BY <1>4 DEF Carried
<1>7. MacTyped(n, m2)
  BY <1>4, Constants DEF NodeOK, MacTyped, Timer
<1>8. Phase(m2, c2)
  BY <1>0, <1>4, <1>6 DEF NodeOK, Phase
<1>9. Outbox(m2, c2, q)
  BY <1>0, <1>4, <1>6 DEF NodeOK, Outbox, Preambles
<1>10. Preambles(m2) => Preambles(m)
  BY <1>4 DEF Preambles
<1>. QED  BY <1>4, <1>5, <1>6, <1>7, <1>8, <1>9, <1>10 DEF NodeOK

\* or idle and there is something to send.
LEMMA BeginNode ==
  ASSUME NEW n \in Node, NEW m, NEW c, NodeOK(n, m, c, <<>>), m.checkChannel = 0,
         m.macQueue # <<>>, NEW k, Alters(m, k, {"checkChannel", "macState", "cmd", "sendPreambles", "error"}),
         k.checkChannel = Off, k.macState = "TX", k.cmd = "SWITCH_TO_SEND", k.sendPreambles = slotDuration,
         NEW m2, NEW c2, Carried(k, c, m2, c2), m2.error = NoError
  PROVE  /\ NodeOK(n, m2, c2, <<>>) /\ m.macState = "RX" /\ m2.macState = "TX"
         /\ m2.sendPreambles = slotDuration /\ c2.txOverTimer = Off
         /\ c2.radioState \in {"SWITCH_TO_SEND", "SWITCH_TO_SLEEP"}
         /\ c2.radioState = "SWITCH_TO_SEND" => c2.switchTimer = swSend
<1>0. m.macState = "RX" /\ c.radioState \in {"SWITCH_TO_SLEEP", "SLEEP", "RECV"}
  <2>1. m.macState = "RX"
    BY Constants DEF NodeOK, Phase, MacTyped
  <2>2. c.radioState = "SWITCH_TO_RECV" => c.switchTimer \in Nat
    BY RadioStates DEF NodeOK, NicTyped, Timer
  <2>. QED  BY <2>1, <2>2, Constants DEF NodeOK, Phase
<1>1. /\ k.indication = m.indication /\ k.tx = <<>>
      /\ m2.macState = "TX" /\ m2.macQueue = m.macQueue /\ m2.wakeup = Off
      /\ m2.checkChannel = Off /\ m2.timeoutData = Off
      /\ m2.sendPreambles = slotDuration /\ m2.sendData = m.sendData
      /\ MacFields \subseteq DOMAIN m2 /\ Idle(m2)
  BY <1>0, Constants DEF Carried, Alters, MacFields, NodeOK, Idle, Phase
<1>2. NicTyped(c2) /\ Receiver(n, m2, c2)
  BY <1>1, CarriedReceiver DEF NodeOK
<1>3. /\ c2.txOverTimer = c.txOverTimer /\ c2.radioState \in {"SWITCH_TO_SEND", "SWITCH_TO_SLEEP"}
      /\ c2.radioState = "SWITCH_TO_SEND" => c2.switchTimer = swSend
  BY <1>0, <1>1, RadioStates DEF Carried
<1>4. c.txOverTimer = Off
  BY <1>0 DEF NodeOK, Outbox
<1>5. MacTyped(n, m2)
  BY <1>1, Constants DEF NodeOK, MacTyped, Timer
<1>6. Phase(m2, c2)
  BY <1>1, <1>3 DEF Phase
<1>7. Outbox(m2, c2, <<>>)
  BY <1>1, <1>3, <1>4, Constants DEF Outbox, Preambles
<1>. QED  BY <1>0, <1>1, <1>2, <1>3, <1>4, <1>5, <1>6, <1>7 DEF NodeOK

PreamblesOver(m, k) ==
  Alters(m, k, {"sendPreambles", "sendData"}) /\ k.sendPreambles = Off /\ k.sendData = TRUE

LEMMA PreamblesNode ==
  ASSUME NEW n \in Node, NEW m, NEW c, NEW q, NEW k, NEW m2, NEW c2,
         NodeOK(n, m, c, q), m.sendPreambles = 0, PreamblesOver(m, k), Carried(k, c, m2, c2)
  PROVE  /\ NodeOK(n, m2, c2, q) /\ m.macState = "TX" /\ m2.macState = "TX"
         /\ m2.sendPreambles = Off /\ Preambles(m) /\ Preambles(m2)
         /\ c2.radioState = c.radioState /\ c2.switchTimer = c.switchTimer /\ c2.txOverTimer = c.txOverTimer
<1>0. m.macState = "TX" /\ Preambles(m)
  BY Constants DEF NodeOK, Outbox, Preambles
<1>3. /\ k.indication = m.indication /\ k.cmd = "none" /\ k.tx = <<>>
      /\ m2.macState = m.macState /\ m2.macQueue = m.macQueue /\ m2.wakeup = m.wakeup
      /\ m2.checkChannel = m.checkChannel /\ m2.timeoutData = m.timeoutData
      /\ m2.sendPreambles = Off /\ m2.sendData = TRUE /\ m2.error = m.error
      /\ MacFields \subseteq DOMAIN m2 /\ Idle(m2)
  BY DEF Carried, PreamblesOver, Alters, MacFields, NodeOK, Idle
<1>4. NicTyped(c2) /\ Receiver(n, m2, c2)
  BY <1>3, CarriedReceiver DEF NodeOK
<1>5. c2.radioState = c.radioState /\ c2.switchTimer = c.switchTimer /\ c2.txOverTimer = c.txOverTimer
  BY <1>3 DEF Carried
<1>6. MacTyped(n, m2)
  BY <1>3 DEF NodeOK, MacTyped, Timer
<1>7. Phase(m2, c2)
  BY <1>0, <1>3, <1>5 DEF NodeOK, Phase
<1>8. Outbox(m2, c2, q)
  BY <1>0, <1>3, <1>5 DEF NodeOK, Outbox, Preambles
<1>9. Preambles(m2)
  BY <1>3 DEF Preambles
<1>. QED  BY <1>0, <1>3, <1>4, <1>5, <1>6, <1>7, <1>8, <1>9 DEF NodeOK

\* The frame f goes to the radio.
Sending(m, k, f) ==
  /\ Alters(m, k, {"tx", "macQueue", "sendData"}) /\ k.tx = <<f>> /\ f \in Frame
  /\ k.macQueue \in Seq(Data) /\ (k.macQueue # <<>> => m.macQueue # <<>>) /\ k.sendData \in BOOLEAN
  /\ Preambles(k) => f \in Preamble /\ k.macQueue = m.macQueue /\ Preambles(m)

LEMMA SendNode ==
  ASSUME NEW n \in Node, NEW m, NEW c, NEW q, NodeOK(n, m, c, q), m.macState = "TX",
         NEW k, NEW f, Sending(m, k, f), NEW d, d.radioState = "SEND", NicTyped(d), Receiver(n, m, d),
         NEW m2, NEW c2, Carried(k, d, m2, c2)
  PROVE  /\ NodeOK(n, m2, c2, <<>>) /\ m2.macState = "TX"
         /\ c2.radioState = "SEND" /\ c2.txOverTimer = Duration(f) /\ c2.recvBuff = d.recvBuff
         /\ m2.sendPreambles = m.sendPreambles /\ (Preambles(m2) => f \in Preamble)
<1>1. /\ k.indication = m.indication /\ k.cmd = "none" /\ k.tx # <<>> /\ k.tx[1] = f
      /\ m2.macState = "TX" /\ m2.macQueue = k.macQueue /\ m2.wakeup = m.wakeup
      /\ m2.checkChannel = m.checkChannel /\ m2.timeoutData = m.timeoutData
      /\ m2.sendPreambles = m.sendPreambles /\ k.sendPreambles = m.sendPreambles
      /\ m2.sendData = k.sendData /\ m2.error = m.error
      /\ MacFields \subseteq DOMAIN m2 /\ Idle(m2)
  BY DEF Sending, Carried, Alters, MacFields, NodeOK, Idle
<1>2. NicTyped(c2) /\ Receiver(n, m2, c2)
  BY <1>1, CarriedReceiver DEF Sending
<1>3. /\ c2.radioState = "SEND" /\ c2.txOverTimer = Duration(f) /\ c2.recvBuff = d.recvBuff
  BY <1>1 DEF Carried, NicAlters, NicFields, Radio
<1>4. Duration(f) \in Nat /\ Duration(f) > 0 /\ PreambleTime \in Nat
      /\ (f \in Preamble => Duration(f) = PreambleTime)
  BY Constants DEF Sending
<1>5. MacTyped(n, m2)
  BY <1>1 DEF NodeOK, MacTyped, Sending
<1>6. Phase(m2, c2)
  BY <1>1, <1>3 DEF NodeOK, Phase
<1>8. Preambles(m2) => f \in Preamble
  BY <1>1 DEF Preambles, Sending
<1>7. Outbox(m2, c2, <<>>)
  <2>1. Preambles(m2) => Duration(f) <= PreambleTime /\ m2.macQueue # <<>>
    <3>1. Preambles(m2) => Preambles(k)
      BY <1>1 DEF Preambles
    <3>. QED  BY <1>1, <1>4, <1>8, <3>1 DEF Sending, NodeOK, Outbox
  <2>. HIDE DEF Preambles
  <2>. QED  BY <1>1, <1>3, <1>4, <2>1, Constants DEF Outbox
<1>. QED  BY <1>1, <1>2, <1>3, <1>5, <1>6, <1>7, <1>8 DEF NodeOK

\* A switch of the radio is over, and no frame is sent.
LEMMA SwitchedNode ==
  ASSUME NEW n \in Node, NEW m, NEW c, NEW q, NodeOK(n, m, c, q), c.switchTimer = 0,
         NEW d, Switched(c, d), ~(d.radioState = "SEND" /\ m.macState = "TX"),
         NEW k, Alters(m, k, {"indication"}),
         k.indication = (IF d.radioState = "RECV" THEN d.indication ELSE m.indication),
         NEW m2, NEW c2, Carried(k, d, m2, c2)
  PROVE  /\ NodeOK(n, m2, c2, q)
         /\ Alters(m, m2, {"indication"}) /\ c2.radioState = d.radioState
         /\ c2.switchTimer = Off /\ c2.txOverTimer = c.txOverTimer
<1>0. /\ c.radioState \in DOMAIN Switching /\ d.radioState = Switching[c.radioState] /\ d.switchTimer = Off
      /\ d.recvBuff = c.recvBuff /\ d.ptr = c.ptr /\ d.noiseLevel = c.noiseLevel
      /\ d.indication = c.indication /\ d.txOverTimer = c.txOverTimer /\ NicFields \subseteq DOMAIN d
  BY Constants DEF NodeOK, NicTyped, Switched, NicAlters, NicFields
<1>1. NicTyped(d) /\ Receiver(n, k, d)
  <2>1. NicTyped(d)
    BY <1>0, RadioStates DEF NodeOK, NicTyped, Timer
  <2>2. Receiver(n, k, d)
    BY <1>0 DEF NodeOK, Receiver
  <2>. QED  BY <2>1, <2>2
<1>2. k.cmd = "none" /\ k.tx = <<>> /\ Alters(m, m2, {"indication"}) /\ Idle(m2)
  BY DEF Carried, Alters, MacFields, NodeOK, Idle
<1>3. NicTyped(c2) /\ Receiver(n, m2, c2)
  BY <1>1, <1>2, CarriedReceiver
<1>4. c2.radioState = d.radioState /\ c2.switchTimer = Off /\ c2.txOverTimer = c.txOverTimer
  BY <1>0, <1>2 DEF Carried
<1>5. /\ m2.macState = m.macState /\ m2.macQueue = m.macQueue /\ m2.wakeup = m.wakeup
      /\ m2.checkChannel = m.checkChannel /\ m2.timeoutData = m.timeoutData
      /\ m2.sendPreambles = m.sendPreambles /\ m2.sendData = m.sendData /\ m2.error = m.error
      /\ MacFields \subseteq DOMAIN m2
  BY <1>2 DEF Alters, MacFields
<1>6. MacTyped(n, m2)
  BY <1>5 DEF NodeOK, MacTyped
<1>7. Phase(m2, c2)
  BY <1>0, <1>4, <1>5, RadioStates DEF NodeOK, Phase, MacTyped
<1>8. Outbox(m2, c2, q)
  <2>1. c.radioState # "SEND"
    BY <1>0, RadioStates
  <2>2. m.macState = "TX" => c2.radioState # "SEND"
    BY <1>4
  <2>3. Preambles(m2) <=> Preambles(m)
    BY <1>5 DEF Preambles
  <2>. QED  BY <1>4, <1>5, <2>1, <2>2, <2>3 DEF NodeOK, Outbox
<1>. QED  BY <1>2, <1>3, <1>4, <1>6, <1>7, <1>8 DEF NodeOK

LEMMA TxOverNode ==
  ASSUME NEW n \in Node, NEW m, NEW c, NEW q, NodeOK(n, m, c, q), c.txOverTimer = 0
  PROVE  /\ NodeOK(n, m, [c EXCEPT !.txOverTimer = Off], Append(q, TransmissionOverMsg))
         /\ m.macState = "TX" /\ q = <<>> /\ c.radioState = "SEND"
         /\ NicAlters(c, [c EXCEPT !.txOverTimer = Off], {"txOverTimer"})
         /\ [c EXCEPT !.txOverTimer = Off].txOverTimer = Off
<1>. DEFINE d == [c EXCEPT !.txOverTimer = Off]
<1>1. m.macState = "TX" /\ q = <<>> /\ c.radioState = "SEND"
  BY Constants DEF NodeOK, Outbox
<1>2. NicAlters(c, d, {"txOverTimer"}) /\ d.txOverTimer = Off
  BY DEF NodeOK, NicTyped, NicAlters, NicFields
<1>. HIDE DEF d
<1>3. /\ d.radioState = c.radioState /\ d.switchTimer = c.switchTimer /\ d.recvBuff = c.recvBuff
      /\ d.ptr = c.ptr /\ d.noiseLevel = c.noiseLevel /\ d.indication = c.indication /\ NicFields \subseteq DOMAIN d
  BY <1>2 DEF NicAlters, NicFields
<1>4. NicTyped(d) /\ Receiver(n, m, d) /\ Phase(m, d)
  <2>1. NicTyped(d)
    BY <1>2, <1>3 DEF NodeOK, NicTyped, Timer
  <2>2. Receiver(n, m, d)
    BY <1>3 DEF NodeOK, Receiver
  <2>3. Phase(m, d)
    BY <1>3 DEF NodeOK, Phase
  <2>. QED  BY <2>1, <2>2, <2>3
<1>5. Append(q, TransmissionOverMsg) = <<TransmissionOverMsg>>
  BY <1>1
<1>6. Outbox(m, d, <<TransmissionOverMsg>>)
  BY <1>1, <1>2, <1>3, Constants DEF NodeOK, Outbox
<1>. QED  BY <1>1, <1>2, <1>4, <1>5, <1>6 DEF NodeOK, d

\* What the air does to a node
AirNode(n, m, c, q, k, d, p) ==
  /\ Alters(m, k, {"indication"}) /\ NicAlters(c, d, Measured)
  /\ NicTyped(d) /\ Receiver(n, k, d)
  /\ p = q \/ (c.radioState = "RECV" /\ p \in Seq(Frame))

LEMMA AirNodeOK ==
  ASSUME NEW n \in Node, NEW m, NEW c, NEW q, NodeOK(n, m, c, q), NEW k, NEW d, NEW p,
         AirNode(n, m, c, q, k, d, p)
  PROVE  NodeOK(n, k, d, p)
<1>1. /\ k.macState = m.macState /\ k.macQueue = m.macQueue /\ k.wakeup = m.wakeup
      /\ k.checkChannel = m.checkChannel /\ k.timeoutData = m.timeoutData
      /\ k.sendPreambles = m.sendPreambles /\ k.sendData = m.sendData /\ k.error = m.error
      /\ MacFields \subseteq DOMAIN k /\ Idle(k)
  BY DEF AirNode, Alters, MacFields, NodeOK, Idle
<1>2. d.radioState = c.radioState /\ d.switchTimer = c.switchTimer /\ d.txOverTimer = c.txOverTimer
  BY DEF AirNode, NicAlters, NicFields, Measured
<1>3. MacTyped(n, k)
  BY <1>1 DEF NodeOK, MacTyped
<1>4. Phase(k, d)
  BY <1>1, <1>2 DEF NodeOK, Phase
<1>5. Outbox(k, d, p)
  <2>1. m.macState = "TX" => p = q
    BY DEF AirNode, NodeOK, Phase
  <2>2. m.macState # "TX" => p \in Seq(Frame)
    BY DEF AirNode, NodeOK, Outbox
  <2>. QED  BY <1>1, <1>2, <2>1, <2>2 DEF NodeOK, Outbox, Preambles
<1>. QED  BY <1>1, <1>3, <1>4, <1>5 DEF AirNode, NodeOK

LEMMA QuietLater == ASSUME NEW t \in Timer, t = Off \/ 1 <= t
  PROVE Later(t, 1) = (IF t = Off THEN Off ELSE t - 1) /\ Later(t, 1) \in Timer
BY Constants DEF Later, Timer

Aged(m, k) ==
  /\ Alters(m, k, {"wakeup", "checkChannel", "timeoutData", "sendPreambles"})
  /\ k.wakeup = Later(m.wakeup, 1) /\ k.checkChannel = Later(m.checkChannel, 1)
  /\ k.timeoutData = Later(m.timeoutData, 1) /\ k.sendPreambles = Later(m.sendPreambles, 1)

LEMMA ElapsedEffect == ASSUME NEW m, MacFields \subseteq DOMAIN m PROVE Aged(m, Elapsed(m))
BY DEF Aged, Elapsed, Alters, MacFields

\* No timer of the node is due.
QuietNode(m, c) ==
  /\ m.wakeup # 0 /\ m.checkChannel # 0 /\ m.timeoutData # 0 /\ m.sendPreambles # 0
  /\ c.switchTimer # 0 /\ c.txOverTimer # 0
  /\ \A s \in DOMAIN c.recvBuff : c.recvBuff[s].left # 0

LEMMA TickNode ==
  ASSUME NEW n \in Node, NEW m, NEW c, NEW q, NodeOK(n, m, c, q), QuietNode(m, c),
         NEW k, Aged(m, k), NEW d, Older(c, d)
  PROVE  NodeOK(n, k, d, q)
<1>1. /\ k.macState = m.macState /\ k.macQueue = m.macQueue /\ k.indication = m.indication
      /\ k.sendData = m.sendData /\ k.error = m.error /\ MacFields \subseteq DOMAIN k /\ Idle(k)
  BY DEF Aged, Alters, MacFields, NodeOK, Idle
<1>2. /\ d.radioState = c.radioState /\ d.ptr = c.ptr /\ d.noiseLevel = c.noiseLevel
      /\ d.indication = c.indication /\ NicFields \subseteq DOMAIN d
  BY DEF Older, NicAlters, NicFields
<1>3. \A t \in Timer : t # 0 => t = Off \/ 1 <= t
  BY DEF Timer
<1>4. /\ k.wakeup = (IF m.wakeup = Off THEN Off ELSE m.wakeup - 1) /\ k.wakeup \in Timer
      /\ k.checkChannel = (IF m.checkChannel = Off THEN Off ELSE m.checkChannel - 1) /\ k.checkChannel \in Timer
  BY <1>3, QuietLater DEF Aged, QuietNode, NodeOK, MacTyped
<1>5. /\ k.timeoutData = (IF m.timeoutData = Off THEN Off ELSE m.timeoutData - 1) /\ k.timeoutData \in Timer
      /\ k.sendPreambles = (IF m.sendPreambles = Off THEN Off ELSE m.sendPreambles - 1) /\ k.sendPreambles \in Timer
  BY <1>3, QuietLater DEF Aged, QuietNode, NodeOK, MacTyped
<1>6. /\ d.switchTimer = (IF c.switchTimer = Off THEN Off ELSE c.switchTimer - 1) /\ d.switchTimer \in Timer
      /\ d.txOverTimer = (IF c.txOverTimer = Off THEN Off ELSE c.txOverTimer - 1) /\ d.txOverTimer \in Timer
  BY <1>3, QuietLater DEF Older, QuietNode, NodeOK, NicTyped
<1>7. MacTyped(n, k)
  BY <1>1, <1>4, <1>5 DEF NodeOK, MacTyped
<1>a. /\ m.wakeup \in Timer /\ m.checkChannel \in Timer /\ m.timeoutData \in Timer /\ m.sendPreambles \in Timer
      /\ c.switchTimer \in Timer /\ c.txOverTimer \in Timer
      /\ m.wakeup # 0 /\ m.checkChannel # 0 /\ m.timeoutData # 0 /\ m.sendPreambles # 0
      /\ c.switchTimer # 0 /\ c.txOverTimer # 0
  BY DEF NodeOK, MacTyped, NicTyped, QuietNode
<1>8. NicTyped(d)
  <2>1. \A s \in DOMAIN c.recvBuff : c.recvBuff[s].left - 1 \in Nat
    BY DEF NodeOK, NicTyped, QuietNode
  <2>2. d.switchTimer = Off <=> c.switchTimer = Off
    BY <1>6, <1>a, Constants DEF Timer
  <2>. QED  BY <1>2, <1>6, <2>1, <2>2 DEF NodeOK, NicTyped, Older
<1>9. Receiver(n, k, d)
  BY <1>1, <1>2 DEF NodeOK, Receiver, Older
<1>b. /\ k.wakeup = Off <=> m.wakeup = Off
      /\ k.checkChannel = Off <=> m.checkChannel = Off
      /\ k.timeoutData = Off <=> m.timeoutData = Off
      /\ k.sendPreambles = Off <=> m.sendPreambles = Off
      /\ d.txOverTimer = Off <=> c.txOverTimer = Off
  BY <1>4, <1>5, <1>6, <1>a, Constants DEF Timer
<1>10. Phase(k, d)
  <2>1. k.macState = "SLEEP" =>
       /\ k.wakeup # Off /\ k.checkChannel = Off /\ k.timeoutData = Off
       /\ k.macQueue = <<>> => k.wakeup <= slotDuration
       /\ d.radioState \in {"SWITCH_TO_SLEEP", "SLEEP", "SWITCH_TO_RECV", "RECV"}
       /\ d.radioState = "SWITCH_TO_SLEEP" /\ k.macQueue = <<>> => d.switchTimer < k.wakeup
    <3>. HAVE k.macState = "SLEEP"
    <3>1. /\ m.wakeup # Off /\ m.checkChannel = Off /\ m.timeoutData = Off
          /\ m.macQueue = <<>> => m.wakeup <= slotDuration
          /\ c.radioState \in {"SWITCH_TO_SLEEP", "SLEEP", "SWITCH_TO_RECV", "RECV"}
          /\ c.radioState = "SWITCH_TO_SLEEP" /\ m.macQueue = <<>> => c.switchTimer < m.wakeup
      BY <1>1 DEF NodeOK, Phase
    <3>2. c.radioState = "SWITCH_TO_SLEEP" => c.switchTimer # Off
      BY RadioStates DEF NodeOK, NicTyped
    <3>. QED  BY <1>1, <1>2, <1>4, <1>5, <1>6, <1>a, <1>b, <3>1, <3>2, Constants DEF Timer
  <2>2. k.macState = "RX" =>
       /\ k.wakeup = Off /\ (k.checkChannel = Off \/ k.timeoutData = Off)
       /\ d.radioState \in {"SWITCH_TO_SLEEP", "SLEEP", "SWITCH_TO_RECV", "RECV"}
       /\ d.radioState \in {"SWITCH_TO_SLEEP", "SLEEP"} => k.macQueue # <<>>
       /\ d.radioState = "SWITCH_TO_RECV" =>
            /\ k.checkChannel # Off => d.switchTimer < k.checkChannel
            /\ k.timeoutData # Off => d.switchTimer + PreambleTime < k.timeoutData
    <3>. HAVE k.macState = "RX"
    <3>1. /\ m.wakeup = Off /\ (m.checkChannel = Off \/ m.timeoutData = Off)
          /\ c.radioState \in {"SWITCH_TO_SLEEP", "SLEEP", "SWITCH_TO_RECV", "RECV"}
          /\ c.radioState \in {"SWITCH_TO_SLEEP", "SLEEP"} => m.macQueue # <<>>
          /\ c.radioState = "SWITCH_TO_RECV" =>
               /\ m.checkChannel # Off => c.switchTimer < m.checkChannel
               /\ m.timeoutData # Off => c.switchTimer + PreambleTime < m.timeoutData
      BY <1>1 DEF NodeOK, Phase
    <3>2. c.radioState = "SWITCH_TO_RECV" => c.switchTimer # Off
      BY RadioStates DEF NodeOK, NicTyped
    <3>. QED  BY <1>1, <1>2, <1>4, <1>5, <1>6, <1>a, <1>b, <3>1, <3>2, Constants DEF Timer
  <2>3. k.macState = "TX" =>
       /\ k.wakeup = Off /\ k.checkChannel = Off /\ k.timeoutData = Off
       /\ d.radioState \in {"SWITCH_TO_SEND", "SEND", "SWITCH_TO_SLEEP", "SLEEP"}
    BY <1>1, <1>2, <1>b DEF NodeOK, Phase
  <2>4. d.radioState = "SWITCH_TO_RECV" => d.switchTimer <= swRecv
    BY <1>2, <1>6, <1>a, Constants DEF NodeOK, Phase, Timer
  <2>. QED  BY <2>1, <2>2, <2>3, <2>4 DEF Phase
<1>11. Outbox(k, d, q)
  <2>1. Preambles(k) <=> Preambles(m)
    BY <1>1, <1>b DEF Preambles
  <2>2. m.macState = "TX" /\ Preambles(m) => d.txOverTimer <= PreambleTime /\ k.macQueue # <<>>
    BY <1>1, <1>6, <1>a, Constants DEF NodeOK, Outbox, Timer
  <2>. QED  BY <1>1, <1>2, <1>b, <2>1, <2>2 DEF NodeOK, Outbox
<1>. QED  BY <1>1, <1>7, <1>8, <1>9, <1>10, <1>11 DEF NodeOK

-----------------------------------------------------------------------------
(* The frame of s at n: m and c are the MAC and the nic of s, b the frames on the air at n,  *)
(* and a is what of s begins at n in this instant                                            *)

LinkOK(s, n, m, c, b, a) ==
  /\ a \in Seq(Frame) /\ Len(a) <= 1
  /\ n \notin Reached(s) => a = <<>> /\ s \notin DOMAIN b
  /\ n \in Reached(s) =>
       /\ a # <<>> => /\ c.txOverTimer = Duration(a[1])
                      /\ s \in DOMAIN b => b[s].left = 0
                      /\ Preambles(m) => a[1] \in Preamble
       /\ a = <<>> /\ c.txOverTimer = Off /\ s \in DOMAIN b => b[s].left = 0
       /\ a = <<>> /\ c.txOverTimer # Off =>
            /\ s \in DOMAIN b => b[s].left = c.txOverTimer
            /\ s \notin DOMAIN b => c.txOverTimer = 0
       /\ m.macState = "TX" /\ s \in DOMAIN b /\ (Preambles(m) \/ a # <<>>) => b[s].frame \in Preamble

LEMMA LinkKept ==
  ASSUME NEW s, NEW n, NEW m, NEW c, NEW b, NEW a, LinkOK(s, n, m, c, b, a),
         NEW m2, NEW c2, NEW b2, c2.txOverTimer = c.txOverTimer, Preambles(m2) => Preambles(m),
         m2.macState = "TX" => m.macState = "TX",
         s \in DOMAIN b2 <=> s \in DOMAIN b, s \in DOMAIN b => b2[s] = b[s]
  PROVE  LinkOK(s, n, m2, c2, b2, a)
<1>. HIDE DEF Preambles
<1>1. CASE n \notin Reached(s)
  BY <1>1 DEF LinkOK
<1>2. CASE n \in Reached(s)
  <2>1. a # <<>> => /\ c2.txOverTimer = Duration(a[1])
                    /\ s \in DOMAIN b2 => b2[s].left = 0
                    /\ Preambles(m2) => a[1] \in Preamble
    BY <1>2 DEF LinkOK
  <2>2. a = <<>> /\ c2.txOverTimer = Off /\ s \in DOMAIN b2 => b2[s].left = 0
    BY <1>2 DEF LinkOK
  <2>3. a = <<>> /\ c2.txOverTimer # Off =>
            /\ s \in DOMAIN b2 => b2[s].left = c2.txOverTimer
            /\ s \notin DOMAIN b2 => c2.txOverTimer = 0
    BY <1>2 DEF LinkOK
  <2>4. m2.macState = "TX" /\ s \in DOMAIN b2 /\ (Preambles(m2) \/ a # <<>>) => b2[s].frame \in Preamble
    BY <1>2 DEF LinkOK
  <2>. QED  BY <1>2, <2>1, <2>2, <2>3, <2>4 DEF LinkOK
<1>. QED  BY <1>1, <1>2

\* When nothing is due, nothing is on the air of a node that does not send.
LEMMA LinkSilent ==
  ASSUME NEW s, NEW n, NEW m, NEW c, NEW b, LinkOK(s, n, m, c, b, <<>>),
         c.txOverTimer = Off, s \in DOMAIN b => b[s].left # 0
  PROVE  s \notin DOMAIN b
BY DEF LinkOK

LEMMA LinkBegin ==
  ASSUME NEW s, NEW n, NEW m, NEW c, NEW b, LinkOK(s, n, m, c, b, <<>>),
         c.txOverTimer = Off, s \in DOMAIN b => b[s].left # 0, NEW m2, NEW c2, c2.txOverTimer = Off
  PROVE  LinkOK(s, n, m2, c2, b, <<>>)
BY LinkSilent DEF LinkOK

LEMMA LinkSend ==
  ASSUME NEW s, NEW n, NEW m, NEW c, NEW b, NEW a, LinkOK(s, n, m, c, b, a),
         m.macState = "TX", Preambles(m), c.txOverTimer = Off,
         NEW f \in Frame, NEW m2, NEW c2, c2.txOverTimer = Duration(f), Preambles(m2) => f \in Preamble
  PROVE  /\ a = <<>>
         /\ LinkOK(s, n, m2, c2, b, IF n \in Reached(s) THEN Append(a, f) ELSE a)
<1>. HIDE DEF Preambles
<1>1. a = <<>>
  <2>1. a # <<>> => a[1] \in Frame
    BY DEF LinkOK
  <2>2. n \in Reached(s) => a = <<>>
    BY <2>1, Constants DEF LinkOK
  <2>. QED  BY <2>2 DEF LinkOK
<1>2. CASE n \notin Reached(s)
  BY <1>1, <1>2 DEF LinkOK
<1>3. CASE n \in Reached(s)
  <2>. DEFINE e == <<f>>
  <2>1. Append(a, f) = e
    BY <1>1
  <2>2. e \in Seq(Frame) /\ Len(e) = 1 /\ e # <<>> /\ e[1] = f
    OBVIOUS
  <2>. HIDE DEF e
  <2>3. s \in DOMAIN b => b[s].left = 0 /\ b[s].frame \in Preamble
    BY <1>1, <1>3 DEF LinkOK
  <2>4. LinkOK(s, n, m2, c2, b, e)
    BY <1>3, <2>2, <2>3 DEF LinkOK
  <2>. QED  BY <1>1, <1>3, <2>1, <2>4
<1>. QED  BY <1>1, <1>2, <1>3

LEMMA LinkTxOver ==
  ASSUME NEW s, NEW n, NEW m, NEW c, NEW b, NEW a, LinkOK(s, n, m, c, b, a), c.txOverTimer = 0,
         NEW c2, c2.txOverTimer = Off
  PROVE  a = <<>> /\ LinkOK(s, n, m, c2, b, a)
<1>1. a # <<>> => a[1] \in Frame
  BY DEF LinkOK
<1>2. n \in Reached(s) => a = <<>>
  BY <1>1, Constants DEF LinkOK
<1>3. a = <<>>
  BY <1>2 DEF LinkOK
<1>. HIDE DEF Preambles
<1>. QED  BY <1>3, Constants DEF LinkOK

LEMMA LinkStart ==
  ASSUME NEW s, NEW n, NEW m, NEW c, NEW b, NEW a, LinkOK(s, n, m, c, b, a), a # <<>>,
         NEW b2, s \in DOMAIN b2, b2[s].frame = a[1], b2[s].left = Duration(a[1])
  PROVE  /\ a[1] \in Frame /\ n \in Reached(s) /\ Tail(a) = <<>> /\ c.txOverTimer = Duration(a[1])
         /\ Preambles(m) => a[1] \in Preamble
         /\ LinkOK(s, n, m, c, b2, Tail(a))
<1>1. a[1] \in Frame /\ n \in Reached(s) /\ Tail(a) = <<>>
  BY DEF LinkOK
<1>2. c.txOverTimer = Duration(a[1]) /\ c.txOverTimer # Off /\ (Preambles(m) => a[1] \in Preamble)
  BY <1>1, Constants DEF LinkOK
<1>. HIDE DEF Preambles
<1>3. <<>> \in Seq(Frame) /\ Len(<<>>) = 0
  OBVIOUS
<1>4. LinkOK(s, n, m, c, b2, <<>>)
  BY <1>1, <1>2, <1>3 DEF LinkOK
<1>. QED  BY <1>1, <1>2, <1>4

LEMMA LinkEnd ==
  ASSUME NEW s, NEW n, NEW m, NEW c, NEW b, NEW a, LinkOK(s, n, m, c, b, a),
         s \in DOMAIN b, b[s].left = 0, NEW b2, s \notin DOMAIN b2
  PROVE  n \in Reached(s) /\ LinkOK(s, n, m, c, b2, a)
<1>. HIDE DEF Preambles
<1>1. n \in Reached(s)
  BY DEF LinkOK
<1>2. a = <<>> /\ c.txOverTimer # Off => c.txOverTimer = 0
  BY <1>1 DEF LinkOK
<1>3. a # <<>> => c.txOverTimer = Duration(a[1]) /\ (Preambles(m) => a[1] \in Preamble)
  BY <1>1 DEF LinkOK
<1>. QED  BY <1>1, <1>2, <1>3 DEF LinkOK

LEMMA LinkTick ==
  ASSUME NEW s, NEW n, NEW m, NEW c, NEW b, LinkOK(s, n, m, c, b, <<>>),
         c.txOverTimer \in Timer, c.txOverTimer # 0, s \in DOMAIN b => b[s].left # 0,
         NEW m2, NEW c2, NEW b2, m2.macState = m.macState, Preambles(m2) <=> Preambles(m),
         c2.txOverTimer = IF c.txOverTimer = Off THEN Off ELSE c.txOverTimer - 1,
         s \in DOMAIN b2 <=> s \in DOMAIN b,
         s \in DOMAIN b => b2[s].left = b[s].left - 1 /\ b2[s].frame = b[s].frame
  PROVE  LinkOK(s, n, m2, c2, b2, <<>>)
<1>. HIDE DEF Preambles
<1>1. CASE n \notin Reached(s)
  BY <1>1 DEF LinkOK
<1>2. CASE n \in Reached(s)
  <2>1. c.txOverTimer = Off => s \notin DOMAIN b
    BY <1>2 DEF LinkOK
  <2>2. c.txOverTimer # Off => s \in DOMAIN b /\ b[s].left = c.txOverTimer
    BY <1>2 DEF LinkOK
  <2>3. c2.txOverTimer # Off <=> c.txOverTimer # Off
    BY Constants DEF Timer
  <2>4. m2.macState = "TX" /\ s \in DOMAIN b2 /\ Preambles(m2) => b2[s].frame \in Preamble
    BY <1>2 DEF LinkOK
  <2>5. <<>> \in Seq(Frame) /\ Len(<<>>) <= 1
    OBVIOUS
  <2>. QED  BY <1>2, <2>1, <2>2, <2>3, <2>4, <2>5 DEF LinkOK
<1>. QED  BY <1>1, <1>2

-----------------------------------------------------------------------------
(* The only sender s, with the MAC m and the nic c, and another node n, with k, d and q; a is *)
(* what of s begins at n in this instant                                                      *)

\* No frame of o is heard at n.
Silent(o, m, b, a) == m.macState # "TX" /\ a = <<>> /\ o \notin DOMAIN b

\* How long the preambles still last, without the last of them
Remaining(m) == IF m.sendPreambles = Off THEN 0 ELSE m.sendPreambles

\* A wakeup in w is in time for the data.
Fits(m, w) == w <= Remaining(m) + slack

\* When the preamble that is sent now, or the next one, is over; 0 if there is none
NextEnd(m, c) ==
  IF ~Preambles(m) THEN 0
  ELSE IF c.radioState = "SWITCH_TO_SEND" THEN c.switchTimer + PreambleTime
  ELSE IF c.txOverTimer > 0 THEN c.txOverTimer ELSE PreambleTime

\* A preamble comes, or will come, before n stops waiting for the data.
Renewed(s, m, c, k, d, q) ==
  \/ k.timeoutData > NextEnd(m, c)
  \/ k.timeoutData > 0 /\ (q # <<>> \/ (s \in DOMAIN d.recvBuff /\ d.recvBuff[s].left = 0))
  \/ c.radioState = "SEND" /\ d.radioState = "SWITCH_TO_RECV"

Ready(s, m, c, k, d, q) ==
  /\ k.macState = "SLEEP" /\ k.macQueue = <<>> => Fits(m, k.wakeup)
  /\ k.macState = "RX" /\ k.macQueue = <<>> /\ k.timeoutData # Off =>
       Fits(m, k.timeoutData + slotDuration) \/ Renewed(s, m, c, k, d, q)
  /\ q \in Seq(Preamble)

\* The data is still to come.
Waited(m, c, a) == (Preambles(m) \/ a # <<>>) /\ c.radioState \in {"SWITCH_TO_SEND", "SEND"}

Pair(s, n, m, c, k, d, q, a) ==
  /\ s \in DOMAIN d.recvBuff => d.ptr = s /\ Clear(d.sList)
  /\ c.radioState = "SWITCH_TO_SEND" =>
       /\ Remaining(m) + swSend - c.switchTimer >= slotDuration
       /\ q = <<>> /\ a = <<>> /\ s \notin DOMAIN d.recvBuff
  /\ n \in Reached(s) /\ Waited(m, c, a) => Ready(s, m, c, k, d, q)

\* Data that begins finds n awake, or about to wake up.
LEMMA PairFinds ==
  ASSUME NEW s, NEW n, NEW m, NEW c, NEW k, NEW d, NEW q, NEW a, Pair(s, n, m, c, k, d, q, a),
         NEW p, NodeOK(s, m, c, p), m.macState = "TX", LinkOK(s, n, m, c, d.recvBuff, a),
         a # <<>>, a[1].kind = "data", k.macQueue = <<>>
  PROVE  k.macState # "SLEEP" \/ k.wakeup <= swSend + PreambleTime
<1>1. a[1] \in Frame /\ n \in Reached(s)
  BY DEF LinkOK
<1>2. a[1] \notin Preamble
  BY DEF Preamble
<1>3. ~Preambles(m)
  BY <1>1, <1>2 DEF LinkOK
<1>4. c.txOverTimer # Off /\ c.radioState = "SEND"
  BY <1>1, Constants DEF LinkOK, NodeOK, Outbox
<1>5. k.macState = "SLEEP" => Fits(m, k.wakeup)
  BY <1>1, <1>4 DEF Pair, Waited, Ready
<1>6. Remaining(m) = 0
  BY <1>3 DEF Remaining, Preambles
<1>. QED  BY <1>5, <1>6, Slack DEF Fits

LEMMA RemainingNat ==
  ASSUME NEW n, NEW m, MacTyped(n, m)
  PROVE  Remaining(m) \in Nat
BY Constants DEF Remaining, MacTyped, Timer

LEMMA NextEndNat ==
  ASSUME NEW n, NEW m, NEW c, NEW q, NodeOK(n, m, c, q), m.macState = "TX",
         c.radioState \in {"SWITCH_TO_SEND", "SEND"}
  PROVE  /\ NextEnd(m, c) \in Nat
         /\ c.radioState = "SEND" => NextEnd(m, c) <= PreambleTime
<1>1. c.radioState = "SWITCH_TO_SEND" => c.switchTimer \in Nat
  BY RadioStates DEF NodeOK, NicTyped, Timer
<1>2. c.txOverTimer \in Timer /\ (Preambles(m) => c.txOverTimer <= PreambleTime)
  BY DEF NodeOK, NicTyped, Outbox
<1>3. PreambleTime \in Nat
  BY Constants
<1>. HIDE DEF Preambles
<1>. QED  BY <1>1, <1>2, <1>3, Constants DEF NextEnd, Timer

\* What n does, while s and the air stay as they are
LEMMA PairReceiver ==
  ASSUME NEW s, NEW n, NEW m, NEW c, NEW k, NEW d, NEW q, NEW a, Pair(s, n, m, c, k, d, q, a),
         NEW k2, NEW d2, NEW q2, d2.recvBuff = d.recvBuff, d2.ptr = d.ptr, Clear(d.sList) => Clear(d2.sList),
         q2 = q \/ q # <<>>,
         n \in Reached(s) /\ Waited(m, c, a) => Ready(s, m, c, k2, d2, q2)
  PROVE  Pair(s, n, m, c, k2, d2, q2, a)
<1>. HIDE DEF Waited, Ready, Clear
<1>. QED  BY DEF Pair

LEMMA ReadyUpper ==
  ASSUME NEW s, NEW m, NEW c, NEW k, NEW d, NEW q, Ready(s, m, c, k, d, q),
         NEW k2, NEW d2, k2.macState = k.macState, k2.macQueue # <<>>
  PROVE  Ready(s, m, c, k2, d2, q)
BY DEF Ready

\* The data does not come: n goes back to sleep.
LEMMA ReadyTimeout ==
  ASSUME NEW s, NEW n \in Node, NEW m, NEW c, NEW p, NodeOK(s, m, c, p), m.macState = "TX",
         c.radioState \in {"SWITCH_TO_SEND", "SEND"},
         NEW k, NEW d, NEW q, NodeOK(n, k, d, q), Ready(s, m, c, k, d, q), k.timeoutData = 0,
         NEW r, NEW k2, NEW d2, k2.macState = "SLEEP", k2.macQueue = k.macQueue,
         k2.wakeup = IF k.macQueue # <<>> THEN r ELSE slotDuration
  PROVE  Ready(s, m, c, k2, d2, q)
<1>2. k.macState = "RX"
  BY Constants DEF NodeOK, MacTyped, Phase
<1>3. CASE k.macQueue # <<>>
  BY <1>3 DEF Ready
<1>4. CASE k.macQueue = <<>>
  <2>1. ~Renewed(s, m, c, k, d, q)
    <3>1. NextEnd(m, c) \in Nat
      BY NextEndNat
    <3>2. d.radioState # "SWITCH_TO_RECV"
      <4>1. d.radioState = "SWITCH_TO_RECV" => d.switchTimer \in Nat
        BY RadioStates DEF NodeOK, NicTyped, Timer
      <4>. QED  BY <1>2, <4>1, Constants DEF NodeOK, Phase
    <3>. QED  BY <3>1, <3>2 DEF Renewed
  <2>2. Fits(m, 0 + slotDuration)
    BY <1>2, <1>4, <2>1, Constants DEF Ready
  <2>3. Fits(m, k2.wakeup)
    BY <1>4, <2>2, Constants DEF Fits
  <2>. QED  BY <2>3 DEF Ready
<1>. QED  BY <1>3, <1>4

LEMMA ReadyPreamble ==
  ASSUME LongTimeout, NEW s, NEW n, NEW m, NEW c, NEW p, NodeOK(s, m, c, p), m.macState = "TX",
         c.radioState = "SEND", NEW k, NEW d, NEW q, Ready(s, m, c, k, d, q), q # <<>>,
         NEW k2, NEW d2, k2.macState = k.macState, k2.wakeup = k.wakeup, k2.macQueue = k.macQueue,
         k2.timeoutData \in {Off, DataTimeout}
  PROVE  Ready(s, m, c, k2, d2, Tail(q))
<1>1. NextEnd(m, c) \in Nat /\ NextEnd(m, c) <= PreambleTime
  BY NextEndNat
<1>2. DataTimeout > NextEnd(m, c)
  BY <1>1, Constants DEF LongTimeout
<1>3. Tail(q) \in Seq(Preamble)
  BY HeadTailProperties DEF Ready
<1>. QED  BY <1>2, <1>3 DEF Ready, Renewed

LEMMA ReadyData ==
  ASSUME NEW s, NEW m, NEW c, NEW k, NEW d, NEW q, Ready(s, m, c, k, d, q), q # <<>>
  PROVE  Head(q).kind = "BMAC_CONTROL"
<1>1. Head(q) \in Preamble
  BY HeadTailProperties DEF Ready
<1>. QED  BY <1>1 DEF Preamble

\* The channel is busy: another preamble will follow the one that is heard.
LEMMA ReadyBusy ==
  ASSUME LongTimeout, NEW s, NEW n, NEW m, NEW c, NEW p, NodeOK(s, m, c, p), m.macState = "TX",
         c.radioState \in {"SWITCH_TO_SEND", "SEND"}, NEW a,
         NEW k, NEW d, NEW q, NodeOK(n, k, d, q), Pair(s, n, m, c, k, d, q, a), Ready(s, m, c, k, d, q),
         k.checkChannel = 0, k.indication = "BUSY", DOMAIN d.recvBuff \subseteq {s},
         NEW k2, NEW d2, k2.macState = "RX", k2.timeoutData = DataTimeout, k2.macQueue = k.macQueue
  PROVE  Ready(s, m, c, k2, d2, q)
<1>1. k.macState = "RX"
  BY Constants DEF NodeOK, Phase, MacTyped
<1>2. CASE k.macQueue # <<>>
  BY <1>2 DEF Ready
<1>3. CASE k.macQueue = <<>>
  <2>1. d.radioState = "RECV"
    <3>1. d.radioState = "SWITCH_TO_RECV" => d.switchTimer \in Nat
      BY RadioStates DEF NodeOK, NicTyped, Timer
    <3>. QED  BY <1>1, <1>3, <3>1, Constants DEF NodeOK, Phase
  <2>2. s \in DOMAIN d.recvBuff
    BY <2>1 DEF NodeOK, Receiver
  <2>3. c.radioState = "SEND"
    BY <2>2 DEF Pair
  <2>4. NextEnd(m, c) \in Nat /\ NextEnd(m, c) <= PreambleTime
    BY <2>3, NextEndNat
  <2>5. DataTimeout > NextEnd(m, c)
    BY <2>4, Constants DEF LongTimeout
  <2>. QED  BY <2>5 DEF Ready, Renewed
<1>. QED  BY <1>2, <1>3

\* The channel is idle: the sender is still switching its radio, and has a slot of preambles to send.
LEMMA ReadyIdle ==
  ASSUME NEW s \in Node, NEW n, NEW m, NEW c, NodeOK(s, m, c, <<>>), m.macState = "TX",
         c.radioState \in {"SWITCH_TO_SEND", "SEND"}, c.txOverTimer # 0,
         NEW k, NEW d, NodeOK(n, k, d, <<>>), Pair(s, n, m, c, k, d, <<>>, <<>>), n \in Reached(s),
         LinkOK(s, n, m, c, d.recvBuff, <<>>),
         k.checkChannel = 0, k.indication = "IDLE", k.macQueue = <<>>,
         NEW k2, NEW d2, k2.macState = "SLEEP", k2.wakeup = slotDuration
  PROVE  Ready(s, m, c, k2, d2, <<>>)
<1>1. k.macState = "RX"
  BY Constants DEF NodeOK, Phase, MacTyped
<1>2. d.radioState = "RECV"
  <2>1. d.radioState = "SWITCH_TO_RECV" => d.switchTimer \in Nat
    BY RadioStates DEF NodeOK, NicTyped, Timer
  <2>. QED  BY <1>1, <2>1, Constants DEF NodeOK, Phase
<1>3. s \notin DOMAIN d.recvBuff
  BY <1>2, Constants DEF NodeOK, Receiver, Pair
<1>4. c.txOverTimer = Off
  BY <1>3 DEF LinkOK
<1>5. c.radioState = "SWITCH_TO_SEND"
  BY <1>4 DEF NodeOK, Outbox
<1>6. Remaining(m) + swSend - c.switchTimer >= slotDuration
  BY <1>5 DEF Pair
<1>7. c.switchTimer \in Nat
  BY <1>5, RadioStates DEF NodeOK, NicTyped, Timer
<1>8. Remaining(m) \in Nat
  BY RemainingNat DEF NodeOK
<1>9. Fits(m, k2.wakeup)
  BY <1>6, <1>7, <1>8, Slack, Constants DEF Fits
<1>10. <<>> \in Seq(Preamble)
  OBVIOUS
<1>. QED  BY <1>9, <1>10 DEF Ready

LEMMA ReadySwitched ==
  ASSUME NEW s, NEW n, NEW m, NEW c, NEW p, NodeOK(s, m, c, p), m.macState = "TX",
         c.radioState \in {"SWITCH_TO_SEND", "SEND"},
         NEW k, NEW d, NEW q, NodeOK(n, k, d, q), Ready(s, m, c, k, d, q), d.switchTimer = 0,
         NEW k2, NEW d2, Alters(k, k2, {"indication"}), d2.recvBuff = d.recvBuff
  PROVE  Ready(s, m, c, k2, d2, q)
<1>1. /\ k2.macState = k.macState /\ k2.wakeup = k.wakeup /\ k2.timeoutData = k.timeoutData
      /\ k2.macQueue = k.macQueue
  BY DEF Alters, MacFields
<1>2. ASSUME k.macState = "RX", k.timeoutData # Off, Renewed(s, m, c, k, d, q)
      PROVE  Renewed(s, m, c, k2, d2, q)
  <2>1. CASE c.radioState = "SEND" /\ d.radioState = "SWITCH_TO_RECV"
    <3>1. NextEnd(m, c) \in Nat /\ NextEnd(m, c) <= PreambleTime
      BY <2>1, NextEndNat
    <3>2. k.timeoutData > PreambleTime /\ k.timeoutData \in Nat
      BY <1>2, <2>1, Constants DEF NodeOK, Phase, MacTyped, Timer
    <3>3. k.timeoutData > NextEnd(m, c)
      BY <3>1, <3>2, Constants
    <3>. QED  BY <1>1, <3>3 DEF Renewed
  <2>. QED  BY <1>1, <1>2, <2>1 DEF Renewed
<1>. QED  BY <1>1, <1>2 DEF Ready

\* The frame of s begins at n.
LEMMA PairStart ==
  ASSUME StrongLinks, NEW s \in Node, NEW n \in Node, NEW m, NEW c, NEW k, NEW d, NEW q, NEW a,
         Pair(s, n, m, c, k, d, q, a), NodeOK(n, k, d, q), n \in Reached(s), a # <<>>,
         DOMAIN d.recvBuff = {}, NEW f, NEW t, NEW d2, Started(d, d2, n, s, f, t),
         NEW k2, Alters(k, k2, {"indication"})
  PROVE  Pair(s, n, m, c, k2, d2, q, <<>>)
<1>1. d.ptr = NoFrame /\ d.noiseLevel = thermalNoise + Weight(n, {})
  <2>1. d.ptr = NoFrame /\ DOMAIN d.recvBuff \ {d.ptr} = {}
    BY DEF NodeOK, Receiver
  <2>. QED  BY <2>1, Zenon DEF NodeOK, Receiver
<1>2. d.noiseLevel = thermalNoise
  BY <1>1, WeightOfNone, SnrNicAssumption
<1>3. Power[s][n] >= sensitivity /\ Power[s][n] > SnrThreshold * thermalNoise
  BY DEF StrongLinks, Reached
<1>4. d2.ptr = s /\ Clear(d2.sList)
  BY <1>1, <1>2, <1>3 DEF Started, IsSignal
<1>5. c.radioState # "SWITCH_TO_SEND"
  BY DEF Pair
<1>6. ASSUME Waited(m, c, <<>>) PROVE Ready(s, m, c, k2, d2, q)
  <2>1. Ready(s, m, c, k, d, q)
    BY <1>6 DEF Waited, Pair
  <2>2. /\ k2.macState = k.macState /\ k2.wakeup = k.wakeup /\ k2.timeoutData = k.timeoutData
        /\ k2.macQueue = k.macQueue
    BY DEF Alters, MacFields
  <2>3. d2.radioState = d.radioState
    BY DEF Started, NicAlters, NicFields, Measured
  <2>4. Renewed(s, m, c, k, d, q) => Renewed(s, m, c, k2, d2, q)
    BY <2>2, <2>3 DEF Renewed
  <2>. QED  BY <2>1, <2>2, <2>4 DEF Ready
<1>. QED  BY <1>4, <1>5, <1>6 DEF Pair

\* The frame of s has ended at n, which has received it if its radio was ready.
LEMMA PairEnd ==
  ASSUME NEW s \in Node, NEW n \in Node, NEW m, NEW c, NEW p, NodeOK(s, m, c, p), m.macState = "TX",
         NEW k, NEW d, NEW q, NEW a, LinkOK(s, n, m, c, d.recvBuff, a),
         Pair(s, n, m, c, k, d, q, a), NodeOK(n, k, d, q), n \in Reached(s),
         s \in DOMAIN d.recvBuff, NEW d2, Ended(d, d2, n, s),
         NEW k2, Alters(k, k2, {"indication"}),
         NEW q2, q2 = IF d.radioState = "RECV" THEN Append(q, d.recvBuff[s].frame) ELSE q
  PROVE  Pair(s, n, m, c, k2, d2, q2, a)
<1>1. s \notin DOMAIN d2.recvBuff
  BY DEF Ended
<1>2. c.radioState # "SWITCH_TO_SEND"
  BY DEF Pair
<1>3. ASSUME Waited(m, c, a) PROVE Ready(s, m, c, k2, d2, q2)
  <2>1. Ready(s, m, c, k, d, q)
    BY <1>3 DEF Pair
  <2>2. /\ k2.macState = k.macState /\ k2.wakeup = k.wakeup /\ k2.timeoutData = k.timeoutData
        /\ k2.macQueue = k.macQueue
    BY DEF Alters, MacFields
  <2>3. d.recvBuff[s].frame \in Preamble
    BY <1>3 DEF LinkOK, Waited
  <2>4. q2 \in Seq(Preamble)
    BY <2>1, <2>3, AppendProperties DEF Ready
  <2>5. d2.radioState = d.radioState
    BY DEF Ended, NicAlters, NicFields, Measured
  <2>6. ASSUME k.macState = "RX", k.macQueue = <<>>, k.timeoutData # Off, Renewed(s, m, c, k, d, q)
        PROVE  Renewed(s, m, c, k2, d2, q2)
    <3>1. CASE d.radioState = "RECV" /\ k.timeoutData > 0
      <4>. DEFINE f == d.recvBuff[s].frame
      <4>. HIDE DEF f
      <4>1. q2 = Append(q, f) /\ q \in Seq(Preamble) /\ f \in Preamble
        BY <2>1, <2>3, <3>1 DEF Ready, f
      <4>2. q2 # <<>>
        BY <4>1
      <4>. QED  BY <2>2, <3>1, <4>2 DEF Renewed
    <3>2. CASE d.radioState # "RECV"
      <4>1. d.radioState = "SWITCH_TO_RECV"
        BY <2>6, <3>2 DEF NodeOK, Phase
      <4>2. c.radioState = "SEND"
        BY <1>2, <1>3 DEF Waited
      <4>. QED  BY <2>5, <4>1, <4>2 DEF Renewed
    <3>3. CASE d.radioState = "RECV" /\ ~(k.timeoutData > 0)
      BY <2>2, <2>6, <3>3 DEF Renewed
    <3>. QED  BY <3>1, <3>2, <3>3
  <2>. QED  BY <2>1, <2>2, <2>4, <2>6 DEF Ready
<1>. QED  BY <1>1, <1>2, <1>3 DEF Pair

-----------------------------------------------------------------------------
(* What the only sender does *)

\* The fields that the preambles depend on keep their meaning.
LEMMA PairSender ==
  ASSUME NEW s, NEW n, NEW m, NEW c, NEW k, NEW d, NEW q, NEW a, Pair(s, n, m, c, k, d, q, a),
         NEW m2, NEW c2, Remaining(m2) = Remaining(m), NextEnd(m2, c2) = NextEnd(m, c),
         Preambles(m2) => Preambles(m), c2.radioState = c.radioState, c2.switchTimer = c.switchTimer
  PROVE  Pair(s, n, m2, c2, k, d, q, a)
<1>1. Waited(m2, c2, a) => Waited(m, c, a)
  BY DEF Waited
<1>2. Ready(s, m, c, k, d, q) => Ready(s, m2, c2, k, d, q)
  <2>1. Renewed(s, m, c, k, d, q) => Renewed(s, m2, c2, k, d, q)
    BY DEF Renewed
  <2>2. \A w : Fits(m, w) => Fits(m2, w)
    BY DEF Fits
  <2>. QED  BY <2>1, <2>2 DEF Ready
<1>. HIDE DEF Ready, Waited, Clear
<1>. QED  BY <1>1, <1>2 DEF Pair

LEMMA PairAsleep ==
  ASSUME NEW s, NEW n, NEW m, NEW c, NEW k, NEW d, NEW q, NEW a, Pair(s, n, m, c, k, d, q, a),
         NEW m2, NEW c2, c2.radioState \notin {"SWITCH_TO_SEND", "SEND"}
  PROVE  Pair(s, n, m2, c2, k, d, q, a)
BY DEF Pair, Waited

\* A frame goes to the radio.
LEMMA PairSend ==
  ASSUME NEW s, NEW n, NEW m, NEW c, NEW k, NEW d, NEW q, NEW a, Pair(s, n, m, c, k, d, q, a),
         k.macState = "RX" => k.timeoutData \in Timer,
         c.radioState = "SEND" \/ (c.radioState = "SWITCH_TO_SEND" /\ c.switchTimer = 0),
         c.txOverTimer = Off, Preambles(m),
         NEW m2, NEW c2, c2.radioState = "SEND", Remaining(m2) = Remaining(m),
         Preambles(m2) => c2.txOverTimer = PreambleTime, NEW b
  PROVE  Pair(s, n, m2, c2, k, d, q, b)
<1>1. NextEnd(m, c) = PreambleTime
  BY Constants DEF NextEnd
<1>2. NextEnd(m2, c2) \in {0, PreambleTime}
  BY Constants DEF NextEnd
<1>3. ASSUME n \in Reached(s), Waited(m2, c2, b) PROVE Ready(s, m2, c2, k, d, q)
  <2>1. Ready(s, m, c, k, d, q)
    BY <1>3 DEF Waited, Pair
  <2>2. k.macState = "RX" /\ Renewed(s, m, c, k, d, q) => Renewed(s, m2, c2, k, d, q)
    BY <1>1, <1>2, Constants DEF Renewed, Timer
  <2>3. \A w : Fits(m, w) => Fits(m2, w)
    BY DEF Fits
  <2>. QED  BY <2>1, <2>2, <2>3 DEF Ready
<1>. QED  BY <1>3 DEF Pair

\* The node s begins, when nothing is due and nothing is on the air.
LEMMA PairBegin ==
  ASSUME NEW s, NEW n, NEW m, NEW c, m.sendPreambles = slotDuration,
         c.radioState \in {"SWITCH_TO_SEND", "SWITCH_TO_SLEEP"}, c.radioState = "SWITCH_TO_SEND" => c.switchTimer = swSend,
         NEW k, NEW d, NodeOK(n, k, d, <<>>), s \notin DOMAIN d.recvBuff
  PROVE  Pair(s, n, m, c, k, d, <<>>, <<>>)
<1>1. Remaining(m) = slotDuration
  BY Constants DEF Remaining
<1>2. ASSUME c.radioState = "SWITCH_TO_SEND" PROVE Ready(s, m, c, k, d, <<>>)
  <2>1. slack \in Nat /\ slack = swSend + PreambleTime
    BY Slack
  <2>2. k.macState = "SLEEP" /\ k.macQueue = <<>> => Fits(m, k.wakeup)
    BY <1>1, <2>1, Constants DEF Fits, NodeOK, Phase, MacTyped, Timer
  <2>3. k.macState = "RX" /\ k.macQueue = <<>> /\ k.timeoutData # Off =>
          Fits(m, k.timeoutData + slotDuration) \/ Renewed(s, m, c, k, d, <<>>)
    <3>. HAVE k.macState = "RX" /\ k.macQueue = <<>> /\ k.timeoutData # Off
    <3>1. k.timeoutData \in Nat
      BY DEF NodeOK, MacTyped, Timer
    <3>2. NextEnd(m, c) = swSend + PreambleTime
      BY <1>2, Constants DEF NextEnd, Preambles
    <3>3. k.timeoutData <= slack \/ k.timeoutData > swSend + PreambleTime
      BY <2>1, <3>1, Constants
    <3>. QED  BY <1>1, <2>1, <3>1, <3>2, <3>3, Constants DEF Fits, Renewed
  <2>4. <<>> \in Seq(Preamble)
    OBVIOUS
  <2>. QED  BY <2>2, <2>3, <2>4 DEF Ready
<1>3. c.radioState = "SWITCH_TO_SEND" => Remaining(m) + swSend - c.switchTimer >= slotDuration
  BY <1>1, Constants
<1>. QED  BY <1>2, <1>3 DEF Pair, Waited

\* A unit of time passes, when nothing is due.
LEMMA PairTick ==
  ASSUME NEW s \in Node, NEW n \in Node, NEW m, NEW c, NodeOK(s, m, c, <<>>), QuietNode(m, c), m.macState = "TX",
         NEW k, NEW d, NodeOK(n, k, d, <<>>), QuietNode(k, d),
         LinkOK(s, n, m, c, d.recvBuff, <<>>), Pair(s, n, m, c, k, d, <<>>, <<>>),
         NEW m2, Aged(m, m2), NEW c2, Older(c, c2), NEW k2, Aged(k, k2), NEW d2, Older(d, d2)
  PROVE  Pair(s, n, m2, c2, k2, d2, <<>>, <<>>)
<1>1. \A t \in Timer : t # 0 => t = Off \/ 1 <= t
  BY DEF Timer
<1>2. /\ m2.macState = m.macState /\ m2.sendData = m.sendData
      /\ m2.sendPreambles = (IF m.sendPreambles = Off THEN Off ELSE m.sendPreambles - 1)
      /\ m.sendPreambles \in Timer /\ m.sendPreambles # 0
  <2>1. m.sendPreambles \in Timer /\ m.sendPreambles # 0
    BY DEF NodeOK, MacTyped, QuietNode
  <2>2. m2.macState = m.macState /\ m2.sendData = m.sendData
    BY DEF Aged, Alters, MacFields
  <2>. QED  BY <1>1, <2>1, <2>2, QuietLater DEF Aged
<1>3. /\ c2.radioState = c.radioState
      /\ c2.switchTimer = (IF c.switchTimer = Off THEN Off ELSE c.switchTimer - 1)
      /\ c2.txOverTimer = (IF c.txOverTimer = Off THEN Off ELSE c.txOverTimer - 1)
      /\ c.switchTimer \in Timer /\ c.switchTimer # 0 /\ c.txOverTimer \in Timer /\ c.txOverTimer # 0
  <2>1. c.switchTimer \in Timer /\ c.switchTimer # 0 /\ c.txOverTimer \in Timer /\ c.txOverTimer # 0
    BY DEF NodeOK, NicTyped, QuietNode
  <2>2. c2.radioState = c.radioState
    BY DEF Older, NicAlters, NicFields
  <2>. QED  BY <1>1, <2>1, <2>2, QuietLater DEF Older
<1>4. /\ k2.macState = k.macState /\ k2.macQueue = k.macQueue
      /\ k2.wakeup = (IF k.wakeup = Off THEN Off ELSE k.wakeup - 1)
      /\ k2.timeoutData = (IF k.timeoutData = Off THEN Off ELSE k.timeoutData - 1)
      /\ k.wakeup \in Timer /\ k.wakeup # 0 /\ k.timeoutData \in Timer /\ k.timeoutData # 0
  <2>1. k.wakeup \in Timer /\ k.wakeup # 0 /\ k.timeoutData \in Timer /\ k.timeoutData # 0
    BY DEF NodeOK, MacTyped, QuietNode
  <2>2. k2.macState = k.macState /\ k2.macQueue = k.macQueue
    BY DEF Aged, Alters, MacFields
  <2>. QED  BY <1>1, <2>1, <2>2, QuietLater DEF Aged
<1>5. /\ d2.radioState = d.radioState /\ d2.ptr = d.ptr /\ DOMAIN d2.recvBuff = DOMAIN d.recvBuff
      /\ s \in DOMAIN d.recvBuff => d2.recvBuff[s].left = d.recvBuff[s].left - 1 /\ d.recvBuff[s].left # 0
      /\ Clear(d.sList) => Clear(d2.sList)
  BY DEF Older, NicAlters, NicFields, QuietNode
<1>6. Preambles(m2) <=> Preambles(m)
  BY <1>2, Constants DEF Preambles, Timer
<1>7. Remaining(m) \in Nat /\ Remaining(m2) \in Nat /\ Remaining(m2) + 1 >= Remaining(m)
      /\ (Remaining(m2) + 1 > Remaining(m) => Remaining(m) = 0)
  BY <1>2, Constants DEF Remaining, Timer
<1>8. c.radioState = "SWITCH_TO_SEND" =>
        /\ c.switchTimer \in Nat /\ c2.switchTimer = c.switchTimer - 1
        /\ Remaining(m2) + swSend - c2.switchTimer >= slotDuration
  <2>. HAVE c.radioState = "SWITCH_TO_SEND"
  <2>1. c.switchTimer \in Nat /\ c.switchTimer # Off
    BY RadioStates, Constants DEF NodeOK, NicTyped, Timer
  <2>2. Remaining(m) + swSend - c.switchTimer >= slotDuration
    BY DEF Pair
  <2>3. c2.switchTimer = c.switchTimer - 1
    BY <1>3, <2>1
  <2>. DEFINE a == Remaining(m)
              b == Remaining(m2)
              t == c.switchTimer
              u == c2.switchTimer
  <2>4. a \in Nat /\ b \in Nat /\ t \in Nat /\ b + 1 >= a /\ a + swSend - t >= slotDuration /\ u = t - 1
        /\ swSend \in Nat /\ slotDuration \in Nat
    BY <1>7, <2>1, <2>2, <2>3, Constants
  <2>. HIDE DEF a, b, t, u
  <2>5. b + swSend - u >= slotDuration
    BY <2>4
  <2>. QED  BY <2>1, <2>3, <2>5 DEF b, u
<1>9. ASSUME n \in Reached(s), Waited(m2, c2, <<>>) PROVE Ready(s, m2, c2, k2, d2, <<>>)
  <2>1. Preambles(m) /\ c.radioState \in {"SWITCH_TO_SEND", "SEND"} /\ Ready(s, m, c, k, d, <<>>)
    BY <1>3, <1>6, <1>9 DEF Waited, Pair
  <2>2. slack \in Nat
    BY Slack
  <2>3. k2.macState = "SLEEP" /\ k2.macQueue = <<>> => Fits(m2, k2.wakeup)
    <3>. HAVE k2.macState = "SLEEP" /\ k2.macQueue = <<>>
    <3>1. k.wakeup <= Remaining(m) + slack /\ k.wakeup # Off
      BY <1>4, <2>1 DEF Ready, Fits, NodeOK, Phase
    <3>2. k.wakeup \in Nat /\ k2.wakeup = k.wakeup - 1 /\ k.wakeup >= 1
      BY <1>4, <3>1, Constants DEF Timer
    <3>. DEFINE a == Remaining(m)
                b == Remaining(m2)
                t == k.wakeup
                u == k2.wakeup
    <3>3. /\ a \in Nat /\ b \in Nat /\ t \in Nat /\ b + 1 >= a /\ t <= a + slack /\ u = t - 1
          /\ slack \in Nat
      BY <1>7, <2>2, <3>1, <3>2
    <3>. HIDE DEF a, b, t, u
    <3>4. u <= b + slack
      BY <3>3
    <3>. QED  BY <3>4 DEF Fits, b, u
  <2>4. ASSUME k2.macState = "RX", k2.macQueue = <<>>, k2.timeoutData # Off
        PROVE  Fits(m2, k2.timeoutData + slotDuration) \/ Renewed(s, m2, c2, k2, d2, <<>>)
    <3>1. k.timeoutData # Off /\ k.timeoutData \in Nat /\ k2.timeoutData = k.timeoutData - 1
          /\ (Fits(m, k.timeoutData + slotDuration) \/ Renewed(s, m, c, k, d, <<>>))
      BY <1>4, <2>1, <2>4, Constants DEF Ready, Timer
    <3>2. CASE Fits(m, k.timeoutData + slotDuration)
      <4>1. Fits(m2, k2.timeoutData + slotDuration)
        <5>. DEFINE a == Remaining(m)
                    b == Remaining(m2)
                    t == k.timeoutData
                    u == k2.timeoutData
        <5>1. /\ a \in Nat /\ b \in Nat /\ t \in Nat /\ b + 1 >= a /\ t + slotDuration <= a + slack
              /\ u = t - 1 /\ slack \in Nat /\ slotDuration \in Nat
          BY <1>7, <2>2, <3>1, <3>2, Constants DEF Fits
        <5>. HIDE DEF a, b, t, u
        <5>2. u + slotDuration <= b + slack
          BY <5>1
        <5>. QED  BY <5>2 DEF Fits, b, u
      <4>. QED  BY <4>1
    <3>3. CASE k.timeoutData > NextEnd(m, c) /\ c.radioState = "SWITCH_TO_SEND"
      <4>1. NextEnd(m, c) = c.switchTimer + PreambleTime /\ NextEnd(m2, c2) = c2.switchTimer + PreambleTime
        BY <1>3, <1>6, <2>1, <3>3 DEF NextEnd
      <4>2. k2.timeoutData > NextEnd(m2, c2)
        <5>. DEFINE e == NextEnd(m, c)
                    g == NextEnd(m2, c2)
                    t == c.switchTimer
                    u == k.timeoutData
        <5>1. e = t + PreambleTime /\ g = (t - 1) + PreambleTime /\ t \in Nat /\ PreambleTime \in Nat
              /\ u \in Nat /\ u > e /\ k2.timeoutData = u - 1
          BY <1>8, <3>1, <3>3, <4>1, Constants
        <5>. HIDE DEF e, g, t, u
        <5>2. k2.timeoutData > g
          BY <5>1
        <5>. QED  BY <5>2 DEF g
      <4>. QED  BY <4>2 DEF Renewed
    <3>4. CASE k.timeoutData > NextEnd(m, c) /\ c.radioState = "SEND"
      <4>1. c.txOverTimer # Off /\ c.txOverTimer \in Nat /\ c.txOverTimer >= 1 /\ c2.txOverTimer = c.txOverTimer - 1
        <5>1. c.txOverTimer # Off
          BY <3>4 DEF NodeOK, Outbox
        <5>. QED  BY <1>3, <5>1, Constants DEF Timer
      <4>2. NextEnd(m, c) = c.txOverTimer
        BY <2>1, <3>4, <4>1 DEF NextEnd
      <4>3. s \in DOMAIN d.recvBuff /\ d.recvBuff[s].left = c.txOverTimer
        BY <1>9, <4>1 DEF LinkOK
      <4>4. CASE c2.txOverTimer = 0
        BY <1>5, <3>1, <3>4, <4>1, <4>2, <4>3, <4>4 DEF Renewed
      <4>5. CASE c2.txOverTimer > 0
        <5>1. NextEnd(m2, c2) = c2.txOverTimer
          BY <1>3, <1>6, <2>1, <3>4, <4>5 DEF NextEnd
        <5>2. k2.timeoutData > NextEnd(m2, c2)
          BY <3>1, <3>4, <4>1, <4>2, <5>1
        <5>. QED  BY <5>2 DEF Renewed
      <4>. QED  BY <4>1, <4>4, <4>5
    <3>5. CASE ~Fits(m, k.timeoutData + slotDuration) /\ ~(k.timeoutData > NextEnd(m, c))
      BY <1>3, <1>5, <3>1, <3>5 DEF Renewed
    <3>. QED  BY <2>1, <3>2, <3>3, <3>4, <3>5
  <2>5. <<>> \in Seq(Preamble)
    OBVIOUS
  <2>. QED  BY <2>3, <2>4, <2>5 DEF Ready
<1>. HIDE DEF Clear, Ready
<1>. QED  BY <1>3, <1>5, <1>8, <1>9 DEF Pair

-----------------------------------------------------------------------------
(* The inductive invariant *)

Typed ==
  /\ DOMAIN mac = Node /\ DOMAIN nic = Node /\ DOMAIN toMac = Node
  /\ DOMAIN arriving = Node /\ \A n \in Node : DOMAIN arriving[n] = Node
  /\ handedIn \in Nat

\* What a node that sends alone has to do with the others
Only(s) ==
  alone[s] /\ mac[s].macState = "TX" =>
    /\ \A o \in Node \ {s}, n \in Node : Silent(o, mac[o], nic[n].recvBuff, arriving[n][o])
    /\ \A n \in Node \ {s} : Pair(s, n, mac[s], nic[s], mac[n], nic[n], toMac[n], arriving[n][s])

Good ==
  /\ \A n \in Node : NodeOK(n, mac[n], nic[n], toMac[n])
  /\ \A s, n \in Node : LinkOK(s, n, mac[s], nic[s], nic[n].recvBuff, arriving[n][s])
  /\ \A s \in Node : Only(s)

\* A node becomes alone when it begins, and others do not send.
AloneNext ==
  \A s \in Node :
    alone'[s] /\ mac'[s].macState = "TX" =>
      /\ mac[s].macState = "TX" => alone[s]
      /\ \A o \in Node \ {s} : mac'[o].macState # "TX"

\* n hears s, which sends alone.
Hears(s, n) ==
  /\ mac[s].macState = "TX" /\ mac[n].macState # "TX" /\ DOMAIN nic[n].recvBuff \subseteq {s}
  /\ Pair(s, n, mac[s], nic[s], mac[n], nic[n], toMac[n], arriving[n][s])

LEMMA OnlyHears ==
  ASSUME Good, NEW s \in Node, alone[s], mac[s].macState = "TX", NEW n \in Node \ {s}
  PROVE  Hears(s, n)
<1>1. DOMAIN nic[n].recvBuff \in SUBSET Node
  BY DEF Good, NodeOK, NicTyped
<1>2. \A o \in Node \ {s} : Silent(o, mac[o], nic[n].recvBuff, arriving[n][o])
  BY DEF Good, Only
<1>3. mac[n].macState # "TX" /\ DOMAIN nic[n].recvBuff \subseteq {s}
  BY <1>1, <1>2 DEF Silent
<1>. QED  BY <1>3 DEF Good, Only, Hears

\* Only the MAC and the radio of x change, and what x sends.
Acts(x) ==
  /\ \A y \in Node \ {x} : mac'[y] = mac[y] /\ nic'[y] = nic[y] /\ toMac'[y] = toMac[y]
  /\ nic'[x].recvBuff = nic[x].recvBuff
  /\ \A n \in Node, s \in Node \ {x} : arriving'[n][s] = arriving[n][s]

LEMMA ActsKeep ==
  ASSUME Good, AloneNext, NEW x \in Node, Acts(x), NodeOK(x, mac'[x], nic'[x], toMac'[x]),
         \A n \in Node : LinkOK(x, n, mac'[x], nic'[x], nic[n].recvBuff, arriving'[n][x]),
         mac[x].macState # "TX" /\ mac'[x].macState # "TX" => \A n \in Node : arriving'[n][x] = arriving[n][x],
         mac'[x].macState # "TX" =>
           \A s \in Node \ {x} : Hears(s, x) =>
             Pair(s, x, mac[s], nic[s], mac'[x], nic'[x], toMac'[x], arriving[x][s]),
         mac[x].macState = "TX" /\ mac'[x].macState = "TX" =>
           \A n \in Node \ {x} : Hears(x, n) =>
             Pair(x, n, mac'[x], nic'[x], mac[n], nic[n], toMac[n], arriving'[n][x]),
         mac[x].macState # "TX" /\ mac'[x].macState = "TX" /\ (\A o \in Node \ {x} : mac[o].macState # "TX") =>
           /\ \A o \in Node \ {x}, n \in Node : Silent(o, mac[o], nic[n].recvBuff, arriving[n][o])
           /\ \A n \in Node \ {x} : Pair(x, n, mac'[x], nic'[x], mac[n], nic[n], toMac[n], arriving'[n][x])
  PROVE  Good'
<1>1. ASSUME NEW n \in Node PROVE NodeOK(n, mac'[n], nic'[n], toMac'[n]) /\ nic'[n].recvBuff = nic[n].recvBuff
  BY DEF Good, Acts
<1>2. ASSUME NEW s \in Node, NEW n \in Node
      PROVE  LinkOK(s, n, mac'[s], nic'[s], nic'[n].recvBuff, arriving'[n][s])
  BY <1>1 DEF Good, Acts
<1>3. ASSUME NEW s \in Node, alone'[s], mac'[s].macState = "TX",
             NEW o \in Node \ {s}, NEW n \in Node
      PROVE  Silent(o, mac'[o], nic'[n].recvBuff, arriving'[n][o])
  <2>1. mac'[o].macState # "TX"
    BY <1>3 DEF AloneNext
  <2>2. CASE s = x
    <3>1. mac'[o] = mac[o] /\ arriving'[n][o] = arriving[n][o]
      BY <2>2 DEF Acts
    <3>2. Silent(o, mac[o], nic[n].recvBuff, arriving[n][o])
      <4>1. CASE mac[x].macState = "TX"
        BY <1>3, <2>2, <4>1 DEF AloneNext, Good, Only
      <4>2. CASE mac[x].macState # "TX"
        <5>1. \A y \in Node \ {x} : mac[y].macState # "TX"
          BY <1>3, <2>2 DEF AloneNext, Acts
        <5>. QED  BY <1>3, <2>2, <4>2, <5>1
      <4>. QED  BY <4>1, <4>2
    <3>. QED  BY <1>1, <3>1, <3>2
  <2>3. CASE s # x
    <3>1. mac[s].macState = "TX" /\ alone[s]
      BY <1>3, <2>3 DEF AloneNext, Acts
    <3>2. Silent(o, mac[o], nic[n].recvBuff, arriving[n][o])
      BY <3>1 DEF Good, Only
    <3>3. arriving'[n][o] = arriving[n][o]
      BY <2>1, <3>2 DEF Acts, Silent
    <3>. QED  BY <1>1, <2>1, <3>2, <3>3 DEF Silent
  <2>. QED  BY <2>2, <2>3
<1>4. ASSUME NEW s \in Node, alone'[s], mac'[s].macState = "TX", NEW n \in Node \ {s}
      PROVE  Pair(s, n, mac'[s], nic'[s], mac'[n], nic'[n], toMac'[n], arriving'[n][s])
  <2>0. \A o \in Node \ {s} : mac'[o].macState # "TX"
    BY <1>4 DEF AloneNext
  <2>1. CASE s = x /\ mac[x].macState = "TX"
    <3>1. Hears(x, n)
      BY <1>4, <2>1, OnlyHears DEF AloneNext
    <3>2. mac'[n] = mac[n] /\ nic'[n] = nic[n] /\ toMac'[n] = toMac[n]
      BY <2>1 DEF Acts
    <3>3. Pair(x, n, mac'[x], nic'[x], mac[n], nic[n], toMac[n], arriving'[n][x])
      BY <1>4, <2>1, <3>1
    <3>. QED  BY <2>1, <3>2, <3>3
  <2>2. CASE s = x /\ mac[x].macState # "TX"
    <3>1. \A o \in Node \ {x} : mac[o].macState # "TX"
      BY <2>0, <2>2 DEF Acts
    <3>2. mac'[n] = mac[n] /\ nic'[n] = nic[n] /\ toMac'[n] = toMac[n]
      BY <2>2 DEF Acts
    <3>. QED  BY <1>4, <2>2, <3>1, <3>2
  <2>3. CASE s # x
    <3>1. mac[s].macState = "TX" /\ alone[s] /\ mac'[s] = mac[s] /\ nic'[s] = nic[s]
          /\ arriving'[n][s] = arriving[n][s]
      BY <1>4, <2>3 DEF AloneNext, Acts
    <3>2. Hears(s, n)
      BY <3>1, OnlyHears
    <3>3. CASE n = x
      BY <2>0, <2>3, <3>1, <3>2, <3>3
    <3>4. CASE n # x
      <4>1. mac'[n] = mac[n] /\ nic'[n] = nic[n] /\ toMac'[n] = toMac[n]
        BY <3>4 DEF Acts
      <4>. QED  BY <3>1, <3>2, <4>1 DEF Hears
    <3>. QED  BY <3>3, <3>4
  <2>. QED  BY <2>1, <2>2, <2>3
<1>5. ASSUME NEW s \in Node PROVE Only(s)'
  BY <1>3, <1>4 DEF Only
<1>. QED  BY <1>1, <1>2, <1>5 DEF Good

\* Only what is on the air of s at n changes, and what n makes of it.
Airs(n, s) ==
  /\ \A y \in Node \ {n} : mac'[y] = mac[y] /\ nic'[y] = nic[y] /\ toMac'[y] = toMac[y]
  /\ \A o \in Node \ {s} : /\ o \in DOMAIN nic'[n].recvBuff <=> o \in DOMAIN nic[n].recvBuff
                           /\ o \in DOMAIN nic[n].recvBuff => nic'[n].recvBuff[o] = nic[n].recvBuff[o]
  /\ \A y, o \in Node : ~(y = n /\ o = s) => arriving'[y][o] = arriving[y][o]

LEMMA AirsKeep ==
  ASSUME Good, AloneNext, NEW n \in Node, NEW s \in Node \ {n}, Airs(n, s),
         AirNode(n, mac[n], nic[n], toMac[n], mac'[n], nic'[n], toMac'[n]),
         LinkOK(s, n, mac[s], nic[s], nic'[n].recvBuff, arriving'[n][s]),
         arriving[n][s] # <<>> \/ s \in DOMAIN nic[n].recvBuff,
         Hears(s, n) => Pair(s, n, mac[s], nic[s], mac'[n], nic'[n], toMac'[n], arriving'[n][s])
  PROVE  Good'
<1>0. /\ mac'[n].macState = mac[n].macState /\ mac'[n].sendPreambles = mac[n].sendPreambles
      /\ mac'[n].sendData = mac[n].sendData /\ nic'[n].txOverTimer = nic[n].txOverTimer
  BY DEF AirNode, Alters, MacFields, NicAlters, NicFields, Measured
<1>1. ASSUME NEW y \in Node PROVE NodeOK(y, mac'[y], nic'[y], toMac'[y])
  <2>1. NodeOK(n, mac'[n], nic'[n], toMac'[n])
    BY AirNodeOK DEF Good
  <2>. QED  BY <2>1 DEF Good, Airs
<1>2. ASSUME NEW o \in Node, NEW y \in Node
      PROVE  LinkOK(o, y, mac'[o], nic'[o], nic'[y].recvBuff, arriving'[y][o])
  <2>1. CASE y = n /\ o = s
    <3>1. mac'[s] = mac[s] /\ nic'[s] = nic[s]
      BY DEF Airs
    <3>. QED  BY <2>1, <3>1
  <2>2. CASE ~(y = n /\ o = s)
    <3>1. LinkOK(o, y, mac[o], nic[o], nic[y].recvBuff, arriving[y][o])
      BY DEF Good
    <3>2. arriving'[y][o] = arriving[y][o]
      BY <2>2 DEF Airs
    <3>3. /\ o \in DOMAIN nic'[y].recvBuff <=> o \in DOMAIN nic[y].recvBuff
          /\ o \in DOMAIN nic[y].recvBuff => nic'[y].recvBuff[o] = nic[y].recvBuff[o]
      BY <2>2 DEF Airs
    <3>4. /\ nic'[o].txOverTimer = nic[o].txOverTimer /\ mac'[o].macState = mac[o].macState
          /\ Preambles(mac'[o]) <=> Preambles(mac[o])
      BY <1>0 DEF Airs, Preambles
    <3>5. LinkOK(o, y, mac'[o], nic'[o], nic'[y].recvBuff, arriving[y][o])
      BY <3>1, <3>3, <3>4, LinkKept
    <3>. QED  BY <3>2, <3>5
  <2>. QED  BY <2>1, <2>2
<1>3. ASSUME NEW o \in Node, alone'[o], mac'[o].macState = "TX"
      PROVE  o = s /\ alone[s] /\ mac[s].macState = "TX"
  <2>1. mac[o].macState = "TX" /\ alone[o]
    BY <1>0, <1>3 DEF AloneNext, Airs
  <2>2. ~Silent(s, mac[s], nic[n].recvBuff, arriving[n][s])
    BY DEF Silent
  <2>3. o = s
    BY <2>1, <2>2 DEF Good, Only
  <2>. QED  BY <2>1, <2>3
<1>4. ASSUME alone'[s], mac'[s].macState = "TX" PROVE Only(s)'
  <2>0. mac'[s] = mac[s] /\ nic'[s] = nic[s] /\ alone[s] /\ mac[s].macState = "TX"
    BY <1>3, <1>4 DEF Airs
  <2>1. ASSUME NEW o \in Node \ {s}, NEW y \in Node
        PROVE  Silent(o, mac'[o], nic'[y].recvBuff, arriving'[y][o])
    <3>1. Silent(o, mac[o], nic[y].recvBuff, arriving[y][o])
      BY <2>0 DEF Good, Only
    <3>2. mac'[o].macState = mac[o].macState /\ arriving'[y][o] = arriving[y][o]
          /\ (o \in DOMAIN nic'[y].recvBuff <=> o \in DOMAIN nic[y].recvBuff)
      BY <1>0 DEF Airs
    <3>. QED  BY <3>1, <3>2 DEF Silent
  <2>2. ASSUME NEW y \in Node \ {s}
        PROVE  Pair(s, y, mac'[s], nic'[s], mac'[y], nic'[y], toMac'[y], arriving'[y][s])
    <3>1. Hears(s, y)
      BY <2>0, OnlyHears
    <3>2. CASE y = n
      BY <2>0, <3>1, <3>2
    <3>3. CASE y # n
      <4>1. mac'[y] = mac[y] /\ nic'[y] = nic[y] /\ toMac'[y] = toMac[y] /\ arriving'[y][s] = arriving[y][s]
        BY <3>3 DEF Airs
      <4>. QED  BY <2>0, <3>1, <4>1 DEF Hears
    <3>. QED  BY <3>2, <3>3
  <2>. QED  BY <2>1, <2>2 DEF Only
<1>5. ASSUME NEW o \in Node PROVE Only(o)'
  <2>1. CASE alone'[o] /\ mac'[o].macState = "TX"
    BY <1>3, <1>4, <2>1
  <2>2. CASE ~(alone'[o] /\ mac'[o].macState = "TX")
    BY <2>2 DEF Only
  <2>. QED  BY <2>1, <2>2
<1>. QED  BY <1>1, <1>2, <1>5 DEF Good

-----------------------------------------------------------------------------
(* The end of an event *)

Puts(n, m, c) ==
  /\ DOMAIN mac' = Node /\ DOMAIN nic' = Node /\ DOMAIN arriving' = Node
  /\ \A d \in Node : DOMAIN arriving'[d] = Node
  /\ \A y \in Node \ {n} : mac'[y] = mac[y] /\ nic'[y] = nic[y]
  /\ \A d \in Node, s \in Node \ {n} : arriving'[d][s] = arriving[d][s]
  /\ \A d \in Node :
       arriving'[d][n] = IF m.tx # <<>> /\ d \in Reached(n) THEN Append(arriving[d][n], m.tx[1])
                         ELSE arriving[d][n]
  /\ mac'[n].error = NoError => m.error = NoError /\ Carried(m, c, mac'[n], nic'[n])

LEMMA switchToEffect ==
  ASSUME NEW c, NicFields \subseteq DOMAIN c, NEW r
  PROVE  /\ NicAlters(c, switchTo(c, r), {"radioState", "switchTimer"})
         /\ IF c.radioState \in Steady
            THEN switchTo(c, r).radioState = r /\ switchTo(c, r).switchTimer = SwitchTime(r)
            ELSE switchTo(c, r) = c
<1>1. CASE c.radioState \in Steady
  BY <1>1 DEF switchTo, CanSwitch, NicAlters, NicFields
<1>2. CASE c.radioState \notin Steady
  BY <1>2 DEF switchTo, CanSwitch, NicAlters
<1>. QED  BY <1>1, <1>2

LEMMA PutEffect ==
  ASSUME Typed, NEW n \in Node, NEW m, MacFields \subseteq DOMAIN m,
         NEW c, NicFields \subseteq DOMAIN c, Put(n, m, c)
  PROVE  Puts(n, m, c)
<1>. DEFINE sending == m.tx # <<>>
            bad == sending /\ c.txOverTimer # Off
            e == FailIf(m, bad, "sending twice")
            m2 == [e EXCEPT !.cmd = "none", !.tx = <<>>, !.up = {}]
            radio == IF m.cmd = "none" THEN c ELSE switchTo(c, m.cmd)
            c2 == IF sending THEN [radio EXCEPT !.txOverTimer = Duration(m.tx[1])] ELSE radio
<1>1. mac' = [mac EXCEPT ![n] = m2]
  BY Zenon DEF Put
<1>2. nic' = [nic EXCEPT ![n] = c2]
  BY Zenon DEF Put
<1>3. IF sending THEN Transmit(n, m.tx[1]) ELSE UNCHANGED arriving
  BY Zenon DEF Put
<1>4. /\ DOMAIN arriving' = Node /\ \A d \in Node : DOMAIN arriving'[d] = Node
      /\ \A d \in Node, s \in Node \ {n} : arriving'[d][s] = arriving[d][s]
      /\ \A d \in Node :
           arriving'[d][n] = IF sending /\ d \in Reached(n) THEN Append(arriving[d][n], m.tx[1])
                             ELSE arriving[d][n]
  BY <1>3 DEF Typed, Transmit
<1>5. Alters(m, e, {"error"}) /\ (e.error = NoError => m.error = NoError /\ ~bad)
  <2>1. "sending twice" # NoError
    BY DEF NoError
  <2>. HIDE DEF bad
  <2>. QED  BY <2>1, FailIfEffect
<1>6. /\ NicAlters(c, radio, {"radioState", "switchTimer"})
      /\ IF m.cmd # "none" /\ c.radioState \in Steady
         THEN radio.radioState = m.cmd /\ radio.switchTimer = SwitchTime(m.cmd)
         ELSE radio.radioState = c.radioState /\ radio.switchTimer = c.switchTimer
  BY switchToEffect DEF NicAlters
<1>. HIDE DEF e, radio
<1>7. Alters(e, m2, {"cmd", "tx", "up"}) /\ Idle(m2) /\ m2.error = e.error
  BY <1>5 DEF Alters, MacFields, Idle
<1>8. Alters(m, m2, {"cmd", "tx", "up", "error"})
  BY <1>5, <1>7 DEF Alters
<1>9. /\ NicAlters(radio, c2, {"txOverTimer"})
      /\ c2.txOverTimer = IF sending THEN Duration(m.tx[1]) ELSE radio.txOverTimer
  <2>1. NicFields \subseteq DOMAIN radio
    BY <1>6 DEF NicAlters
  <2>. QED  BY <2>1 DEF NicAlters, NicFields
<1>. HIDE DEF m2, c2
<1>10. mac'[n] = m2 /\ nic'[n] = c2 /\ DOMAIN mac' = Node /\ DOMAIN nic' = Node
       /\ \A y \in Node \ {n} : mac'[y] = mac[y] /\ nic'[y] = nic[y]
  BY <1>1, <1>2 DEF Typed
<1>11. ASSUME m2.error = NoError PROVE m.error = NoError /\ Carried(m, c, m2, c2)
  <2>1. m.error = NoError /\ ~bad
    BY <1>5, <1>7, <1>11
  <2>2. Alters(m, m2, {"cmd", "tx", "up"})
    BY <1>7, <1>8, <1>11, <2>1 DEF Alters
  <2>3. /\ NicAlters(c, c2, Radio) /\ c2.radioState = radio.radioState /\ c2.switchTimer = radio.switchTimer
        /\ c2.txOverTimer = IF sending THEN Duration(m.tx[1]) ELSE c.txOverTimer
    BY <1>6, <1>9 DEF NicAlters, NicFields, Radio
  <2>. QED  BY <1>6, <1>7, <2>1, <2>2, <2>3 DEF Carried
<1>. QED  BY <1>4, <1>10, <1>11 DEF Puts

-----------------------------------------------------------------------------
(* The steps of a node that begin no frame *)

LEMMA HearsReceiver ==
  ASSUME NEW s \in Node, NEW n \in Node, Hears(s, n),
         NEW k, NEW d, NEW q, d.recvBuff = nic[n].recvBuff, d.ptr = nic[n].ptr,
         Clear(nic[n].sList) => Clear(d.sList), q = toMac[n] \/ toMac[n] # <<>>,
         n \in Reached(s) /\ Waited(mac[s], nic[s], arriving[n][s]) => Ready(s, mac[s], nic[s], k, d, q)
  PROVE  Pair(s, n, mac[s], nic[s], k, d, q, arriving[n][s])
<1>. DEFINE m == mac[s]
            c == nic[s]
            a == arriving[n][s]
            k0 == mac[n]
            d0 == nic[n]
            q0 == toMac[n]
<1>1. Pair(s, n, m, c, k0, d0, q0, a)
  BY DEF Hears
<1>2. /\ d.recvBuff = d0.recvBuff /\ d.ptr = d0.ptr /\ (Clear(d0.sList) => Clear(d.sList))
      /\ q = q0 \/ q0 # <<>>
      /\ n \in Reached(s) /\ Waited(m, c, a) => Ready(s, m, c, k, d, q)
  OBVIOUS
<1>. HIDE DEF m, c, a, k0, d0, q0
<1>3. Pair(s, n, m, c, k, d, q, a)
  BY <1>1, <1>2, PairReceiver
<1>. QED  BY <1>3 DEF m, c, a

\* The node x changes neither what it sends nor what it hears.
Internal(x) ==
  /\ Acts(x) /\ \A n, s \in Node : arriving'[n][s] = arriving[n][s]
  /\ nic'[x].ptr = nic[x].ptr /\ (Clear(nic[x].sList) => Clear(nic'[x].sList))
  /\ toMac'[x] = toMac[x] \/ toMac[x] # <<>>
  /\ nic'[x].txOverTimer = nic[x].txOverTimer
  /\ mac'[x].macState = "TX" => mac[x].macState = "TX"
  /\ Preambles(mac'[x]) => Preambles(mac[x])

LEMMA InternalKeep ==
  ASSUME Good, AloneNext, NEW x \in Node, Internal(x), NodeOK(x, mac'[x], nic'[x], toMac'[x]),
         mac[x].macState # "TX" =>
           \A s \in Node \ {x} : Hears(s, x) /\ x \in Reached(s) /\ Waited(mac[s], nic[s], arriving[x][s]) =>
             Ready(s, mac[s], nic[s], mac'[x], nic'[x], toMac'[x]),
         mac[x].macState = "TX" /\ mac'[x].macState = "TX" =>
           \/ /\ Remaining(mac'[x]) = Remaining(mac[x]) /\ NextEnd(mac'[x], nic'[x]) = NextEnd(mac[x], nic[x])
              /\ nic'[x].radioState = nic[x].radioState /\ nic'[x].switchTimer = nic[x].switchTimer
           \/ nic'[x].radioState \notin {"SWITCH_TO_SEND", "SEND"}
  PROVE  Good'
<1>1. ASSUME NEW n \in Node
      PROVE  LinkOK(x, n, mac'[x], nic'[x], nic[n].recvBuff, arriving'[n][x])
  <2>. DEFINE m == mac[x]
              c == nic[x]
              b == nic[n].recvBuff
              a == arriving[n][x]
              m2 == mac'[x]
              c2 == nic'[x]
  <2>1. LinkOK(x, n, m, c, b, a)
    BY DEF Good
  <2>2. /\ c2.txOverTimer = c.txOverTimer /\ (Preambles(m2) => Preambles(m))
        /\ m2.macState = "TX" => m.macState = "TX"
        /\ arriving'[n][x] = a
    BY DEF Internal
  <2>. HIDE DEF m, c, b, a, m2, c2
  <2>3. LinkOK(x, n, m2, c2, b, a)
    BY <2>1, <2>2, LinkKept
  <2>. QED  BY <2>2, <2>3 DEF m2, c2, b
<1>2. ASSUME NEW s \in Node \ {x}, Hears(s, x)
      PROVE  Pair(s, x, mac[s], nic[s], mac'[x], nic'[x], toMac'[x], arriving[x][s])
  <2>1. x \in Reached(s) /\ Waited(mac[s], nic[s], arriving[x][s]) =>
             Ready(s, mac[s], nic[s], mac'[x], nic'[x], toMac'[x])
    BY <1>2 DEF Hears
  <2>2. /\ nic'[x].recvBuff = nic[x].recvBuff /\ nic'[x].ptr = nic[x].ptr
        /\ Clear(nic[x].sList) => Clear(nic'[x].sList)
        /\ toMac'[x] = toMac[x] \/ toMac[x] # <<>>
    BY DEF Internal, Acts
  <2>. QED  BY <1>2, <2>1, <2>2, HearsReceiver
<1>3. ASSUME mac[x].macState = "TX", mac'[x].macState = "TX", NEW n \in Node \ {x}, Hears(x, n)
      PROVE  Pair(x, n, mac'[x], nic'[x], mac[n], nic[n], toMac[n], arriving'[n][x])
  <2>. DEFINE m == mac[x]
              c == nic[x]
              k == mac[n]
              d == nic[n]
              q == toMac[n]
              a == arriving[n][x]
              m2 == mac'[x]
              c2 == nic'[x]
  <2>1. Pair(x, n, m, c, k, d, q, a)
    BY <1>3 DEF Hears
  <2>2. (Preambles(m2) => Preambles(m)) /\ arriving'[n][x] = a
    BY DEF Internal
  <2>3. \/ /\ Remaining(m2) = Remaining(m) /\ NextEnd(m2, c2) = NextEnd(m, c)
           /\ c2.radioState = c.radioState /\ c2.switchTimer = c.switchTimer
        \/ c2.radioState \notin {"SWITCH_TO_SEND", "SEND"}
    BY <1>3
  <2>. HIDE DEF m, c, k, d, q, a, m2, c2
  <2>4. Pair(x, n, m2, c2, k, d, q, a)
    BY <2>1, <2>2, <2>3, PairSender, PairAsleep
  <2>. QED  BY <2>2, <2>4 DEF m2, c2, k, d, q
<1>. QED  BY <1>1, <1>2, <1>3, ActsKeep DEF Internal

\* What an event without a frame leaves alone
LEMMA PutsInternal ==
  ASSUME Typed, Good, NEW n \in Node, NEW m, Puts(n, m, nic[n]), mac'[n].error = NoError, m.tx = <<>>,
         \A y \in Node \ {n} : toMac'[y] = toMac[y],
         toMac'[n] = toMac[n] \/ toMac[n] # <<>>,
         mac'[n].macState = "TX" => mac[n].macState = "TX",
         Preambles(mac'[n]) => Preambles(mac[n])
  PROVE  Internal(n) /\ Carried(m, nic[n], mac'[n], nic'[n])
<1>1. Carried(m, nic[n], mac'[n], nic'[n])
  BY DEF Puts
<1>2. /\ nic'[n].recvBuff = nic[n].recvBuff /\ nic'[n].ptr = nic[n].ptr /\ nic'[n].sList = nic[n].sList
      /\ nic'[n].txOverTimer = nic[n].txOverTimer
  BY <1>1 DEF Carried, NicAlters, NicFields, Radio
<1>3. \A d, s \in Node : arriving'[d][s] = arriving[d][s]
  BY DEF Puts
<1>. QED  BY <1>1, <1>2, <1>3 DEF Internal, Acts, Puts, Typed

LEMMA GoodFields ==
  ASSUME Good, NEW n \in Node
  PROVE  /\ NodeOK(n, mac[n], nic[n], toMac[n]) /\ MacTyped(n, mac[n]) /\ NicTyped(nic[n])
         /\ MacFields \subseteq DOMAIN mac[n] /\ NicFields \subseteq DOMAIN nic[n]
BY DEF Good, NodeOK, MacTyped, NicTyped

LEMMA StepUpper ==
  ASSUME Typed, Good, AloneNext, NEW n \in Node, handleUpperMsg(n), mac'[n].error = NoError
  PROVE  Good'
<1>. DEFINE p(d) == [kind |-> "data", src |-> n, dest |-> d, id |-> handedIn + 1]
<1>1. PICK d \in Dest[n], r \in Soon : Put(n, UpperMsg(mac[n], p(d), r), nic[n])
  BY DEF handleUpperMsg
<1>2. p(d) \in Data
  BY <1>1, BMACAssumption DEF Typed, Data
<1>. HIDE DEF p
<1>. DEFINE m == mac[n]
            h == UpperMsg(m, p(d), r)
<1>3. /\ Alters(m, h, {"macQueue", "wakeup"}) /\ h.macQueue # <<>>
      /\ h.wakeup = IF m.wakeup # Off /\ m.macState = "SLEEP" THEN r ELSE m.wakeup
  BY <1>2, GoodFields, UpperMsgEffect
<1>4. Puts(n, h, nic[n])
  <2>1. MacFields \subseteq DOMAIN h
    BY <1>3 DEF Alters
  <2>2. Put(n, h, nic[n])
    BY <1>1
  <2>. HIDE DEF h, m
  <2>. QED  BY <2>1, <2>2, GoodFields, PutEffect
<1>5. Carried(h, nic[n], mac'[n], nic'[n])
  BY <1>4 DEF Puts
<1>6. NodeOK(n, mac'[n], nic'[n], toMac'[n])
  <2>1. NodeOK(n, mac'[n], nic'[n], toMac[n])
    BY <1>2, <1>5, GoodFields, UpperNode
  <2>. QED  BY <2>1 DEF handleUpperMsg
<1>. HIDE DEF h
<1>7. /\ h.tx = <<>> /\ mac'[n].macState = m.macState /\ mac'[n].macQueue # <<>> /\ mac'[n].wakeup = h.wakeup
      /\ mac'[n].sendPreambles = m.sendPreambles /\ mac'[n].sendData = m.sendData
      /\ nic'[n].radioState = nic[n].radioState /\ nic'[n].switchTimer = nic[n].switchTimer
      /\ nic'[n].txOverTimer = nic[n].txOverTimer
  <2>1. m.tx = <<>> /\ m.cmd = "none"
    BY GoodFields DEF NodeOK, Idle
  <2>. QED  BY <1>3, <1>5, <2>1 DEF Carried, Alters, MacFields
<1>8. Internal(n)
  <2>1. toMac' = toMac
    BY DEF handleUpperMsg
  <2>. QED  BY <1>4, <1>7, <2>1, PutsInternal DEF Preambles
<1>9. ASSUME NEW s \in Node \ {n}, Hears(s, n), Waited(mac[s], nic[s], arriving[n][s]), n \in Reached(s)
      PROVE  Ready(s, mac[s], nic[s], mac'[n], nic'[n], toMac'[n])
  <2>1. Ready(s, mac[s], nic[s], mac[n], nic[n], toMac[n])
    BY <1>9 DEF Hears, Pair
  <2>2. toMac' = toMac
    BY DEF handleUpperMsg
  <2>. QED  BY <1>7, <2>1, <2>2, ReadyUpper
<1>10. Remaining(mac'[n]) = Remaining(mac[n]) /\ NextEnd(mac'[n], nic'[n]) = NextEnd(mac[n], nic[n])
  BY <1>7 DEF Remaining, NextEnd, Preambles
<1>. QED  BY <1>6, <1>7, <1>8, <1>9, <1>10, InternalKeep

LEMMA StepData ==
  ASSUME QuickSwitches, Typed, Good, AloneNext, NEW n \in Node, DataTimer(n), mac'[n].error = NoError
  PROVE  Good'
<1>. DEFINE m == mac[n]
            t == [m EXCEPT !.timeoutData = Off]
<1>1. PICK r \in Soon : Put(n, GoToSleep(t, r), nic[n])
  BY DEF DataTimer, TimeoutData
<1>2. m.timeoutData = 0 /\ m.macState = "RX" /\ m.checkChannel = Off
  <2>1. m.timeoutData = 0
    BY DEF DataTimer
  <2>. QED  BY <2>1, GoodFields, Constants DEF NodeOK, MacTyped, Phase
<1>3. Alters(m, t, {"timeoutData"}) /\ t.timeoutData = Off
  BY GoodFields DEF Alters, MacFields
<1>. HIDE DEF t
<1>. DEFINE g == GoToSleep(t, r)
<1>4. Alters(t, g, {"macState", "cmd", "wakeup", "error"})
  BY <1>3, GoToSleepEffect DEF Alters
<1>5. Puts(n, g, nic[n])
  <2>1. MacFields \subseteq DOMAIN g
    BY <1>4 DEF Alters
  <2>2. Put(n, g, nic[n])
    BY <1>1
  <2>. HIDE DEF g, m
  <2>. QED  BY <2>1, <2>2, GoodFields, PutEffect
<1>6. Carried(g, nic[n], mac'[n], nic'[n])
  BY <1>5 DEF Puts
<1>7. toMac' = toMac /\ toMac[n] \in Seq(Frame)
  BY <1>2, GoodFields DEF DataTimer, NodeOK, Outbox
<1>8. /\ NodeOK(n, mac'[n], nic'[n], toMac[n]) /\ mac'[n].macState = "SLEEP"
      /\ mac'[n].wakeup = (IF m.macQueue # <<>> THEN r ELSE slotDuration) /\ mac'[n].macQueue = m.macQueue
      /\ mac'[n].sendPreambles = m.sendPreambles /\ mac'[n].sendData = m.sendData
  <2>1. Alters(m, t, {"checkChannel", "timeoutData", "up"}) /\ t.checkChannel = Off /\ t.timeoutData = Off
    BY <1>2, <1>3 DEF Alters, MacFields
  <2>. QED  BY <1>2, <1>6, <1>7, <2>1, GoodFields, SleepNode
<1>9. g.tx = <<>>
  <2>1. m.tx = <<>>
    BY GoodFields DEF NodeOK, Idle
  <2>. HIDE DEF g
  <2>. QED  BY <1>3, <1>4, <2>1 DEF Alters, MacFields
<1>. HIDE DEF g
<1>10. Internal(n)
  BY <1>5, <1>7, <1>8, <1>9, PutsInternal DEF Preambles
<1>11. ASSUME NEW s \in Node \ {n}, Hears(s, n), Waited(mac[s], nic[s], arriving[n][s]), n \in Reached(s)
      PROVE  Ready(s, mac[s], nic[s], mac'[n], nic'[n], toMac'[n])
  <2>1. Ready(s, mac[s], nic[s], mac[n], nic[n], toMac[n])
    BY <1>11 DEF Hears, Pair
  <2>2. NodeOK(s, mac[s], nic[s], toMac[s]) /\ NodeOK(n, mac[n], nic[n], toMac[n])
    BY GoodFields
  <2>3. mac[s].macState = "TX" /\ nic[s].radioState \in {"SWITCH_TO_SEND", "SEND"}
    BY <1>11 DEF Hears, Waited
  <2>. QED  BY <1>2, <1>7, <1>8, <2>1, <2>2, <2>3, ReadyTimeout
<1>. QED  BY <1>7, <1>8, <1>10, <1>11, InternalKeep

LEMMA StepPreambles ==
  ASSUME Typed, Good, AloneNext, NEW n \in Node, PreamblesTimer(n), mac'[n].error = NoError
  PROVE  Good'
<1>. DEFINE m == mac[n]
            t == [m EXCEPT !.sendPreambles = Off, !.sendData = TRUE]
<1>1. Put(n, t, nic[n]) /\ m.sendPreambles = 0 /\ toMac' = toMac
  BY DEF PreamblesTimer
<1>2. Alters(m, t, {"sendPreambles", "sendData"}) /\ t.sendPreambles = Off /\ t.sendData = TRUE /\ t.tx = <<>>
  BY GoodFields DEF Alters, MacFields, NodeOK, Idle
<1>3. Puts(n, t, nic[n])
  <2>1. MacFields \subseteq DOMAIN t
    BY <1>2 DEF Alters
  <2>. HIDE DEF t, m
  <2>. QED  BY <1>1, <2>1, GoodFields, PutEffect
<1>4. Carried(t, nic[n], mac'[n], nic'[n])
  BY <1>3 DEF Puts
<1>. HIDE DEF t
<1>5. /\ NodeOK(n, mac'[n], nic'[n], toMac[n]) /\ m.macState = "TX" /\ mac'[n].macState = "TX"
      /\ mac'[n].sendPreambles = Off /\ Preambles(m) /\ Preambles(mac'[n])
      /\ nic'[n].radioState = nic[n].radioState /\ nic'[n].switchTimer = nic[n].switchTimer
      /\ nic'[n].txOverTimer = nic[n].txOverTimer
  <2>. DEFINE c == nic[n]
              q == toMac[n]
              m2 == mac'[n]
              c2 == nic'[n]
  <2>1. NodeOK(n, m, c, q) /\ m.sendPreambles = 0 /\ Carried(t, c, m2, c2)
    BY <1>1, <1>4, GoodFields
  <2>. HIDE DEF m, c, q, m2, c2
  <2>2. /\ NodeOK(n, m2, c2, q) /\ m.macState = "TX" /\ m2.macState = "TX"
        /\ m2.sendPreambles = Off /\ Preambles(m) /\ Preambles(m2)
        /\ c2.radioState = c.radioState /\ c2.switchTimer = c.switchTimer /\ c2.txOverTimer = c.txOverTimer
    <3>1. PreamblesOver(m, t)
      BY <1>2 DEF PreamblesOver
    <3>. QED  BY <2>1, <3>1, PreamblesNode
  <2>. QED  BY <2>2 DEF m2, c2, c, q
<1>6. Preambles(m) /\ Preambles(mac'[n])
  BY <1>1, <1>5, Constants DEF Preambles
<1>7. Internal(n)
  BY <1>1, <1>2, <1>3, <1>5, <1>6, PutsInternal
<1>8. Remaining(mac'[n]) = Remaining(mac[n])
  BY <1>1, <1>5, Constants DEF Remaining
<1>9. NextEnd(mac'[n], nic'[n]) = NextEnd(mac[n], nic[n])
  BY <1>5, <1>6 DEF NextEnd
<1>. QED  BY <1>1, <1>5, <1>7, <1>8, <1>9, InternalKeep

LEMMA StepWakeup ==
  ASSUME QuickSwitches, Typed, Good, AloneNext, NEW n \in Node, WakeupTimer(n), mac'[n].error = NoError
  PROVE  Good'
<1>. DEFINE m == mac[n]
            t == Wakeup(m)
<1>1. Put(n, t, nic[n]) /\ m.wakeup = 0 /\ toMac' = toMac
  BY DEF WakeupTimer
<1>2. Alters(m, t, {"wakeup", "macState", "cmd", "checkChannel", "error"})
  BY GoodFields, WakeupEffect
<1>3. t.tx = <<>>
  <2>1. m.tx = <<>>
    BY GoodFields DEF NodeOK, Idle
  <2>. HIDE DEF t
  <2>. QED  BY <1>2, <2>1 DEF Alters, MacFields
<1>4. Puts(n, t, nic[n])
  <2>1. MacFields \subseteq DOMAIN t
    BY <1>2 DEF Alters
  <2>. HIDE DEF t, m
  <2>. QED  BY <1>1, <2>1, GoodFields, PutEffect
<1>5. Carried(t, nic[n], mac'[n], nic'[n])
  BY <1>4 DEF Puts
<1>6. /\ NodeOK(n, mac'[n], nic'[n], toMac[n]) /\ m.macState = "SLEEP" /\ mac'[n].macState = "RX"
      /\ mac'[n].timeoutData = Off
      /\ mac'[n].sendPreambles = m.sendPreambles /\ mac'[n].sendData = m.sendData
  BY <1>1, <1>5, GoodFields, WakeupNode
<1>. HIDE DEF t
<1>7. Internal(n)
  BY <1>1, <1>3, <1>4, <1>6, PutsInternal DEF Preambles
<1>8. ASSUME NEW s \in Node \ {n}, Hears(s, n), Waited(mac[s], nic[s], arriving[n][s]), n \in Reached(s)
      PROVE  Ready(s, mac[s], nic[s], mac'[n], nic'[n], toMac'[n])
  <2>1. Ready(s, mac[s], nic[s], mac[n], nic[n], toMac[n])
    BY <1>8 DEF Hears, Pair
  <2>. QED  BY <1>1, <1>6, <2>1 DEF Ready
<1>. QED  BY <1>1, <1>6, <1>7, <1>8, InternalKeep

\* Nothing is due.
Quiet ==
  \A n \in Node :
    /\ toMac[n] = <<>> /\ \A s \in Node : arriving[n][s] = <<>>
    /\ nic[n].switchTimer # 0 /\ nic[n].txOverTimer # 0
    /\ \A s \in DOMAIN nic[n].recvBuff : nic[n].recvBuff[s].left # 0
    /\ mac[n].wakeup # 0 /\ mac[n].timeoutData # 0 /\ mac[n].sendPreambles # 0

LEMMA QuietEffect == ASSUME QuietFor(1) PROVE Quiet
<1>. SUFFICES ASSUME NEW n \in Node
     PROVE /\ toMac[n] = <<>> /\ \A s \in Node : arriving[n][s] = <<>>
           /\ nic[n].switchTimer # 0 /\ nic[n].txOverTimer # 0
           /\ \A s \in DOMAIN nic[n].recvBuff : nic[n].recvBuff[s].left # 0
           /\ mac[n].wakeup # 0 /\ mac[n].timeoutData # 0 /\ mac[n].sendPreambles # 0
  BY DEF Quiet
<1>1. /\ toMac[n] = <<>> /\ \A s \in Node : arriving[n][s] = <<>>
      /\ \A t \in NicTimers(nic[n]) : 1 <= t
      /\ \A t \in MacTimers(mac[n]) : 1 <= t
  BY DEF QuietFor, NicsQuietFor
<1>2. 0 \notin NicTimers(nic[n]) /\ 0 \notin MacTimers(mac[n]) /\ 0 # Off
  BY <1>1, Constants
<1>. QED  BY <1>1, <1>2 DEF NicTimers, MacTimers

\* The channel is checked.
LEMMA StepBusy ==
  ASSUME LongTimeout, Typed, Good, AloneNext, NEW n \in Node, mac[n].checkChannel = 0, mac[n].indication = "BUSY",
         NEW t, Alters(mac[n], t, {"checkChannel"}), t.checkChannel = Off,
         Put(n, ScheduleTimeout(t), nic[n]), toMac' = toMac, mac'[n].error = NoError
  PROVE  Good'
<1>. DEFINE m == mac[n]
            k == ScheduleTimeout(t)
<1>1. ScheduledTimeout(t, k)
  BY ScheduleTimeoutEffect DEF Alters
<1>2. Put(n, k, nic[n])
  OBVIOUS
<1>. HIDE DEF k
<1>3. MacFields \subseteq DOMAIN k /\ k.tx = <<>>
  <2>1. m.tx = <<>>
    BY GoodFields DEF NodeOK, Idle
  <2>. QED  BY <1>1, <2>1 DEF ScheduledTimeout, Alters, MacFields
<1>4. Puts(n, k, nic[n])
  BY <1>2, <1>3, GoodFields, PutEffect
<1>5. Carried(k, nic[n], mac'[n], nic'[n])
  BY <1>4 DEF Puts
<1>6. /\ NodeOK(n, mac'[n], nic'[n], toMac[n]) /\ mac'[n].macState = "RX"
      /\ mac'[n].timeoutData = DataTimeout /\ mac'[n].macQueue = m.macQueue
      /\ Preambles(mac'[n]) => Preambles(m)
  <2>. DEFINE c == nic[n]
              q == toMac[n]
              m2 == mac'[n]
              c2 == nic'[n]
  <2>1. NodeOK(n, m, c, q) /\ m.checkChannel = 0 /\ Carried(k, c, m2, c2) /\ m2.error = NoError
        /\ Alters(m, t, {"checkChannel"}) /\ t.checkChannel = Off /\ ScheduledTimeout(t, k)
    BY <1>1, <1>5, GoodFields
  <2>. HIDE DEF m, c, q, m2, c2
  <2>2. /\ NodeOK(n, m2, c2, q) /\ m2.macState = "RX" /\ m2.timeoutData = DataTimeout
        /\ m2.macQueue = m.macQueue /\ (Preambles(m2) => Preambles(m))
    BY <2>1, BusyNode
  <2>. QED  BY <2>2 DEF m2, c2, q
<1>7. Internal(n)
  BY <1>3, <1>4, <1>6, PutsInternal
<1>8. ASSUME NEW s \in Node \ {n}, Hears(s, n), Waited(mac[s], nic[s], arriving[n][s]), n \in Reached(s)
      PROVE  Ready(s, mac[s], nic[s], mac'[n], nic'[n], toMac'[n])
  <2>. DEFINE ms == mac[s]
              cs == nic[s]
              ps == toMac[s]
              a == arriving[n][s]
              d == nic[n]
              q == toMac[n]
              m2 == mac'[n]
              c2 == nic'[n]
  <2>1. /\ NodeOK(s, ms, cs, ps) /\ NodeOK(n, m, d, q) /\ ms.macState = "TX" /\ DOMAIN d.recvBuff \subseteq {s}
        /\ cs.radioState \in {"SWITCH_TO_SEND", "SEND"}
        /\ Pair(s, n, ms, cs, m, d, q, a) /\ Ready(s, ms, cs, m, d, q)
    BY <1>8, GoodFields DEF Hears, Waited, Pair
  <2>2. m2.macState = "RX" /\ m2.timeoutData = DataTimeout /\ m2.macQueue = m.macQueue
        /\ m.checkChannel = 0 /\ m.indication = "BUSY" /\ toMac'[n] = q
    BY <1>6
  <2>. HIDE DEF m, ms, cs, ps, a, d, q, m2, c2
  <2>3. Ready(s, ms, cs, m2, c2, q)
    BY <2>1, <2>2, ReadyBusy
  <2>. QED  BY <2>2, <2>3 DEF ms, cs, m2, c2
<1>. QED  BY <1>6, <1>7, <1>8, InternalKeep

LEMMA StepIdle ==
  ASSUME QuickSwitches, Typed, Good, Quiet, AloneNext, NEW n \in Node, mac[n].checkChannel = 0,
         mac[n].indication = "IDLE", mac[n].macQueue = <<>>,
         NEW t, Alters(mac[n], t, {"checkChannel"}), t.checkChannel = Off, NEW r \in Soon,
         Put(n, GoToSleep(t, r), nic[n]), toMac' = toMac, mac'[n].error = NoError
  PROVE  Good'
<1>. DEFINE m == mac[n]
            g == GoToSleep(t, r)
<1>1. Alters(t, g, {"macState", "cmd", "wakeup", "error"}) /\ Carried(g, nic[n], mac'[n], nic'[n])
      /\ Puts(n, g, nic[n]) /\ g.tx = <<>>
  <2>1. Alters(t, g, {"macState", "cmd", "wakeup", "error"})
    BY GoToSleepEffect DEF Alters
  <2>2. Put(n, g, nic[n])
    OBVIOUS
  <2>. HIDE DEF g
  <2>3. m.tx = <<>>
    BY GoodFields DEF NodeOK, Idle
  <2>4. MacFields \subseteq DOMAIN g /\ g.tx = <<>>
    BY <2>1, <2>3 DEF Alters, MacFields
  <2>5. Puts(n, g, nic[n])
    BY <2>2, <2>4, GoodFields, PutEffect
  <2>. QED  BY <2>1, <2>4, <2>5 DEF Puts
<1>2. m.macState = "RX" /\ m.timeoutData = Off
  BY GoodFields, Constants DEF NodeOK, MacTyped, Phase
<1>3. /\ NodeOK(n, mac'[n], nic'[n], <<>>) /\ mac'[n].macState = "SLEEP"
      /\ mac'[n].wakeup = slotDuration
      /\ mac'[n].sendPreambles = m.sendPreambles /\ mac'[n].sendData = m.sendData
  <2>1. Alters(m, t, {"checkChannel", "timeoutData", "up"}) /\ t.timeoutData = Off
    BY <1>2 DEF Alters, MacFields
  <2>. DEFINE e == <<>>
  <2>2. e \in Seq(Frame)
    OBVIOUS
  <2>. DEFINE c == nic[n]
              q == toMac[n]
              m2 == mac'[n]
              c2 == nic'[n]
  <2>3. /\ NodeOK(n, m, c, q) /\ Carried(GoToSleep(t, r), c, m2, c2) /\ m2.error = NoError
        /\ m.macState = "RX" /\ m.macQueue = <<>>
    BY <1>1, <1>2, GoodFields
  <2>. HIDE DEF m, c, q, m2, c2, e
  <2>4. /\ NodeOK(n, m2, c2, e) /\ m2.macState = "SLEEP"
        /\ m2.wakeup = IF m.macQueue # <<>> THEN r ELSE slotDuration
        /\ m2.sendPreambles = m.sendPreambles /\ m2.sendData = m.sendData
    BY <2>1, <2>2, <2>3, SleepNode
  <2>. QED  BY <2>3, <2>4 DEF m2, c2, e
<1>. HIDE DEF g
<1>4. toMac'[n] = <<>> /\ toMac[n] = <<>>
  BY DEF Quiet
<1>5. Internal(n)
  BY <1>1, <1>3, PutsInternal DEF Preambles
<1>6. ASSUME NEW s \in Node \ {n}, Hears(s, n), Waited(mac[s], nic[s], arriving[n][s]), n \in Reached(s)
      PROVE  Ready(s, mac[s], nic[s], mac'[n], nic'[n], toMac'[n])
  <2>. DEFINE ms == mac[s]
              cs == nic[s]
              d == nic[n]
              m2 == mac'[n]
              c2 == nic'[n]
  <2>1. arriving[n][s] = <<>> /\ toMac[s] = <<>> /\ cs.txOverTimer # 0
    BY DEF Quiet
  <2>2. LinkOK(s, n, ms, cs, d.recvBuff, <<>>)
    BY <2>1 DEF Good
  <2>3. /\ NodeOK(s, ms, cs, <<>>) /\ NodeOK(n, m, d, <<>>)
    BY <1>4, <2>1, GoodFields
  <2>4. Pair(s, n, ms, cs, m, d, <<>>, <<>>) /\ ms.macState = "TX"
        /\ cs.radioState \in {"SWITCH_TO_SEND", "SEND"}
    BY <1>4, <1>6, <2>1 DEF Hears, Waited
  <2>5. m.checkChannel = 0 /\ m.indication = "IDLE" /\ m.macQueue = <<>>
        /\ m2.macState = "SLEEP" /\ m2.wakeup = slotDuration
    BY <1>3
  <2>. HIDE DEF m, ms, cs, d, m2, c2
  <2>6. Ready(s, ms, cs, m2, c2, <<>>)
    BY <1>6, <2>1, <2>2, <2>3, <2>4, <2>5, ReadyIdle
  <2>. QED  BY <1>4, <2>6 DEF ms, cs, m2, c2
<1>. QED  BY <1>3, <1>4, <1>5, <1>6, InternalKeep

LEMMA StepBegin ==
  ASSUME Typed, Good, Quiet, AloneNext, NEW n \in Node, mac[n].checkChannel = 0,
         mac[n].macQueue # <<>>, NEW k, Alters(mac[n], k, {"checkChannel", "macState", "cmd", "sendPreambles", "error"}),
         k.checkChannel = Off, k.macState = "TX", k.cmd = "SWITCH_TO_SEND", k.sendPreambles = slotDuration,
         Put(n, k, nic[n]), toMac' = toMac, mac'[n].error = NoError
  PROVE  Good'
<1>. DEFINE m == mac[n]
<1>1. k.tx = <<>> /\ MacFields \subseteq DOMAIN k
  <2>1. m.tx = <<>>
    BY GoodFields DEF NodeOK, Idle
  <2>. QED  BY <2>1 DEF Alters, MacFields
<1>2. Puts(n, k, nic[n]) /\ Carried(k, nic[n], mac'[n], nic'[n])
  BY <1>1, GoodFields, PutEffect DEF Puts
<1>3. toMac[n] = <<>> /\ NodeOK(n, mac[n], nic[n], <<>>)
  BY GoodFields DEF Quiet
<1>4. /\ NodeOK(n, mac'[n], nic'[n], <<>>) /\ m.macState = "RX" /\ mac'[n].macState = "TX"
      /\ mac'[n].sendPreambles = slotDuration /\ nic'[n].txOverTimer = Off
      /\ nic'[n].radioState \in {"SWITCH_TO_SEND", "SWITCH_TO_SLEEP"}
      /\ nic'[n].radioState = "SWITCH_TO_SEND" => nic'[n].switchTimer = swSend
  BY <1>2, <1>3, BeginNode
<1>5. \A d, s \in Node : arriving'[d][s] = arriving[d][s]
  BY <1>1, <1>2 DEF Puts
<1>6. nic'[n].recvBuff = nic[n].recvBuff
  BY <1>2 DEF Carried, NicAlters, NicFields, Radio
<1>7. Acts(n)
  BY <1>2, <1>5, <1>6 DEF Acts, Puts
<1>8. ASSUME NEW o \in Node, mac[o].macState # "TX", NEW d \in Node
      PROVE  o \notin DOMAIN nic[d].recvBuff
  <2>1. nic[o].txOverTimer = Off
    BY <1>8, GoodFields DEF NodeOK, Outbox
  <2>2. LinkOK(o, d, mac[o], nic[o], nic[d].recvBuff, <<>>)
    BY DEF Quiet, Good
  <2>. QED  BY <2>1, <2>2, LinkSilent DEF Quiet
<1>9. ASSUME NEW d \in Node
      PROVE  LinkOK(n, d, mac'[n], nic'[n], nic[d].recvBuff, arriving'[d][n])
  <2>1. nic[n].txOverTimer = Off
    BY <1>4, GoodFields DEF NodeOK, Outbox
  <2>2. LinkOK(n, d, mac[n], nic[n], nic[d].recvBuff, <<>>) /\ arriving'[d][n] = <<>>
        /\ (n \in DOMAIN nic[d].recvBuff => nic[d].recvBuff[n].left # 0)
    BY <1>5 DEF Quiet, Good
  <2>. DEFINE b == nic[d].recvBuff
              c == nic[n]
              m2 == mac'[n]
              c2 == nic'[n]
  <2>3. /\ LinkOK(n, d, m, c, b, <<>>) /\ c.txOverTimer = Off /\ (n \in DOMAIN b => b[n].left # 0)
        /\ c2.txOverTimer = Off
    BY <1>4, <2>1, <2>2
  <2>. HIDE DEF m, b, c, m2, c2
  <2>4. LinkOK(n, d, m2, c2, b, <<>>)
    BY <2>3, LinkBegin
  <2>. QED  BY <2>2, <2>4 DEF m2, c2, b
<1>10. ASSUME NEW o \in Node \ {n}, NEW d \in Node, mac[o].macState # "TX"
       PROVE  Silent(o, mac[o], nic[d].recvBuff, arriving[d][o])
  BY <1>8, <1>10 DEF Silent, Quiet
<1>11. ASSUME NEW d \in Node \ {n}
       PROVE  Pair(n, d, mac'[n], nic'[n], mac[d], nic[d], toMac[d], arriving'[d][n])
  <2>1. n \notin DOMAIN nic[d].recvBuff
    BY <1>4, <1>8
  <2>2. toMac[d] = <<>> /\ arriving'[d][n] = <<>> /\ NodeOK(d, mac[d], nic[d], <<>>)
    BY <1>5, GoodFields DEF Quiet
  <2>. QED  BY <1>4, <2>1, <2>2, PairBegin
<1>. QED  BY <1>3, <1>4, <1>7, <1>9, <1>10, <1>11, ActsKeep

LEMMA StepCheck ==
  ASSUME QuickSwitches, LongTimeout, Typed, Good, AloneNext, NEW n \in Node, CheckTimer(n),
         mac'[n].error = NoError
  PROVE  Good'
<1>. DEFINE m == mac[n]
            t == [m EXCEPT !.checkChannel = Off]
<1>1. m.checkChannel = 0 /\ Quiet /\ Put(n, CheckChannel(m), nic[n]) /\ toMac' = toMac
  BY QuietEffect DEF CheckTimer
<1>2. Alters(m, t, {"checkChannel"}) /\ t.checkChannel = Off
  BY GoodFields DEF Alters, MacFields
<1>3. CASE m.indication = "BUSY"
  <2>1. CheckChannel(m) = ScheduleTimeout(t)
    BY <1>3 DEF CheckChannel
  <2>2. Put(n, ScheduleTimeout(t), nic[n])
    BY <1>1, <2>1
  <2>. HIDE DEF t
  <2>. QED  BY <1>1, <1>2, <1>3, <2>2, StepBusy
<1>4. CASE m.indication = "IDLE" /\ m.macQueue = <<>>
  <2>1. CheckChannel(m) = GoToSleep(t, 0)
    BY <1>4 DEF CheckChannel
  <2>2. Put(n, GoToSleep(t, 0), nic[n])
    BY <1>1, <2>1
  <2>3. 0 \in Soon
    BY Constants DEF Soon
  <2>. HIDE DEF t
  <2>. QED  BY <1>1, <1>2, <1>4, <2>2, <2>3, StepIdle
<1>5. CASE m.indication = "IDLE" /\ m.macQueue # <<>>
  <2>. DEFINE bad == m.sendPreambles # Off
              a == [t EXCEPT !.macState = "TX", !.cmd = "SWITCH_TO_SEND", !.sendPreambles = slotDuration]
              k == FailIf(a, bad, "sendPreambles scheduled twice")
  <2>1. CheckChannel(m) = k
    BY <1>5 DEF CheckChannel
  <2>. HIDE DEF t
  <2>2. /\ Alters(t, a, {"macState", "cmd", "sendPreambles"})
        /\ a.macState = "TX" /\ a.cmd = "SWITCH_TO_SEND" /\ a.sendPreambles = slotDuration
    BY <1>2 DEF Alters, MacFields
  <2>. HIDE DEF a, bad
  <2>3. Alters(a, k, {"error"})
    <3>1. "sendPreambles scheduled twice" # NoError /\ MacFields \subseteq DOMAIN a
      BY <2>2 DEF NoError, Alters
    <3>. QED  BY <3>1, FailIfEffect
  <2>4. Put(n, k, nic[n])
    BY <1>1, <2>1
  <2>. HIDE DEF k
  <2>5. /\ Alters(m, k, {"checkChannel", "macState", "cmd", "sendPreambles", "error"})
        /\ k.checkChannel = Off /\ k.macState = "TX" /\ k.cmd = "SWITCH_TO_SEND" /\ k.sendPreambles = slotDuration
    BY <1>2, <2>2, <2>3 DEF Alters, MacFields
  <2>. QED  BY <1>1, <1>5, <2>4, <2>5, StepBegin
<1>6. m.indication \in {"IDLE", "BUSY"}
  BY GoodFields DEF NodeOK, Receiver
<1>. QED  BY <1>3, <1>4, <1>5, <1>6

-----------------------------------------------------------------------------
(* The steps of a node that concern frames *)

LEMMA StepSend ==
  ASSUME Typed, Good, AloneNext, NEW n \in Node, mac[n].macState = "TX", Preambles(mac[n]),
         nic[n].txOverTimer = Off,
         nic[n].radioState = "SEND" \/ (nic[n].radioState = "SWITCH_TO_SEND" /\ nic[n].switchTimer = 0),
         NEW d, d.radioState = "SEND", NicTyped(d), Receiver(n, mac[n], d), d.recvBuff = nic[n].recvBuff,
         NEW k, NEW f, Sending(mac[n], k, f), Put(n, k, d),
         toMac'[n] = <<>>, \A y \in Node \ {n} : toMac'[y] = toMac[y], mac'[n].error = NoError
  PROVE  Good'
<1>. DEFINE m == mac[n]
            c == nic[n]
            m2 == mac'[n]
            c2 == nic'[n]
            q == toMac[n]
<1>1. Puts(n, k, d) /\ Carried(k, d, m2, c2)
  BY PutEffect DEF Puts, Sending, Alters, NicTyped
<1>2. /\ NodeOK(n, m2, c2, <<>>) /\ m2.macState = "TX"
      /\ c2.radioState = "SEND" /\ c2.txOverTimer = Duration(f) /\ c2.recvBuff = d.recvBuff
      /\ m2.sendPreambles = m.sendPreambles /\ (Preambles(m2) => f \in Preamble)
  <2>1. NodeOK(n, m, c, q)
    BY GoodFields
  <2>2. Receiver(n, m, d) /\ Sending(m, k, f) /\ m.macState = "TX"
    OBVIOUS
  <2>. HIDE DEF m, c, q, m2, c2
  <2>. QED  BY <1>1, <2>1, <2>2, SendNode
<1>3. k.tx # <<>> /\ k.tx[1] = f /\ f \in Frame
  BY DEF Sending
<1>4. Acts(n)
  BY <1>1, <1>2 DEF Acts, Puts
<1>5. ASSUME NEW y \in Node
      PROVE  LinkOK(n, y, m2, c2, nic[y].recvBuff, arriving'[y][n])
  <2>. DEFINE b == nic[y].recvBuff
              a == arriving[y][n]
  <2>1. arriving'[y][n] = IF y \in Reached(n) THEN Append(a, f) ELSE a
    BY <1>1, <1>3 DEF Puts
  <2>2. LinkOK(n, y, m, c, b, a) /\ m.macState = "TX" /\ Preambles(m) /\ c.txOverTimer = Off
    BY DEF Good
  <2>. HIDE DEF m, c, m2, c2, b, a
  <2>3. LinkOK(n, y, m2, c2, b, IF y \in Reached(n) THEN Append(a, f) ELSE a)
    BY <1>2, <1>3, <2>2, LinkSend
  <2>. QED  BY <2>1, <2>3 DEF b
<1>6. ASSUME NEW y \in Node \ {n}, Hears(n, y)
      PROVE  Pair(n, y, m2, c2, mac[y], nic[y], toMac[y], arriving'[y][n])
  <2>. DEFINE l == mac[y]
              e == nic[y]
              p == toMac[y]
              a == arriving[y][n]
              a2 == arriving'[y][n]
  <2>1. Pair(n, y, m, c, l, e, p, a) /\ l.timeoutData \in Timer
    BY <1>6, GoodFields DEF Hears, MacTyped
  <2>2. /\ c.radioState = "SEND" \/ (c.radioState = "SWITCH_TO_SEND" /\ c.switchTimer = 0)
        /\ c.txOverTimer = Off /\ Preambles(m)
    OBVIOUS
  <2>3. Remaining(m2) = Remaining(m)
    BY <1>2 DEF Remaining
  <2>4. Preambles(m2) => c2.txOverTimer = PreambleTime
    BY <1>2, Constants
  <2>. HIDE DEF m, c, m2, c2, l, e, p, a, a2
  <2>5. Pair(n, y, m2, c2, l, e, p, a2)
    BY <1>2, <2>1, <2>2, <2>3, <2>4, PairSend
  <2>. QED  BY <2>5 DEF l, e, p, a2
<1>. QED  BY <1>2, <1>4, <1>5, <1>6, ActsKeep

\* A preamble to send
LEMMA PreambleToSend ==
  ASSUME NEW n \in Node, NEW m, NEW c, NEW q, NodeOK(n, m, c, q)
  PROVE  \E f : Sending(m, sendPreamble(m, n), f)
<1>. DEFINE f == [kind |-> "BMAC_CONTROL", src |-> n, dest |-> L2BROADCAST, id |-> 0]
            k == [m EXCEPT !.tx = <<f>>]
<1>1. f \in Preamble /\ f \in Frame
  BY DEF Preamble, Frame
<1>2. sendPreamble(m, n) = k
  BY DEF sendPreamble
<1>. HIDE DEF f
<1>3. Alters(m, k, {"tx"}) /\ k.tx = <<f>>
  BY DEF Alters, MacFields, NodeOK, MacTyped
<1>. HIDE DEF k
<1>4. Sending(m, k, f)
  <2>1. /\ Alters(m, k, {"tx", "macQueue", "sendData"}) /\ k.macQueue = m.macQueue /\ k.sendData = m.sendData
        /\ k.sendPreambles = m.sendPreambles
    BY <1>3 DEF Alters, MacFields
  <2>. QED  BY <1>1, <1>3, <2>1 DEF Sending, Preambles, NodeOK, MacTyped
<1>. QED  BY <1>2, <1>4

\* The frame that was sent is over.
LEMMA StepOver ==
  ASSUME QuickSwitches, Typed, Good, AloneNext, NEW n \in Node, mac[n].macState = "TX",
         toMac[n] # <<>>, NEW r \in Soon, Put(n, TransmissionOver(mac[n], n, r), nic[n]),
         toMac'[n] = Tail(toMac[n]), \A y \in Node \ {n} : toMac'[y] = toMac[y], mac'[n].error = NoError
  PROVE  Good'
<1>. DEFINE m == mac[n]
            c == nic[n]
<1>1. NodeOK(n, m, c, toMac[n])
  BY GoodFields
<1>2. c.txOverTimer = Off /\ c.radioState = "SEND" /\ toMac[n] = <<TransmissionOverMsg>>
  BY <1>1 DEF NodeOK, Outbox
<1>3. toMac'[n] = <<>>
  BY <1>2
<1>4. NicTyped(c) /\ Receiver(n, m, c)
  BY <1>1 DEF NodeOK
<1>5. CASE m.sendPreambles # Off
  <2>1. TransmissionOver(m, n, r) = sendPreamble(m, n)
    BY <1>5 DEF TransmissionOver
  <2>2. PICK f : Sending(m, sendPreamble(m, n), f)
    BY <1>1, PreambleToSend
  <2>3. Preambles(m)
    BY <1>5 DEF Preambles
  <2>. DEFINE k == sendPreamble(m, n)
  <2>4. Put(n, k, c)
    BY <2>1
  <2>. HIDE DEF k
  <2>. QED  BY <1>2, <1>3, <1>4, <2>2, <2>3, <2>4, StepSend DEF k
<1>6. CASE m.sendPreambles = Off /\ m.sendData /\ m.macQueue # <<>>
  <2>. DEFINE f == Head(m.macQueue)
              k == [m EXCEPT !.tx = <<f>>, !.macQueue = Tail(@), !.sendData = FALSE]
  <2>1. TransmissionOver(m, n, r) = k
    BY <1>6 DEF TransmissionOver
  <2>2. m.macQueue \in Seq(Data) /\ MacFields \subseteq DOMAIN m
    BY <1>1 DEF NodeOK, MacTyped
  <2>3. f \in Data /\ f \in Frame /\ Tail(m.macQueue) \in Seq(Data)
    BY <1>6, <2>2, HeadTailProperties DEF Frame
  <2>. HIDE DEF f
  <2>4. /\ Alters(m, k, {"tx", "macQueue", "sendData"}) /\ k.tx = <<f>> /\ k.macQueue = Tail(m.macQueue)
        /\ k.sendData = FALSE /\ k.sendPreambles = m.sendPreambles
    BY <2>2 DEF Alters, MacFields
  <2>5. Put(n, k, c)
    BY <2>1
  <2>. HIDE DEF k
  <2>6. Sending(m, k, f)
    BY <1>6, <2>3, <2>4 DEF Sending, Preambles
  <2>7. Preambles(m)
    BY <1>6 DEF Preambles
  <2>. QED  BY <1>2, <1>3, <1>4, <2>5, <2>6, <2>7, StepSend
<1>7. CASE m.sendPreambles = Off /\ m.sendData /\ m.macQueue = <<>>
  <2>. DEFINE k == FailIf(m, TRUE, "queue is empty")
  <2>1. TransmissionOver(m, n, r) = k
    BY <1>7 DEF TransmissionOver
  <2>2. MacFields \subseteq DOMAIN m /\ "queue is empty" # NoError
    BY GoodFields DEF NoError
  <2>3. Alters(m, k, {"error"}) /\ k.error # NoError
    BY <2>2, FailIfEffect
  <2>4. Put(n, k, c)
    BY <2>1
  <2>. HIDE DEF k
  <2>5. Puts(n, k, c)
    BY <2>3, <2>4, GoodFields, PutEffect DEF Alters
  <2>. QED  BY <2>3, <2>5 DEF Puts
<1>8. CASE m.sendPreambles = Off /\ ~m.sendData
  <2>. DEFINE g == GoToSleep(m, r)
  <2>1. Put(n, g, c)
    BY <1>8 DEF TransmissionOver
  <2>2. Alters(m, g, {"macState", "cmd", "wakeup", "error"})
    BY GoodFields, GoToSleepEffect
  <2>3. m.tx = <<>> /\ m.checkChannel = Off /\ m.timeoutData = Off /\ ~Preambles(m)
    BY <1>1, <1>8 DEF NodeOK, Idle, Phase, Preambles
  <2>4. g.tx = <<>> /\ MacFields \subseteq DOMAIN g
    <3>. HIDE DEF g
    <3>. QED  BY <2>2, <2>3 DEF Alters, MacFields
  <2>5. Puts(n, g, c) /\ Carried(g, c, mac'[n], nic'[n])
    <3>. HIDE DEF g
    <3>. QED  BY <2>1, <2>4, GoodFields, PutEffect DEF Puts
  <2>6. NodeOK(n, mac'[n], nic'[n], <<>>) /\ mac'[n].macState = "SLEEP"
        /\ mac'[n].sendPreambles = m.sendPreambles /\ mac'[n].sendData = m.sendData
    <3>. DEFINE m2 == mac'[n]
                c2 == nic'[n]
                q == toMac[n]
                e == <<>>
    <3>1. NodeOK(n, m, c, q) /\ Carried(GoToSleep(m, r), c, m2, c2) /\ m2.error = NoError /\ m.macState = "TX"
      BY <1>1, <2>5
    <3>2. e \in Seq(Frame)
      OBVIOUS
    <3>3. Alters(m, m, {"checkChannel", "timeoutData", "up"})
      BY GoodFields DEF Alters
    <3>. HIDE DEF m, c, m2, c2, q, e
    <3>4. NodeOK(n, m2, c2, e) /\ m2.macState = "SLEEP" /\ m2.sendPreambles = m.sendPreambles
          /\ m2.sendData = m.sendData
      BY <1>2, <2>3, <3>1, <3>2, <3>3, SleepNode
    <3>. QED  BY <3>4 DEF m2, c2, e
  <2>. HIDE DEF g
  <2>7. Internal(n)
    BY <1>2, <2>4, <2>5, <2>6, PutsInternal DEF Preambles
  <2>. QED  BY <1>3, <2>6, <2>7, InternalKeep
<1>. QED  BY <1>1, <1>5, <1>6, <1>7, <1>8

\* Data has come.
LEMMA StepReceived ==
  ASSUME QuickSwitches, Typed, Good, AloneNext, NEW n \in Node, mac[n].macState # "TX",
         toMac[n] # <<>>, NEW f, f = Head(toMac[n]), f.kind = "data", NEW r \in Soon,
         Put(n, DataReceived(mac[n], n, f, r), nic[n]),
         toMac'[n] = Tail(toMac[n]), \A y \in Node \ {n} : toMac'[y] = toMac[y], mac'[n].error = NoError
  PROVE  Good'
<1>. DEFINE m == mac[n]
            c == nic[n]
            q == toMac[n]
            u == IF f.dest \in {n, L2BROADCAST} THEN m.up \cup {f.id} ELSE m.up
            t == [m EXCEPT !.timeoutData = Off, !.checkChannel = Off, !.up = u]
            g == GoToSleep(t, r)
<1>1. NodeOK(n, m, c, q) /\ m.tx = <<>> /\ q \in Seq(Frame) /\ q # <<>> /\ MacFields \subseteq DOMAIN m
  BY GoodFields DEF NodeOK, Idle, Outbox
<1>2. DataReceived(m, n, f, r) = g
  BY DEF DataReceived
<1>. HIDE DEF u
<1>3. Alters(m, t, {"timeoutData", "checkChannel", "up"}) /\ t.timeoutData = Off /\ t.checkChannel = Off
  BY <1>1 DEF Alters, MacFields
<1>. HIDE DEF t
<1>4. Alters(t, g, {"macState", "cmd", "wakeup", "error"})
  BY <1>3, GoToSleepEffect DEF Alters
<1>5. Put(n, g, c)
  BY <1>2
<1>6. Puts(n, g, c) /\ Carried(g, c, mac'[n], nic'[n]) /\ g.tx = <<>>
  <2>. HIDE DEF g
  <2>1. g.tx = <<>> /\ MacFields \subseteq DOMAIN g
    BY <1>1, <1>3, <1>4 DEF Alters, MacFields
  <2>. QED  BY <1>5, <2>1, GoodFields, PutEffect DEF Puts
<1>7. m.macState = "RX"
  <2>1. t.wakeup = Off
    <3>1. g.error = NoError
      BY <1>6 DEF Puts
    <3>. QED  BY <1>3, <3>1, GoToSleepEffect DEF Alters
  <2>2. m.wakeup = Off
    BY <1>3, <2>1 DEF Alters, MacFields
  <2>. QED  BY <1>1, <2>2 DEF NodeOK, MacTyped, Phase
<1>8. Tail(q) \in Seq(Frame)
  BY <1>1, HeadTailProperties
<1>9. /\ NodeOK(n, mac'[n], nic'[n], Tail(q)) /\ mac'[n].macState = "SLEEP"
      /\ mac'[n].sendPreambles = m.sendPreambles /\ mac'[n].sendData = m.sendData
  <2>. DEFINE m2 == mac'[n]
              c2 == nic'[n]
              p == Tail(q)
  <2>1. NodeOK(n, m, c, q) /\ Carried(GoToSleep(t, r), c, m2, c2) /\ m2.error = NoError /\ p \in Seq(Frame)
        /\ Alters(m, t, {"checkChannel", "timeoutData", "up"}) /\ m.macState = "RX"
    <3>1. {"timeoutData", "checkChannel", "up"} = {"checkChannel", "timeoutData", "up"}
      OBVIOUS
    <3>. QED  BY <1>1, <1>3, <1>6, <1>7, <1>8, <3>1
  <2>. HIDE DEF m, c, q, p, m2, c2
  <2>2. /\ NodeOK(n, m2, c2, p) /\ m2.macState = "SLEEP"
        /\ m2.sendPreambles = m.sendPreambles /\ m2.sendData = m.sendData
    BY <1>3, <2>1, SleepNode
  <2>. QED  BY <2>2 DEF m2, c2, p
<1>. HIDE DEF g
<1>10. Internal(n)
  BY <1>1, <1>6, <1>9, PutsInternal DEF Preambles
<1>11. ASSUME NEW s \in Node \ {n}, Hears(s, n), n \in Reached(s), Waited(mac[s], nic[s], arriving[n][s])
       PROVE  FALSE
  <2>1. Ready(s, mac[s], nic[s], m, c, q)
    BY <1>11 DEF Hears, Pair
  <2>2. Head(q).kind = "BMAC_CONTROL"
    BY <1>1, <2>1, ReadyData
  <2>. QED  BY <2>2
<1>. QED  BY <1>7, <1>9, <1>10, <1>11, InternalKeep

\* A preamble has come.
LEMMA StepPreambleReceived ==
  ASSUME LongTimeout, Typed, Good, AloneNext, NEW n \in Node, mac[n].macState # "TX", toMac[n] # <<>>,
         Put(n, PreambleReceived(mac[n]), nic[n]),
         toMac'[n] = Tail(toMac[n]), \A y \in Node \ {n} : toMac'[y] = toMac[y], mac'[n].error = NoError
  PROVE  Good'
<1>. DEFINE m == mac[n]
            c == nic[n]
            q == toMac[n]
            g == PreambleReceived(m)
<1>1. NodeOK(n, m, c, q) /\ m.tx = <<>> /\ m.cmd = "none" /\ q \in Seq(Frame) /\ q # <<>>
      /\ MacFields \subseteq DOMAIN m
  BY GoodFields DEF NodeOK, Idle, Outbox
<1>2. Awaits(m, g)
  BY <1>1, PreambleEffect
<1>3. Put(n, g, c)
  OBVIOUS
<1>4. Puts(n, g, c) /\ Carried(g, c, mac'[n], nic'[n]) /\ g.tx = <<>>
  <2>. HIDE DEF g
  <2>1. g.tx = <<>> /\ MacFields \subseteq DOMAIN g
    BY <1>1, <1>2 DEF Awaits, Alters, MacFields
  <2>. QED  BY <1>3, <2>1, GoodFields, PutEffect DEF Puts
<1>5. Tail(q) \in Seq(Frame)
  BY <1>1, HeadTailProperties
<1>6. NodeOK(n, mac'[n], nic'[n], Tail(q))
  <2>. DEFINE m2 == mac'[n]
              c2 == nic'[n]
              p == Tail(q)
  <2>1. NodeOK(n, m, c, q) /\ Carried(PreambleReceived(m), c, m2, c2) /\ m2.error = NoError /\ p \in Seq(Frame)
        /\ m.macState # "TX"
    BY <1>1, <1>4, <1>5
  <2>. HIDE DEF m, c, q, p, m2, c2
  <2>2. NodeOK(n, m2, c2, p)
    BY <2>1, PreambleNode
  <2>. QED  BY <2>2 DEF m2, c2, p
<1>. HIDE DEF g
<1>7. /\ mac'[n].macState = m.macState /\ mac'[n].wakeup = m.wakeup /\ mac'[n].macQueue = m.macQueue
      /\ mac'[n].timeoutData \in {Off, DataTimeout}
      /\ mac'[n].sendPreambles = m.sendPreambles /\ mac'[n].sendData = m.sendData
  BY <1>2, <1>4 DEF Awaits, Carried, Alters, MacFields
<1>8. Internal(n)
  BY <1>1, <1>4, <1>7, PutsInternal DEF Preambles
<1>9. ASSUME NEW s \in Node \ {n}, Hears(s, n), n \in Reached(s), Waited(mac[s], nic[s], arriving[n][s])
      PROVE  Ready(s, mac[s], nic[s], mac'[n], nic'[n], toMac'[n])
  <2>1. Ready(s, mac[s], nic[s], m, c, q) /\ nic[s].radioState = "SEND" /\ mac[s].macState = "TX"
    BY <1>1, <1>9 DEF Hears, Pair, Waited
  <2>2. NodeOK(s, mac[s], nic[s], toMac[s])
    BY GoodFields
  <2>. DEFINE ms == mac[s]
              cs == nic[s]
              p == toMac[s]
              m2 == mac'[n]
              c2 == nic'[n]
  <2>3. /\ NodeOK(s, ms, cs, p) /\ ms.macState = "TX" /\ cs.radioState = "SEND" /\ Ready(s, ms, cs, m, c, q)
        /\ q # <<>> /\ m2.macState = m.macState /\ m2.wakeup = m.wakeup /\ m2.macQueue = m.macQueue
        /\ m2.timeoutData \in {Off, DataTimeout}
    BY <1>1, <1>7, <2>1, <2>2
  <2>. HIDE DEF ms, cs, p, m, c, q, m2, c2
  <2>4. Ready(s, ms, cs, m2, c2, Tail(q))
    BY <2>3, ReadyPreamble
  <2>. QED  BY <2>4 DEF ms, cs, m2, c2, q
<1>. QED  BY <1>6, <1>7, <1>8, <1>9, InternalKeep

LEMMA StepFromNic ==
  ASSUME QuickSwitches, LongTimeout, Typed, Good, AloneNext, NEW n \in Node, FromNic(n),
         mac'[n].error = NoError
  PROVE  Good'
<1>. DEFINE f == Head(toMac[n])
<1>1. toMac[n] # <<>> /\ toMac'[n] = Tail(toMac[n]) /\ (\A y \in Node \ {n} : toMac'[y] = toMac[y])
  BY DEF FromNic, Typed
<1>2. PICK r \in Soon :
        Put(n, CASE f.kind = "TRANSMISSION_OVER" -> TransmissionOver(mac[n], n, r)
                 [] f.kind = "BMAC_CONTROL" -> PreambleReceived(mac[n])
                 [] f.kind = "data" -> DataReceived(mac[n], n, f, r), nic[n])
  BY DEF FromNic
<1>3. CASE mac[n].macState = "TX"
  <2>1. toMac[n] = <<TransmissionOverMsg>>
    BY <1>1, <1>3, GoodFields DEF NodeOK, Outbox
  <2>2. f.kind = "TRANSMISSION_OVER"
    BY <2>1 DEF TransmissionOverMsg
  <2>3. Put(n, TransmissionOver(mac[n], n, r), nic[n])
    BY <1>2, <2>2
  <2>. QED  BY <1>1, <1>3, <2>3, StepOver
<1>4. CASE mac[n].macState # "TX"
  <2>1. f \in Frame
    BY <1>1, <1>4, GoodFields, HeadTailProperties DEF NodeOK, Outbox
  <2>2. CASE f \in Data
    <3>1. f.kind = "data"
      BY <2>2 DEF Data
    <3>2. Put(n, DataReceived(mac[n], n, f, r), nic[n])
      BY <1>2, <3>1
    <3>. HIDE DEF f
    <3>3. f = Head(toMac[n])
      BY DEF f
    <3>. QED  BY <1>1, <1>4, <3>1, <3>2, <3>3, StepReceived
  <2>3. CASE f \in Preamble
    <3>1. f.kind = "BMAC_CONTROL"
      BY <2>3 DEF Preamble
    <3>2. Put(n, PreambleReceived(mac[n]), nic[n])
      BY <1>2, <3>1
    <3>. QED  BY <1>1, <1>4, <3>2, StepPreambleReceived
  <2>. QED  BY <2>1, <2>2, <2>3 DEF Frame
<1>. QED  BY <1>3, <1>4

\* A switch of the radio is over.
LEMMA SwitchedSend ==
  ASSUME NEW n, NEW m, NEW c, NEW q, NodeOK(n, m, c, q), c.switchTimer = 0, NEW d, Switched(c, d), d.radioState = "SEND"
  PROVE  c.radioState = "SWITCH_TO_SEND" /\ NicTyped(d) /\ Receiver(n, m, d) /\ d.recvBuff = c.recvBuff
<1>1. NicTyped(c) /\ Receiver(n, m, c)
  BY DEF NodeOK
<1>2. c.radioState \in DOMAIN Switching
  BY <1>1, Constants, RadioStates DEF NicTyped
<1>3. c.radioState = "SWITCH_TO_SEND"
  BY <1>2, RadioStates DEF Switched
<1>4. /\ d.txOverTimer = c.txOverTimer /\ d.recvBuff = c.recvBuff /\ d.ptr = c.ptr /\ d.indication = c.indication
      /\ d.noiseLevel = c.noiseLevel /\ NicFields \subseteq DOMAIN d /\ d.switchTimer = Off
  BY DEF Switched, NicAlters, NicFields
<1>5. NicTyped(d)
  BY <1>1, <1>4, Constants, RadioStates DEF NicTyped, Timer
<1>6. Receiver(n, m, d)
  BY <1>1, <1>4 DEF Receiver
<1>. QED  BY <1>3, <1>4, <1>5, <1>6

LEMMA StepSwitched ==
  ASSUME Typed, Good, AloneNext, NEW n \in Node, RadioSwitched(n), mac'[n].error = NoError
  PROVE  Good'
<1>. DEFINE m == mac[n]
            c == nic[n]
            d == SwitchDone(c)
            q == toMac[n]
<1>1. NodeOK(n, m, c, q) /\ MacFields \subseteq DOMAIN m /\ NicFields \subseteq DOMAIN c /\ m.tx = <<>>
  BY GoodFields DEF NodeOK, Idle
<1>2. c.switchTimer = 0 /\ toMac' = toMac
  BY DEF RadioSwitched
<1>3. Switched(c, d)
  BY <1>1, SwitchEffect
<1>4. Put(n, CASE d.radioState = "SEND" /\ m.macState = "TX" -> sendPreamble(m, n)
               [] d.radioState = "RECV" -> Published(m, d.indication)
               [] OTHER -> m, d)
  BY DEF RadioSwitched
<1>5. CASE d.radioState = "SEND" /\ m.macState = "TX"
  <2>. DEFINE k == sendPreamble(m, n)
  <2>1. Put(n, k, d)
    BY <1>4, <1>5
  <2>. HIDE DEF d
  <2>2. c.radioState = "SWITCH_TO_SEND" /\ NicTyped(d) /\ Receiver(n, m, d) /\ d.recvBuff = c.recvBuff
    <3>. HIDE DEF m, c, q
    <3>. QED  BY <1>1, <1>2, <1>3, <1>5, SwitchedSend
  <2>3. PICK f : Sending(m, k, f)
    BY <1>1, PreambleToSend
  <2>4. c.txOverTimer = Off /\ Preambles(m) /\ toMac'[n] = <<>>
    BY <1>1, <1>2, <1>5, <2>2 DEF NodeOK, Outbox
  <2>. HIDE DEF k
  <2>. QED  BY <1>2, <1>5, <2>1, <2>2, <2>3, <2>4, StepSend
<1>6. CASE ~(d.radioState = "SEND" /\ m.macState = "TX")
  <2>. DEFINE k == IF d.radioState = "RECV" THEN Published(m, d.indication) ELSE m
  <2>1. Put(n, k, d)
    BY <1>4, <1>6
  <2>. HIDE DEF d
  <2>2. Alters(m, k, {"indication"}) /\ k.indication = (IF d.radioState = "RECV" THEN d.indication ELSE m.indication)
    BY <1>1 DEF Published, Alters, MacFields
  <2>. HIDE DEF k
  <2>3. k.tx = <<>> /\ MacFields \subseteq DOMAIN k /\ NicFields \subseteq DOMAIN d
    BY <1>1, <1>3, <2>2 DEF Alters, MacFields, Switched, NicAlters
  <2>4. Puts(n, k, d) /\ Carried(k, d, mac'[n], nic'[n])
    BY <2>1, <2>3, PutEffect DEF Puts
  <2>5. /\ NodeOK(n, mac'[n], nic'[n], q) /\ Alters(m, mac'[n], {"indication"})
        /\ nic'[n].radioState = d.radioState /\ nic'[n].txOverTimer = c.txOverTimer
    <3>. DEFINE m2 == mac'[n]
                c2 == nic'[n]
    <3>1. Carried(k, d, m2, c2)
      BY <2>4
    <3>. HIDE DEF m, c, q, m2, c2
    <3>2. /\ NodeOK(n, m2, c2, q) /\ Alters(m, m2, {"indication"})
          /\ c2.radioState = d.radioState /\ c2.txOverTimer = c.txOverTimer
      BY <1>1, <1>2, <1>3, <1>6, <2>2, <3>1, SwitchedNode
    <3>. QED  BY <3>2 DEF m2, c2
  <2>6. nic'[n].recvBuff = c.recvBuff /\ nic'[n].ptr = c.ptr /\ (Clear(c.sList) => Clear(nic'[n].sList))
    <3>1. d.recvBuff = c.recvBuff /\ d.ptr = c.ptr /\ (Clear(c.sList) => Clear(d.sList))
      BY <1>3 DEF Switched, NicAlters, NicFields
    <3>2. nic'[n].recvBuff = d.recvBuff /\ nic'[n].ptr = d.ptr /\ nic'[n].sList = d.sList
      BY <2>4 DEF Carried, NicAlters, NicFields, Radio
    <3>. QED  BY <3>1, <3>2
  <2>7. mac'[n].macState = m.macState /\ mac'[n].sendPreambles = m.sendPreambles /\ mac'[n].sendData = m.sendData
    BY <2>5 DEF Alters, MacFields
  <2>8. \A y, s \in Node : arriving'[y][s] = arriving[y][s]
    BY <2>3, <2>4 DEF Puts
  <2>9. Internal(n)
    BY <1>2, <2>4, <2>5, <2>6, <2>7, <2>8 DEF Internal, Acts, Puts, Preambles
  <2>10. ASSUME NEW s \in Node \ {n}, Hears(s, n), n \in Reached(s), Waited(mac[s], nic[s], arriving[n][s])
         PROVE  Ready(s, mac[s], nic[s], mac'[n], nic'[n], toMac'[n])
    <3>. DEFINE ms == mac[s]
                cs == nic[s]
                p == toMac[s]
                m2 == mac'[n]
                c2 == nic'[n]
    <3>1. /\ NodeOK(s, ms, cs, p) /\ ms.macState = "TX" /\ cs.radioState \in {"SWITCH_TO_SEND", "SEND"}
          /\ Ready(s, ms, cs, m, c, q) /\ Alters(m, m2, {"indication"}) /\ c2.recvBuff = c.recvBuff
      BY <2>5, <2>6, <2>10, GoodFields DEF Hears, Pair, Waited
    <3>. HIDE DEF ms, cs, p, m, c, q, m2, c2
    <3>2. Ready(s, ms, cs, m2, c2, q)
      BY <1>1, <1>2, <3>1, ReadySwitched
    <3>. QED  BY <1>2, <3>2 DEF ms, cs, m2, c2, q
  <2>11. m.macState = "TX" => nic'[n].radioState \notin {"SWITCH_TO_SEND", "SEND"}
    <3>1. c.radioState \in DOMAIN Switching
      BY <1>1, <1>2, Constants, RadioStates DEF NodeOK, NicTyped
    <3>. QED  BY <1>3, <1>6, <2>5, <3>1, RadioStates DEF Switched
  <2>. QED  BY <1>2, <2>5, <2>9, <2>10, <2>11, InternalKeep
<1>. QED  BY <1>5, <1>6

\* The radio has sent its frame.
LEMMA StepTxOver ==
  ASSUME Typed, Good, AloneNext, NEW n \in Node, TxOver(n)
  PROVE  Good'
<1>. DEFINE m == mac[n]
            c == nic[n]
            q == toMac[n]
            d == [c EXCEPT !.txOverTimer = Off]
            p == Append(q, TransmissionOverMsg)
<1>1. c.txOverTimer = 0 /\ mac' = mac /\ arriving' = arriving
      /\ (\A y \in Node \ {n} : nic'[y] = nic[y] /\ toMac'[y] = toMac[y]) /\ nic'[n] = d /\ toMac'[n] = p
  BY DEF TxOver, Typed
<1>2. NodeOK(n, m, c, q)
  BY GoodFields
<1>3. /\ NodeOK(n, m, d, p) /\ m.macState = "TX" /\ c.radioState = "SEND"
      /\ NicAlters(c, d, {"txOverTimer"}) /\ d.txOverTimer = Off
  BY <1>1, <1>2, TxOverNode
<1>. HIDE DEF d, p
<1>4. d.recvBuff = c.recvBuff /\ d.radioState = c.radioState /\ d.switchTimer = c.switchTimer
  BY <1>3 DEF NicAlters, NicFields
<1>5. Acts(n)
  BY <1>1, <1>4 DEF Acts
<1>6. ASSUME NEW y \in Node
      PROVE  LinkOK(n, y, m, d, nic[y].recvBuff, arriving[y][n])
  <2>1. LinkOK(n, y, m, c, nic[y].recvBuff, arriving[y][n])
    BY DEF Good
  <2>. QED  BY <1>1, <1>3, <2>1, LinkTxOver
<1>7. NextEnd(m, d) = NextEnd(m, c)
  BY <1>1, <1>3, <1>4, Constants DEF NextEnd
<1>8. ASSUME NEW y \in Node \ {n}, Hears(n, y)
      PROVE  Pair(n, y, m, d, mac[y], nic[y], toMac[y], arriving[y][n])
  <2>1. Pair(n, y, m, c, mac[y], nic[y], toMac[y], arriving[y][n])
    BY <1>8 DEF Hears
  <2>. QED  BY <1>4, <1>7, <2>1, PairSender
<1>. QED  BY <1>1, <1>3, <1>5, <1>6, <1>8, ActsKeep

-----------------------------------------------------------------------------
(* What happens on the air, and the clock *)

LEMMA StepStart ==
  ASSUME StrongLinks, Typed, Good, AloneNext, NEW n \in Node, NEW s \in Node, FrameStart(n, s)
  PROVE  Good'
<1>. DEFINE m == mac[n]
            c == nic[n]
            q == toMac[n]
            a == arriving[n][s]
            f == Head(a)
            d == handleLowerMsgStart(c, n, s, f, Duration(f))
            k == IF StartPublishesMedium(c, n, s) THEN Published(m, "BUSY") ELSE m
<1>1. NodeOK(n, m, c, q) /\ NicTyped(c) /\ Receiver(n, m, c) /\ MacFields \subseteq DOMAIN m
      /\ NicFields \subseteq DOMAIN c
  BY GoodFields DEF NodeOK
<1>2. a # <<>> /\ s \notin DOMAIN c.recvBuff
  BY DEF FrameStart, Starting
<1>3. /\ mac' = [mac EXCEPT ![n] = k] /\ nic' = [nic EXCEPT ![n] = d] /\ toMac' = toMac
      /\ arriving' = [arriving EXCEPT ![n][s] = Tail(a)]
  BY DEF FrameStart
<1>4. /\ mac'[n] = k /\ nic'[n] = d /\ arriving'[n][s] = Tail(a)
      /\ \A y \in Node \ {n} : mac'[y] = mac[y] /\ nic'[y] = nic[y]
      /\ \A y, o \in Node : ~(y = n /\ o = s) => arriving'[y][o] = arriving[y][o]
  <2>. HIDE DEF k, d
  <2>. QED  BY <1>3 DEF Typed
<1>5. Started(c, d, n, s, f, Duration(f))
  BY <1>1, <1>2, StartEffect
<1>6. Alters(m, k, {"indication"}) /\ k.indication = IF IsSignal(c, n, s) /\ c.radioState = "RECV" THEN "BUSY" ELSE m.indication
  BY <1>1 DEF StartPublishesMedium, Published, Alters, MacFields
<1>. HIDE DEF d, k
<1>7. LinkOK(s, n, mac[s], nic[s], c.recvBuff, a)
  BY DEF Good
<1>8. a \in Seq(Frame) /\ f = a[1]
  BY <1>7 DEF LinkOK
<1>. HIDE DEF f
<1>9. f \in Frame /\ n \in Reached(s) /\ Tail(a) = <<>> /\ LinkOK(s, n, mac[s], nic[s], d.recvBuff, Tail(a))
  <2>. DEFINE ms == mac[s]
              cs == nic[s]
              b == c.recvBuff
              b2 == d.recvBuff
  <2>1. LinkOK(s, n, ms, cs, b, a) /\ s \in DOMAIN b2 /\ b2[s].frame = a[1] /\ b2[s].left = Duration(a[1])
    BY <1>5, <1>7, <1>8 DEF Started
  <2>. HIDE DEF ms, cs, b, b2, a
  <2>2. a[1] \in Frame /\ n \in Reached(s) /\ Tail(a) = <<>> /\ LinkOK(s, n, ms, cs, b2, Tail(a))
    BY <1>2, <2>1, LinkStart
  <2>. QED  BY <1>8, <2>2 DEF ms, cs, b2
<1>10. s \in Node \ {n}
  BY <1>9 DEF Reached
<1>11. NicTyped(d) /\ Receiver(n, k, d)
  <2>. HIDE DEF m, c
  <2>. QED  BY <1>1, <1>2, <1>5, <1>6, <1>9, StartReceiver
<1>12. AirNode(n, m, c, q, k, d, q)
  BY <1>5, <1>6, <1>11 DEF AirNode, Started
<1>13. Airs(n, s)
  BY <1>3, <1>4, <1>5 DEF Airs, Started
<1>14. ASSUME Hears(s, n)
       PROVE  Pair(s, n, mac[s], nic[s], k, d, q, <<>>)
  <2>. DEFINE ms == mac[s]
              cs == nic[s]
              t == Duration(f)
  <2>1. Pair(s, n, ms, cs, m, c, q, a) /\ DOMAIN c.recvBuff = {} /\ Started(c, d, n, s, f, t)
    BY <1>2, <1>5, <1>14 DEF Hears
  <2>. HIDE DEF ms, cs, m, c, q, a, t
  <2>2. Pair(s, n, ms, cs, k, d, q, <<>>)
    BY <1>1, <1>2, <1>6, <1>9, <2>1, PairStart
  <2>. QED  BY <2>2 DEF ms, cs
<1>. QED  BY <1>2, <1>3, <1>4, <1>9, <1>10, <1>12, <1>13, <1>14, AirsKeep

LEMMA StepEnd ==
  ASSUME Typed, Good, AloneNext, NEW n \in Node, NEW s \in Node, FrameEnd(n, s)
  PROVE  Good'
<1>. DEFINE m == mac[n]
            c == nic[n]
            q == toMac[n]
            a == arriving[n][s]
            d == handleLowerMsgEnd(c, n, s)
            k == IF EndPublishesMedium(c, s) THEN Published(m, "IDLE") ELSE m
            q2 == IF GoesUp(c, s) /\ snrOverThreshold(c) THEN Append(q, c.recvBuff[s].frame) ELSE q
<1>1. NodeOK(n, m, c, q) /\ NicTyped(c) /\ Receiver(n, m, c) /\ MacFields \subseteq DOMAIN m
      /\ NicFields \subseteq DOMAIN c
  BY GoodFields DEF NodeOK
<1>2. s \in DOMAIN c.recvBuff /\ c.recvBuff[s].left = 0
  BY DEF FrameEnd, Ending
<1>3. /\ mac' = [mac EXCEPT ![n] = k] /\ nic' = [nic EXCEPT ![n] = d] /\ arriving' = arriving
  BY DEF FrameEnd
<1>4. toMac'[n] = q2 /\ \A y \in Node \ {n} : toMac'[y] = toMac[y]
  BY DEF FrameEnd, Typed
<1>5. /\ mac'[n] = k /\ nic'[n] = d
      /\ \A y \in Node \ {n} : mac'[y] = mac[y] /\ nic'[y] = nic[y]
  <2>. HIDE DEF k, d
  <2>. QED  BY <1>3 DEF Typed
<1>6. Ended(c, d, n, s)
  BY <1>1, EndEffect
<1>7. Alters(m, k, {"indication"}) /\ k.indication = IF s = c.ptr /\ c.radioState = "RECV" THEN "IDLE" ELSE m.indication
  BY <1>1 DEF EndPublishesMedium, Published, Alters, MacFields
<1>. HIDE DEF d, k
<1>8. n \in Reached(s) /\ LinkOK(s, n, mac[s], nic[s], d.recvBuff, a)
  <2>. DEFINE ms == mac[s]
              cs == nic[s]
              b == c.recvBuff
              b2 == d.recvBuff
  <2>1. LinkOK(s, n, ms, cs, b, a) /\ s \in DOMAIN b /\ b[s].left = 0 /\ s \notin DOMAIN b2
    BY <1>2, <1>6 DEF Good, Ended
  <2>. HIDE DEF ms, cs, b, b2, a
  <2>2. n \in Reached(s) /\ LinkOK(s, n, ms, cs, b2, a)
    BY <2>1, LinkEnd
  <2>. QED  BY <2>2 DEF ms, cs, b2
<1>9. s \in Node \ {n}
  BY <1>8 DEF Reached
<1>10. NicTyped(d) /\ Receiver(n, k, d)
  <2>. HIDE DEF m, c
  <2>. QED  BY <1>1, <1>2, <1>6, <1>7, EndReceiver
<1>11. q2 = q \/ (c.radioState = "RECV" /\ q2 \in Seq(Frame))
  <2>1. ASSUME q2 # q PROVE c.radioState = "RECV" /\ q2 \in Seq(Frame)
    <3>1. c.radioState = "RECV" /\ q2 = Append(q, c.recvBuff[s].frame)
      BY <2>1 DEF GoesUp
    <3>2. q \in Seq(Frame) /\ c.recvBuff[s].frame \in Frame
      BY <1>1, <1>2, <3>1 DEF NodeOK, Phase, Outbox, MacTyped, NicTyped
    <3>. HIDE DEF q2, q, c
    <3>. QED  BY <3>1, <3>2, AppendProperties
  <2>. QED  BY <2>1
<1>12. AirNode(n, m, c, q, k, d, q2)
  <2>. HIDE DEF q2
  <2>. QED  BY <1>6, <1>7, <1>10, <1>11 DEF AirNode, Ended
<1>13. Airs(n, s)
  BY <1>3, <1>4, <1>5, <1>6 DEF Airs, Ended
<1>14. ASSUME Hears(s, n)
       PROVE  Pair(s, n, mac[s], nic[s], k, d, q2, a)
  <2>. DEFINE ms == mac[s]
              cs == nic[s]
              p == toMac[s]
              b == c.recvBuff
  <2>1. Pair(s, n, ms, cs, m, c, q, a) /\ ms.macState = "TX"
    BY <1>14 DEF Hears
  <2>2. c.ptr = s /\ Clear(c.sList)
    BY <1>2, <2>1 DEF Pair
  <2>3. q2 = IF c.radioState = "RECV" THEN Append(q, c.recvBuff[s].frame) ELSE q
    BY <2>2, ClearGoesUp DEF GoesUp
  <2>4. NodeOK(s, ms, cs, p) /\ LinkOK(s, n, ms, cs, c.recvBuff, a)
    BY GoodFields DEF Good
  <2>. HIDE DEF ms, cs, p, m, c, q, q2, a
  <2>5. Pair(s, n, ms, cs, k, d, q2, a)
    BY <1>1, <1>2, <1>6, <1>7, <1>8, <2>1, <2>3, <2>4, PairEnd
  <2>. QED  BY <2>5 DEF ms, cs
<1>. HIDE DEF q2
<1>. QED  BY <1>2, <1>3, <1>4, <1>5, <1>8, <1>9, <1>12, <1>13, <1>14, AirsKeep

LEMMA StepTick ==
  ASSUME Typed, Good, AloneNext, Tick
  PROVE  Good'
<1>1. Quiet /\ (\A n \in Node : mac[n].checkChannel # 0)
  BY QuietEffect DEF Tick
<1>2. arriving' = arriving /\ toMac' = toMac
  BY DEF Tick
<1>3. ASSUME NEW n \in Node
      PROVE  /\ NodeOK(n, mac[n], nic[n], <<>>) /\ QuietNode(mac[n], nic[n])
             /\ Aged(mac[n], mac'[n]) /\ Older(nic[n], nic'[n])
  <2>1. NodeOK(n, mac[n], nic[n], <<>>)
    BY <1>1, GoodFields DEF Quiet
  <2>2. QuietNode(mac[n], nic[n])
    BY <1>1 DEF Quiet, QuietNode
  <2>3. mac'[n] = Elapsed(mac[n]) /\ nic'[n] = NicAfter(nic[n], 1)
    BY DEF Tick
  <2>4. Aged(mac[n], mac'[n])
    BY <2>3, GoodFields, ElapsedEffect
  <2>5. Older(nic[n], nic'[n])
    BY <2>3, GoodFields, AfterEffect
  <2>. QED  BY <2>1, <2>2, <2>4, <2>5
<1>4. ASSUME NEW n \in Node
      PROVE  NodeOK(n, mac'[n], nic'[n], toMac'[n])
  <2>1. NodeOK(n, mac'[n], nic'[n], <<>>)
    BY <1>3, TickNode
  <2>. QED  BY <1>1, <1>2, <2>1 DEF Quiet
<1>5. ASSUME NEW n \in Node
      PROVE  /\ nic[n].txOverTimer \in Timer /\ nic[n].txOverTimer # 0
             /\ nic'[n].txOverTimer = IF nic[n].txOverTimer = Off THEN Off ELSE nic[n].txOverTimer - 1
             /\ mac'[n].macState = mac[n].macState /\ (Preambles(mac'[n]) <=> Preambles(mac[n]))
             /\ DOMAIN nic'[n].recvBuff = DOMAIN nic[n].recvBuff
             /\ \A s \in DOMAIN nic[n].recvBuff :
                  /\ nic[n].recvBuff[s].left # 0
                  /\ nic'[n].recvBuff[s].left = nic[n].recvBuff[s].left - 1
                  /\ nic'[n].recvBuff[s].frame = nic[n].recvBuff[s].frame
  <2>1. nic[n].txOverTimer \in Timer /\ mac[n].sendPreambles \in Timer
    BY GoodFields DEF NicTyped, MacTyped
  <2>2. nic'[n].txOverTimer = IF nic[n].txOverTimer = Off THEN Off ELSE nic[n].txOverTimer - 1
    BY <1>3 DEF Older, Later
  <2>3. mac'[n].macState = mac[n].macState /\ mac'[n].sendData = mac[n].sendData
        /\ mac'[n].sendPreambles = IF mac[n].sendPreambles = Off THEN Off ELSE mac[n].sendPreambles - 1
    BY <1>3 DEF Aged, Alters, MacFields, Later
  <2>4. Preambles(mac'[n]) <=> Preambles(mac[n])
    <3>1. mac'[n].sendPreambles = Off <=> mac[n].sendPreambles = Off
      BY <1>3, <2>1, <2>3, Constants DEF QuietNode, Timer
    <3>. QED  BY <2>3, <3>1 DEF Preambles
  <2>. QED  BY <1>3, <2>1, <2>2, <2>3, <2>4 DEF Older, QuietNode
<1>6. ASSUME NEW s \in Node, NEW n \in Node
      PROVE  LinkOK(s, n, mac'[s], nic'[s], nic'[n].recvBuff, arriving'[n][s])
  <2>. DEFINE m == mac[s]
              c == nic[s]
              b == nic[n].recvBuff
              m2 == mac'[s]
              c2 == nic'[s]
              b2 == nic'[n].recvBuff
  <2>1. arriving[n][s] = <<>> /\ LinkOK(s, n, m, c, b, <<>>)
    <3>1. arriving[n][s] = <<>>
      BY <1>1 DEF Quiet
    <3>. QED  BY <3>1 DEF Good
  <2>2. /\ c.txOverTimer \in Timer /\ c.txOverTimer # 0 /\ (s \in DOMAIN b => b[s].left # 0)
        /\ m2.macState = m.macState /\ (Preambles(m2) <=> Preambles(m))
        /\ c2.txOverTimer = (IF c.txOverTimer = Off THEN Off ELSE c.txOverTimer - 1)
        /\ (s \in DOMAIN b2 <=> s \in DOMAIN b)
        /\ (s \in DOMAIN b => b2[s].left = b[s].left - 1 /\ b2[s].frame = b[s].frame)
    BY <1>5
  <2>. HIDE DEF m, c, b, m2, c2, b2
  <2>3. LinkOK(s, n, m2, c2, b2, <<>>)
    BY <2>1, <2>2, LinkTick
  <2>. QED  BY <1>2, <2>1, <2>3 DEF m2, c2, b2
<1>7. ASSUME NEW s \in Node, alone'[s], mac'[s].macState = "TX"
      PROVE  /\ \A o \in Node \ {s}, n \in Node : Silent(o, mac'[o], nic'[n].recvBuff, arriving'[n][o])
             /\ \A n \in Node \ {s} :
                  Pair(s, n, mac'[s], nic'[s], mac'[n], nic'[n], toMac'[n], arriving'[n][s])
  <2>1. mac[s].macState = "TX" /\ alone[s]
    BY <1>5, <1>7 DEF AloneNext
  <2>2. Only(s)
    BY DEF Good
  <2>3. ASSUME NEW o \in Node \ {s}, NEW n \in Node
        PROVE  Silent(o, mac'[o], nic'[n].recvBuff, arriving'[n][o])
    <3>1. Silent(o, mac[o], nic[n].recvBuff, arriving[n][o])
      BY <2>1, <2>2 DEF Only
    <3>. QED  BY <1>2, <1>5, <3>1 DEF Silent
  <2>4. ASSUME NEW n \in Node \ {s}
        PROVE  Pair(s, n, mac'[s], nic'[s], mac'[n], nic'[n], toMac'[n], arriving'[n][s])
    <3>. DEFINE m == mac[s]
                c == nic[s]
                k == mac[n]
                d == nic[n]
                m2 == mac'[s]
                c2 == nic'[s]
                k2 == mac'[n]
                d2 == nic'[n]
    <3>1. arriving[n][s] = <<>> /\ toMac[n] = <<>>
      BY <1>1 DEF Quiet
    <3>2. Pair(s, n, m, c, k, d, <<>>, <<>>) /\ LinkOK(s, n, m, c, d.recvBuff, <<>>)
      BY <2>1, <2>2, <3>1 DEF Only, Good
    <3>3. /\ NodeOK(s, m, c, <<>>) /\ QuietNode(m, c) /\ Aged(m, m2) /\ Older(c, c2) /\ m.macState = "TX"
          /\ NodeOK(n, k, d, <<>>) /\ QuietNode(k, d) /\ Aged(k, k2) /\ Older(d, d2)
      BY <1>3, <2>1
    <3>. HIDE DEF m, c, k, d, m2, c2, k2, d2
    <3>4. Pair(s, n, m2, c2, k2, d2, <<>>, <<>>)
      BY <3>2, <3>3, PairTick
    <3>. QED  BY <1>2, <3>1, <3>4 DEF m2, c2, k2, d2
  <2>. QED  BY <2>3, <2>4
<1>. QED  BY <1>4, <1>6, <1>7 DEF Good, Only

-----------------------------------------------------------------------------
(* The timers that are refused *)

\* m becomes k in an event that schedules nothing twice.
Spared(m, k) == MacFields \subseteq DOMAIN k /\ k.error = m.error

LEMMA FailIfSpares ==
  ASSUME NEW m, MacFields \subseteq DOMAIN m, NEW bad, ~bad, NEW what
  PROVE  Spared(m, FailIf(m, bad, what)) /\ FailIf(m, bad, what).tx = m.tx
BY DEF Spared, FailIf, MacFields

LEMMA SleepSpares ==
  ASSUME NEW m, MacFields \subseteq DOMAIN m, m.wakeup = Off, NEW r
  PROVE  Spared(m, GoToSleep(m, r)) /\ GoToSleep(m, r).tx = m.tx
<1>. DEFINE a == [m EXCEPT !.macState = "SLEEP", !.cmd = "SWITCH_TO_SLEEP"]
            t == IF m.macQueue # <<>> THEN r ELSE slotDuration
            b == [a EXCEPT !.wakeup = t]
<1>1. GoToSleep(m, r) = FailIf(b, a.wakeup # Off, "wakeup scheduled twice")
  BY DEF GoToSleep, ScheduleWakeup
<1>2. Spared(m, a) /\ a.wakeup = Off /\ a.tx = m.tx
  BY DEF Spared, MacFields
<1>. HIDE DEF a, t
<1>3. Spared(m, b) /\ b.tx = m.tx
  BY <1>2 DEF Spared, MacFields
<1>. HIDE DEF b
<1>4. Spared(b, FailIf(b, a.wakeup # Off, "wakeup scheduled twice"))
      /\ FailIf(b, a.wakeup # Off, "wakeup scheduled twice").tx = b.tx
  BY <1>2, <1>3, FailIfSpares DEF Spared
<1>. QED  BY <1>1, <1>3, <1>4 DEF Spared

LEMMA TimeoutSpares ==
  ASSUME NEW m, MacFields \subseteq DOMAIN m, m.timeoutData = Off
  PROVE  Spared(m, ScheduleTimeout(m)) /\ ScheduleTimeout(m).tx = m.tx
<1>. DEFINE a == [m EXCEPT !.timeoutData = DataTimeout]
            bad == m.timeoutData # Off
            k == FailIf(a, bad, "timeoutData scheduled twice")
<1>1. ScheduleTimeout(m) = k
  BY DEF ScheduleTimeout
<1>2. Spared(m, a) /\ a.tx = m.tx /\ ~bad
  BY DEF Spared, MacFields
<1>. HIDE DEF a, bad
<1>3. Spared(a, k) /\ k.tx = a.tx
  BY <1>2, FailIfSpares DEF Spared
<1>. HIDE DEF k
<1>. QED  BY <1>1, <1>2, <1>3 DEF Spared

\* The kernel carries out the commands of such an event, if the radio is free when it is to send.
LEMMA PutSpares ==
  ASSUME Typed, NEW n \in Node, NEW m, Spared(mac[n], m), NEW c, Put(n, m, c),
         m.tx = <<>> \/ c.txOverTimer = Off
  PROVE  \A o \in Node : mac'[o].error = mac[o].error
<1>. DEFINE bad == m.tx # <<>> /\ c.txOverTimer # Off
            e == FailIf(m, bad, "sending twice")
            m2 == [e EXCEPT !.cmd = "none", !.tx = <<>>, !.up = {}]
<1>1. mac' = [mac EXCEPT ![n] = m2]
  BY Zenon DEF Put
<1>2. ~bad /\ MacFields \subseteq DOMAIN m
  BY DEF Spared
<1>. HIDE DEF bad
<1>3. Spared(m, e)
  <2>. HIDE DEF m2
  <2>. QED  BY <1>2, FailIfSpares, Zenon
<1>. HIDE DEF e
<1>4. Spared(m, m2)
  BY <1>3 DEF Spared, MacFields
<1>. HIDE DEF m2
<1>. QED  BY <1>1, <1>4 DEF Typed, Spared

LEMMA OverSpares ==
  ASSUME NEW n \in Node, NEW m, NEW c, NEW q, NodeOK(n, m, c, q), m.macState = "TX", q # <<>>, NEW r
  PROVE  /\ Spared(m, TransmissionOver(m, n, r))
         /\ TransmissionOver(m, n, r).tx = <<>> \/ c.txOverTimer = Off
<1>1. /\ m.wakeup = Off /\ c.txOverTimer = Off /\ m.sendData \in BOOLEAN /\ MacFields \subseteq DOMAIN m
      /\ m.sendData => m.macQueue # <<>>
  BY DEF NodeOK, Phase, Outbox, MacTyped, Preambles
<1>2. CASE m.sendPreambles # Off
  <2>1. TransmissionOver(m, n, r) = sendPreamble(m, n)
    BY <1>2 DEF TransmissionOver
  <2>. QED  BY <1>1, <2>1 DEF sendPreamble, Spared, MacFields
<1>3. CASE m.sendPreambles = Off /\ m.sendData
  <2>1. TransmissionOver(m, n, r) = [m EXCEPT !.tx = <<Head(m.macQueue)>>, !.macQueue = Tail(@), !.sendData = FALSE]
    BY <1>1, <1>3 DEF TransmissionOver
  <2>. QED  BY <1>1, <2>1 DEF Spared, MacFields
<1>4. CASE m.sendPreambles = Off /\ ~m.sendData
  <2>1. TransmissionOver(m, n, r) = GoToSleep(m, r)
    BY <1>4 DEF TransmissionOver
  <2>. QED  BY <1>1, <2>1, SleepSpares
<1>. QED  BY <1>1, <1>2, <1>3, <1>4

LEMMA FromNicSpares ==
  ASSUME Typed, Good, NEW n \in Node, FromNic(n),
         ~(mac[n].macState = "SLEEP" /\ Head(toMac[n]).kind = "data")
  PROVE  \A o \in Node : mac'[o].error = mac[o].error
<1>. DEFINE f == Head(toMac[n])
            m == mac[n]
<1>1. NodeOK(n, m, nic[n], toMac[n]) /\ MacFields \subseteq DOMAIN m /\ m.tx = <<>> /\ toMac[n] # <<>>
  BY GoodFields DEF FromNic, NodeOK, Idle
<1>2. PICK r \in Soon :
        Put(n, CASE f.kind = "TRANSMISSION_OVER" -> TransmissionOver(m, n, r)
                 [] f.kind = "BMAC_CONTROL" -> PreambleReceived(m)
                 [] f.kind = "data" -> DataReceived(m, n, f, r), nic[n])
  BY DEF FromNic
<1>3. CASE m.macState = "TX"
  <2>1. toMac[n] = <<TransmissionOverMsg>>
    BY <1>1, <1>3 DEF NodeOK, Outbox
  <2>2. f.kind = "TRANSMISSION_OVER"
    BY <2>1 DEF TransmissionOverMsg
  <2>3. Put(n, TransmissionOver(m, n, r), nic[n])
    BY <1>2, <2>2
  <2>. HIDE DEF f
  <2>4. Spared(m, TransmissionOver(m, n, r)) /\ (TransmissionOver(m, n, r).tx = <<>> \/ nic[n].txOverTimer = Off)
    BY <1>1, <1>3, OverSpares
  <2>. QED  BY <2>3, <2>4, PutSpares
<1>4. CASE m.macState # "TX"
  <2>1. f \in Frame
    BY <1>1, <1>4, HeadTailProperties DEF NodeOK, Outbox
  <2>2. CASE f \in Data
    <3>. DEFINE k == [m EXCEPT !.timeoutData = Off, !.checkChannel = Off,
                               !.up = IF f.dest \in {n, L2BROADCAST} THEN @ \cup {f.id} ELSE @]
    <3>1. f.kind = "data"
      BY <2>2 DEF Data
    <3>2. Put(n, GoToSleep(k, r), nic[n])
      BY <1>2, <3>1 DEF DataReceived
    <3>3. m.wakeup = Off
      BY <1>1, <1>4, <3>1 DEF NodeOK, Phase, MacTyped
    <3>. HIDE DEF f
    <3>4. Spared(m, k) /\ k.wakeup = Off /\ k.tx = <<>>
      BY <1>1, <3>3 DEF Spared, MacFields
    <3>. HIDE DEF k
    <3>5. Spared(k, GoToSleep(k, r)) /\ GoToSleep(k, r).tx = <<>>
      BY <3>4, SleepSpares DEF Spared
    <3>6. Spared(m, GoToSleep(k, r))
      BY <3>4, <3>5 DEF Spared
    <3>. QED  BY <3>2, <3>5, <3>6, PutSpares
  <2>3. CASE f \in Preamble
    <3>1. f.kind = "BMAC_CONTROL"
      BY <2>3 DEF Preamble
    <3>2. Put(n, PreambleReceived(m), nic[n])
      BY <1>2, <3>1
    <3>. HIDE DEF f
    <3>3. Spared(m, PreambleReceived(m)) /\ PreambleReceived(m).tx = <<>>
      <4>1. CASE m.checkChannel # Off
        <5>. DEFINE k == [m EXCEPT !.checkChannel = Off]
        <5>1. m.timeoutData = Off
          BY <1>1, <4>1 DEF NodeOK, Phase, MacTyped
        <5>2. PreambleReceived(m) = ScheduleTimeout(k)
          BY <4>1 DEF PreambleReceived
        <5>3. Spared(m, k) /\ k.timeoutData = Off /\ k.tx = <<>>
          BY <1>1, <5>1 DEF Spared, MacFields
        <5>. HIDE DEF k
        <5>. QED  BY <5>2, <5>3, TimeoutSpares DEF Spared
      <4>2. CASE m.checkChannel = Off
        BY <1>1, <4>2 DEF PreambleReceived, Spared, MacFields
      <4>. QED  BY <4>1, <4>2
    <3>. QED  BY <3>2, <3>3, PutSpares
  <2>. QED  BY <2>1, <2>2, <2>3 DEF Frame
<1>. QED  BY <1>3, <1>4

LEMMA CheckSpares ==
  ASSUME Typed, Good, NEW n \in Node, CheckTimer(n)
  PROVE  \A o \in Node : mac'[o].error = mac[o].error
<1>. DEFINE m == mac[n]
            t == [m EXCEPT !.checkChannel = Off]
<1>1. /\ MacFields \subseteq DOMAIN m /\ m.tx = <<>> /\ m.indication \in {"IDLE", "BUSY"}
      /\ m.wakeup = Off /\ m.timeoutData = Off /\ m.sendPreambles = Off
  <2>1. NodeOK(n, m, nic[n], toMac[n]) /\ m.checkChannel = 0
    BY GoodFields DEF CheckTimer
  <2>2. m.macState = "RX"
    BY <2>1, Constants DEF NodeOK, Phase, MacTyped
  <2>. QED  BY <2>1, <2>2, Constants DEF NodeOK, Phase, MacTyped, Receiver, Outbox, Idle
<1>2. Put(n, CheckChannel(m), nic[n])
  BY DEF CheckTimer
<1>3. Spared(m, t) /\ t.wakeup = Off /\ t.timeoutData = Off /\ t.tx = <<>>
  BY <1>1 DEF Spared, MacFields
<1>4. CASE m.indication = "BUSY"
  <2>1. CheckChannel(m) = ScheduleTimeout(t)
    BY <1>4 DEF CheckChannel
  <2>. HIDE DEF t
  <2>2. Spared(m, ScheduleTimeout(t)) /\ ScheduleTimeout(t).tx = <<>>
    BY <1>3, TimeoutSpares DEF Spared
  <2>. QED  BY <1>2, <2>1, <2>2, PutSpares
<1>5. CASE m.indication = "IDLE" /\ m.macQueue = <<>>
  <2>1. CheckChannel(m) = GoToSleep(t, 0)
    BY <1>5 DEF CheckChannel
  <2>. HIDE DEF t
  <2>2. Spared(m, GoToSleep(t, 0)) /\ GoToSleep(t, 0).tx = <<>>
    BY <1>3, SleepSpares DEF Spared
  <2>. QED  BY <1>2, <2>1, <2>2, PutSpares
<1>6. CASE m.indication = "IDLE" /\ m.macQueue # <<>>
  <2>. DEFINE a == [t EXCEPT !.macState = "TX", !.cmd = "SWITCH_TO_SEND", !.sendPreambles = slotDuration]
              bad == m.sendPreambles # Off
              k == FailIf(a, bad, "sendPreambles scheduled twice")
  <2>1. CheckChannel(m) = k
    BY <1>6 DEF CheckChannel
  <2>. HIDE DEF t
  <2>2. Spared(m, a) /\ a.tx = <<>> /\ ~bad
    BY <1>1, <1>3 DEF Spared, MacFields
  <2>. HIDE DEF a, bad
  <2>3. Spared(a, k) /\ k.tx = a.tx
    BY <2>2, FailIfSpares DEF Spared
  <2>. HIDE DEF k
  <2>4. Spared(m, k) /\ k.tx = <<>>
    BY <2>2, <2>3 DEF Spared
  <2>. QED  BY <1>2, <2>1, <2>4, PutSpares
<1>. QED  BY <1>1, <1>4, <1>5, <1>6

LEMMA TimersSpare ==
  ASSUME Typed, Good, NEW n \in Node, WakeupTimer(n) \/ DataTimer(n) \/ PreamblesTimer(n)
  PROVE  \A o \in Node : mac'[o].error = mac[o].error
<1>. DEFINE m == mac[n]
<1>1. NodeOK(n, m, nic[n], toMac[n]) /\ MacFields \subseteq DOMAIN m /\ m.tx = <<>>
  BY GoodFields DEF NodeOK, Idle
<1>2. CASE WakeupTimer(n)
  <2>. DEFINE a == [m EXCEPT !.wakeup = Off, !.macState = "RX", !.cmd = "SWITCH_TO_RECV", !.checkChannel = CheckTime]
              bad == m.checkChannel # Off
              k == FailIf(a, bad, "checkChannel scheduled twice")
  <2>1. Put(n, k, nic[n]) /\ m.wakeup = 0
    BY <1>2 DEF WakeupTimer, Wakeup
  <2>. HIDE DEF k
  <2>2. ~bad
    BY <1>1, <2>1, Constants DEF NodeOK, Phase, MacTyped
  <2>3. Spared(m, a) /\ a.tx = <<>>
    BY <1>1 DEF Spared, MacFields
  <2>. HIDE DEF a, bad
  <2>4. Spared(a, k) /\ k.tx = a.tx
    BY <2>2, <2>3, FailIfSpares DEF Spared, k
  <2>5. Spared(m, k) /\ k.tx = <<>>
    BY <2>3, <2>4 DEF Spared
  <2>. QED  BY <2>1, <2>5, PutSpares
<1>3. CASE DataTimer(n)
  <2>. DEFINE a == [m EXCEPT !.timeoutData = Off]
  <2>1. PICK r \in Soon : Put(n, GoToSleep(a, r), nic[n])
    BY <1>3 DEF DataTimer, TimeoutData
  <2>2. m.wakeup = Off
    BY <1>1, <1>3, Constants DEF DataTimer, NodeOK, Phase, MacTyped
  <2>3. Spared(m, a) /\ a.wakeup = Off /\ a.tx = <<>>
    BY <1>1, <2>2 DEF Spared, MacFields
  <2>. HIDE DEF a
  <2>4. Spared(m, GoToSleep(a, r)) /\ GoToSleep(a, r).tx = <<>>
    BY <2>3, SleepSpares DEF Spared
  <2>. QED  BY <2>1, <2>4, PutSpares
<1>4. CASE PreamblesTimer(n)
  <2>. DEFINE k == [m EXCEPT !.sendPreambles = Off, !.sendData = TRUE]
  <2>1. Put(n, k, nic[n])
    BY <1>4 DEF PreamblesTimer
  <2>2. Spared(m, k) /\ k.tx = <<>>
    BY <1>1 DEF Spared, MacFields
  <2>. HIDE DEF k
  <2>. QED  BY <2>1, <2>2, PutSpares
<1>. QED  BY <1>2, <1>3, <1>4

LEMMA UpperSpares ==
  ASSUME Typed, Good, NEW n \in Node, handleUpperMsg(n)
  PROVE  \A o \in Node : mac'[o].error = mac[o].error
<1>. DEFINE p(d) == [kind |-> "data", src |-> n, dest |-> d, id |-> handedIn + 1]
<1>1. PICK d \in Dest[n], r \in Soon : Put(n, UpperMsg(mac[n], p(d), r), nic[n])
  BY DEF handleUpperMsg
<1>2. p(d) \in Data
  BY <1>1, BMACAssumption DEF Typed, Data
<1>. HIDE DEF p
<1>. DEFINE k == UpperMsg(mac[n], p(d), r)
<1>3. Alters(mac[n], k, {"macQueue", "wakeup"})
  BY <1>2, GoodFields, UpperMsgEffect
<1>4. mac[n].tx = <<>>
  BY DEF Good, NodeOK, Idle
<1>. HIDE DEF k
<1>5. Spared(mac[n], k) /\ k.tx = <<>>
  BY <1>3, <1>4 DEF Alters, Spared, MacFields
<1>. QED  BY <1>1, <1>5, PutSpares DEF k

LEMMA SwitchedSpares ==
  ASSUME Typed, Good, NEW n \in Node, RadioSwitched(n)
  PROVE  \A o \in Node : mac'[o].error = mac[o].error
<1>. DEFINE m == mac[n]
            c == nic[n]
            d == SwitchDone(c)
<1>1. NodeOK(n, m, c, toMac[n]) /\ MacFields \subseteq DOMAIN m /\ NicFields \subseteq DOMAIN c /\ m.tx = <<>>
  BY GoodFields DEF NodeOK, Idle
<1>2. c.switchTimer = 0
  BY DEF RadioSwitched
<1>3. Switched(c, d)
  BY <1>1, SwitchEffect
<1>4. Put(n, CASE d.radioState = "SEND" /\ m.macState = "TX" -> sendPreamble(m, n)
               [] d.radioState = "RECV" -> Published(m, d.indication)
               [] OTHER -> m, d)
  BY DEF RadioSwitched
<1>5. CASE d.radioState = "SEND" /\ m.macState = "TX"
  <2>. DEFINE k == sendPreamble(m, n)
  <2>1. Put(n, k, d)
    BY <1>4, <1>5
  <2>. HIDE DEF d
  <2>2. c.radioState = "SWITCH_TO_SEND" /\ d.txOverTimer = c.txOverTimer
    <3>1. c.radioState = "SWITCH_TO_SEND"
      <4>. HIDE DEF m, c
      <4>. QED  BY <1>1, <1>2, <1>3, <1>5, SwitchedSend
    <3>. QED  BY <1>3, <3>1 DEF Switched, NicAlters, NicFields
  <2>3. d.txOverTimer = Off
    BY <1>1, <1>5, <2>2 DEF NodeOK, Outbox
  <2>4. Spared(m, k)
    BY <1>1 DEF sendPreamble, Spared, MacFields
  <2>. HIDE DEF k
  <2>. QED  BY <2>1, <2>3, <2>4, PutSpares
<1>6. CASE ~(d.radioState = "SEND" /\ m.macState = "TX")
  <2>. DEFINE k == IF d.radioState = "RECV" THEN Published(m, d.indication) ELSE m
  <2>1. Put(n, k, d)
    BY <1>4, <1>6
  <2>. HIDE DEF d
  <2>2. Spared(m, k) /\ k.tx = <<>>
    BY <1>1 DEF Published, Spared, MacFields
  <2>. HIDE DEF k
  <2>. QED  BY <2>1, <2>2, PutSpares
<1>. QED  BY <1>5, <1>6

\* The events of the air and the passing of time are no commands.
LEMMA AirSpares ==
  ASSUME Typed, Good, \/ Tick
                      \/ \E n \in Node : TxOver(n) \/ \E s \in Node : FrameStart(n, s) \/ FrameEnd(n, s)
  PROVE  \A o \in Node : mac'[o].error = mac[o].error
<1>1. CASE Tick
  <2>. TAKE o \in Node
  <2>1. mac'[o] = Elapsed(mac[o]) /\ MacFields \subseteq DOMAIN mac[o]
    BY <1>1, GoodFields DEF Tick
  <2>2. Aged(mac[o], Elapsed(mac[o]))
    BY <2>1, ElapsedEffect
  <2>. QED  BY <2>1, <2>2 DEF Aged, Alters, MacFields
<1>2. ASSUME NEW n \in Node, TxOver(n) PROVE \A o \in Node : mac'[o].error = mac[o].error
  BY <1>2 DEF TxOver
<1>3. ASSUME NEW n \in Node, NEW s \in Node, FrameStart(n, s) \/ FrameEnd(n, s)
      PROVE  \A o \in Node : mac'[o].error = mac[o].error
  <2>1. \E i : mac' = [mac EXCEPT ![n] = Published(@, i)] \/ mac' = [mac EXCEPT ![n] = @]
    BY <1>3, Zenon DEF FrameStart, FrameEnd
  <2>2. \A i : Published(mac[n], i).error = mac[n].error
    BY GoodFields DEF Published, MacFields
  <2>. QED  BY <2>1, <2>2 DEF Typed
<1>. QED  BY <1>1, <1>2, <1>3

-----------------------------------------------------------------------------
(* The invariant and the theorems *)

\* A run that a refused timer has ended is not followed further.
Inv == Typed /\ (NoTimerError => Good)

LEMMA InitInv == ASSUME Init PROVE Inv
<1>1. Typed
  BY DEF Init, InitNic, Typed
<1>2. PICK w \in [Node -> 0..(slotDuration - 1)] : mac = [n \in Node |-> MacInit(w[n])]
  BY DEF Init
<1>3. ASSUME NEW n \in Node
      PROVE  NodeOK(n, mac[n], nic[n], toMac[n])
  <2>. DEFINE m == mac[n]
              c == nic[n]
  <2>1. m = MacInit(w[n]) /\ c = NicInit /\ toMac[n] = <<>>
    BY <1>2 DEF Init, InitNic
  <2>2. w[n] \in Nat /\ w[n] <= slotDuration /\ w[n] # Off
    BY Constants
  <2>3. /\ MacFields \subseteq DOMAIN m /\ m.macState = "SLEEP" /\ m.error = NoError
        /\ m.wakeup = w[n] /\ m.checkChannel = Off /\ m.timeoutData = Off /\ m.sendPreambles = Off
        /\ m.sendData = FALSE /\ m.macQueue = <<>> /\ m.cmd = "none" /\ m.tx = <<>> /\ m.up = {}
        /\ m.indication = "IDLE"
    BY <2>1 DEF MacInit, MacFields
  <2>4. /\ NicFields \subseteq DOMAIN c /\ c.radioState = "RECV" /\ c.switchTimer = Off /\ c.txOverTimer = Off
        /\ c.recvBuff = <<>> /\ c.ptr = NoFrame /\ c.noiseLevel = thermalNoise /\ c.indication = "IDLE"
    BY <2>1 DEF NicInit, NicFields
  <2>. HIDE DEF m, c
  <2>5. MacTyped(n, m)
    <3>1. {m.wakeup, m.checkChannel, m.timeoutData, m.sendPreambles} \subseteq Timer
      BY <2>2, <2>3 DEF Timer
    <3>2. m.macQueue \in Seq(Data)
      BY <2>3
    <3>. QED  BY <2>3, <3>1, <3>2 DEF MacTyped
  <2>6. NicTyped(c)
    <3>1. DOMAIN c.recvBuff = {}
      BY <2>4
    <3>2. IsFiniteSet(DOMAIN c.recvBuff)
      BY <3>1, FS_EmptySet
    <3>. QED  BY <2>4, <3>1, <3>2, RadioStates DEF NicTyped, Timer
  <2>7. Receiver(n, m, c)
    <3>1. DOMAIN c.recvBuff \ {c.ptr} = {}
      BY <2>4
    <3>2. c.noiseLevel = thermalNoise + Weight(n, {})
      BY <2>4, WeightOfNone, SnrNicAssumption
    <3>. QED  BY <2>3, <2>4, <3>1, <3>2 DEF Receiver
  <2>8. Phase(m, c)
    BY <2>2, <2>3, <2>4 DEF Phase
  <2>9. Outbox(m, c, <<>>)
    BY <2>3, <2>4 DEF Outbox
  <2>10. Idle(m)
    BY <2>3 DEF Idle
  <2>11. NodeOK(n, m, c, <<>>)
    BY <2>5, <2>6, <2>7, <2>8, <2>9, <2>10 DEF NodeOK
  <2>. QED  BY <2>1, <2>11 DEF m, c
<1>4. ASSUME NEW s \in Node, NEW n \in Node
      PROVE  LinkOK(s, n, mac[s], nic[s], nic[n].recvBuff, arriving[n][s])
  <2>1. nic[s].txOverTimer = Off /\ nic[n].recvBuff = <<>> /\ arriving[n][s] = <<>>
    BY DEF Init, InitNic, NicInit
  <2>2. s \notin DOMAIN nic[n].recvBuff
    BY <2>1
  <2>. HIDE DEF Reached
  <2>. QED  BY <2>1, <2>2 DEF LinkOK
<1>5. ASSUME NEW s \in Node
      PROVE  mac[s].macState # "TX"
  BY <1>2 DEF MacInit
<1>. QED  BY <1>1, <1>3, <1>4, <1>5 DEF Inv, Good, Only

LEMMA PutTyped ==
  ASSUME Typed, NEW n, NEW m, NEW c, Put(n, m, c)
  PROVE  DOMAIN mac' = Node /\ DOMAIN nic' = Node /\ DOMAIN arriving' = Node
         /\ \A d \in Node : DOMAIN arriving'[d] = Node
<1>1. DOMAIN mac' = Node /\ DOMAIN nic' = Node
  BY DEF Put, Typed
<1>2. (\E f : Transmit(n, f)) \/ UNCHANGED arriving
  BY Zenon DEF Put
<1>3. CASE UNCHANGED arriving
  BY <1>1, <1>3 DEF Typed
<1>4. ASSUME NEW f, Transmit(n, f)
      PROVE  DOMAIN arriving' = Node /\ \A d \in Node : DOMAIN arriving'[d] = Node
  BY <1>4 DEF Transmit, Typed
<1>. QED  BY <1>1, <1>2, <1>3, <1>4

LEMMA TypedNext == ASSUME Typed, Event PROVE Typed'
<1>1. ASSUME NEW n \in Node, handleUpperMsg(n) PROVE Typed'
  <2>1. handedIn' = handedIn + 1 /\ toMac' = toMac /\ \E m : Put(n, m, nic[n])
    BY <1>1 DEF handleUpperMsg
  <2>. QED  BY <2>1, PutTyped DEF Typed
<1>2. ASSUME NEW n \in Node, FromNic(n) PROVE Typed'
  <2>1. handedIn' = handedIn /\ toMac' = [toMac EXCEPT ![n] = Tail(@)] /\ \E m : Put(n, m, nic[n])
    BY <1>2 DEF FromNic
  <2>. QED  BY <2>1, PutTyped DEF Typed
<1>3. ASSUME NEW n \in Node, RadioSwitched(n) PROVE Typed'
  <2>1. handedIn' = handedIn /\ toMac' = toMac /\ \E m, c : Put(n, m, c)
    BY <1>3 DEF RadioSwitched
  <2>. QED  BY <2>1, PutTyped DEF Typed
<1>4. ASSUME NEW n \in Node, TxOver(n) PROVE Typed'
  BY <1>4 DEF TxOver, Typed
<1>5. ASSUME NEW n \in Node, WakeupTimer(n) \/ CheckTimer(n) \/ DataTimer(n) \/ PreamblesTimer(n) PROVE Typed'
  <2>1. handedIn' = handedIn /\ toMac' = toMac /\ \E m : Put(n, m, nic[n])
    BY <1>5 DEF WakeupTimer, CheckTimer, DataTimer, PreamblesTimer
  <2>. QED  BY <2>1, PutTyped DEF Typed
<1>6. ASSUME NEW n \in Node, NEW s \in Node, FrameStart(n, s) PROVE Typed'
  BY <1>6 DEF FrameStart, Typed
<1>7. ASSUME NEW n \in Node, NEW s \in Node, FrameEnd(n, s) PROVE Typed'
  BY <1>7 DEF FrameEnd, Typed
<1>8. ASSUME Tick PROVE Typed'
  BY <1>8 DEF Tick, Typed
<1>. QED  BY <1>1, <1>2, <1>3, <1>4, <1>5, <1>6, <1>7, <1>8 DEF Event

LEMMA NextAlone == ASSUME Next PROVE AloneNext
<1>1. ASSUME NEW s \in Node, alone'[s], mac'[s].macState = "TX"
      PROVE  /\ mac[s].macState = "TX" => alone[s]
             /\ \A o \in Node \ {s} : mac'[o].macState # "TX"
  <2>1. alone' = [n \in Node |-> Sends(n)' => /\ Sends(n) => alone[n]
                                              /\ \A o \in Node \ {n} : ~Sends(o)']
    BY DEF Next
  <2>2. alone'[s] = (Sends(s)' => /\ Sends(s) => alone[s]
                                  /\ \A o \in Node \ {s} : ~Sends(o)')
    BY <2>1, Zenon
  <2>. QED  BY <1>1, <2>2, Zenon DEF Sends
<1>. QED  BY <1>1 DEF AloneNext

LEMMA NextInv ==
  ASSUME StrongLinks, QuickSwitches, LongTimeout, Inv, Next
  PROVE  Inv'
<1>1. NoTimerError /\ Good /\ Typed /\ Event /\ AloneNext
  BY NextAlone DEF Inv, Next, NoTimerError
<1>2. Typed'
  BY <1>1, TypedNext
<1>3. ASSUME NoTimerError' PROVE Good'
  <2>1. \A n \in Node : mac'[n].error = NoError
    BY <1>3 DEF NoTimerError
  <2>2. ASSUME NEW n \in Node,
               \/ handleUpperMsg(n) \/ FromNic(n) \/ RadioSwitched(n) \/ TxOver(n)
               \/ WakeupTimer(n) \/ CheckTimer(n) \/ DataTimer(n) \/ PreamblesTimer(n)
        PROVE  Good'
    BY <1>1, <2>1, <2>2, StepUpper, StepFromNic, StepSwitched, StepTxOver, StepWakeup, StepCheck, StepData,
       StepPreambles
  <2>3. ASSUME NEW n \in Node, NEW s \in Node, FrameStart(n, s) \/ FrameEnd(n, s)
        PROVE  Good'
    BY <1>1, <2>3, StepStart, StepEnd
  <2>4. ASSUME Tick PROVE Good'
    BY <1>1, <2>4, StepTick
  <2>. QED  BY <1>1, <2>2, <2>3, <2>4 DEF Event
<1>. QED  BY <1>2, <1>3 DEF Inv

LEMMA StutterInv == ASSUME Inv, UNCHANGED vars PROVE Inv'
BY DEF Inv, vars, nicVars, Typed, NoTimerError, Good, Only

\* Where links are strong, switches are quick and the timeout outlasts a preamble, each node is
\* in order, each frame ends as it ends at its sender, and whoever hears a node that sends
\* alone is awake, or has nothing to send itself and will wake up in time.
THEOREM PreamblesReady ==
  ASSUME StrongLinks, QuickSwitches, LongTimeout
  PROVE  Spec => []Inv
<1>1. Init => Inv
  BY InitInv
<1>2. Inv /\ [Next]_vars => Inv'
  BY NextInv, StutterInv
<1>. QED  BY <1>1, <1>2, PTL DEF Spec

LEMMA BeginningFound ==
  ASSUME Good, NEW s \in Node, NEW n \in Node, DataBegins(s, n), alone[s], mac[n].macQueue = <<>>
  PROVE  DataFindsReceiver(n)
<1>. DEFINE m == mac[s]
            c == nic[s]
            p == toMac[s]
            k == mac[n]
            d == nic[n]
            q == toMac[n]
            a == arriving[n][s]
<1>1. a # <<>> /\ Head(a).kind = "data"
  BY DEF DataBegins
<1>2. LinkOK(s, n, m, c, d.recvBuff, a) /\ NodeOK(s, m, c, p) /\ k.macQueue = <<>>
  BY GoodFields DEF Good
<1>3. a[1].kind = "data" /\ a[1] \in Frame /\ n \in Reached(s) /\ c.txOverTimer = Duration(a[1])
  BY <1>1, <1>2 DEF LinkOK
<1>4. m.macState = "TX"
  BY <1>2, <1>3, Constants DEF NodeOK, Outbox
<1>5. n \in Node \ {s}
  BY <1>3 DEF Reached
<1>6. Pair(s, n, m, c, k, d, q, a)
  BY <1>4, <1>5 DEF Good, Only
<1>7. k.macState # "SLEEP" \/ k.wakeup <= swSend + PreambleTime
  <2>. HIDE DEF m, c, p, k, d, q, a
  <2>. QED  BY <1>1, <1>2, <1>3, <1>4, <1>6, PairFinds
<1>. QED  BY <1>7 DEF DataFindsReceiver

\* A node that has been the only one to send since its first preamble has woken, when its data
\* begins, all its neighbours that have nothing to send, or they wake up before a preamble
\* would have been over.
THEOREM NeighboursWoken ==
  ASSUME StrongLinks, QuickSwitches, LongTimeout
  PROVE  Spec => PreamblesWakeNeighbours
<1>1. Inv /\ [Next]_vars =>
        [\A s, n \in Node :
           DataBegins(s, n) /\ alone[s] /\ mac[n].macQueue = <<>> => DataFindsReceiver(n)]_vars
  BY BeginningFound DEF Next, Inv, NoTimerError
<1>. QED  BY <1>1, PreamblesReady, PTL DEF Spec, PreamblesWakeNeighbours

\* Whatever the order of packets, frames and timers, no timer is scheduled twice and no queue
\* is found empty, except for the wakeup of a MAC that is given data while it sleeps.
THEOREM OnlySleepersStop ==
  ASSUME StrongLinks, QuickSwitches, LongTimeout
  PROVE  Spec => OnlySleepersFail
<1>1. ASSUME Inv, Next, NEW n \in Node, mac'[n].error # mac[n].error
      PROVE  mac[n].macState = "SLEEP" /\ toMac[n] # <<>> /\ Head(toMac[n]).kind = "data"
  <2>1. Typed /\ Good /\ Event
    BY <1>1 DEF Inv, Next, NoTimerError
  <2>2. PICK x \in Node : FromNic(x)
    BY <1>1, <2>1, CheckSpares, TimersSpare, UpperSpares, SwitchedSpares, AirSpares DEF Event
  <2>3. mac[x].macState = "SLEEP" /\ Head(toMac[x]).kind = "data" /\ toMac[x] # <<>>
    BY <1>1, <2>1, <2>2, FromNicSpares DEF FromNic
  <2>4. x = n
    <3>1. \E m : Put(x, m, nic[x])
      BY <2>2 DEF FromNic
    <3>2. \E m : mac' = [mac EXCEPT ![x] = m]
      BY <3>1, Zenon DEF Put
    <3>. QED  BY <1>1, <3>2
  <2>. QED  BY <2>3, <2>4
<1>2. Inv /\ [Next]_vars =>
        [\A n \in Node :
           mac'[n].error # mac[n].error =>
             mac[n].macState = "SLEEP" /\ toMac[n] # <<>> /\ Head(toMac[n]).kind = "data"]_vars
  BY <1>1
<1>. QED  BY <1>2, PreamblesReady, PTL DEF Spec, OnlySleepersFail
=============================================================================
