--------------------------- MODULE Mac80211Proofs ---------------------------
(***************************************************************************)
(* No packet is passed to a network layer twice (NoDuplicateUp of          *)
(* Mac80211), for any nodes, powers, durations, windows and retry limits.  *)
(*                                                                         *)
(* What a node sends is a queue in the order of handing in.  A packet is   *)
(* sent again only as long as it is the first of the queue, and then it is *)
(* marked as a repetition: Settled is the queue as it will be when the     *)
(* exchange under way has failed, and every handler lets it become only a  *)
(* queue that holds the same or later packets (Becomes).  On the way from  *)
(* a sender to a receiver the frames therefore carry ever later packets,   *)
(* or repetitions of the last (Link); and the receiver still knows the     *)
(* last packet of every neighbour, because its cache has room for all it   *)
(* can hear (addNeighborOK), so a repetition is recognised.                *)
(*                                                                         *)
(* The handlers are proved one by one, from a MAC whose timers fit its     *)
(* state (Phase) to another (MacOK), with what they send (Sends) and pass  *)
(* up (Received).  That no frame reaches a MAC within a SIFS is a matter   *)
(* of time (TimingOK): what begins in a SIFS lasts longer than a SIFS.     *)
(***************************************************************************)
EXTENDS Mac80211, SequenceTheorems, FiniteSetTheorems, TLAPS

-----------------------------------------------------------------------------
(* The queue of a MAC: packets in the order in which they were handed in *)

Packet == [id : Nat, dest : Node \cup {L2BROADCAST}, size : Size, retry : BOOLEAN]

InOrder(q) == q \in Seq(Packet) /\ \A i, j \in DOMAIN q : i < j => q[i].id < q[j].id

Ids(q) == {q[i].id : i \in DOMAIN q}

\* Packet x is older than every packet that waits,
Newer(q, x) == \A i \in DOMAIN q : x < q[i].id

\* or it is the first of them, which will be sent as a repetition.
Again(q, x) == q # <<>> /\ x = q[1].id /\ q[1].retry /\ q[1].dest # L2BROADCAST

Marked(q) == IF q = <<>> THEN <<>> ELSE [q EXCEPT ![1] = [q[1] EXCEPT !.retry = TRUE]]

\* What a step may make of the queue
Becomes(q, p) ==
  /\ InOrder(p) /\ Ids(p) \subseteq Ids(q)
  /\ \A x \in Nat : /\ Newer(q, x) => Newer(p, x)
                    /\ Again(q, x) => Newer(p, x) \/ Again(p, x)

LEMMA BecomesItself == ASSUME NEW q, InOrder(q) PROVE Becomes(q, q)
  BY DEF Becomes

LEMMA BecomesTransitive ==
  ASSUME NEW q, NEW p, NEW s, Becomes(q, p), Becomes(p, s)
  PROVE  Becomes(q, s)
BY DEF Becomes

LEMMA TailInOrder ==
  ASSUME NEW q, InOrder(q), q # <<>>
  PROVE  /\ Becomes(q, Tail(q)) /\ Newer(Tail(q), q[1].id)
<1>. DEFINE p == Tail(q)
<1>1. /\ p \in Seq(Packet) /\ Len(p) = Len(q) - 1 /\ \A i \in 1..Len(p) : p[i] = q[i + 1]
      /\ Len(q) \in Nat /\ Len(p) \in Nat /\ DOMAIN q = 1..Len(q) /\ DOMAIN p = 1..Len(p)
  BY HeadTailProperties, LenProperties DEF InOrder
<1>. HIDE DEF p
<1>2. \A i \in DOMAIN p : i + 1 \in DOMAIN q /\ p[i] = q[i + 1] /\ 1 \in DOMAIN q /\ q[1].id < p[i].id
  BY <1>1 DEF InOrder
<1>3. InOrder(p)
  <2>1. ASSUME NEW i \in DOMAIN p, NEW j \in DOMAIN p, i < j PROVE p[i].id < p[j].id
    <3>1. \A k, l \in DOMAIN q : k < l => q[k].id < q[l].id
      BY DEF InOrder
    <3>2. /\ i + 1 \in DOMAIN q /\ j + 1 \in DOMAIN q /\ i + 1 < j + 1
          /\ p[i] = q[i + 1] /\ p[j] = q[j + 1]
      BY <1>1, <1>2, <2>1
    <3>. QED  BY <3>1, <3>2
  <2>. QED  BY <1>1, <2>1 DEF InOrder
<1>4. Ids(p) \subseteq Ids(q)
  BY <1>2 DEF Ids
<1>5. Newer(p, q[1].id)
  BY <1>2 DEF Newer
<1>6. \A x \in Nat : Newer(q, x) => Newer(p, x)
  BY <1>2 DEF Newer
<1>7. \A x \in Nat : Again(q, x) => Newer(p, x)
  BY <1>5 DEF Again
<1>. QED  BY <1>3, <1>4, <1>5, <1>6, <1>7 DEF Becomes, p

LEMMA MarkedPacket == ASSUME NEW p \in Packet
  PROVE  LET r == [p EXCEPT !.retry = TRUE]
         IN  r \in Packet /\ r.id = p.id /\ r.dest = p.dest /\ r.size = p.size /\ r.retry
BY DEF Packet

LEMMA MarkedInOrder ==
  ASSUME NEW q, InOrder(q)
  PROVE  /\ Becomes(q, Marked(q)) /\ Ids(Marked(q)) = Ids(q)
         /\ Marked(q) = <<>> <=> q = <<>>
         /\ q # <<>> => /\ Again(Marked(q), q[1].id) \/ q[1].dest = L2BROADCAST
                        /\ Head(Marked(q)).dest = Head(q).dest /\ Head(Marked(q)).size = Head(q).size
                        /\ Tail(Marked(q)) = Tail(q)
<1>1. CASE q = <<>>
  BY <1>1, BecomesItself DEF Marked
<1>2. CASE q # <<>>
  <2>. DEFINE r == [q[1] EXCEPT !.retry = TRUE]
              p == [q EXCEPT ![1] = r]
  <2>1. /\ Len(q) \in Nat /\ Len(q) > 0 /\ DOMAIN q = 1..Len(q) /\ q \in Seq(Packet) /\ q[1] \in Packet
    BY <1>2, LenProperties, EmptySeq, ElementOfSeq DEF InOrder
  <2>2. r \in Packet /\ r.id = q[1].id /\ r.dest = q[1].dest /\ r.size = q[1].size /\ r.retry
    BY <2>1, MarkedPacket
  <2>0. Marked(q) = p
    BY <1>2 DEF Marked
  <2>. HIDE DEF r
  <2>3. /\ p \in Seq(Packet) /\ Len(p) = Len(q) /\ p[1] = r
        /\ \A i \in 1..Len(q) : p[i] = IF i = 1 THEN r ELSE q[i]
    BY <2>1, <2>2, ExceptSeq
  <2>. HIDE DEF p
  <2>4. DOMAIN p = 1..Len(q) /\ p # <<>>
    BY <2>1, <2>3, LenProperties, EmptySeq
  <2>5. \A i \in 1..Len(q) : p[i].id = q[i].id
    BY <2>2, <2>3
  <2>6. InOrder(p) /\ Ids(p) = Ids(q)
    BY <2>1, <2>3, <2>4, <2>5 DEF InOrder, Ids
  <2>7. \A x \in Nat : Newer(q, x) => Newer(p, x)
    BY <2>1, <2>4, <2>5 DEF Newer
  <2>8. \A x \in Nat : Again(q, x) => Again(p, x)
    BY <2>2, <2>3, <2>4 DEF Again
  <2>9. Again(p, q[1].id) \/ q[1].dest = L2BROADCAST
    BY <2>2, <2>3, <2>4 DEF Again
  <2>10. Head(p) = r /\ Head(q) = q[1]
    BY <1>2, <2>3, <2>4
  <2>11. Tail(p) = Tail(q)
    <3>1. /\ Tail(p) \in Seq(Packet) /\ Tail(q) \in Seq(Packet)
          /\ Len(Tail(p)) = Len(p) - 1 /\ Len(Tail(q)) = Len(q) - 1
          /\ \A i \in 1..Len(Tail(p)) : Tail(p)[i] = p[i + 1]
          /\ \A i \in 1..Len(Tail(q)) : Tail(q)[i] = q[i + 1]
      BY <1>2, <2>1, <2>3, <2>4, HeadTailProperties
    <3>2. \A i \in 1..Len(Tail(p)) : Tail(p)[i] = Tail(q)[i]
      BY <2>1, <2>3, <3>1
    <3>. QED  BY <2>3, <3>1, <3>2, SeqEqual
  <2>. QED  BY <1>2, <2>0, <2>2, <2>4, <2>6, <2>7, <2>8, <2>9, <2>10, <2>11 DEF Becomes
<1>. QED  BY <1>1, <1>2

\* The packet that is handed in is the newest.
LEMMA AppendInOrder ==
  ASSUME NEW q, InOrder(q), NEW p \in Packet, \A i \in DOMAIN q : q[i].id < p.id
  PROVE  LET s == Append(q, p)
         IN  /\ InOrder(s) /\ Ids(s) = Ids(q) \cup {p.id} /\ s # <<>>
             /\ q # <<>> => s[1] = q[1] /\ Head(s) = Head(q)
             /\ \A x \in Nat : x < p.id => /\ Newer(q, x) => Newer(s, x)
                                           /\ Again(q, x) => Again(s, x)
<1>. DEFINE s == Append(q, p)
<1>1. /\ s \in Seq(Packet) /\ s # <<>> /\ Len(s) = Len(q) + 1 /\ s[Len(q) + 1] = p
      /\ \A i \in 1..Len(q) : s[i] = q[i]
      /\ Len(q) \in Nat /\ DOMAIN q = 1..Len(q) /\ q \in Seq(Packet)
  BY AppendProperties, LenProperties DEF InOrder
<1>. HIDE DEF s
<1>2. DOMAIN s = 1..(Len(q) + 1)
  BY <1>1, LenProperties
<1>3. InOrder(s)
  BY <1>1, <1>2 DEF InOrder
<1>4. Ids(s) = Ids(q) \cup {p.id}
  <2>1. \A i \in DOMAIN s : s[i].id \in Ids(q) \cup {p.id}
    BY <1>1, <1>2 DEF Ids
  <2>2. p.id \in Ids(s) /\ \A i \in DOMAIN q : q[i].id \in Ids(s)
    BY <1>1, <1>2 DEF Ids
  <2>. QED  BY <2>1, <2>2 DEF Ids
<1>5. q # <<>> => Len(q) > 0
  BY <1>1, EmptySeq
<1>6. q # <<>> => s[1] = q[1] /\ Head(s) = Head(q)
  BY <1>1, <1>5
<1>7. \A x \in Nat : x < p.id => (Newer(q, x) => Newer(s, x))
  BY <1>1, <1>2 DEF Newer
<1>8. \A x \in Nat : Again(q, x) => Again(s, x)
  BY <1>1, <1>6 DEF Again
<1>. QED  BY <1>1, <1>3, <1>4, <1>6, <1>7, <1>8 DEF s

Tolerated == {NoError, BusyError, "IDLE/CONTEND, strange message", "WFACK, strange message",
              "txOverTimer scheduled twice"}

MacFields ==
  {"state", "fromUpperLayer", "contention", "contentionSet", "timeout", "nav", "endSifs", "sifsFrame",
   "remainingBackoff", "nextIsBroadcast", "longRetryCounter", "shortRetryCounter", "medium", "switching",
   "neighbors", "error", "cmd", "tx", "up", "dropped"}

\* m2 differs from m in the fields C at most.
Alters(m, m2, C) ==
  /\ MacFields \subseteq DOMAIN m /\ MacFields \subseteq DOMAIN m2
  /\ \A x \in MacFields \ C : m2[x] = m[x]

Base(m) ==
  /\ MacFields \subseteq DOMAIN m
  /\ InOrder(m.fromUpperLayer)
  /\ m.longRetryCounter \in Nat /\ m.shortRetryCounter \in Nat
  /\ m.longRetryCounter > 0 \/ m.shortRetryCounter > 0 =>
        m.fromUpperLayer # <<>> /\ Head(m.fromUpperLayer).dest # L2BROADCAST
  /\ m.error \in Tolerated

LEMMA AltersMore == ASSUME NEW m, NEW m2, NEW m3, NEW C, NEW D, Alters(m, m2, C), Alters(m2, m3, D)
  PROVE Alters(m, m3, C \cup D)
BY DEF Alters

LEMMA suspendContentionOK ==
  ASSUME NEW m, Base(m), NEW r
  PROVE  LET s == suspendContention(m, r)
         IN Base(s) /\ Alters(m, s, {"contention", "remainingBackoff"}) /\ s.contention = Off
<1>1. CASE m.contention # Off
  BY <1>1 DEF suspendContention, Base, Alters, MacFields
<1>2. CASE m.contention = Off
  BY <1>2 DEF suspendContention, Base, Alters, MacFields, NewBackoff
<1>. QED  BY <1>1, <1>2

LEMMA FailIfOK ==
  ASSUME NEW m, Base(m), NEW bad, NEW what, bad => what \in Tolerated
  PROVE  Base(FailIf(m, bad, what)) /\ Alters(m, FailIf(m, bad, what), {"error"})
BY DEF FailIf, Fail, Base, Alters, MacFields


LEMMA SameQueue ==
  ASSUME NEW m, Base(m), NEW m2, NEW C, Alters(m, m2, C),
         C \cap {"fromUpperLayer", "longRetryCounter", "shortRetryCounter", "error"} = {}
  PROVE  Base(m2)
<1>1. /\ m2.fromUpperLayer = m.fromUpperLayer /\ m2.longRetryCounter = m.longRetryCounter
      /\ m2.shortRetryCounter = m.shortRetryCounter /\ m2.error = m.error
  BY DEF Alters, MacFields
<1>. QED  BY <1>1 DEF Base, Alters

LEMMA NoRetries ==
  ASSUME NEW m, Base(m)
  PROVE  LET none == [m EXCEPT !.shortRetryCounter = 0, !.longRetryCounter = 0]
         IN  Base(none) /\ Alters(m, none, {"shortRetryCounter", "longRetryCounter"})
             /\ none.longRetryCounter = 0 /\ none.shortRetryCounter = 0
<1>. DEFINE none == [m EXCEPT !.shortRetryCounter = 0, !.longRetryCounter = 0]
<1>1. /\ Alters(m, none, {"shortRetryCounter", "longRetryCounter"})
      /\ none.longRetryCounter = 0 /\ none.shortRetryCounter = 0
  BY DEF Base, Alters, MacFields
<1>. HIDE DEF none
<1>2. none.fromUpperLayer = m.fromUpperLayer /\ none.error = m.error
  BY <1>1 DEF Alters, MacFields
<1>3. Base(none)
  BY <1>1, <1>2 DEF Base, Alters
<1>. QED  BY <1>1, <1>3 DEF none

LEMMA Limits ==
  /\ LONG_RETRY_LIMIT \in Nat /\ LONG_RETRY_LIMIT > 0
  /\ SHORT_RETRY_LIMIT \in Nat /\ SHORT_RETRY_LIMIT > 0
BY MacAssumption

LEMMA PopFrontOK ==
  ASSUME NEW m, Base(m), m.fromUpperLayer # <<>>, m.longRetryCounter = 0, m.shortRetryCounter = 0
  PROVE  /\ Base(PopFront(m)) /\ Alters(m, PopFront(m), {"fromUpperLayer"})
         /\ PopFront(m).fromUpperLayer = Tail(m.fromUpperLayer)
<1>1. InOrder(Tail(m.fromUpperLayer))
  BY TailInOrder DEF Base, Becomes
<1>. QED  BY <1>1 DEF PopFront, Base, Alters, MacFields

LEMMA testMaxAttemptsOK ==
  ASSUME NEW m, Base(m)
  PROVE  LET t == testMaxAttempts(m)
         IN  /\ Base(t) /\ Becomes(m.fromUpperLayer, t.fromUpperLayer)
             /\ Alters(m, t, {"longRetryCounter", "shortRetryCounter", "fromUpperLayer", "dropped"})
<1>. DEFINE none == [m EXCEPT !.shortRetryCounter = 0, !.longRetryCounter = 0]
            popped == PopFront(none)
            C == {"longRetryCounter", "shortRetryCounter", "fromUpperLayer", "dropped"}
<1>1. CASE m.longRetryCounter >= LONG_RETRY_LIMIT \/ m.shortRetryCounter >= SHORT_RETRY_LIMIT
  <2>1. m.fromUpperLayer # <<>>
    BY <1>1, Limits DEF Base
  <2>2. /\ Base(none) /\ Alters(m, none, {"shortRetryCounter", "longRetryCounter"})
        /\ none.longRetryCounter = 0 /\ none.shortRetryCounter = 0 /\ none.fromUpperLayer = m.fromUpperLayer
    <3>1. /\ Base(none) /\ Alters(m, none, {"shortRetryCounter", "longRetryCounter"})
          /\ none.longRetryCounter = 0 /\ none.shortRetryCounter = 0
      BY NoRetries
    <3>. QED  BY <3>1 DEF Alters, MacFields
  <2>3. testMaxAttempts(m) = [popped EXCEPT !.dropped = Append(@, Head(m.fromUpperLayer))]
    <3>1. [m EXCEPT !.longRetryCounter = 0, !.shortRetryCounter = 0] = none
      OBVIOUS
    <3>. QED  BY <1>1, <2>1, <2>2, <3>1 DEF testMaxAttempts
  <2>. HIDE DEF none
  <2>4. /\ Base(popped) /\ Alters(none, popped, {"fromUpperLayer"})
        /\ popped.fromUpperLayer = Tail(m.fromUpperLayer)
    BY <2>1, <2>2, PopFrontOK
  <2>. HIDE DEF popped
  <2>. DEFINE t == [popped EXCEPT !.dropped = Append(@, Head(m.fromUpperLayer))]
  <2>5. Alters(popped, t, {"dropped"})
    BY <2>4 DEF Alters, MacFields
  <2>6. Alters(m, t, C)
    BY <2>2, <2>4, <2>5 DEF Alters
  <2>7. t.fromUpperLayer = Tail(m.fromUpperLayer) /\ Base(t)
    BY <2>4, <2>5 DEF Alters, MacFields, Base
  <2>8. Becomes(m.fromUpperLayer, Tail(m.fromUpperLayer))
    BY <2>1, TailInOrder DEF Base
  <2>. QED  BY <2>3, <2>6, <2>7, <2>8
<1>2. CASE ~(m.longRetryCounter >= LONG_RETRY_LIMIT \/ m.shortRetryCounter >= SHORT_RETRY_LIMIT)
  <2>1. testMaxAttempts(m) = m /\ Alters(m, m, C)
    BY <1>2 DEF testMaxAttempts, Alters, Base
  <2>2. Becomes(m.fromUpperLayer, m.fromUpperLayer)
    BY BecomesItself DEF Base
  <2>. QED  BY <2>1, <2>2
<1>. QED  BY <1>1, <1>2

\* What the timers of a MAC have to do with its state
Phase(m) ==
  /\ m.contention # Off => m.state \in {"IDLE", "CONTEND"}
  /\ m.endSifs # Off => /\ m.endSifs \in Nat
                        /\ m.contention = Off /\ m.timeout = Off
                        /\ \/ m.sifsFrame.kind = "CTS" /\ m.state = "WFCTS"
                           \/ m.sifsFrame.kind = "RTS" /\ m.state \in {"IDLE", "CONTEND"} /\ "large" \in Size
                           \/ m.sifsFrame.kind = "DATA" /\ m.state \in {"IDLE", "CONTEND", "WFDATA"}
                        /\ m.sifsFrame.src \in Node
  /\ m.timeout # Off => m.state \in {"WFACK", "WFCTS", "WFDATA"}
  /\ m.state = "WFACK" => m.timeout \in Nat
  /\ m.nav # Off => m.state = "QUIET"
  /\ m.state \in {"CONTEND", "WFACK", "WFCTS"} => m.fromUpperLayer # <<>>
  /\ m.state = "CONTEND" /\ m.contention # Off =>
        (m.nextIsBroadcast <=> Head(m.fromUpperLayer).dest = L2BROADCAST)
  /\ m.state \in {"WFACK", "WFCTS"} => Head(m.fromUpperLayer).dest # L2BROADCAST
  /\ m.state = "WFDATA" => "large" \in Size

MacOK(m) == Base(m) /\ Phase(m)

Cycle == {"state", "fromUpperLayer", "contention", "contentionSet", "nextIsBroadcast",
          "longRetryCounter", "shortRetryCounter", "dropped"}

LEMMA beginNewCycleOK ==
  ASSUME NEW m, Base(m), m.endSifs = Off, m.timeout = Off, m.nav = Off
  PROVE  LET b == beginNewCycle(m)
         IN  /\ MacOK(b) /\ Becomes(m.fromUpperLayer, b.fromUpperLayer) /\ Alters(m, b, Cycle)
             /\ b.state \in {"IDLE", "CONTEND"}
<1>. DEFINE t == testMaxAttempts(m)
            now == IF t.fromUpperLayer = <<>> THEN [t EXCEPT !.state = "IDLE"]
                   ELSE [t EXCEPT !.state = "CONTEND",
                                  !.nextIsBroadcast = Head(t.fromUpperLayer).dest = L2BROADCAST]
<1>1. /\ Base(t) /\ Becomes(m.fromUpperLayer, t.fromUpperLayer)
      /\ Alters(m, t, {"longRetryCounter", "shortRetryCounter", "fromUpperLayer", "dropped"})
  BY testMaxAttemptsOK
<1>2. beginNewCycle(m) = IF now.contention = Off /\ (now.state = "CONTEND" => now.medium = "IDLE")
                         THEN StartContention(now) ELSE now
  BY DEF beginNewCycle
<1>. HIDE DEF t
<1>3. /\ Alters(t, now, {"state", "nextIsBroadcast"}) /\ now.fromUpperLayer = t.fromUpperLayer
      /\ \/ now.state = "IDLE"
         \/ /\ now.state = "CONTEND" /\ t.fromUpperLayer # <<>>
            /\ (now.nextIsBroadcast <=> Head(t.fromUpperLayer).dest = L2BROADCAST)
  <2>1. CASE t.fromUpperLayer = <<>>
    BY <1>1, <2>1 DEF Alters, MacFields
  <2>2. CASE t.fromUpperLayer # <<>>
    BY <1>1, <2>2 DEF Alters, MacFields
  <2>. QED  BY <2>1, <2>2
<1>. HIDE DEF now
<1>4. /\ Alters(now, StartContention(now), {"contention", "contentionSet"})
      /\ Alters(now, now, {"contention", "contentionSet"})
  BY <1>3 DEF Alters, MacFields, StartContention
<1>. DEFINE b == beginNewCycle(m)
<1>5. Alters(now, b, {"contention", "contentionSet"})
  BY <1>2, <1>4
<1>. HIDE DEF b
<1>6. Alters(t, b, {"state", "nextIsBroadcast", "contention", "contentionSet"}) /\ Alters(m, b, Cycle)
  BY <1>1, <1>3, <1>5 DEF Alters, Cycle
<1>7. /\ b.state = now.state /\ b.nextIsBroadcast = now.nextIsBroadcast
      /\ b.fromUpperLayer = t.fromUpperLayer
  BY <1>3, <1>5 DEF Alters, MacFields
<1>8. /\ b.endSifs = Off /\ b.timeout = Off /\ b.nav = Off
  BY <1>6 DEF Alters, MacFields, Cycle
<1>9. Base(b)
  BY <1>1, <1>6, SameQueue
<1>10. Phase(b)
  BY <1>3, <1>7, <1>8 DEF Phase
<1>. QED  BY <1>1, <1>3, <1>6, <1>7, <1>9, <1>10 DEF MacOK, b

\* The queue as it will be when the exchange under way has failed
Settled(m) == IF m.state = "WFACK" THEN Marked(m.fromUpperLayer) ELSE m.fromUpperLayer

Follows(m, m2) == Becomes(Settled(m), Settled(m2))

IsPacket(f) == f.kind \in {"DATA", "BROADCAST"}

FrameShape(f) ==
  /\ f.kind \in {"RTS", "CTS", "ACK", "DATA", "BROADCAST"}
  /\ f.src \in Node
  /\ f.dest \in Node \cup {L2BROADCAST}
  /\ f.dest = L2BROADCAST <=> f.kind = "BROADCAST"
  /\ f.kind = "RTS" => "large" \in Size
  /\ f.kind = "DATA" => f.size \in Size
  /\ IsPacket(f) => f.id \in Nat

\* Node n sends the frame f, and its MAC goes from m to m2.
Sends(m, m2, f, n) ==
  /\ FrameShape(f) /\ f.src = n
  /\ IsPacket(f) =>
       /\ f.id \in Ids(m.fromUpperLayer)
       /\ \A x \in Nat : /\ Newer(Settled(m), x) => x < f.id
                         /\ Again(Settled(m), x) => x = f.id /\ f.kind = "DATA" /\ f.retry
       /\ Newer(Settled(m2), f.id) \/ (f.kind = "DATA" /\ Again(Settled(m2), f.id))

LEMMA QueueFront ==
  ASSUME NEW q, InOrder(q), q # <<>>
  PROVE  /\ Head(q) = q[1] /\ q[1] \in Packet /\ q[1].id \in Ids(q) /\ 1 \in DOMAIN q /\ q[1].id \in Nat
         /\ \A x \in Nat : /\ Newer(q, x) => x < q[1].id
                           /\ Again(q, x) => x = q[1].id /\ q[1].retry /\ q[1].dest # L2BROADCAST
<1>1. q \in Seq(Packet) /\ Len(q) \in Nat /\ Len(q) > 0 /\ DOMAIN q = 1..Len(q)
  BY LenProperties, EmptySeq DEF InOrder
<1>2. 1 \in DOMAIN q /\ q[1] \in Packet
  BY <1>1, ElementOfSeq
<1>. QED  BY <1>1, <1>2 DEF Ids, Newer, Again, Packet

LEMMA SettledInOrder ==
  ASSUME NEW m, Base(m)
  PROVE  /\ Becomes(m.fromUpperLayer, Settled(m)) /\ Ids(Settled(m)) = Ids(m.fromUpperLayer)
         /\ InOrder(Settled(m)) /\ InOrder(m.fromUpperLayer)
BY MarkedInOrder, BecomesItself DEF Settled, Base, Becomes

LEMMA FollowsItself ==
  ASSUME NEW m, Base(m), NEW m2, m2.state = m.state, m2.fromUpperLayer = m.fromUpperLayer
  PROVE  Follows(m, m2)
BY SettledInOrder, BecomesItself DEF Follows, Settled

\* A MAC that does not wait for an ACK
LEMMA FollowsQueue ==
  ASSUME NEW m, NEW m2, Base(m2), Becomes(m.fromUpperLayer, m2.fromUpperLayer), m.state # "WFACK"
  PROVE  Follows(m, m2)
BY SettledInOrder, BecomesTransitive DEF Follows, Settled

LEMMA FollowsMarked ==
  ASSUME NEW m, NEW m2, Base(m2), Becomes(Marked(m.fromUpperLayer), m2.fromUpperLayer), m.state = "WFACK"
  PROVE  Follows(m, m2)
BY SettledInOrder, BecomesTransitive DEF Follows, Settled

LEMMA CountRetryOK ==
  ASSUME NEW m, Base(m), m.fromUpperLayer # <<>>, Head(m.fromUpperLayer).dest # L2BROADCAST
  PROVE  Base(CountRetry(m)) /\ Alters(m, CountRetry(m), {"longRetryCounter", "shortRetryCounter"})
<1>. DEFINE c == CountRetry(m)
<1>1. /\ Alters(m, c, {"longRetryCounter", "shortRetryCounter"})
      /\ c.longRetryCounter \in Nat /\ c.shortRetryCounter \in Nat
  BY DEF CountRetry, Base, Alters, MacFields
<1>. HIDE DEF c
<1>2. c.fromUpperLayer = m.fromUpperLayer /\ c.error = m.error
  BY <1>1 DEF Alters, MacFields
<1>3. Base(c)
  BY <1>1, <1>2 DEF Base, Alters
<1>. QED  BY <1>1, <1>3 DEF c

LEMMA MarkRetryOK ==
  ASSUME NEW m, Base(m), m.fromUpperLayer # <<>>
  PROVE  /\ Base(MarkRetry(m)) /\ Alters(m, MarkRetry(m), {"fromUpperLayer"})
         /\ MarkRetry(m).fromUpperLayer = Marked(m.fromUpperLayer)
<1>. DEFINE q == m.fromUpperLayer
            s == [q EXCEPT ![1] = [q[1] EXCEPT !.retry = TRUE]]
            k == MarkRetry(m)
<1>1. k = [m EXCEPT !.fromUpperLayer = s]
  BY QueueFront DEF MarkRetry, Base, MacFields
<1>2. s = Marked(q)
  BY DEF Marked
<1>. HIDE DEF s, k
<1>3. k.fromUpperLayer = Marked(q) /\ Alters(m, k, {"fromUpperLayer"})
  BY <1>1, <1>2 DEF Alters, MacFields, Base
<1>4. InOrder(Marked(q)) /\ Marked(q) # <<>> /\ Head(Marked(q)).dest = Head(q).dest
  BY MarkedInOrder DEF Base, Becomes
<1>5. /\ k.longRetryCounter = m.longRetryCounter /\ k.shortRetryCounter = m.shortRetryCounter
      /\ k.error = m.error
  BY <1>3 DEF Alters, MacFields
<1>6. Base(k)
  BY <1>3, <1>4, <1>5 DEF Base, Alters
<1>. QED  BY <1>3, <1>6 DEF k

LEMMA StartTimeoutOK ==
  ASSUME NEW m, Base(m), m.timeout = Off, NEW t
  PROVE  /\ Base(StartTimeout(m, t)) /\ Alters(m, StartTimeout(m, t), {"timeout"})
         /\ StartTimeout(m, t).timeout = t
<1>. DEFINE s == StartTimeout(m, t)
<1>1. Alters(m, s, {"timeout"}) /\ s.timeout = t
  BY DEF StartTimeout, FailIf, Base, Alters, MacFields
<1>2. Base(s)
  BY <1>1, SameQueue
<1>. QED  BY <1>1, <1>2

LEMMA StartSifsOK ==
  ASSUME NEW m, Base(m), m.endSifs = Off, NEW f
  PROVE  /\ Base(StartSifs(m, f)) /\ Alters(m, StartSifs(m, f), {"endSifs", "sifsFrame"})
         /\ StartSifs(m, f).endSifs = SIFS /\ StartSifs(m, f).sifsFrame = f
<1>. DEFINE s == StartSifs(m, f)
<1>1. Alters(m, s, {"endSifs", "sifsFrame"}) /\ s.endSifs = SIFS /\ s.sifsFrame = f
  BY DEF StartSifs, FailIf, Base, Alters, MacFields
<1>2. Base(s)
  BY <1>1, SameQueue
<1>. QED  BY <1>1, <1>2

\* Every timer but the one named has been stopped.
Stopped(m) == m.contention = Off /\ m.endSifs = Off /\ m.timeout = Off /\ m.nav = Off

\* Every frame lasts longer than the space before an answer.
LongFrames == \A l \in {LENGTH_RTS, LENGTH_CTS, LENGTH_ACK, LENGTH_LARGE, LENGTH_SMALL} : SIFS < l

LEMMA Durations ==
  /\ SIFS \in Nat /\ LENGTH_ACK \in Nat
  /\ \A f : Duration(f) \in Nat /\ (LongFrames => SIFS < Duration(f))
<1>1. {SIFS, LENGTH_RTS, LENGTH_CTS, LENGTH_ACK, LENGTH_LARGE, LENGTH_SMALL} \subseteq Nat
  BY MacAssumption
<1>2. \A f : Duration(f) \in {LENGTH_RTS, LENGTH_CTS, LENGTH_ACK, LENGTH_LARGE, LENGTH_SMALL}
  BY DEF Duration
<1>. QED  BY <1>1, <1>2 DEF LongFrames

LEMMA sendDATAframeOK ==
  ASSUME NEW m, Base(m), Stopped(m), m.state # "WFACK", NEW n \in Node, NEW afterCTS,
         m.fromUpperLayer # <<>>, Head(m.fromUpperLayer).dest # L2BROADCAST
  PROVE  LET s == sendDATAframe(m, n, afterCTS)
         IN  /\ MacOK(s) /\ Alters(m, s, {"timeout", "tx", "state"}) /\ Follows(m, s)
             /\ \E f : s.tx = <<f>> /\ Sends(m, s, f, n)
<1>. DEFINE q == m.fromUpperLayer
            p == Head(q)
            f == [kind |-> "DATA", src |-> n, dest |-> p.dest, id |-> p.id, size |-> p.size,
                  retry |-> p.retry \/ (~afterCTS /\ m.shortRetryCounter > 0),
                  duration |-> IF rtsCts(p) THEN SIFS + LENGTH_ACK ELSE 0]
            t == StartTimeout(m, SIFS + Duration(f) + LENGTH_ACK)
            s == sendDATAframe(m, n, afterCTS)
<1>0. /\ p = q[1] /\ p \in Packet /\ p.id \in Ids(q) /\ InOrder(q) /\ p.id \in Nat
  BY QueueFront DEF Base
<1>1. s = Send(t, f, "WFACK")
  BY DEF sendDATAframe
<1>2. /\ f.kind = "DATA" /\ f.src = n /\ f.dest = p.dest /\ f.id = p.id /\ f.size = p.size
      /\ p.retry => f.retry
  OBVIOUS
<1>3. FrameShape(f) /\ IsPacket(f)
  BY <1>0, <1>2 DEF FrameShape, IsPacket, Packet
<1>4. SIFS + Duration(f) + LENGTH_ACK \in Nat
  BY Durations
<1>. HIDE DEF f, p
<1>5. Base(t) /\ Alters(m, t, {"timeout"}) /\ t.timeout \in Nat
  BY <1>4, StartTimeoutOK DEF Stopped
<1>. HIDE DEF t, s
<1>6. /\ Alters(t, s, {"tx", "state"}) /\ s.tx = <<f>> /\ s.state = "WFACK"
  BY <1>1, <1>5 DEF Send, Alters, MacFields
<1>7. /\ Alters(m, s, {"timeout", "tx", "state"}) /\ s.timeout = t.timeout
  BY <1>5, <1>6 DEF Alters, MacFields
<1>8. /\ s.contention = Off /\ s.endSifs = Off /\ s.nav = Off /\ s.fromUpperLayer = q
  BY <1>7 DEF Alters, MacFields, Stopped
<1>9. Base(s)
  BY <1>7, SameQueue
<1>10. Phase(s)
  BY <1>5, <1>6, <1>7, <1>8 DEF Phase, p
<1>11. Settled(m) = q /\ Settled(s) = Marked(q)
  BY <1>6, <1>8 DEF Settled
<1>12. Becomes(q, Marked(q)) /\ (Again(Marked(q), p.id) \/ p.dest = L2BROADCAST)
  BY <1>0, MarkedInOrder
<1>13. Follows(m, s)
  BY <1>11, <1>12 DEF Follows
<1>14. Again(Settled(s), f.id)
  BY <1>2, <1>11, <1>12 DEF p
<1>15. \A x \in Nat : /\ Newer(q, x) => x < f.id
                      /\ Again(q, x) => x = f.id /\ f.retry
  BY <1>0, <1>2, QueueFront
<1>16. Sends(m, s, f, n)
  BY <1>0, <1>2, <1>3, <1>11, <1>14, <1>15 DEF Sends
<1>. QED  BY <1>6, <1>7, <1>9, <1>10, <1>13, <1>16 DEF s, MacOK

LEMMA sendRTSframeOK ==
  ASSUME NEW m, Base(m), Stopped(m), m.state # "WFACK", NEW n \in Node,
         m.fromUpperLayer # <<>>, Head(m.fromUpperLayer).dest # L2BROADCAST,
         rtsCts(Head(m.fromUpperLayer))
  PROVE  LET s == sendRTSframe(m, n)
         IN  /\ MacOK(s) /\ Alters(m, s, {"timeout", "tx", "state"}) /\ Follows(m, s)
             /\ \E f : s.tx = <<f>> /\ Sends(m, s, f, n)
<1>. DEFINE q == m.fromUpperLayer
            p == Head(q)
            rest == 3 * SIFS + LENGTH_CTS + LENGTH_LARGE + LENGTH_ACK
            f == Control("RTS", n, p.dest, rest)
            t == StartTimeout(m, SIFS + LENGTH_RTS + LENGTH_CTS)
            s == sendRTSframe(m, n)
<1>0. /\ p = q[1] /\ p \in Packet /\ InOrder(q)
  BY QueueFront DEF Base
<1>1. s = Send(t, f, "WFCTS")
  BY DEF sendRTSframe
<1>2. /\ f.kind = "RTS" /\ f.src = n /\ f.dest = p.dest
  BY DEF Control
<1>3. FrameShape(f) /\ ~IsPacket(f)
  BY <1>0, <1>2 DEF FrameShape, IsPacket, Packet, rtsCts
<1>. HIDE DEF f, p
<1>5. Base(t) /\ Alters(m, t, {"timeout"})
  BY StartTimeoutOK DEF Stopped
<1>. HIDE DEF t, s
<1>6. /\ Alters(t, s, {"tx", "state"}) /\ s.tx = <<f>> /\ s.state = "WFCTS"
  BY <1>1, <1>5 DEF Send, Alters, MacFields
<1>7. Alters(m, s, {"timeout", "tx", "state"})
  BY <1>5, <1>6 DEF Alters, MacFields
<1>8. /\ s.contention = Off /\ s.endSifs = Off /\ s.nav = Off /\ s.fromUpperLayer = q
  BY <1>7 DEF Alters, MacFields, Stopped
<1>9. Base(s)
  BY <1>7, SameQueue
<1>10. Phase(s)
  BY <1>6, <1>8 DEF Phase, p
<1>13. Follows(m, s)
  BY <1>0, <1>8, <1>9, BecomesItself, FollowsQueue
<1>16. Sends(m, s, f, n)
  BY <1>2, <1>3 DEF Sends
<1>. QED  BY <1>6, <1>7, <1>9, <1>10, <1>13, <1>16 DEF s, MacOK

\* An answer, an ACK or a CTS, goes to the sender of what was received.
LEMMA sendAnswerOK ==
  ASSUME NEW m, Base(m), Stopped(m), m.state # "WFACK", NEW n \in Node,
         NEW af, af.src \in Node
  PROVE  /\ LET s == sendACKframe(m, n, af)
            IN  /\ MacOK(s) /\ Alters(m, s, {"timeout", "tx", "state"}) /\ Follows(m, s)
                /\ \E f : s.tx = <<f>> /\ Sends(m, s, f, n)
         /\ LET s == sendCTSframe(m, n, af)
            IN  "large" \in Size =>
                /\ MacOK(s) /\ Alters(m, s, {"timeout", "tx", "state"}) /\ Follows(m, s)
                /\ \E f : s.tx = <<f>> /\ Sends(m, s, f, n)
<1>0. Becomes(m.fromUpperLayer, m.fromUpperLayer) /\ L2BROADCAST \notin Node
  BY BecomesItself, MacAssumption DEF Base
<1>a. ASSUME NEW t, Base(t), Alters(m, t, {"timeout"}), NEW state \in {"BUSY", "WFDATA"},
             state = "BUSY" => t.timeout = Off, state = "WFDATA" => "large" \in Size,
             NEW kind \in {"ACK", "CTS"}, NEW d, NEW s, s = Send(t, Control(kind, n, af.src, d), state)
      PROVE  /\ MacOK(s) /\ Alters(m, s, {"timeout", "tx", "state"}) /\ Follows(m, s)
             /\ \E f : s.tx = <<f>> /\ Sends(m, s, f, n)
  <2>. DEFINE f == Control(kind, n, af.src, d)
  <2>2. /\ f.kind = kind /\ f.src = n /\ f.dest = af.src
    BY DEF Control
  <2>3. FrameShape(f) /\ ~IsPacket(f)
    BY <1>0, <2>2 DEF FrameShape, IsPacket
  <2>. HIDE DEF f
  <2>6. /\ Alters(t, s, {"tx", "state"}) /\ s.tx = <<f>> /\ s.state = state
    BY <1>a DEF Send, Alters, MacFields, f
  <2>7. Alters(m, s, {"timeout", "tx", "state"}) /\ s.timeout = t.timeout
    BY <1>a, <2>6 DEF Alters, MacFields
  <2>8. /\ s.contention = Off /\ s.endSifs = Off /\ s.nav = Off /\ s.fromUpperLayer = m.fromUpperLayer
    BY <2>7 DEF Alters, MacFields, Stopped
  <2>9. Base(s)
    BY <2>7, SameQueue
  <2>10. Phase(s)
    BY <1>a, <2>6, <2>7, <2>8 DEF Phase
  <2>13. Follows(m, s)
    BY <1>0, <2>8, <2>9, FollowsQueue
  <2>16. Sends(m, s, f, n)
    BY <2>2, <2>3 DEF Sends
  <2>. QED  BY <2>6, <2>7, <2>9, <2>10, <2>13, <2>16 DEF MacOK
<1>1. Base(m) /\ Alters(m, m, {"timeout"}) /\ m.timeout = Off
  BY DEF Alters, Base, Stopped
<1>. DEFINE t == StartTimeout(m, af.duration - LENGTH_ACK - 2 * SIFS)
<1>2. Base(t) /\ Alters(m, t, {"timeout"})
  BY StartTimeoutOK DEF Stopped
<1>. HIDE DEF t
<1>3. sendACKframe(m, n, af) = Send(m, Control("ACK", n, af.src, 0), "BUSY")
  BY DEF sendACKframe
<1>4. sendCTSframe(m, n, af) = Send(t, Control("CTS", n, af.src, af.duration - SIFS - LENGTH_CTS), "WFDATA")
  BY DEF sendCTSframe, t
<1>. HIDE DEF Stopped
<1>5. LET s == sendACKframe(m, n, af)
      IN  /\ MacOK(s) /\ Alters(m, s, {"timeout", "tx", "state"}) /\ Follows(m, s)
          /\ \E f : s.tx = <<f>> /\ Sends(m, s, f, n)
  BY <1>1, <1>3, <1>a
<1>6. "large" \in Size =>
      LET s == sendCTSframe(m, n, af)
      IN  /\ MacOK(s) /\ Alters(m, s, {"timeout", "tx", "state"}) /\ Follows(m, s)
          /\ \E f : s.tx = <<f>> /\ Sends(m, s, f, n)
  BY <1>2, <1>4, <1>a
<1>. QED  BY <1>5, <1>6

\* A step of a MAC that neither sends nor passes up anything
Silent(m, m2) == MacOK(m2) /\ Follows(m, m2) /\ m2.tx = m.tx /\ m2.up = m.up /\ m2.neighbors = m.neighbors

LEMMA NavOK ==
  ASSUME NEW m, MacOK(m), m.nav = 0
  PROVE  LET s == handleNavTimer(m)
         IN  Silent(m, s) /\ s.endSifs = Off /\ s.cmd = m.cmd
<1>. DEFINE now == [m EXCEPT !.nav = Off]
            s == handleNavTimer(m)
<1>1. m.state = "QUIET" /\ m.endSifs = Off /\ m.timeout = Off
  BY DEF MacOK, Phase, Off
<1>2. s = beginNewCycle(now)
  BY <1>1 DEF handleNavTimer, FailIf
<1>3. Alters(m, now, {"nav"}) /\ now.nav = Off
  BY DEF Alters, MacFields, MacOK, Base
<1>. HIDE DEF now
<1>4. now.endSifs = Off /\ now.timeout = Off /\ now.fromUpperLayer = m.fromUpperLayer
  BY <1>1, <1>3 DEF Alters, MacFields
<1>5. Base(now)
  BY <1>3, SameQueue DEF MacOK
<1>6. /\ MacOK(s) /\ Becomes(now.fromUpperLayer, s.fromUpperLayer) /\ Alters(now, s, Cycle)
  BY <1>2, <1>3, <1>4, <1>5, beginNewCycleOK
<1>7. Follows(m, s)
  BY <1>1, <1>4, <1>6, FollowsQueue DEF MacOK
<1>8. s.tx = m.tx /\ s.up = m.up /\ s.neighbors = m.neighbors /\ s.endSifs = Off /\ s.cmd = m.cmd
  BY <1>3, <1>4, <1>6 DEF Alters, MacFields, Cycle
<1>. QED  BY <1>6, <1>7, <1>8 DEF Silent, s

LEMMA TimeoutOK ==
  ASSUME NEW m, MacOK(m), m.timeout = 0, NEW r
  PROVE  LET s == handleTimeoutTimer(m, r)
         IN  Silent(m, s) /\ s.endSifs = Off /\ s.cmd = m.cmd
<1>. DEFINE now == [m EXCEPT !.timeout = Off]
            q == m.fromUpperLayer
            s == handleTimeoutTimer(m, r)
            Fields == {"timeout", "longRetryCounter", "shortRetryCounter", "fromUpperLayer", "remainingBackoff"}
<1>1. /\ m.state \in {"WFACK", "WFCTS", "WFDATA"} /\ m.endSifs = Off /\ m.nav = Off
      /\ m.state \in {"WFACK", "WFCTS"} => q # <<>> /\ Head(q).dest # L2BROADCAST
      /\ Base(m)
  BY DEF MacOK, Phase, Off
<1>2. Base(now) /\ Alters(m, now, {"timeout"}) /\ now.timeout = Off /\ now.fromUpperLayer = q
  <2>1. Alters(m, now, {"timeout"}) /\ now.timeout = Off
    BY <1>1 DEF Alters, MacFields, Base
  <2>. HIDE DEF now
  <2>2. Base(now)
    BY <1>1, <2>1, SameQueue
  <2>. QED  BY <2>1, <2>2 DEF Alters, MacFields
<1>3. ASSUME NEW d, Base(d), Alters(m, d, Fields), d.timeout = Off,
             Becomes(Settled(m), d.fromUpperLayer), s = beginNewCycle(d)
      PROVE  Silent(m, s) /\ s.endSifs = Off /\ s.cmd = m.cmd
  <2>1. d.endSifs = Off /\ d.nav = Off
    BY <1>1, <1>3 DEF Alters, MacFields
  <2>2. MacOK(s) /\ Becomes(d.fromUpperLayer, s.fromUpperLayer) /\ Alters(d, s, Cycle) /\ s.state # "WFACK"
    BY <1>3, <2>1, beginNewCycleOK
  <2>3. Follows(m, s)
    BY <1>3, <2>2, BecomesTransitive DEF Follows, Settled
  <2>4. s.tx = m.tx /\ s.up = m.up /\ s.neighbors = m.neighbors /\ s.endSifs = Off /\ s.cmd = m.cmd
    BY <1>3, <2>1, <2>2 DEF Alters, MacFields, Cycle
  <2>. QED  BY <2>2, <2>3, <2>4 DEF Silent
<1>. HIDE DEF now
<1>4. CASE m.state = "WFDATA"
  <2>1. s = beginNewCycle(now)
    BY <1>4 DEF handleTimeoutTimer, now
  <2>2. Alters(m, now, Fields)
    BY <1>2 DEF Alters
  <2>3. Becomes(Settled(m), now.fromUpperLayer)
    BY <1>1, <1>2, <1>4, BecomesItself DEF Settled, Base
  <2>. QED  BY <1>2, <1>3, <2>1, <2>2, <2>3
<1>5. CASE m.state = "WFCTS"
  <2>. DEFINE c == [now EXCEPT !.longRetryCounter = @ + 1]
              d == NewBackoff(c, r)
  <2>1. s = beginNewCycle(d)
    BY <1>5 DEF handleTimeoutTimer, now
  <2>2. /\ Alters(now, c, {"longRetryCounter"}) /\ c.longRetryCounter \in Nat
    BY <1>2 DEF Base, Alters, MacFields
  <2>. HIDE DEF c
  <2>3. /\ c.fromUpperLayer = q /\ c.shortRetryCounter = now.shortRetryCounter /\ c.error = now.error
        /\ c.timeout = Off
    BY <1>2, <2>2 DEF Alters, MacFields
  <2>4. Base(c)
    BY <1>1, <1>2, <1>5, <2>2, <2>3 DEF Base, Alters
  <2>5. Alters(c, d, {"remainingBackoff"})
    BY <2>4 DEF NewBackoff, Alters, MacFields, Base
  <2>. HIDE DEF d
  <2>6. Base(d)
    BY <2>4, <2>5, SameQueue
  <2>7. d.fromUpperLayer = q /\ d.timeout = Off
    BY <2>3, <2>5 DEF Alters, MacFields
  <2>8. Alters(m, d, Fields)
    BY <1>2, <2>2, <2>5 DEF Alters
  <2>9. Becomes(Settled(m), d.fromUpperLayer)
    BY <1>1, <1>5, <2>7, BecomesItself DEF Settled, Base
  <2>. QED  BY <1>3, <2>1, <2>6, <2>7, <2>8, <2>9
<1>6. CASE m.state = "WFACK"
  <2>. DEFINE c == CountRetry(now)
              k == MarkRetry(c)
              d == NewBackoff(k, r)
  <2>1. s = beginNewCycle(d)
    BY <1>6 DEF handleTimeoutTimer, now
  <2>2. Base(c) /\ Alters(now, c, {"longRetryCounter", "shortRetryCounter"})
    BY <1>1, <1>2, <1>6, CountRetryOK
  <2>. HIDE DEF c
  <2>3. c.fromUpperLayer = q /\ c.timeout = Off
    BY <1>2, <2>2 DEF Alters, MacFields
  <2>4. Base(k) /\ Alters(c, k, {"fromUpperLayer"}) /\ k.fromUpperLayer = Marked(q)
    BY <1>1, <1>6, <2>2, <2>3, MarkRetryOK
  <2>. HIDE DEF k
  <2>5. Alters(k, d, {"remainingBackoff"})
    BY <2>4 DEF NewBackoff, Alters, MacFields, Base
  <2>. HIDE DEF d
  <2>6. Base(d)
    BY <2>4, <2>5, SameQueue
  <2>7. d.fromUpperLayer = Marked(q) /\ d.timeout = Off
    BY <2>3, <2>4, <2>5 DEF Alters, MacFields
  <2>8. Alters(m, d, Fields)
    BY <1>2, <2>2, <2>4, <2>5 DEF Alters
  <2>9. Becomes(Settled(m), d.fromUpperLayer)
    BY <1>1, <1>6, <2>6, <2>7, BecomesItself DEF Settled, Base
  <2>. QED  BY <1>3, <2>1, <2>6, <2>7, <2>8, <2>9
<1>. QED  BY <1>1, <1>4, <1>5, <1>6

\* The MAC of n sends a frame, with the radio switched over to sending.
Sending(m, s, n) ==
  /\ MacOK(s) /\ Follows(m, s) /\ s.up = m.up /\ s.neighbors = m.neighbors
  /\ s.cmd = "SWITCH_TO_SEND" /\ s.endSifs = Off
  /\ \E f : s.tx = <<f>> /\ Sends(m, s, f, n)

\* The frame that follows m is also one that follows k, which has the same queue.
LEMMA SendsAfter ==
  ASSUME NEW m, NEW k, NEW s, NEW n, NEW C, NEW D, MacOK(s), Alters(m, k, C), Alters(k, s, D),
         C \subseteq {"contention", "remainingBackoff", "cmd", "endSifs", "sifsFrame"},
         D \subseteq {"timeout", "tx", "state", "fromUpperLayer"},
         k.cmd = "SWITCH_TO_SEND", k.endSifs = Off,
         Follows(k, s), \E f : s.tx = <<f>> /\ Sends(k, s, f, n)
  PROVE  Sending(m, s, n)
<1>1. k.state = m.state /\ k.fromUpperLayer = m.fromUpperLayer
  BY DEF Alters, MacFields
<1>2. Settled(k) = Settled(m)
  BY <1>1 DEF Settled
<1>3. s.up = m.up /\ s.neighbors = m.neighbors /\ s.cmd = "SWITCH_TO_SEND" /\ s.endSifs = Off
  BY DEF Alters, MacFields
<1>. QED  BY <1>1, <1>2, <1>3 DEF Sending, Follows, Sends

LEMMA ContentionOK ==
  ASSUME NEW m, MacOK(m), m.contention = 0, NEW n \in Node
  PROVE  LET s == handleEndContentionTimer(m, n)
         IN  \/ Silent(m, s) /\ s.endSifs = Off /\ s.cmd = m.cmd
             \/ Sending(m, s, n)
<1>. DEFINE now == [m EXCEPT !.contention = Off, !.remainingBackoff = 0]
            won == [now EXCEPT !.cmd = "SWITCH_TO_SEND"]
            q == m.fromUpperLayer
            s == handleEndContentionTimer(m, n)
<1>1. /\ m.state \in {"IDLE", "CONTEND"} /\ m.endSifs = Off /\ m.timeout = Off /\ m.nav = Off
      /\ m.state = "CONTEND" => q # <<>> /\ (m.nextIsBroadcast <=> Head(q).dest = L2BROADCAST)
      /\ Base(m)
  BY DEF MacOK, Phase, Off
<1>2. Alters(m, now, {"contention", "remainingBackoff"}) /\ now.contention = Off
  BY <1>1 DEF Alters, MacFields, Base
<1>3. Alters(now, won, {"cmd"}) /\ won.cmd = "SWITCH_TO_SEND"
  BY <1>2 DEF Alters, MacFields
<1>4. s = CASE m.state = "IDLE" -> now
            [] m.state = "CONTEND" /\ m.nextIsBroadcast -> PopFront(sendBROADCASTframe(won, n))
            [] m.state = "CONTEND" /\ ~m.nextIsBroadcast /\ rtsCts(Head(q)) -> sendRTSframe(won, n)
            [] m.state = "CONTEND" /\ ~m.nextIsBroadcast /\ ~rtsCts(Head(q)) -> sendDATAframe(won, n, FALSE)
            [] OTHER -> Fail([m EXCEPT !.contention = Off],
                           "expiration of the contention timer outside of CONTEND/IDLE")
  BY DEF handleEndContentionTimer
<1>. HIDE DEF now, won
<1>5. Alters(m, won, {"contention", "remainingBackoff", "cmd"})
  BY <1>2, <1>3 DEF Alters
<1>6. /\ Stopped(won) /\ won.state = m.state /\ won.fromUpperLayer = q /\ Base(won)
  <2>1. Base(won)
    BY <1>1, <1>5, SameQueue
  <2>2. now.contention = Off /\ won.contention = now.contention
    BY <1>2, <1>3 DEF Alters, MacFields
  <2>. QED  BY <1>1, <1>5, <2>1, <2>2 DEF Alters, MacFields, Stopped
<1>7. CASE m.state = "IDLE"
  <2>1. s = now
    BY <1>4, <1>7
  <2>2. /\ now.endSifs = Off /\ now.timeout = Off /\ now.nav = Off /\ now.state = "IDLE" /\ now.fromUpperLayer = q
        /\ now.tx = m.tx /\ now.up = m.up /\ now.neighbors = m.neighbors /\ now.cmd = m.cmd
    BY <1>1, <1>2, <1>7 DEF Alters, MacFields
  <2>0. Base(now)
    BY <1>1, <1>2, SameQueue
  <2>3. MacOK(now)
    BY <1>2, <2>0, <2>2 DEF MacOK, Phase
  <2>4. Follows(m, now)
    BY <1>1, <1>7, <2>2, FollowsItself
  <2>. QED  BY <2>1, <2>2, <2>3, <2>4 DEF Silent
<1>8. CASE m.state = "CONTEND" /\ m.nextIsBroadcast
  <2>. DEFINE p == Head(q)
              f == [kind |-> "BROADCAST", src |-> n, dest |-> p.dest, id |-> p.id,
                    size |-> p.size, retry |-> FALSE, duration |-> 0]
              b == sendBROADCASTframe(won, n)
  <2>1. s = PopFront(b)
    BY <1>4, <1>8
  <2>2. p.dest = L2BROADCAST /\ q # <<>> /\ InOrder(q) /\ p = q[1] /\ p \in Packet /\ p.id \in Ids(q) /\ p.id \in Nat
    BY <1>1, <1>8, QueueFront DEF Base
  <2>3. f.kind = "BROADCAST" /\ f.src = n /\ f.dest = L2BROADCAST /\ f.id = p.id
    BY <2>2
  <2>4. b = Send(won, f, "BUSY")
    BY <1>6 DEF sendBROADCASTframe
  <2>. HIDE DEF f, p, b
  <2>5. Alters(won, b, {"tx", "state"}) /\ b.tx = <<f>> /\ b.state = "BUSY"
    BY <1>5, <2>4 DEF Send, Alters, MacFields
  <2>6. Base(b)
    BY <1>6, <2>5, SameQueue
  <2>7. b.fromUpperLayer = q /\ Stopped(b)
    BY <1>6, <2>5 DEF Alters, MacFields, Stopped
  <2>8. b.longRetryCounter = 0 /\ b.shortRetryCounter = 0
    BY <2>2, <2>6, <2>7 DEF Base, p
  <2>9. /\ Base(s) /\ Alters(b, s, {"fromUpperLayer"}) /\ s.fromUpperLayer = Tail(q)
    BY <2>1, <2>2, <2>6, <2>7, <2>8, PopFrontOK
  <2>10. Stopped(s) /\ s.state = "BUSY" /\ s.tx = <<f>>
    BY <2>5, <2>7, <2>9 DEF Alters, MacFields, Stopped
  <2>11. MacOK(s)
    BY <2>9, <2>10 DEF MacOK, Phase, Stopped
  <2>12. Becomes(q, Tail(q)) /\ Newer(Tail(q), p.id)
    BY <2>2, TailInOrder
  <2>13. Settled(won) = q /\ Settled(s) = Tail(q)
    BY <1>6, <1>8, <2>9, <2>10 DEF Settled
  <2>14. Follows(won, s)
    BY <2>12, <2>13 DEF Follows
  <2>15. FrameShape(f) /\ IsPacket(f)
    BY <2>2, <2>3 DEF FrameShape, IsPacket
  <2>16. \A x \in Nat : /\ Newer(q, x) => x < f.id
                        /\ ~Again(q, x)
    BY <2>2, <2>3, QueueFront
  <2>17. Sends(won, s, f, n)
    BY <1>6, <2>2, <2>3, <2>12, <2>13, <2>15, <2>16 DEF Sends
  <2>18. Alters(won, s, {"tx", "state", "fromUpperLayer"})
    BY <2>5, <2>9 DEF Alters
  <2>19. won.endSifs = Off
    BY <1>6 DEF Stopped
  <2>20. Sending(m, s, n)
    BY <1>3, <1>5, <2>10, <2>11, <2>14, <2>17, <2>18, <2>19, SendsAfter
  <2>. QED  BY <2>20
<1>9. CASE m.state = "CONTEND" /\ ~m.nextIsBroadcast
  <2>1. /\ q # <<>> /\ Head(q).dest # L2BROADCAST
    BY <1>1, <1>9
  <2>2. won.endSifs = Off
    BY <1>6 DEF Stopped
  <2>3. /\ MacOK(s) /\ Alters(won, s, {"timeout", "tx", "state"}) /\ Follows(won, s)
        /\ \E f : s.tx = <<f>> /\ Sends(won, s, f, n)
    <3>1. CASE rtsCts(Head(q))
      <4>1. s = sendRTSframe(won, n)
        BY <1>4, <1>9, <3>1
      <4>. QED  BY <1>6, <1>9, <2>1, <3>1, <4>1, sendRTSframeOK
    <3>2. CASE ~rtsCts(Head(q))
      <4>1. s = sendDATAframe(won, n, FALSE)
        BY <1>4, <1>9, <3>2
      <4>. QED  BY <1>6, <1>9, <2>1, <3>2, <4>1, sendDATAframeOK
    <3>. QED  BY <3>1, <3>2
  <2>. QED  BY <1>3, <1>5, <2>2, <2>3, SendsAfter
<1>. QED  BY <1>1, <1>7, <1>8, <1>9 DEF s

LEMMA EndSifsOK ==
  ASSUME NEW m, MacOK(m), m.endSifs = 0, NEW n \in Node
  PROVE  Sending(m, handleEndSifsTimer(m, n), n)
<1>. DEFINE now == [m EXCEPT !.endSifs = Off, !.sifsFrame = NoFrame, !.cmd = "SWITCH_TO_SEND"]
            af == m.sifsFrame
            q == m.fromUpperLayer
            s == handleEndSifsTimer(m, n)
<1>1. /\ m.contention = Off /\ m.timeout = Off /\ af.src \in Node /\ Base(m) /\ m.nav = Off
      /\ m.state # "WFACK"
      /\ \/ af.kind = "CTS" /\ q # <<>> /\ Head(q).dest # L2BROADCAST
         \/ af.kind = "RTS" /\ "large" \in Size
         \/ af.kind = "DATA"
  BY DEF MacOK, Phase, Off
<1>2. /\ Alters(m, now, {"endSifs", "sifsFrame", "cmd"}) /\ now.endSifs = Off /\ now.cmd = "SWITCH_TO_SEND"
  BY <1>1 DEF Alters, MacFields, Base
<1>3. s = CASE af.kind = "RTS" -> sendCTSframe(now, n, af)
            [] af.kind = "CTS" -> sendDATAframe(now, n, TRUE)
            [] af.kind = "DATA" -> sendACKframe(now, n, af)
  BY DEF handleEndSifsTimer
<1>. HIDE DEF now, af
<1>4. Base(now) /\ Stopped(now) /\ now.state = m.state /\ now.fromUpperLayer = q
  <2>1. Base(now)
    BY <1>1, <1>2, SameQueue
  <2>. QED  BY <1>1, <1>2, <2>1 DEF Alters, MacFields, Stopped
<1>5. /\ MacOK(s) /\ Alters(now, s, {"timeout", "tx", "state"}) /\ Follows(now, s)
      /\ \E f : s.tx = <<f>> /\ Sends(now, s, f, n)
  <2>1. CASE af.kind = "RTS"
    <3>1. s = sendCTSframe(now, n, af)
      BY <1>3, <2>1
    <3>. QED  BY <1>1, <1>4, <2>1, <3>1, sendAnswerOK
  <2>2. CASE af.kind = "CTS"
    <3>. DEFINE afterCTS == TRUE
    <3>1. s = sendDATAframe(now, n, afterCTS)
      BY <1>3, <2>2
    <3>2. now.fromUpperLayer # <<>> /\ Head(now.fromUpperLayer).dest # L2BROADCAST /\ now.state # "WFACK"
      BY <1>1, <1>4, <2>2
    <3>. HIDE DEF afterCTS
    <3>. QED  BY <1>4, <3>1, <3>2, sendDATAframeOK
  <2>3. CASE af.kind = "DATA"
    <3>1. s = sendACKframe(now, n, af)
      BY <1>3, <2>3
    <3>. QED  BY <1>1, <1>4, <2>3, <3>1, sendAnswerOK
  <2>. QED  BY <1>1, <2>1, <2>2, <2>3
<1>6. Sending(m, s, n)
  BY <1>2, <1>5, SendsAfter
<1>. QED  BY <1>6 DEF s

-----------------------------------------------------------------------------
(* The neighbours that a MAC remembers, and the last packet of each *)

Entry(H) == [address : H, fsc : Nat]

Neighborhood(s, H) ==
  /\ s \in Seq(Entry(H))
  /\ \A i, j \in DOMAIN s : s[i].address = s[j].address => i = j

Lists(s, a) == \E i \in DOMAIN s : s[i].address = a
Knows(s, a, x) == \E i \in DOMAIN s : s[i].address = a /\ s[i].fsc = x

Without(s, k) == SubSeq(s, 1, k - 1) \o SubSeq(s, k + 1, Len(s))

LEMMA WithoutAt ==
  ASSUME NEW S, NEW s \in Seq(S), NEW k \in 1..Len(s)
  PROVE  /\ Without(s, k) \in Seq(S) /\ Len(Without(s, k)) = Len(s) - 1
         /\ \A i \in 1..(Len(s) - 1) : Without(s, k)[i] = IF i < k THEN s[i] ELSE s[i + 1]
<1>. DEFINE u == SubSeq(s, 1, k - 1)
            v == SubSeq(s, k + 1, Len(s))
<1>0. Len(s) \in Nat /\ k \in Nat /\ k >= 1 /\ k <= Len(s) /\ \A i \in 1..Len(s) : s[i] \in S
  BY LenProperties, ElementOfSeq
<1>1. \A i \in 1..(k - 1) : s[i] \in S
  BY <1>0
<1>2. \A i \in (k + 1)..Len(s) : s[i] \in S
  BY <1>0
<1>3. u \in Seq(S) /\ Len(u) = k - 1 /\ \A i \in 1..(k - 1) : u[i] = s[i]
  <2>1. /\ u \in Seq(S) /\ Len(u) = IF 1 <= k - 1 THEN (k - 1) - 1 + 1 ELSE 0
        /\ \A i \in 1..((k - 1) - 1 + 1) : u[i] = s[1 + i - 1]
    BY <1>0, <1>1, SubSeqProperties
  <2>. HIDE DEF u
  <2>2. Len(u) = k - 1
    BY <1>0, <2>1
  <2>3. ASSUME NEW i \in 1..(k - 1) PROVE u[i] = s[i]
    <3>1. (k - 1) - 1 + 1 = k - 1 /\ 1 + i - 1 = i
      BY <1>0
    <3>. QED  BY <2>1, <3>1
  <2>. QED  BY <2>1, <2>2, <2>3
<1>4. v \in Seq(S) /\ Len(v) = Len(s) - k /\ \A i \in 1..(Len(s) - k) : v[i] = s[i + k]
  <2>1. /\ v \in Seq(S) /\ Len(v) = IF k + 1 <= Len(s) THEN Len(s) - (k + 1) + 1 ELSE 0
        /\ \A i \in 1..(Len(s) - (k + 1) + 1) : v[i] = s[k + 1 + i - 1]
    BY <1>0, <1>2, SubSeqProperties
  <2>. HIDE DEF v
  <2>2. Len(v) = Len(s) - k
    BY <1>0, <2>1
  <2>3. ASSUME NEW i \in 1..(Len(s) - k) PROVE v[i] = s[i + k]
    <3>1. Len(s) - (k + 1) + 1 = Len(s) - k /\ k + 1 + i - 1 = i + k
      BY <1>0
    <3>. QED  BY <2>1, <3>1
  <2>. QED  BY <2>1, <2>2, <2>3
<1>. HIDE DEF u, v
<1>5. /\ u \o v \in Seq(S) /\ Len(u \o v) = Len(u) + Len(v)
      /\ \A i \in 1..(Len(u) + Len(v)) : (u \o v)[i] = IF i <= Len(u) THEN u[i] ELSE v[i - Len(u)]
  BY <1>3, <1>4, ConcatProperties
<1>6. Without(s, k) = u \o v
  BY DEF Without, u, v
<1>7. ASSUME NEW i \in 1..(Len(s) - 1) PROVE (u \o v)[i] = IF i < k THEN s[i] ELSE s[i + 1]
  <2>1. CASE i < k
    BY <1>0, <1>3, <1>4, <1>5, <2>1
  <2>2. CASE ~(i < k)
    <3>1. i \in 1..(Len(u) + Len(v)) /\ ~(i <= Len(u)) /\ i - Len(u) \in 1..(Len(s) - k) /\ i - Len(u) + k = i + 1
      BY <1>0, <1>3, <1>4, <2>2
    <3>2. (u \o v)[i] = v[i - Len(u)]
      BY <1>5, <3>1
    <3>3. v[i - Len(u)] = s[i - Len(u) + k]
      BY <1>4, <3>1
    <3>. QED  BY <2>2, <3>1, <3>2, <3>3
  <2>. QED  BY <2>1, <2>2
<1>8. Len(u \o v) = Len(s) - 1
  BY <1>0, <1>3, <1>4, <1>5
<1>. QED  BY <1>5, <1>6, <1>7, <1>8

\* An entry that is moved to the end is neither doubled nor lost.
LEMMA Moved ==
  ASSUME NEW H, NEW s, Neighborhood(s, H), NEW k \in 1..Len(s)
  PROVE  /\ Neighborhood(Without(s, k), H) /\ ~Lists(Without(s, k), s[k].address)
         /\ \A a, x : a # s[k].address => (Knows(s, a, x) => Knows(Without(s, k), a, x))
<1>. DEFINE w == Without(s, k)
<1>0. s \in Seq(Entry(H)) /\ Len(s) \in Nat /\ DOMAIN s = 1..Len(s) /\ k \in Nat /\ k >= 1 /\ k <= Len(s)
  BY LenProperties DEF Neighborhood
<1>1. /\ w \in Seq(Entry(H)) /\ Len(w) = Len(s) - 1
      /\ \A i \in 1..(Len(s) - 1) : w[i] = IF i < k THEN s[i] ELSE s[i + 1]
  BY <1>0, WithoutAt
<1>2. DOMAIN w = 1..(Len(s) - 1)
  BY <1>1, LenProperties
<1>. HIDE DEF w
<1>. DEFINE at(i) == IF i < k THEN i ELSE i + 1
<1>3. \A i \in DOMAIN w : at(i) \in DOMAIN s /\ w[i] = s[at(i)] /\ at(i) # k
  BY <1>0, <1>1, <1>2
<1>4. \A i, j \in DOMAIN w : at(i) = at(j) => i = j
  BY <1>0, <1>2
<1>5. \A i \in DOMAIN s : i # k => \E j \in DOMAIN w : at(j) = i
  <2>1. ASSUME NEW i \in DOMAIN s, i # k PROVE \E j \in DOMAIN w : at(j) = i
    <3>1. CASE i < k
      <4>1. i \in DOMAIN w /\ at(i) = i
        BY <1>0, <1>2, <3>1
      <4>. QED  BY <4>1
    <3>2. CASE i > k
      <4>1. i - 1 \in DOMAIN w /\ at(i - 1) = i
        BY <1>0, <1>2, <3>2
      <4>. QED  BY <4>1
    <3>. QED  BY <1>0, <2>1, <3>1, <3>2
  <2>. QED  BY <2>1
<1>. HIDE DEF at
<1>6. \A i, j \in DOMAIN s : s[i].address = s[j].address => i = j
  BY DEF Neighborhood
<1>7. Neighborhood(w, H)
  <2>1. ASSUME NEW i \in DOMAIN w, NEW j \in DOMAIN w, w[i].address = w[j].address PROVE i = j
    BY <1>3, <1>4, <1>6, <2>1
  <2>. QED  BY <1>1, <2>1 DEF Neighborhood
<1>8. ~Lists(w, s[k].address)
  BY <1>0, <1>3, <1>6 DEF Lists
<1>9. ASSUME NEW a, NEW x, a # s[k].address, Knows(s, a, x) PROVE Knows(w, a, x)
  <2>1. PICK i \in DOMAIN s : s[i].address = a /\ s[i].fsc = x
    BY <1>9 DEF Knows
  <2>2. PICK j \in DOMAIN w : at(j) = i
    BY <1>5, <1>9, <2>1
  <2>. QED  BY <1>3, <2>1, <2>2 DEF Knows
<1>. QED  BY <1>7, <1>8, <1>9 DEF w

\* There is room for a new neighbour, as long as none but H are heard.
LEMMA Room ==
  ASSUME NEW H, IsFiniteSet(H), NEW s, Neighborhood(s, H), NEW a \in H, ~Lists(s, a)
  PROVE  Len(s) < Cardinality(H)
<1>. DEFINE f == [i \in 1..Len(s) |-> s[i].address]
<1>1. s \in Seq(Entry(H)) /\ Len(s) \in Nat /\ DOMAIN s = 1..Len(s) /\ \A i \in 1..Len(s) : s[i] \in Entry(H)
  BY LenProperties, ElementOfSeq DEF Neighborhood
<1>2. f \in [1..Len(s) -> H \ {a}]
  BY <1>1 DEF Lists, Entry
<1>3. IsFiniteSet(H \ {a}) /\ Cardinality(H \ {a}) = Cardinality(H) - 1 /\ Cardinality(H) \in Nat
  BY FS_RemoveElement, FS_CardinalityType
<1>4. IsFiniteSet(1..Len(s)) /\ Cardinality(1..Len(s)) = Len(s)
  <2>. DEFINE k == Len(s)
  <2>1. k \in Int /\ k >= 0
    BY <1>1
  <2>. HIDE DEF k
  <2>2. IsFiniteSet(1..k) /\ Cardinality(1..k) = IF 1 > k THEN 0 ELSE k - 1 + 1
    BY <2>1, FS_Interval
  <2>3. Cardinality(1..k) = k
    BY <2>1, <2>2
  <2>. QED  BY <2>2, <2>3 DEF k
<1>5. ~(Cardinality(H \ {a}) < Cardinality(1..Len(s)))
  <2>. SUFFICES ASSUME Cardinality(H \ {a}) < Cardinality(1..Len(s)) PROVE FALSE
    OBVIOUS
  <2>. HIDE DEF f
  <2>1. \E x, y \in 1..Len(s) : x # y /\ f[x] = f[y]
    BY <1>2, <1>3, <1>4, FS_PigeonHole
  <2>. QED  BY <1>1, <2>1 DEF f, Neighborhood
<1>. QED  BY <1>1, <1>3, <1>4, <1>5

LEMMA AppendedEntry ==
  ASSUME NEW H, NEW s, Neighborhood(s, H), NEW e \in Entry(H), ~Lists(s, e.address)
  PROVE  LET t == Append(s, e)
         IN  /\ Neighborhood(t, H) /\ Lists(t, e.address) /\ Knows(t, e.address, e.fsc)
             /\ \A a, x : Knows(s, a, x) => Knows(t, a, x)
<1>. DEFINE t == Append(s, e)
<1>1. s \in Seq(Entry(H)) /\ Len(s) \in Nat /\ DOMAIN s = 1..Len(s)
  BY LenProperties DEF Neighborhood
<1>2. /\ t \in Seq(Entry(H)) /\ Len(t) = Len(s) + 1 /\ t[Len(s) + 1] = e /\ \A i \in 1..Len(s) : t[i] = s[i]
  BY <1>1, AppendProperties
<1>3. DOMAIN t = 1..(Len(s) + 1)
  BY <1>1, <1>2, LenProperties
<1>. HIDE DEF t
<1>4. \A i \in DOMAIN t : i = Len(s) + 1 \/ i \in DOMAIN s
  BY <1>1, <1>3
<1>5. Neighborhood(t, H)
  <2>1. ASSUME NEW i \in DOMAIN t, NEW j \in DOMAIN t, t[i].address = t[j].address PROVE i = j
    BY <1>1, <1>2, <1>4, <2>1 DEF Lists, Neighborhood
  <2>. QED  BY <1>2, <2>1 DEF Neighborhood
<1>6. Lists(t, e.address) /\ Knows(t, e.address, e.fsc)
  BY <1>1, <1>2, <1>3 DEF Lists, Knows
<1>7. \A a, x : Knows(s, a, x) => Knows(t, a, x)
  BY <1>1, <1>2, <1>3 DEF Knows
<1>. QED  BY <1>5, <1>6, <1>7 DEF t

LEMMA addNeighborOK ==
  ASSUME NEW H, IsFiniteSet(H), Cardinality(H) <= neighborhoodCacheSize, NEW a \in H,
         NEW m, MacFields \subseteq DOMAIN m, Neighborhood(m.neighbors, H)
  PROVE  LET t == addNeighbor(m, a)
         IN  /\ Alters(m, t, {"neighbors"}) /\ Neighborhood(t.neighbors, H) /\ Lists(t.neighbors, a)
             /\ \A b, x : Knows(m.neighbors, b, x) => Knows(t.neighbors, b, x)
<1>. DEFINE s == m.neighbors
            known == findNeighbor(m, a)
            at == CHOOSE i \in known : TRUE
            entry == [address |-> a, fsc |-> IF known = {} THEN 0 ELSE s[at].fsc]
            others == IF known = {} THEN s ELSE Without(s, at)
            room == IF Len(others) < neighborhoodCacheSize THEN others
                    ELSE IF others = <<>> THEN <<>> ELSE Tail(others)
            u == Append(others, entry)
            t == addNeighbor(m, a)
<1>0. /\ s \in Seq(Entry(H)) /\ Len(s) \in Nat /\ DOMAIN s = 1..Len(s) /\ \A i \in 1..Len(s) : s[i] \in Entry(H)
      /\ Cardinality(H) \in Nat /\ neighborhoodCacheSize \in Nat
  BY LenProperties, ElementOfSeq, FS_CardinalityType, MacAssumption DEF Neighborhood
<1>1. t = IF neighborhoodCacheSize = 0 THEN m ELSE [m EXCEPT !.neighbors = Append(room, entry)]
  BY DEF addNeighbor, Without
<1>2. known = {i \in DOMAIN s : s[i].address = a}
  BY DEF findNeighbor
<1>. HIDE DEF known
<1>3. known # {} => at \in known
  OBVIOUS
<1>. HIDE DEF at
<1>4. known # {} => at \in 1..Len(s) /\ s[at].address = a
  BY <1>0, <1>2, <1>3
<1>5. entry \in Entry(H) /\ entry.address = a /\ entry.fsc = IF known = {} THEN 0 ELSE s[at].fsc
  BY <1>0, <1>4 DEF Entry
<1>. HIDE DEF entry
<1>6. /\ Neighborhood(others, H) /\ ~Lists(others, a)
      /\ \A b, x : b # a => (Knows(s, b, x) => Knows(others, b, x))
  <2>1. CASE known = {}
    BY <1>2, <2>1 DEF Lists
  <2>2. CASE known # {}
    <3>1. at \in 1..Len(s) /\ s[at].address = a /\ others = Without(s, at)
      BY <1>4, <2>2
    <3>. QED  BY <3>1, Moved
  <2>. QED  BY <2>1, <2>2
<1>. HIDE DEF others
<1>7. Len(others) < neighborhoodCacheSize /\ neighborhoodCacheSize # 0 /\ room = others
  <2>1. Len(others) < Cardinality(H)
    BY <1>6, Room
  <2>2. Len(others) \in Nat
    BY <1>6, LenProperties DEF Neighborhood
  <2>. QED  BY <1>0, <2>1, <2>2
<1>. HIDE DEF room
<1>8. /\ Neighborhood(u, H) /\ Lists(u, a) /\ Knows(u, a, entry.fsc)
      /\ \A b, x : Knows(others, b, x) => Knows(u, b, x)
  BY <1>5, <1>6, AppendedEntry
<1>9. t = [m EXCEPT !.neighbors = u]
  BY <1>1, <1>7
<1>. HIDE DEF u, t
<1>10. ASSUME NEW b, NEW x, Knows(s, b, x) PROVE Knows(u, b, x)
  <2>1. CASE b # a
    BY <1>6, <1>8, <1>10, <2>1
  <2>2. CASE b = a
    <3>1. PICK i \in DOMAIN s : s[i].address = a /\ s[i].fsc = x
      BY <1>10, <2>2 DEF Knows
    <3>2. known # {} /\ i = at
      BY <1>0, <1>2, <1>4, <3>1 DEF Neighborhood
    <3>. QED  BY <1>5, <1>8, <2>2, <3>1, <3>2
  <2>. QED  BY <2>1, <2>2
<1>11. Alters(m, t, {"neighbors"}) /\ t.neighbors = u
  BY <1>9 DEF Alters, MacFields
<1>. QED  BY <1>8, <1>10, <1>11 DEF t

\* The last packet of a neighbour is noted.
LEMMA Noted ==
  ASSUME NEW H, NEW s, Neighborhood(s, H), NEW a, NEW x \in Nat, Lists(s, a)
  PROVE  LET t == [i \in DOMAIN s |-> IF i \in {j \in DOMAIN s : s[j].address = a}
                                     THEN [s[i] EXCEPT !.fsc = x] ELSE s[i]]
         IN  /\ Neighborhood(t, H) /\ Knows(t, a, x)
             /\ \A b, y : b # a => (Knows(s, b, y) => Knows(t, b, y))
<1>. DEFINE t == [i \in DOMAIN s |-> IF i \in {j \in DOMAIN s : s[j].address = a}
                                     THEN [s[i] EXCEPT !.fsc = x] ELSE s[i]]
<1>1. s \in Seq(Entry(H)) /\ Len(s) \in Nat /\ DOMAIN s = 1..Len(s) /\ \A i \in 1..Len(s) : s[i] \in Entry(H)
  BY LenProperties, ElementOfSeq DEF Neighborhood
<1>2. ASSUME NEW i \in DOMAIN s
      PROVE  /\ t[i] \in Entry(H) /\ t[i].address = s[i].address
             /\ t[i].fsc = IF s[i].address = a THEN x ELSE s[i].fsc
  <2>1. s[i] \in Entry(H)
    BY <1>1
  <2>2. CASE s[i].address = a
    BY <2>1, <2>2 DEF Entry
  <2>3. CASE s[i].address # a
    BY <2>1, <2>3 DEF Entry
  <2>. QED  BY <2>2, <2>3
<1>3. DOMAIN t = 1..Len(s)
  BY <1>1
<1>4. \A i \in 1..Len(s) : t[i] \in Entry(H)
  BY <1>1, <1>2
<1>5. t = [i \in 1..Len(s) |-> t[i]]
  BY <1>1
<1>. HIDE DEF t
<1>6. t \in Seq(Entry(H))
  <2>1. t \in [1..Len(s) -> Entry(H)]
    BY <1>3, <1>4, <1>5
  <2>. QED  BY <1>1, <2>1, SeqDef
<1>7. Neighborhood(t, H)
  BY <1>1, <1>2, <1>3, <1>6 DEF Neighborhood
<1>8. Knows(t, a, x)
  BY <1>1, <1>2, <1>3 DEF Knows, Lists
<1>9. \A b, y : b # a => (Knows(s, b, y) => Knows(t, b, y))
  BY <1>1, <1>2, <1>3 DEF Knows
<1>. QED  BY <1>7, <1>8, <1>9 DEF t

\* All packets take part in RTS/CTS, or none does.
OneSize == \A s, t \in Size : s = t

PhaseFields == {"contention", "state", "endSifs", "timeout", "sifsFrame", "nav", "fromUpperLayer", "nextIsBroadcast"}

LEMMA SamePhase ==
  ASSUME NEW m, MacOK(m), NEW s, NEW C, Alters(m, s, C),
         C \cap (PhaseFields \cup {"longRetryCounter", "shortRetryCounter", "error"}) = {}
  PROVE  MacOK(s) /\ Follows(m, s)
<1>1. /\ s.contention = m.contention /\ s.state = m.state /\ s.endSifs = m.endSifs /\ s.timeout = m.timeout
      /\ s.sifsFrame = m.sifsFrame /\ s.nav = m.nav /\ s.fromUpperLayer = m.fromUpperLayer
      /\ s.nextIsBroadcast = m.nextIsBroadcast
  BY DEF Alters, MacFields, PhaseFields
<1>2. Base(s)
  BY SameQueue DEF MacOK, PhaseFields
<1>3. Phase(s)
  BY <1>1 DEF MacOK, Phase
<1>4. Follows(m, s)
  BY <1>1, FollowsItself DEF MacOK
<1>. QED  BY <1>2, <1>3, <1>4 DEF MacOK

LEMMA FollowsTransitive ==
  ASSUME NEW m, NEW s, NEW t, Follows(m, s), Follows(s, t)
  PROVE  Follows(m, t)
BY BecomesTransitive DEF Follows

\* A MAC whose contention is suspended
LEMMA SuspendedOK ==
  ASSUME NEW m, MacOK(m), NEW r
  PROVE  LET s == suspendContention(m, r)
         IN  /\ MacOK(s) /\ Follows(m, s) /\ Alters(m, s, {"contention", "remainingBackoff"})
             /\ s.contention = Off
<1>. DEFINE s == suspendContention(m, r)
<1>1. Base(s) /\ Alters(m, s, {"contention", "remainingBackoff"}) /\ s.contention = Off
  BY suspendContentionOK DEF MacOK
<1>. HIDE DEF s
<1>2. /\ s.state = m.state /\ s.endSifs = m.endSifs /\ s.timeout = m.timeout
      /\ s.sifsFrame = m.sifsFrame /\ s.nav = m.nav /\ s.fromUpperLayer = m.fromUpperLayer
  BY <1>1 DEF Alters, MacFields
<1>3. Phase(s)
  BY <1>1, <1>2 DEF MacOK, Phase
<1>4. Follows(m, s)
  BY <1>2, FollowsItself DEF MacOK
<1>. QED  BY <1>1, <1>3, <1>4 DEF MacOK, s

LEMMA MediumPublishedOK ==
  ASSUME NEW m, MacOK(m), NEW indication \in {"IDLE", "BUSY"}, NEW r
  PROVE  LET s == MediumPublished(m, indication, r)
         IN  /\ Silent(m, s) /\ s.cmd = m.cmd
             /\ IF indication = "IDLE" THEN s.endSifs = m.endSifs ELSE s.endSifs = Off
<1>. DEFINE t == [m EXCEPT !.medium = indication]
            u == suspendContention(t, r)
            s == IF t.state # "IDLE" THEN u ELSE t
            c == [s EXCEPT !.endSifs = Off, !.sifsFrame = NoFrame,
                           !.state = IF s.fromUpperLayer = <<>> THEN "IDLE" ELSE "CONTEND"]
            C == {"medium", "contention", "remainingBackoff"}
<1>1. Alters(m, t, {"medium"})
  BY DEF MacOK, Base, Alters, MacFields
<1>2. MediumPublished(m, indication, r) =
        CASE indication = "IDLE" -> t
          [] indication = "BUSY" /\ s.endSifs = Off -> s
          [] indication = "BUSY" /\ s.endSifs # Off -> c
  BY DEF MediumPublished
<1>. HIDE DEF t
<1>3. MacOK(t) /\ Follows(m, t)
  BY <1>1, SamePhase DEF PhaseFields
<1>4. MacOK(u) /\ Follows(t, u) /\ Alters(t, u, {"contention", "remainingBackoff"})
  BY <1>3, SuspendedOK
<1>. HIDE DEF u
<1>5. Alters(t, t, {"contention", "remainingBackoff"}) /\ Follows(t, t)
  BY <1>1, <1>3, FollowsItself DEF Alters, MacOK
<1>6. MacOK(s) /\ Follows(t, s) /\ Alters(t, s, {"contention", "remainingBackoff"})
  BY <1>3, <1>4, <1>5
<1>. HIDE DEF s
<1>7. Follows(m, s) /\ Alters(m, s, C) /\ Alters(m, t, C)
  BY <1>1, <1>3, <1>6, FollowsTransitive DEF Alters
<1>8. /\ s.endSifs = m.endSifs /\ s.tx = m.tx /\ s.up = m.up /\ s.neighbors = m.neighbors /\ s.cmd = m.cmd
      /\ t.endSifs = m.endSifs /\ t.tx = m.tx /\ t.up = m.up /\ t.neighbors = m.neighbors /\ t.cmd = m.cmd
  BY <1>7 DEF Alters, MacFields
<1>9. CASE indication = "IDLE"
  BY <1>2, <1>3, <1>8, <1>9 DEF Silent
<1>10. CASE indication = "BUSY" /\ s.endSifs = Off
  BY <1>2, <1>6, <1>7, <1>8, <1>10 DEF Silent
<1>11. CASE indication = "BUSY" /\ s.endSifs # Off
  <2>1. /\ Alters(s, c, {"endSifs", "sifsFrame", "state"}) /\ c.endSifs = Off
        /\ c.state = IF s.fromUpperLayer = <<>> THEN "IDLE" ELSE "CONTEND"
    BY <1>6 DEF Alters, MacFields
  <2>2. MediumPublished(m, indication, r) = c
    BY <1>2, <1>11
  <2>. HIDE DEF c
  <2>3. /\ s.contention = Off /\ s.timeout = Off /\ s.nav = Off /\ s.state # "WFACK"
    BY <1>6, <1>11 DEF MacOK, Phase
  <2>4. /\ c.contention = Off /\ c.timeout = Off /\ c.nav = Off /\ c.fromUpperLayer = s.fromUpperLayer
        /\ c.tx = s.tx /\ c.up = s.up /\ c.neighbors = s.neighbors /\ c.cmd = s.cmd
    BY <2>1, <2>3 DEF Alters, MacFields
  <2>5. Base(c)
    BY <1>6, <2>1, SameQueue DEF MacOK
  <2>6. Phase(c)
    BY <2>1, <2>4 DEF Phase
  <2>7. Becomes(s.fromUpperLayer, c.fromUpperLayer)
    BY <1>6, <2>4, BecomesItself DEF MacOK, Base
  <2>8. Follows(s, c)
    BY <2>3, <2>5, <2>7, FollowsQueue
  <2>9. Follows(m, c)
    BY <1>7, <2>8, FollowsTransitive
  <2>. QED  BY <1>8, <1>11, <2>1, <2>2, <2>4, <2>5, <2>6, <2>9 DEF Silent, MacOK
<1>. QED  BY <1>9, <1>10, <1>11

LEMMA AbortOK ==
  ASSUME NEW m, MacOK(m)
  PROVE  LET a == Abort(m)
         IN  /\ Base(a) /\ Becomes(Settled(m), a.fromUpperLayer) /\ a.timeout = Off
             /\ Alters(m, a, {"timeout", "fromUpperLayer", "longRetryCounter", "shortRetryCounter"})
<1>. DEFINE now == [m EXCEPT !.timeout = Off]
            q == m.fromUpperLayer
            a == Abort(m)
            C == {"timeout", "fromUpperLayer", "longRetryCounter", "shortRetryCounter"}
<1>0. Base(m) /\ Alters(m, now, {"timeout"}) /\ now.timeout = Off /\ Becomes(q, q) /\ Alters(m, m, C)
  BY BecomesItself DEF MacOK, Base, Alters, MacFields
<1>1. a = IF m.timeout = Off THEN m
          ELSE IF m.state \in {"WFACK", "WFCTS"}
               THEN CountRetry(IF m.state = "WFACK" THEN MarkRetry(now) ELSE now)
               ELSE IF m.state = "WFACK" THEN MarkRetry(now) ELSE now
  BY DEF Abort
<1>. HIDE DEF now
<1>2. Base(now)
  BY <1>0, SameQueue
<1>3. now.fromUpperLayer = q
  BY <1>0 DEF Alters, MacFields
<1>4. m.state \in {"WFACK", "WFCTS"} => q # <<>> /\ Head(q).dest # L2BROADCAST
  BY DEF MacOK, Phase
<1>5. CASE m.timeout = Off
  <2>1. a = m /\ m.state # "WFACK"
    BY <1>1, <1>5 DEF MacOK, Phase, Off
  <2>. QED  BY <1>0, <1>5, <2>1 DEF Settled
<1>6. CASE m.timeout # Off /\ m.state = "WFACK"
  <2>. DEFINE k == MarkRetry(now)
  <2>1. a = CountRetry(k)
    BY <1>1, <1>6
  <2>2. Base(k) /\ Alters(now, k, {"fromUpperLayer"}) /\ k.fromUpperLayer = Marked(q)
    BY <1>2, <1>3, <1>4, <1>6, MarkRetryOK
  <2>. HIDE DEF k
  <2>3. Marked(q) # <<>> /\ Head(Marked(q)).dest # L2BROADCAST
    BY <1>0, <1>4, <1>6, MarkedInOrder DEF Base
  <2>4. Base(a) /\ Alters(k, a, {"longRetryCounter", "shortRetryCounter"})
    BY <2>1, <2>2, <2>3, CountRetryOK
  <2>. HIDE DEF a
  <2>5. Alters(m, a, C)
    BY <1>0, <2>2, <2>4 DEF Alters
  <2>6. a.fromUpperLayer = Marked(q) /\ a.timeout = Off
    BY <1>0, <2>2, <2>4 DEF Alters, MacFields
  <2>7. Becomes(Settled(m), a.fromUpperLayer)
    BY <1>6, <2>4, <2>6, BecomesItself DEF Settled, Base
  <2>. QED  BY <2>4, <2>5, <2>6, <2>7 DEF a
<1>7. CASE m.timeout # Off /\ m.state = "WFCTS"
  <2>1. a = CountRetry(now)
    BY <1>1, <1>7
  <2>4. Base(a) /\ Alters(now, a, {"longRetryCounter", "shortRetryCounter"})
    BY <1>2, <1>3, <1>4, <1>7, <2>1, CountRetryOK
  <2>. HIDE DEF a
  <2>5. Alters(m, a, C)
    BY <1>0, <2>4 DEF Alters
  <2>6. a.fromUpperLayer = q /\ a.timeout = Off
    BY <1>0, <1>3, <2>4 DEF Alters, MacFields
  <2>. QED  BY <1>0, <1>7, <2>4, <2>5, <2>6 DEF Settled, a
<1>8. CASE m.timeout # Off /\ m.state \notin {"WFACK", "WFCTS"}
  <2>1. a = now
    BY <1>1, <1>8
  <2>2. Alters(m, now, C)
    BY <1>0 DEF Alters
  <2>. QED  BY <1>0, <1>2, <1>3, <1>8, <2>1, <2>2 DEF Settled
<1>. QED  BY <1>5, <1>6, <1>7, <1>8

LEMMA NotForMeOK ==
  ASSUME NEW m, MacOK(m), m.endSifs = Off, NEW duration, NEW erroneous \in BOOLEAN, NEW r
  PROVE  LET s == handleMsgNotForMe(m, duration, erroneous, r)
         IN  Silent(m, s) /\ s.endSifs = Off /\ s.cmd = m.cmd
<1>. DEFINE s == handleMsgNotForMe(m, duration, erroneous, r)
            a == Abort(m)
            w == [a EXCEPT !.nav = duration]
            v == FailIf(w, m.nav # Off, "NAV scheduled twice")
            u == suspendContention(v, r)
            quiet == [m EXCEPT !.nav = IF @ < duration THEN duration ELSE @]
            deferring == IF m.state = "QUIET" THEN quiet ELSE [u EXCEPT !.state = "QUIET"]
            t == IF duration # 0 THEN deferring ELSE m
<1>1. s = CASE t.state = "CONTEND" /\ erroneous -> [suspendContention(t, r) EXCEPT !.remainingBackoff = @ + EIFS]
            [] t.state = "CONTEND" /\ ~erroneous -> beginNewCycle(t)
            [] OTHER -> t
  BY DEF handleMsgNotForMe
<1>2. Base(m) /\ MacFields \subseteq DOMAIN m
  BY DEF MacOK, Base
<1>3. ASSUME duration # 0, m.state = "QUIET" PROVE Silent(m, s) /\ s.endSifs = Off /\ s.cmd = m.cmd
  <2>1. s = quiet
    <3>1. quiet.state = "QUIET"
      BY <1>2, <1>3 DEF MacFields
    <3>. QED  BY <1>1, <1>3, <3>1
  <2>2. Alters(m, quiet, {"nav"})
    BY <1>2 DEF Alters, MacFields
  <2>. HIDE DEF quiet
  <2>3. /\ quiet.contention = m.contention /\ quiet.state = m.state /\ quiet.endSifs = m.endSifs /\ quiet.timeout = m.timeout
        /\ quiet.fromUpperLayer = m.fromUpperLayer /\ quiet.cmd = m.cmd
        /\ quiet.tx = m.tx /\ quiet.up = m.up /\ quiet.neighbors = m.neighbors
    BY <2>2 DEF Alters, MacFields
  <2>4. Base(quiet)
    BY <1>2, <2>2, SameQueue
  <2>5. Phase(quiet)
    BY <1>3, <2>3 DEF MacOK, Phase
  <2>6. Follows(m, quiet)
    BY <1>2, <2>3, FollowsItself
  <2>. QED  BY <2>1, <2>3, <2>4, <2>5, <2>6 DEF Silent, MacOK
<1>4. ASSUME duration # 0, m.state # "QUIET" PROVE Silent(m, s) /\ s.endSifs = Off /\ s.cmd = m.cmd
  <2>. DEFINE z == [u EXCEPT !.state = "QUIET"]
              C == {"timeout", "fromUpperLayer", "longRetryCounter", "shortRetryCounter", "nav",
                    "contention", "remainingBackoff", "state"}
  <2>1. /\ Base(a) /\ Becomes(Settled(m), a.fromUpperLayer) /\ a.timeout = Off
        /\ Alters(m, a, {"timeout", "fromUpperLayer", "longRetryCounter", "shortRetryCounter"})
    BY AbortOK
  <2>2. m.nav = Off
    BY <1>4 DEF MacOK, Phase
  <2>3. Alters(a, w, {"nav"})
    BY <2>1 DEF Alters, MacFields
  <2>4. v = w
    BY <2>2 DEF FailIf
  <2>. HIDE DEF a, w
  <2>5. Base(v) /\ Alters(a, v, {"nav"})
    BY <2>1, <2>3, <2>4, SameQueue
  <2>. HIDE DEF v
  <2>6. Base(u) /\ Alters(v, u, {"contention", "remainingBackoff"}) /\ u.contention = Off
    BY <2>5, suspendContentionOK
  <2>7. s = z
    <3>1. z.state = "QUIET"
      BY <2>6 DEF Base, MacFields
    <3>. QED  BY <1>1, <1>4, <3>1
  <2>. HIDE DEF u
  <2>8. Alters(u, z, {"state"}) /\ z.state = "QUIET"
    BY <2>6 DEF Alters, MacFields
  <2>. HIDE DEF z
  <2>9. Base(z) /\ Alters(m, z, C)
    <3>1. Base(z)
      BY <2>6, <2>8, SameQueue
    <3>. QED  BY <2>1, <2>5, <2>6, <2>8, <3>1 DEF Alters
  <2>10. /\ z.contention = Off /\ z.timeout = Off /\ z.fromUpperLayer = a.fromUpperLayer
    BY <2>1, <2>5, <2>6, <2>8 DEF Alters, MacFields
  <2>11. z.tx = m.tx /\ z.up = m.up /\ z.neighbors = m.neighbors /\ z.cmd = m.cmd /\ z.endSifs = Off
    BY <2>9 DEF Alters, MacFields
  <2>12. Phase(z)
    BY <2>8, <2>10, <2>11 DEF Phase
  <2>13. Follows(m, z)
    BY <2>1, <2>8, <2>10 DEF Follows, Settled
  <2>. QED  BY <2>7, <2>9, <2>11, <2>12, <2>13 DEF Silent, MacOK
<1>5. ASSUME duration = 0, m.state = "CONTEND", erroneous PROVE Silent(m, s) /\ s.endSifs = Off /\ s.cmd = m.cmd
  <2>. DEFINE y == suspendContention(m, r)
              z == [y EXCEPT !.remainingBackoff = @ + EIFS]
  <2>1. s = z
    BY <1>1, <1>5
  <2>2. MacOK(y) /\ Follows(m, y) /\ Alters(m, y, {"contention", "remainingBackoff"})
    BY SuspendedOK
  <2>. HIDE DEF y
  <2>3. Alters(y, z, {"remainingBackoff"})
    BY <2>2 DEF Alters, MacFields
  <2>. HIDE DEF z
  <2>4. MacOK(z) /\ Follows(y, z)
    BY <2>2, <2>3, SamePhase DEF PhaseFields
  <2>5. Follows(m, z)
    BY <2>2, <2>4, FollowsTransitive
  <2>6. z.tx = m.tx /\ z.up = m.up /\ z.neighbors = m.neighbors /\ z.cmd = m.cmd /\ z.endSifs = Off
    BY <2>2, <2>3 DEF Alters, MacFields
  <2>. QED  BY <2>1, <2>4, <2>5, <2>6 DEF Silent
<1>6. ASSUME duration = 0, m.state = "CONTEND", ~erroneous PROVE Silent(m, s) /\ s.endSifs = Off /\ s.cmd = m.cmd
  <2>1. s = beginNewCycle(m)
    BY <1>1, <1>6
  <2>2. m.timeout = Off /\ m.nav = Off
    BY <1>6 DEF MacOK, Phase
  <2>3. /\ MacOK(s) /\ Becomes(m.fromUpperLayer, s.fromUpperLayer) /\ Alters(m, s, Cycle)
    BY <1>2, <2>1, <2>2, beginNewCycleOK
  <2>. HIDE DEF s
  <2>4. Follows(m, s)
    BY <1>6, <2>3, FollowsQueue DEF MacOK
  <2>5. s.tx = m.tx /\ s.up = m.up /\ s.neighbors = m.neighbors /\ s.cmd = m.cmd /\ s.endSifs = Off
    BY <2>3 DEF Alters, MacFields, Cycle
  <2>. QED  BY <2>3, <2>4, <2>5 DEF Silent
<1>7. ASSUME duration = 0, m.state # "CONTEND" PROVE Silent(m, s) /\ s.endSifs = Off /\ s.cmd = m.cmd
  <2>1. s = m
    BY <1>1, <1>7
  <2>. QED  BY <1>2, <2>1, FollowsItself DEF Silent
<1>. QED  BY <1>3, <1>4, <1>5, <1>6, <1>7

-----------------------------------------------------------------------------
(* Receptions *)

LEMMA NewBackoffOK ==
  ASSUME NEW m, Base(m), NEW r
  PROVE  Base(NewBackoff(m, r)) /\ Alters(m, NewBackoff(m, r), {"remainingBackoff"})
<1>1. Alters(m, NewBackoff(m, r), {"remainingBackoff"})
  BY DEF NewBackoff, Base, Alters, MacFields
<1>2. Base(NewBackoff(m, r))
  BY <1>1, SameQueue
<1>. QED  BY <1>1, <1>2

\* A new cycle, from a MAC k that has no timer left but for contention
LEMMA CycleFrom ==
  ASSUME NEW m, MacOK(m), NEW k, NEW C, Base(k), Alters(m, k, C),
         Becomes(Settled(m), k.fromUpperLayer), k.endSifs = Off, k.timeout = Off, k.nav = Off
  PROVE  LET s == beginNewCycle(k)
         IN  MacOK(s) /\ Follows(m, s) /\ Alters(m, s, C \cup Cycle)
<1>. DEFINE s == beginNewCycle(k)
<1>1. MacOK(s) /\ Becomes(k.fromUpperLayer, s.fromUpperLayer) /\ Alters(k, s, Cycle) /\ s.state # "WFACK"
  BY beginNewCycleOK
<1>. HIDE DEF s
<1>2. Alters(m, s, C \cup Cycle)
  BY <1>1 DEF Alters
<1>3. Follows(m, s)
  BY <1>1, BecomesTransitive DEF Follows, Settled
<1>. QED  BY <1>1, <1>2, <1>3 DEF s

LEMMA TransmissionOverOK ==
  ASSUME NEW m, MacOK(m), NEW r
  PROVE  LET s == handleLowerControl(m, "TRANSMISSION_OVER", r)
         IN  /\ Silent(m, s) /\ s.cmd = "SWITCH_TO_RECV"
             /\ s.endSifs = m.endSifs
<1>. DEFINE none == [m EXCEPT !.shortRetryCounter = 0, !.longRetryCounter = 0]
            k == IF m.nextIsBroadcast THEN NewBackoff(none, r) ELSE m
            e == handleEndTransmission(m, r)
            s == handleLowerControl(m, "TRANSMISSION_OVER", r)
            C == {"shortRetryCounter", "longRetryCounter", "remainingBackoff"}
<1>0. Base(m)
  BY DEF MacOK
<1>1. s = [e EXCEPT !.cmd = "SWITCH_TO_RECV"]
  BY DEF handleLowerControl
<1>2. e = IF m.state # "BUSY" THEN m ELSE beginNewCycle(k)
  BY DEF handleEndTransmission
<1>3. Base(none) /\ Alters(m, none, {"shortRetryCounter", "longRetryCounter"})
  BY <1>0, NoRetries
<1>. HIDE DEF none
<1>4. Base(NewBackoff(none, r)) /\ Alters(none, NewBackoff(none, r), {"remainingBackoff"})
  BY <1>3, NewBackoffOK
<1>5. Base(k) /\ Alters(m, k, C)
  <2>1. Alters(m, m, C)
    BY <1>0 DEF Alters, Base
  <2>2. Alters(m, NewBackoff(none, r), C)
    BY <1>3, <1>4 DEF Alters
  <2>. QED  BY <1>0, <1>4, <2>1, <2>2
<1>. HIDE DEF k, e
<1>6. /\ MacOK(e) /\ Follows(m, e) /\ e.endSifs = m.endSifs /\ Alters(m, e, C \cup Cycle)
  <2>1. CASE m.state # "BUSY"
    <3>1. e = m
      BY <1>2, <2>1
    <3>2. Alters(m, m, C \cup Cycle)
      BY <1>0 DEF Alters, Base
    <3>. QED  BY <1>0, <3>1, <3>2, FollowsItself
  <2>2. CASE m.state = "BUSY"
    <3>1. m.endSifs = Off /\ m.timeout = Off /\ m.nav = Off
      BY <2>2 DEF MacOK, Phase
    <3>2. k.endSifs = Off /\ k.timeout = Off /\ k.nav = Off /\ k.fromUpperLayer = m.fromUpperLayer
      BY <1>5, <3>1 DEF Alters, MacFields
    <3>3. Becomes(Settled(m), k.fromUpperLayer)
      BY <1>0, <2>2, <3>2, BecomesItself DEF Settled, Base
    <3>4. e = beginNewCycle(k)
      BY <1>2, <2>2
    <3>5. MacOK(e) /\ Follows(m, e) /\ Alters(m, e, C \cup Cycle)
      BY <1>5, <3>2, <3>3, <3>4, CycleFrom
    <3>6. e.endSifs = m.endSifs
      BY <3>5 DEF Alters, MacFields, Cycle
    <3>. QED  BY <3>5, <3>6
  <2>. QED  BY <2>1, <2>2
<1>7. Alters(e, s, {"cmd"}) /\ s.cmd = "SWITCH_TO_RECV"
  BY <1>1, <1>6 DEF Alters, MacFields
<1>. HIDE DEF s
<1>8. MacOK(s) /\ Follows(e, s)
  BY <1>6, <1>7, SamePhase DEF PhaseFields
<1>9. Follows(m, s)
  BY <1>6, <1>8, FollowsTransitive
<1>10. s.tx = m.tx /\ s.up = m.up /\ s.neighbors = m.neighbors /\ s.endSifs = m.endSifs
  BY <1>6, <1>7 DEF Alters, MacFields, Cycle
<1>. QED  BY <1>7, <1>8, <1>9, <1>10 DEF Silent, s

LEMMA BroadcastMsgOK ==
  ASSUME NEW m, MacOK(m), m.endSifs = Off, NEW af, NEW r
  PROVE  LET s == handleBroadcastMsg(m, af, r)
         IN  /\ MacOK(s) /\ Follows(m, s) /\ s.up = Append(m.up, af.id)
             /\ s.tx = m.tx /\ s.cmd = m.cmd /\ s.neighbors = m.neighbors /\ s.endSifs = Off
<1>. DEFINE bad == m.state = "BUSY" /\ ~m.switching
            f == FailIf(m, bad, BusyError)
            t == [f EXCEPT !.up = Append(@, af.id)]
            u == suspendContention(t, r)
            s == handleBroadcastMsg(m, af, r)
<1>0. Base(m)
  BY DEF MacOK
<1>1. s = IF t.state = "CONTEND" THEN beginNewCycle(u) ELSE t
  BY DEF handleBroadcastMsg
<1>2. Base(f) /\ Alters(m, f, {"error"})
  BY <1>0, FailIfOK DEF Tolerated
<1>3. /\ Alters(f, t, {"up"}) /\ t.up = Append(f.up, af.id)
  BY <1>2 DEF Alters, MacFields
<1>. HIDE DEF f
<1>. HIDE DEF t
<1>4. /\ Alters(m, t, {"error", "up"}) /\ t.up = Append(m.up, af.id)
  BY <1>2, <1>3 DEF Alters, MacFields
<1>5. /\ t.contention = m.contention /\ t.state = m.state /\ t.endSifs = m.endSifs /\ t.timeout = m.timeout
      /\ t.sifsFrame = m.sifsFrame /\ t.nav = m.nav /\ t.fromUpperLayer = m.fromUpperLayer
      /\ t.nextIsBroadcast = m.nextIsBroadcast
      /\ t.tx = m.tx /\ t.cmd = m.cmd /\ t.neighbors = m.neighbors
  BY <1>4 DEF Alters, MacFields
<1>6. Base(t)
  BY <1>2, <1>3, SameQueue
<1>7. MacOK(t)
  BY <1>5, <1>6 DEF MacOK, Phase
<1>8. Follows(m, t)
  BY <1>0, <1>5, FollowsItself
<1>9. CASE t.state # "CONTEND"
  BY <1>1, <1>4, <1>5, <1>7, <1>8, <1>9
<1>10. CASE t.state = "CONTEND"
  <2>1. MacOK(u) /\ Follows(t, u) /\ Alters(t, u, {"contention", "remainingBackoff"})
    BY <1>7, SuspendedOK
  <2>. HIDE DEF u
  <2>2. u.endSifs = Off /\ u.timeout = Off /\ u.nav = Off /\ u.state = "CONTEND"
        /\ u.fromUpperLayer = m.fromUpperLayer
    <3>1. t.timeout = Off /\ t.nav = Off /\ t.endSifs = Off
      BY <1>5, <1>7, <1>10 DEF MacOK, Phase
    <3>. QED  BY <1>5, <1>10, <2>1, <3>1 DEF Alters, MacFields
  <2>3. Base(u) /\ Becomes(Settled(t), u.fromUpperLayer)
    BY <1>0, <1>5, <1>10, <2>1, <2>2, BecomesItself DEF MacOK, Settled, Base
  <2>4. s = beginNewCycle(u)
    BY <1>1, <1>10
  <2>5. MacOK(s) /\ Follows(t, s) /\ Alters(t, s, {"contention", "remainingBackoff"} \cup Cycle)
    BY <1>7, <2>1, <2>2, <2>3, <2>4, CycleFrom
  <2>. HIDE DEF s
  <2>6. s.tx = m.tx /\ s.cmd = m.cmd /\ s.neighbors = m.neighbors /\ s.endSifs = Off /\ s.up = t.up
    BY <1>5, <2>5 DEF Alters, MacFields, Cycle
  <2>7. Follows(m, s)
    BY <1>8, <2>5, FollowsTransitive
  <2>. QED  BY <1>4, <2>5, <2>6, <2>7 DEF s
<1>. QED  BY <1>9, <1>10

LEMMA ACKframeOK ==
  ASSUME NEW m, MacOK(m), m.endSifs = Off, m.state = "WFACK", NEW r
  PROVE  LET s == handleACKframe(m, r)
         IN  Silent(m, s) /\ s.cmd = m.cmd /\ s.endSifs = Off
<1>. DEFINE none == [m EXCEPT !.shortRetryCounter = 0, !.longRetryCounter = 0]
            now == [m EXCEPT !.timeout = Off, !.longRetryCounter = 0, !.shortRetryCounter = 0]
            b == NewBackoff(now, r)
            k == PopFront(b)
            q == m.fromUpperLayer
            s == handleACKframe(m, r)
            C == {"timeout", "shortRetryCounter", "longRetryCounter", "remainingBackoff", "fromUpperLayer"}
<1>0. Base(m) /\ q # <<>> /\ m.nav = Off
  BY DEF MacOK, Phase
<1>1. s = beginNewCycle(k)
  BY DEF handleACKframe
<1>2. Base(none) /\ Alters(m, none, {"shortRetryCounter", "longRetryCounter"})
      /\ none.longRetryCounter = 0 /\ none.shortRetryCounter = 0
  BY <1>0, NoRetries
<1>3. now = [none EXCEPT !.timeout = Off]
  OBVIOUS
<1>. HIDE DEF none, now
<1>4. Alters(none, now, {"timeout"}) /\ now.timeout = Off
  BY <1>2, <1>3 DEF Alters, MacFields
<1>5. Base(now)
  BY <1>2, <1>4, SameQueue
<1>6. Base(b) /\ Alters(now, b, {"remainingBackoff"})
  BY <1>5, NewBackoffOK
<1>. HIDE DEF b
<1>7. Alters(m, b, C) /\ b.fromUpperLayer = q /\ b.longRetryCounter = 0 /\ b.shortRetryCounter = 0
      /\ b.timeout = Off
  <2>1. Alters(m, b, C)
    BY <1>2, <1>4, <1>6 DEF Alters
  <2>. QED  BY <1>2, <1>4, <1>6, <2>1 DEF Alters, MacFields
<1>8. Base(k) /\ Alters(b, k, {"fromUpperLayer"}) /\ k.fromUpperLayer = Tail(q)
  BY <1>0, <1>6, <1>7, PopFrontOK
<1>. HIDE DEF k
<1>9. Alters(m, k, C) /\ k.timeout = Off
  BY <1>7, <1>8 DEF Alters, MacFields
<1>10. k.endSifs = Off /\ k.nav = Off
  BY <1>0, <1>9 DEF Alters, MacFields
<1>11. Becomes(Settled(m), k.fromUpperLayer)
  <2>1. InOrder(Marked(q)) /\ Marked(q) # <<>> /\ Tail(Marked(q)) = Tail(q)
    BY <1>0, MarkedInOrder DEF Base, Becomes
  <2>2. Becomes(Marked(q), Tail(q))
    BY <2>1, TailInOrder
  <2>. QED  BY <1>8, <2>2 DEF Settled
<1>12. MacOK(s) /\ Follows(m, s) /\ Alters(m, s, C \cup Cycle)
  BY <1>1, <1>8, <1>9, <1>10, <1>11, CycleFrom
<1>. HIDE DEF s
<1>13. s.tx = m.tx /\ s.cmd = m.cmd /\ s.neighbors = m.neighbors /\ s.endSifs = Off /\ s.up = m.up
  BY <1>12 DEF Alters, MacFields, Cycle
<1>. QED  BY <1>12, <1>13 DEF s, Silent

\* An answer will be sent after a SIFS.
LEMMA AnswerOK ==
  ASSUME NEW m, MacOK(m), NEW k, NEW C, Base(k), Alters(m, k, C), C \cap PhaseFields \subseteq {"timeout"},
         m.endSifs = Off, m.contention = Off, k.timeout = Off, m.state # "WFACK",
         NEW af, af.src \in Node,
         \/ af.kind = "CTS" /\ m.state = "WFCTS"
         \/ af.kind = "RTS" /\ m.state \in {"IDLE", "CONTEND"} /\ "large" \in Size
         \/ af.kind = "DATA" /\ m.state \in {"IDLE", "CONTEND", "WFDATA"}
  PROVE  LET s == StartSifs(k, af)
         IN  /\ MacOK(s) /\ Follows(m, s) /\ s.endSifs = SIFS
             /\ Alters(k, s, {"endSifs", "sifsFrame"})
<1>. DEFINE s == StartSifs(k, af)
<1>1. /\ k.contention = Off /\ k.state = m.state /\ k.endSifs = Off
      /\ k.nav = m.nav /\ k.fromUpperLayer = m.fromUpperLayer
      /\ k.nextIsBroadcast = m.nextIsBroadcast
  BY DEF Alters, MacFields, PhaseFields
<1>2. Base(s) /\ Alters(k, s, {"endSifs", "sifsFrame"}) /\ s.endSifs = SIFS /\ s.sifsFrame = af
  BY <1>1, StartSifsOK
<1>. HIDE DEF s
<1>3. /\ s.contention = Off /\ s.state = m.state /\ s.timeout = Off
      /\ s.nav = m.nav /\ s.fromUpperLayer = m.fromUpperLayer
  BY <1>1, <1>2 DEF Alters, MacFields
<1>4. SIFS \in Nat
  BY Durations
<1>5. Phase(s)
  BY <1>2, <1>3, <1>4 DEF Phase, MacOK
<1>6. Follows(m, s)
  BY <1>3, FollowsItself DEF MacOK
<1>. QED  BY <1>2, <1>5, <1>6 DEF MacOK, s

LEMMA CTSframeOK ==
  ASSUME NEW m, MacOK(m), m.endSifs = Off, m.state = "WFCTS", NEW af, af.kind = "CTS", af.src \in Node
  PROVE  LET s == handleCTSframe(m, af)
         IN  Silent(m, s) /\ s.cmd = m.cmd /\ s.endSifs = SIFS
<1>. DEFINE k == [m EXCEPT !.timeout = Off, !.shortRetryCounter = 0]
            s == handleCTSframe(m, af)
            C == {"timeout", "shortRetryCounter"}
<1>0. Base(m) /\ m.contention = Off
  BY DEF MacOK, Phase
<1>1. s = StartSifs(k, af)
  BY DEF handleCTSframe
<1>2. Alters(m, k, C) /\ k.timeout = Off /\ k.shortRetryCounter = 0
  BY <1>0 DEF Alters, MacFields, Base
<1>. HIDE DEF k
<1>3. Base(k)
  <2>1. k.fromUpperLayer = m.fromUpperLayer /\ k.longRetryCounter = m.longRetryCounter /\ k.error = m.error
    BY <1>2 DEF Alters, MacFields
  <2>. QED  BY <1>0, <1>2, <2>1 DEF Base, Alters
<1>4. MacOK(s) /\ Follows(m, s) /\ s.endSifs = SIFS /\ Alters(k, s, {"endSifs", "sifsFrame"})
  <2>1. C \cap PhaseFields \subseteq {"timeout"}
    BY DEF PhaseFields
  <2>. QED  BY <1>0, <1>1, <1>2, <1>3, <2>1, AnswerOK
<1>. HIDE DEF s
<1>5. s.tx = m.tx /\ s.cmd = m.cmd /\ s.neighbors = m.neighbors /\ s.up = m.up
  BY <1>2, <1>4 DEF Alters, MacFields
<1>. QED  BY <1>4, <1>5 DEF Silent, s

\* What a frame does to a MAC: nothing is passed up, or a packet that is not known
Received(m, s, af, H) ==
  /\ MacOK(s) /\ Follows(m, s) /\ s.tx = m.tx /\ s.cmd = m.cmd /\ s.endSifs \in {Off, SIFS}
  /\ Neighborhood(s.neighbors, H)
  /\ \A b, y : b # af.src => (Knows(m.neighbors, b, y) => Knows(s.neighbors, b, y))
  /\ \/ s.up = m.up /\ \A y : Knows(m.neighbors, af.src, y) => Knows(s.neighbors, af.src, y)
     \/ /\ s.up = Append(m.up, af.id) /\ af.kind = "BROADCAST"
        /\ \A y : Knows(m.neighbors, af.src, y) => Knows(s.neighbors, af.src, y)
     \/ /\ s.up = Append(m.up, af.id) /\ af.kind = "DATA"
        /\ Knows(s.neighbors, af.src, af.id)
        /\ ~(af.retry /\ Knows(m.neighbors, af.src, af.id))

LEMMA DATAframeOK ==
  ASSUME NEW H, NEW m, MacOK(m), m.endSifs = Off, m.contention = Off, OneSize, Neighborhood(m.neighbors, H),
         m.state \in {"IDLE", "CONTEND", "WFDATA"},
         NEW af, FrameShape(af), af.kind = "DATA", Lists(m.neighbors, af.src)
  PROVE  Received(m, handleDATAframe(m, af), af, H)
<1>. DEFINE known == findNeighbor(m, af.src)
            off == [m EXCEPT !.timeout = Off]
            now == IF rtsCts(af) THEN off ELSE m
            duplicate == \E i \in known : af.retry /\ m.neighbors[i].fsc = af.id
            noted == [i \in DOMAIN m.neighbors |->
                        IF i \in {j \in DOMAIN m.neighbors : m.neighbors[j].address = af.src}
                        THEN [m.neighbors[i] EXCEPT !.fsc = af.id] ELSE m.neighbors[i]]
            taken == [now EXCEPT !.neighbors = noted, !.up = Append(@, af.id)]
            s == handleDATAframe(m, af)
<1>0. /\ Base(m) /\ af.size \in Size /\ af.src \in Node /\ af.id \in Nat
  BY DEF MacOK, FrameShape, IsPacket
<1>1. known = {j \in DOMAIN m.neighbors : m.neighbors[j].address = af.src} /\ known # {}
  BY DEF findNeighbor, Lists
<1>2. Base(now) /\ Alters(m, now, {"timeout"}) /\ now.timeout = Off
  <2>1. Alters(m, off, {"timeout"}) /\ off.timeout = Off /\ Alters(m, m, {"timeout"})
    BY <1>0 DEF Alters, MacFields, Base
  <2>2. Base(off)
    BY <1>0, <2>1, SameQueue
  <2>3. rtsCts(af) \/ m.timeout = Off
    <3>1. CASE m.state = "WFDATA"
      <4>1. "large" \in Size
        BY <3>1 DEF MacOK, Phase
      <4>2. af.size = "large"
        BY <1>0, <4>1 DEF OneSize
      <4>. QED  BY <4>2 DEF rtsCts
    <3>2. CASE m.state # "WFDATA"
      BY <3>2 DEF MacOK, Phase
    <3>. QED  BY <3>1, <3>2
  <2>. QED  BY <1>0, <2>1, <2>2, <2>3
<1>. HIDE DEF off
<1>3. s = StartSifs(IF duplicate THEN now ELSE taken, af)
  <2>1. now.neighbors = m.neighbors
    BY <1>2 DEF Alters, MacFields
  <2>2. taken = [now EXCEPT !.neighbors = [i \in DOMAIN @ |->
                                IF i \in known THEN [@[i] EXCEPT !.fsc = af.id] ELSE @[i]],
                             !.up = Append(@, af.id)]
    BY <1>1, <2>1
  <2>. QED  BY <1>1, <2>2 DEF handleDATAframe, off
<1>4. duplicate <=> (af.retry /\ Knows(m.neighbors, af.src, af.id))
  BY <1>1 DEF Knows
<1>. HIDE DEF duplicate, known, now
<1>5. Neighborhood(noted, H) /\ Knows(noted, af.src, af.id)
      /\ \A b, y : b # af.src => (Knows(m.neighbors, b, y) => Knows(noted, b, y))
  BY <1>0, Noted
<1>. HIDE DEF noted
<1>6. CASE duplicate
  <2>1. s = StartSifs(now, af)
    BY <1>3, <1>6
  <2>2. MacOK(s) /\ Follows(m, s) /\ s.endSifs = SIFS /\ Alters(now, s, {"endSifs", "sifsFrame"})
    <3>1. {"timeout"} \cap PhaseFields \subseteq {"timeout"} /\ m.state # "WFACK"
      OBVIOUS
    <3>. QED  BY <1>0, <1>2, <2>1, <3>1, AnswerOK
  <2>. HIDE DEF s
  <2>3. s.tx = m.tx /\ s.cmd = m.cmd /\ s.neighbors = m.neighbors /\ s.up = m.up
    BY <1>2, <2>2 DEF Alters, MacFields
  <2>. QED  BY <2>2, <2>3 DEF Received, s
<1>7. CASE ~duplicate
  <2>1. s = StartSifs(taken, af)
    BY <1>3, <1>7
  <2>2. /\ Alters(now, taken, {"neighbors", "up"}) /\ taken.neighbors = noted /\ taken.up = Append(now.up, af.id)
    BY <1>2 DEF Alters, MacFields
  <2>. HIDE DEF taken
  <2>3. Base(taken) /\ Alters(m, taken, {"timeout", "neighbors", "up"}) /\ taken.timeout = Off
        /\ taken.up = Append(m.up, af.id)
    <3>1. Base(taken)
      BY <1>2, <2>2, SameQueue
    <3>. QED  BY <1>2, <2>2, <3>1 DEF Alters, MacFields
  <2>4. MacOK(s) /\ Follows(m, s) /\ s.endSifs = SIFS /\ Alters(taken, s, {"endSifs", "sifsFrame"})
    <3>1. {"timeout", "neighbors", "up"} \cap PhaseFields \subseteq {"timeout"} /\ m.state # "WFACK"
      BY DEF PhaseFields
    <3>. QED  BY <1>0, <2>1, <2>3, <3>1, AnswerOK
  <2>. HIDE DEF s
  <2>5. s.tx = m.tx /\ s.cmd = m.cmd /\ s.neighbors = noted /\ s.up = Append(m.up, af.id)
    BY <2>2, <2>3, <2>4 DEF Alters, MacFields
  <2>. QED  BY <1>4, <1>5, <1>7, <2>4, <2>5 DEF Received, s
<1>. QED  BY <1>6, <1>7

LEMMA ReceivedAfter ==
  ASSUME NEW H, NEW m, NEW k, NEW s, NEW af, Received(k, s, af, H), Follows(m, k),
         k.tx = m.tx, k.cmd = m.cmd, k.up = m.up,
         \A b, y : Knows(m.neighbors, b, y) => Knows(k.neighbors, b, y)
  PROVE  Received(m, s, af, H)
<1>1. Follows(m, s)
  BY FollowsTransitive DEF Received
<1>. QED  BY <1>1 DEF Received

LEMMA SilentReceived ==
  ASSUME NEW H, NEW m, NEW s, NEW af, Silent(m, s), s.cmd = m.cmd, s.endSifs \in {Off, SIFS},
         Neighborhood(m.neighbors, H)
  PROVE  Received(m, s, af, H)
BY DEF Silent, Received

LEMMA FailedOK ==
  ASSUME NEW m, MacOK(m), NEW what \in Tolerated
  PROVE  Silent(m, Fail(m, what)) /\ Fail(m, what).cmd = m.cmd /\ Fail(m, what).endSifs = m.endSifs
<1>. DEFINE s == Fail(m, what)
<1>0. s = FailIf(m, TRUE, what)
  BY DEF FailIf
<1>1. Base(s) /\ Alters(m, s, {"error"})
  BY <1>0, FailIfOK DEF MacOK
<1>. HIDE DEF s
<1>2. /\ s.contention = m.contention /\ s.state = m.state /\ s.endSifs = m.endSifs /\ s.timeout = m.timeout
      /\ s.sifsFrame = m.sifsFrame /\ s.nav = m.nav /\ s.fromUpperLayer = m.fromUpperLayer
      /\ s.nextIsBroadcast = m.nextIsBroadcast
      /\ s.tx = m.tx /\ s.up = m.up /\ s.neighbors = m.neighbors /\ s.cmd = m.cmd
  BY <1>1 DEF Alters, MacFields
<1>3. MacOK(s) /\ Follows(m, s)
  BY <1>1, <1>2, FollowsItself DEF MacOK, Phase
<1>. QED  BY <1>2, <1>3 DEF Silent, s

LEMMA MsgForMeOK ==
  ASSUME NEW H, NEW m, MacOK(m), m.endSifs = Off, OneSize, Neighborhood(m.neighbors, H),
         NEW af, FrameShape(af), af.kind # "BROADCAST", Lists(m.neighbors, af.src), NEW r
  PROVE  Received(m, handleMsgForMe(m, af, r), af, H)
<1>. DEFINE u == suspendContention(m, r)
            s == handleMsgForMe(m, af, r)
<1>1. MacOK(u) /\ Follows(m, u) /\ Alters(m, u, {"contention", "remainingBackoff"}) /\ u.contention = Off
  BY SuspendedOK
<1>2. s = CASE m.state \in {"IDLE", "CONTEND"} /\ af.kind = "RTS" -> StartSifs(u, af)
            [] m.state \in {"IDLE", "CONTEND"} /\ af.kind = "DATA" -> handleDATAframe(u, af)
            [] m.state \in {"IDLE", "CONTEND"} /\ af.kind \notin {"RTS", "DATA"} ->
                  Fail(m, "IDLE/CONTEND, strange message")
            [] m.state = "WFDATA" /\ af.kind = "DATA" -> handleDATAframe(m, af)
            [] m.state = "WFACK" /\ af.kind = "ACK" -> handleACKframe(m, r)
            [] m.state = "WFACK" /\ af.kind # "ACK" -> Fail(m, "WFACK, strange message")
            [] m.state = "WFCTS" /\ af.kind = "CTS" -> handleCTSframe(m, af)
            [] m.state = "BUSY" /\ ~m.switching -> Fail(m, BusyError)
            [] OTHER -> m
  BY DEF handleMsgForMe
<1>. HIDE DEF u, s
<1>3. /\ u.state = m.state /\ u.endSifs = Off /\ u.neighbors = m.neighbors /\ u.tx = m.tx /\ u.cmd = m.cmd
      /\ u.up = m.up
  BY <1>1 DEF Alters, MacFields
<1>4. af.src \in Node /\ (af.kind = "RTS" => "large" \in Size)
  BY DEF FrameShape
<1>5. CASE m.state \in {"IDLE", "CONTEND"} /\ af.kind = "RTS"
  <2>1. s = StartSifs(u, af)
    BY <1>2, <1>5
  <2>2. /\ Base(u) /\ Alters(u, u, {}) /\ {} \cap PhaseFields \subseteq {"timeout"} /\ u.timeout = Off
        /\ u.state # "WFACK"
    BY <1>1, <1>3, <1>5 DEF MacOK, Phase, Alters
  <2>3. MacOK(s) /\ Follows(u, s) /\ s.endSifs = SIFS /\ Alters(u, s, {"endSifs", "sifsFrame"})
    BY <1>1, <1>3, <1>4, <1>5, <2>1, <2>2, AnswerOK
  <2>4. Silent(u, s) /\ s.cmd = u.cmd
    BY <2>3 DEF Silent, Alters, MacFields
  <2>5. Received(u, s, af, H)
    BY <1>3, <2>3, <2>4, SilentReceived
  <2>. QED  BY <1>1, <1>3, <2>5, ReceivedAfter DEF s
<1>6. CASE m.state \in {"IDLE", "CONTEND"} /\ af.kind = "DATA"
  <2>1. s = handleDATAframe(u, af)
    BY <1>2, <1>6
  <2>2. Received(u, s, af, H)
    BY <1>1, <1>3, <1>6, <2>1, DATAframeOK
  <2>. QED  BY <1>1, <1>3, <2>2, ReceivedAfter DEF s
<1>7. CASE m.state \in {"IDLE", "CONTEND"} /\ af.kind \notin {"RTS", "DATA"}
  <2>1. s = Fail(m, "IDLE/CONTEND, strange message")
    BY <1>2, <1>7
  <2>. QED  BY <2>1, FailedOK, SilentReceived DEF Tolerated, s
<1>8. CASE m.state = "WFDATA" /\ af.kind = "DATA"
  <2>1. s = handleDATAframe(m, af) /\ m.contention = Off
    BY <1>2, <1>8 DEF MacOK, Phase
  <2>. QED  BY <1>8, <2>1, DATAframeOK DEF s
<1>9. CASE m.state = "WFACK" /\ af.kind = "ACK"
  <2>1. s = handleACKframe(m, r)
    BY <1>2, <1>9
  <2>. QED  BY <1>9, <2>1, ACKframeOK, SilentReceived DEF s
<1>10. CASE m.state = "WFACK" /\ af.kind # "ACK"
  <2>1. s = Fail(m, "WFACK, strange message")
    BY <1>2, <1>10
  <2>. QED  BY <2>1, FailedOK, SilentReceived DEF Tolerated, s
<1>11. CASE m.state = "WFCTS" /\ af.kind = "CTS"
  <2>1. s = handleCTSframe(m, af)
    BY <1>2, <1>11
  <2>. QED  BY <1>4, <1>11, <2>1, CTSframeOK, SilentReceived DEF s
<1>12. CASE m.state = "BUSY" /\ ~m.switching
  <2>1. s = Fail(m, BusyError)
    BY <1>2, <1>12
  <2>. QED  BY <2>1, FailedOK, SilentReceived DEF Tolerated, s
<1>13. CASE s = m
  <2>1. Silent(m, m)
    BY FollowsItself DEF Silent, MacOK
  <2>. QED  BY <1>13, <2>1, SilentReceived DEF s
<1>. QED  BY <1>2, <1>5, <1>6, <1>7, <1>8, <1>9, <1>10, <1>11, <1>12, <1>13

LEMMA LowerMsgOK ==
  ASSUME NEW H, IsFiniteSet(H), Cardinality(H) <= neighborhoodCacheSize,
         NEW m, MacOK(m), m.endSifs = Off, OneSize, Neighborhood(m.neighbors, H),
         NEW n \in Node, NEW af, FrameShape(af), af.src \in H, NEW r
  PROVE  Received(m, handleLowerMsg(m, n, af, r), af, H)
<1>. DEFINE t == addNeighbor(m, af.src)
            s == handleLowerMsg(m, n, af, r)
            erroneous == FALSE
<1>1. /\ Alters(m, t, {"neighbors"}) /\ Neighborhood(t.neighbors, H) /\ Lists(t.neighbors, af.src)
      /\ \A b, x : Knows(m.neighbors, b, x) => Knows(t.neighbors, b, x)
  BY addNeighborOK DEF MacOK, Base
<1>2. s = CASE af.dest = n -> handleMsgForMe(t, af, r)
            [] af.dest = L2BROADCAST -> handleBroadcastMsg(t, af, r)
            [] OTHER -> handleMsgNotForMe(t, af.duration, erroneous, r)
  BY DEF handleLowerMsg
<1>0. erroneous \in BOOLEAN
  OBVIOUS
<1>. HIDE DEF t, s, erroneous
<1>3. MacOK(t) /\ Follows(m, t)
  BY <1>1, SamePhase DEF PhaseFields
<1>4. /\ t.endSifs = Off /\ t.tx = m.tx /\ t.cmd = m.cmd /\ t.up = m.up
  BY <1>1 DEF Alters, MacFields
<1>5. L2BROADCAST \notin Node /\ (af.dest = L2BROADCAST <=> af.kind = "BROADCAST")
  BY MacAssumption DEF FrameShape
<1>6. Received(t, s, af, H)
  <2>1. CASE af.dest = n
    <3>1. s = handleMsgForMe(t, af, r) /\ af.kind # "BROADCAST"
      BY <1>2, <1>5, <2>1
    <3>. QED  BY <1>1, <1>3, <1>4, <3>1, MsgForMeOK
  <2>2. CASE af.dest = L2BROADCAST
    <3>1. s = handleBroadcastMsg(t, af, r) /\ af.kind = "BROADCAST"
      BY <1>2, <1>5, <2>2
    <3>2. /\ MacOK(s) /\ Follows(t, s) /\ s.up = Append(t.up, af.id)
          /\ s.tx = t.tx /\ s.cmd = t.cmd /\ s.neighbors = t.neighbors /\ s.endSifs = Off
      BY <1>3, <1>4, <3>1, BroadcastMsgOK
    <3>. QED  BY <1>1, <3>1, <3>2 DEF Received
  <2>3. CASE af.dest # n /\ af.dest # L2BROADCAST
    <3>1. s = handleMsgNotForMe(t, af.duration, erroneous, r)
      BY <1>2, <2>3
    <3>2. Silent(t, s) /\ s.endSifs = Off /\ s.cmd = t.cmd
      BY <1>0, <1>3, <1>4, <3>1, NotForMeOK
    <3>. QED  BY <1>1, <3>2, SilentReceived
  <2>. QED  BY <2>1, <2>2, <2>3
<1>. QED  BY <1>1, <1>3, <1>4, <1>6, ReceivedAfter DEF s

-----------------------------------------------------------------------------
(* A packet is handed in *)

LEMMA MarkedNewer ==
  ASSUME NEW q, InOrder(q), NEW x
  PROVE  /\ Newer(Marked(q), x) <=> Newer(q, x)
         /\ Again(Marked(q), x) <=> q # <<>> /\ x = q[1].id /\ q[1].dest # L2BROADCAST
<1>1. CASE q = <<>>
  BY <1>1 DEF Marked, Newer, Again
<1>2. CASE q # <<>>
  <2>. DEFINE r == [q[1] EXCEPT !.retry = TRUE]
              p == [q EXCEPT ![1] = r]
  <2>1. /\ Len(q) \in Nat /\ Len(q) > 0 /\ DOMAIN q = 1..Len(q) /\ q \in Seq(Packet) /\ q[1] \in Packet
    BY <1>2, LenProperties, EmptySeq, ElementOfSeq DEF InOrder
  <2>2. r \in Packet /\ r.id = q[1].id /\ r.dest = q[1].dest /\ r.retry
    BY <2>1, MarkedPacket
  <2>0. Marked(q) = p
    BY <1>2 DEF Marked
  <2>. HIDE DEF r
  <2>3. /\ DOMAIN p = DOMAIN q /\ p[1] = r /\ \A i \in DOMAIN q : p[i] = IF i = 1 THEN r ELSE q[i]
    BY <2>1
  <2>. HIDE DEF p
  <2>4. \A i \in DOMAIN q : p[i].id = q[i].id
    BY <2>2, <2>3
  <2>5. Marked(q) # <<>>
    BY <1>2, MarkedInOrder
  <2>. QED  BY <1>2, <2>0, <2>2, <2>3, <2>4, <2>5 DEF Newer, Again
<1>. QED  BY <1>1, <1>2

\* What a MAC has yet to send stays as far ahead of the packets up to h.
Keeps(m, s, h) ==
  \A x \in 0..h : /\ Newer(Settled(m), x) => Newer(Settled(s), x)
                  /\ Again(Settled(m), x) => Newer(Settled(s), x) \/ Again(Settled(s), x)

LEMMA FollowsKeeps ==
  ASSUME NEW m, NEW s, Base(m), Base(s), Follows(m, s), NEW h
  PROVE  Keeps(m, s, h) /\ Ids(s.fromUpperLayer) \subseteq Ids(m.fromUpperLayer)
<1>1. Keeps(m, s, h)
  BY DEF Follows, Becomes, Keeps
<1>2. Ids(Settled(s)) \subseteq Ids(Settled(m))
  BY DEF Follows, Becomes
<1>. QED  BY <1>1, <1>2, SettledInOrder

LEMMA UpperMsgOK ==
  ASSUME NEW m, MacOK(m), NEW p \in Packet, \A i \in DOMAIN m.fromUpperLayer : m.fromUpperLayer[i].id < p.id,
         NEW h \in Nat, h < p.id
  PROVE  LET full == [m EXCEPT !.dropped = Append(@, p)]
             k == [m EXCEPT !.fromUpperLayer = Append(@, p)]
             s == IF k.state = "IDLE" /\ k.endSifs = Off THEN beginNewCycle(k) ELSE k
         IN  /\ Silent(m, full) /\ full.cmd = m.cmd /\ full.endSifs = m.endSifs
             /\ MacOK(s) /\ Keeps(m, s, h) /\ Ids(s.fromUpperLayer) \subseteq Ids(m.fromUpperLayer) \cup {p.id}
             /\ s.tx = m.tx /\ s.up = m.up /\ s.neighbors = m.neighbors
             /\ s.cmd = m.cmd /\ s.endSifs = m.endSifs
<1>. DEFINE full == [m EXCEPT !.dropped = Append(@, p)]
            q == m.fromUpperLayer
            a == Append(q, p)
            k == [m EXCEPT !.fromUpperLayer = a]
            s == IF k.state = "IDLE" /\ k.endSifs = Off THEN beginNewCycle(k) ELSE k
<1>0. Base(m) /\ InOrder(q) /\ 0..h \subseteq Nat /\ \A x \in 0..h : x < p.id
  BY DEF MacOK, Base, Packet
<1>1. Silent(m, full) /\ full.cmd = m.cmd /\ full.endSifs = m.endSifs
  <2>1. Alters(m, full, {"dropped"})
    BY <1>0 DEF Alters, Base, MacFields
  <2>. HIDE DEF full
  <2>2. MacOK(full) /\ Follows(m, full)
    BY <2>1, SamePhase DEF PhaseFields
  <2>. QED  BY <2>1, <2>2 DEF Silent, Alters, MacFields
<1>2. /\ InOrder(a) /\ Ids(a) = Ids(q) \cup {p.id} /\ a # <<>>
      /\ q # <<>> => a[1] = q[1] /\ Head(a) = Head(q)
      /\ \A x \in Nat : x < p.id => /\ Newer(q, x) => Newer(a, x)
                                    /\ Again(q, x) => Again(a, x)
  BY <1>0, AppendInOrder
<1>. HIDE DEF a
<1>3. Alters(m, k, {"fromUpperLayer"}) /\ k.fromUpperLayer = a
  BY <1>0 DEF Alters, Base, MacFields
<1>. HIDE DEF k
<1>4. /\ k.contention = m.contention /\ k.state = m.state /\ k.endSifs = m.endSifs /\ k.timeout = m.timeout
      /\ k.sifsFrame = m.sifsFrame /\ k.nav = m.nav
      /\ k.nextIsBroadcast = m.nextIsBroadcast
      /\ k.longRetryCounter = m.longRetryCounter /\ k.shortRetryCounter = m.shortRetryCounter
      /\ k.error = m.error
      /\ k.tx = m.tx /\ k.up = m.up /\ k.neighbors = m.neighbors /\ k.cmd = m.cmd
  BY <1>3 DEF Alters, MacFields
<1>5. MacOK(k)
  <2>1. Base(k)
    BY <1>0, <1>2, <1>3, <1>4 DEF Base, Alters
  <2>2. m.state \in {"CONTEND", "WFACK", "WFCTS"} => Head(a) = Head(q)
    BY <1>2 DEF MacOK, Phase
  <2>3. Phase(k)
    BY <1>2, <1>3, <1>4, <2>2 DEF MacOK, Phase
  <2>. QED  BY <2>1, <2>3 DEF MacOK
<1>6. Keeps(m, k, h)
  <2>1. CASE m.state = "WFACK"
    <3>1. Settled(m) = Marked(q) /\ Settled(k) = Marked(a) /\ q # <<>>
      BY <1>3, <1>4, <2>1 DEF Settled, MacOK, Phase
    <3>2. ASSUME NEW x \in 0..h
          PROVE  /\ Newer(Marked(q), x) => Newer(Marked(a), x)
                 /\ Again(Marked(q), x) => Again(Marked(a), x)
      <4>1. /\ Newer(Marked(q), x) <=> Newer(q, x)
            /\ Again(Marked(q), x) <=> q # <<>> /\ x = q[1].id /\ q[1].dest # L2BROADCAST
        BY <1>0, MarkedNewer
      <4>2. /\ Newer(Marked(a), x) <=> Newer(a, x)
            /\ Again(Marked(a), x) <=> a # <<>> /\ x = a[1].id /\ a[1].dest # L2BROADCAST
        BY <1>2, MarkedNewer
      <4>. QED  BY <1>0, <1>2, <3>1, <4>1, <4>2
    <3>. QED  BY <3>1, <3>2 DEF Keeps
  <2>2. CASE m.state # "WFACK"
    <3>1. Settled(m) = q /\ Settled(k) = a
      BY <1>3, <1>4, <2>2 DEF Settled
    <3>. QED  BY <1>0, <1>2, <3>1 DEF Keeps
  <2>. QED  BY <2>1, <2>2
<1>7. CASE ~(k.state = "IDLE" /\ k.endSifs = Off)
  BY <1>1, <1>2, <1>3, <1>4, <1>5, <1>6, <1>7 DEF k, a
<1>8. CASE k.state = "IDLE" /\ k.endSifs = Off
  <2>. DEFINE b == beginNewCycle(k)
  <2>1. k.timeout = Off /\ k.nav = Off /\ Base(k) /\ Alters(k, k, {}) /\ Becomes(Settled(k), k.fromUpperLayer)
    BY <1>5, <1>8, BecomesItself DEF MacOK, Phase, Base, Alters, Settled
  <2>2. MacOK(b) /\ Follows(k, b) /\ Alters(k, b, {} \cup Cycle)
    BY <1>5, <1>8, <2>1, CycleFrom
  <2>. HIDE DEF b
  <2>3. Keeps(k, b, h) /\ Ids(b.fromUpperLayer) \subseteq Ids(a)
    BY <1>3, <2>1, <2>2, FollowsKeeps DEF MacOK
  <2>4. Keeps(m, b, h)
    BY <1>6, <2>3 DEF Keeps
  <2>5. /\ b.tx = m.tx /\ b.up = m.up /\ b.neighbors = m.neighbors /\ b.cmd = m.cmd /\ b.endSifs = m.endSifs
    BY <1>4, <2>2 DEF Alters, MacFields, Cycle
  <2>6. s = b
    BY <1>8 DEF b
  <2>. QED  BY <1>1, <1>2, <2>2, <2>3, <2>4, <2>5, <2>6 DEF k, a
<1>. QED  BY <1>7, <1>8

-----------------------------------------------------------------------------
(* Sequences of any elements *)

IsSeq(q) == \E S : q \in Seq(S)

LEMMA Appended ==
  ASSUME NEW q, IsSeq(q), NEW x
  PROVE  LET r == Append(q, x)
         IN  /\ IsSeq(r) /\ Len(q) \in Nat /\ DOMAIN q = 1..Len(q) /\ DOMAIN r = 1..(Len(q) + 1)
             /\ r[Len(q) + 1] = x /\ \A i \in 1..Len(q) : r[i] = q[i]
<1>. DEFINE r == Append(q, x)
<1>1. PICK S : q \in Seq(S)
  BY DEF IsSeq
<1>2. q \in Seq(S \cup {x}) /\ x \in S \cup {x}
  <2>1. S \subseteq S \cup {x}
    OBVIOUS
  <2>. QED  BY <1>1, <2>1, SeqMonotonic
<1>3. /\ r \in Seq(S \cup {x}) /\ Len(r) = Len(q) + 1
      /\ \A i \in 1..Len(q) : r[i] = q[i] /\ r[Len(q) + 1] = x
  BY <1>2, AppendProperties
<1>4. Len(q) \in Nat /\ DOMAIN q = 1..Len(q) /\ DOMAIN r = 1..Len(r) /\ r[Len(q) + 1] = x
  BY <1>2, <1>3, LenProperties, AppendProperties
<1>. QED  BY <1>3, <1>4 DEF IsSeq

LEMMA Taken ==
  ASSUME NEW q, IsSeq(q), q # <<>>
  PROVE  LET r == Tail(q)
         IN  /\ IsSeq(r) /\ Len(q) \in Nat /\ Len(q) >= 1 /\ DOMAIN q = 1..Len(q) /\ DOMAIN r = 1..(Len(q) - 1)
             /\ Head(q) = q[1] /\ \A i \in 1..(Len(q) - 1) : r[i] = q[i + 1]
<1>. DEFINE r == Tail(q)
<1>1. PICK S : q \in Seq(S)
  BY DEF IsSeq
<1>2. /\ r \in Seq(S) /\ Len(r) = Len(q) - 1 /\ \A i \in 1..Len(r) : r[i] = q[i + 1] /\ Head(q) = q[1]
  BY <1>1, HeadTailProperties
<1>3. Len(q) \in Nat /\ Len(q) > 0 /\ DOMAIN q = 1..Len(q) /\ DOMAIN r = 1..Len(r) /\ Head(q) = q[1]
  BY <1>1, <1>2, LenProperties, EmptySeq, HeadTailProperties
<1>. QED  BY <1>2, <1>3 DEF IsSeq

LEMMA NoneAppended ==
  ASSUME NEW q, IsSeq(q)
  PROVE  /\ q \o <<>> = q
         /\ \A x : q \o <<x>> = Append(q, x)
<1>1. PICK S : q \in Seq(S)
  BY DEF IsSeq
<1>2. q \o <<>> = q
  BY <1>1, ConcatEmptySeq
<1>3. ASSUME NEW x PROVE q \o <<x>> = Append(q, x)
  <2>1. S \subseteq S \cup {x}
    OBVIOUS
  <2>2. q \in Seq(S \cup {x}) /\ x \in S \cup {x}
    BY <1>1, <2>1, SeqMonotonic
  <2>. QED  BY <2>2, AppendIsConcat
<1>. QED  BY <1>2, <1>3

LEMMA EmptyIsSeq == IsSeq(<<>>) /\ DOMAIN <<>> = {}
  BY EmptySeq, LenProperties DEF IsSeq

-----------------------------------------------------------------------------
(* The packets of one node on their way to another: those passed up there, *)
(* those its decider has handed over, the one on the air, those that start *)
(* in this instant, and those that still wait at the sender                *)

\* Frame g is the next packet after that of f, or a repetition of it.
After(f, g) == f.id < g.id \/ (f.id = g.id /\ f.kind = "DATA" /\ g.kind = "DATA" /\ g.retry)

\* Packet x, which has been passed up, is not passed up again with frame g.
Fresh(x, g, kn) == x < g.id \/ (x = g.id /\ g.kind = "DATA" /\ g.retry /\ x \in kn)

\* The queue q holds nothing that was sent before f.
Beyond(q, f) == Newer(q, f.id) \/ (f.kind = "DATA" /\ Again(q, f.id))

Packets(S) == {S[i] : i \in {j \in DOMAIN S : IsPacket(S[j])}}

Link(U, A, S, got, kn, q) ==
  /\ \A f \in U, g \in A : After(f, g)
  /\ \A f \in U \cup A, g \in Packets(S) : After(f, g)
  /\ \A i, j \in DOMAIN S : i < j /\ IsPacket(S[i]) /\ IsPacket(S[j]) => After(S[i], S[j])
  /\ \A g \in U \cup A \cup Packets(S) : Beyond(q, g) /\ \A x \in got : Fresh(x, g, kn)
  /\ \A x \in got : Newer(q, x) \/ (x \in kn /\ Again(q, x))

OnlyPacket(f) == IF IsPacket(f) THEN {f} ELSE {}

LEMMA LinkLess ==
  ASSUME NEW U, NEW A, NEW S, NEW got, NEW kn, NEW q, Link(U, A, S, got, kn, q),
         NEW V, V \subseteq U, NEW B, B \subseteq A, NEW kn2, kn \subseteq kn2
  PROVE  Link(V, B, S, got, kn2, q)
BY DEF Link, Fresh

LEMMA LinkStart ==
  ASSUME NEW U, NEW S, IsSeq(S), S # <<>>, NEW got, NEW kn, NEW q, Link(U, {}, S, got, kn, q)
  PROVE  Link(U, OnlyPacket(Head(S)), Tail(S), got, kn, q)
<1>. DEFINE T == Tail(S)
            A == OnlyPacket(Head(S))
<1>1. /\ Len(S) \in Nat /\ Len(S) >= 1 /\ DOMAIN S = 1..Len(S) /\ DOMAIN T = 1..(Len(S) - 1)
      /\ Head(S) = S[1] /\ \A i \in 1..(Len(S) - 1) : T[i] = S[i + 1]
  BY Taken
<1>. HIDE DEF T
<1>2. \A i \in DOMAIN T : i + 1 \in DOMAIN S /\ T[i] = S[i + 1] /\ 1 < i + 1 /\ 1 \in DOMAIN S
  BY <1>1
<1>3. Packets(T) \subseteq Packets(S)
  BY <1>2 DEF Packets
<1>4. A \subseteq Packets(S)
  BY <1>1 DEF Packets, OnlyPacket
<1>5. \A f \in A : \A g \in Packets(T) : After(f, g)
  BY <1>1, <1>2 DEF Packets, OnlyPacket, Link
<1>6. ASSUME NEW i \in DOMAIN T, NEW j \in DOMAIN T, i < j, IsPacket(T[i]), IsPacket(T[j])
      PROVE  After(T[i], T[j])
  <2>1. i + 1 < j + 1
    BY <1>1, <1>6
  <2>. QED  BY <1>2, <1>6, <2>1 DEF Link
<1>7. \A f \in U, g \in A : After(f, g)
  BY <1>4 DEF Link
<1>8. \A f \in U \cup A, g \in Packets(T) : After(f, g)
  BY <1>3, <1>5 DEF Link
<1>9. \A g \in U \cup A \cup Packets(T) : Beyond(q, g) /\ \A x \in got : Fresh(x, g, kn)
  BY <1>3, <1>4 DEF Link
<1>. QED  BY <1>6, <1>7, <1>8, <1>9 DEF Link, T

\* The frame has ended, and the decider hands it over.
LEMMA LinkEnd ==
  ASSUME NEW A, NEW S, NEW got, NEW kn, NEW q, Link({}, A, S, got, kn, q)
  PROVE  Link(A, {}, S, got, kn, q)
BY DEF Link

\* The packet of f is passed up; the MAC knows it afterwards if it may come again.
LEMMA LinkTaken ==
  ASSUME NEW f, f.id \in Nat, NEW A, NEW S, NEW got, NEW kn, NEW q, InOrder(q), Link({f}, A, S, got, kn, q),
         got \subseteq Nat, \A g \in A \cup Packets(S) : g.id \in Nat,
         NEW kn2, \/ f.kind # "DATA" /\ kn \subseteq kn2
                  \/ f.kind = "DATA" /\ f.id \in kn2 /\ ~(f.retry /\ f.id \in kn)
  PROVE  Link({}, A, S, got \cup {f.id}, kn2, q) /\ f.id \notin got
<1>1. \A x \in got : x < f.id \/ (x = f.id /\ f.kind = "DATA" /\ f.retry /\ f.id \in kn)
  BY DEF Link, Fresh
<1>2. \A x \in got : x < f.id \/ (f.kind # "DATA" /\ kn \subseteq kn2)
  BY <1>1
<1>3. f.id \notin got
  <2>. SUFFICES ASSUME f.id \in got PROVE FALSE
    OBVIOUS
  <2>1. f.id < f.id \/ (f.kind = "DATA" /\ f.retry /\ f.id \in kn)
    BY <1>1
  <2>2. ~(f.id < f.id)
    OBVIOUS
  <2>. QED  BY <2>1, <2>2
<1>4. \A x \in got : x < f.id
  BY <1>1
<1>5. \A g \in A \cup Packets(S) : After(f, g)
  BY DEF Link
<1>6. ASSUME NEW g \in A \cup Packets(S), NEW x \in got \cup {f.id}
      PROVE  Fresh(x, g, kn2)
  <2>1. CASE x = f.id
    BY <1>5, <2>1 DEF After, Fresh
  <2>2. CASE x # f.id
    <3>1. x < f.id /\ x \in Nat /\ g.id \in Nat /\ f.id <= g.id
      BY <1>4, <1>5, <2>2 DEF After
    <3>. QED  BY <3>1 DEF Fresh
  <2>. QED  BY <2>1, <2>2
<1>7. Beyond(q, f)
  BY DEF Link
<1>8. \A i \in DOMAIN q : q[i].id \in Nat /\ (f.id < q[i].id \/ f.id = q[1].id)
  <2>1. \A i \in DOMAIN q : q[i] \in Packet
    BY ElementOfSeq, LenProperties DEF InOrder
  <2>. QED  BY <1>7, <2>1, QueueFront DEF Beyond, Newer, Again, Packet
<1>9. ASSUME NEW x \in got PROVE Newer(q, x)
  <2>1. x < f.id /\ x \in Nat
    BY <1>4
  <2>2. ASSUME NEW i \in DOMAIN q PROVE x < q[i].id
    <3>1. CASE Newer(q, f.id)
      <4>1. f.id < q[i].id /\ q[i].id \in Nat
        BY <1>8, <3>1 DEF Newer
      <4>. QED  BY <2>1, <4>1
    <3>2. CASE Again(q, f.id)
      <4>1. q # <<>> /\ f.id = q[1].id /\ 1 \in DOMAIN q
        BY <3>2, QueueFront DEF Again
      <4>2. i = 1 \/ q[1].id < q[i].id
        <5>1. i = 1 \/ 1 < i
          BY LenProperties DEF InOrder
        <5>. QED  BY <4>1, <5>1 DEF InOrder
      <4>3. q[i].id \in Nat
        BY <1>8
      <4>. QED  BY <2>1, <4>1, <4>2, <4>3
    <3>. QED  BY <1>7, <3>1, <3>2 DEF Beyond
  <2>. QED  BY <2>2 DEF Newer
<1>10. Newer(q, f.id) \/ (f.id \in kn2 /\ Again(q, f.id))
  BY <1>7 DEF Beyond
<1>11. /\ \A h \in {} \cup A, g \in Packets(S) : After(h, g)
       /\ \A i, j \in DOMAIN S : i < j /\ IsPacket(S[i]) /\ IsPacket(S[j]) => After(S[i], S[j])
       /\ \A g \in A \cup Packets(S) : Beyond(q, g)
  BY DEF Link
<1>12. Link({}, A, S, got \cup {f.id}, kn2, q)
  BY <1>6, <1>9, <1>10, <1>11 DEF Link
<1>. QED  BY <1>3, <1>12

\* The queue goes on.
LEMMA LinkKeeps ==
  ASSUME NEW U, NEW A, NEW S, NEW got, NEW kn, NEW q, Link(U, A, S, got, kn, q), NEW h,
         got \subseteq 0..h, \A g \in U \cup A \cup Packets(S) : g.id \in 0..h, NEW p,
         \A x \in 0..h : /\ Newer(q, x) => Newer(p, x)
                         /\ Again(q, x) => Newer(p, x) \/ Again(p, x)
  PROVE  Link(U, A, S, got, kn, p)
<1>1. \A g \in U \cup A \cup Packets(S) : Beyond(p, g)
  BY DEF Link, Beyond
<1>2. \A x \in got : Newer(p, x) \/ (x \in kn /\ Again(p, x))
  BY DEF Link
<1>. QED  BY <1>1, <1>2 DEF Link

\* Frame f is sent from the queue q, which leaves p.
LEMMA LinkSend ==
  ASSUME NEW U, NEW A, NEW S, IsSeq(S), NEW got, NEW kn, NEW q, Link(U, A, S, got, kn, q),
         got \subseteq Nat, \A g \in U \cup A \cup Packets(S) : g.id \in Nat, NEW p,
         \A x \in Nat : /\ Newer(q, x) => Newer(p, x)
                        /\ Again(q, x) => Newer(p, x) \/ Again(p, x),
         NEW f,
         IsPacket(f) => /\ \A x \in Nat : /\ Newer(q, x) => x < f.id
                                          /\ Again(q, x) => x = f.id /\ f.kind = "DATA" /\ f.retry
                        /\ Newer(p, f.id) \/ (f.kind = "DATA" /\ Again(p, f.id))
  PROVE  Link(U, A, Append(S, f), got, kn, p)
<1>. DEFINE T == Append(S, f)
<1>1. /\ Len(S) \in Nat /\ DOMAIN S = 1..Len(S) /\ DOMAIN T = 1..(Len(S) + 1)
      /\ T[Len(S) + 1] = f /\ \A i \in 1..Len(S) : T[i] = S[i]
  BY Appended
<1>. HIDE DEF T
<1>2. \A g \in U \cup A \cup Packets(S) : IsPacket(f) => After(g, f)
  BY DEF Link, Beyond, After
<1>3. \A x \in got : IsPacket(f) => Fresh(x, f, kn)
  BY DEF Link, Fresh
<1>4. \A g \in Packets(T) : g \in Packets(S) \/ (g = f /\ IsPacket(f))
  BY <1>1 DEF Packets
<1>5. \A g \in U \cup A \cup Packets(S) : Beyond(p, g)
  BY DEF Link, Beyond
<1>6. \A x \in got : Newer(p, x) \/ (x \in kn /\ Again(p, x))
  BY DEF Link
<1>7. IsPacket(f) => Beyond(p, f)
  BY DEF Beyond
<1>8. ASSUME NEW i \in DOMAIN T, NEW j \in DOMAIN T, i < j, IsPacket(T[i]), IsPacket(T[j])
      PROVE  After(T[i], T[j])
  <2>1. i \in DOMAIN S /\ T[i] = S[i] /\ ((j \in DOMAIN S /\ T[j] = S[j]) \/ T[j] = f)
    BY <1>1, <1>8
  <2>2. CASE j \in DOMAIN S /\ T[j] = S[j]
    BY <1>8, <2>1, <2>2 DEF Link
  <2>3. CASE T[j] = f
    BY <1>2, <1>8, <2>1, <2>3 DEF Packets
  <2>. QED  BY <2>1, <2>2, <2>3
<1>9. \A h \in U \cup A, g \in Packets(T) : After(h, g)
  BY <1>2, <1>4 DEF Link
<1>10. \A g \in U \cup A \cup Packets(T) : Beyond(p, g) /\ \A x \in got : Fresh(x, g, kn)
  BY <1>3, <1>4, <1>5, <1>7 DEF Link
<1>. QED  BY <1>6, <1>8, <1>9, <1>10 DEF Link, T

-----------------------------------------------------------------------------
(* The nics *)

HeardBy(n) == {s \in Node \ {n} : Power[s][n] > 0}

\* A frame of s, heard by n; o[x] is the node whose network layer handed packet x in.
FrameOK(f, s, n, o) ==
  /\ FrameShape(f) /\ f.src = s /\ s \in HeardBy(n)
  /\ IsPacket(f) => f.id \in DOMAIN o /\ o[f.id] = s

NicFields == {"radioState", "switchTimer", "txOverTimer", "recvBuff", "ptr", "sList", "missed",
              "noiseLevel", "rssi", "indication"}

NicOK(nc, n, o) ==
  /\ NicFields \subseteq DOMAIN nc
  /\ nc.ptr # NoFrame => nc.ptr \in DOMAIN nc.recvBuff /\ nc.indication = "BUSY"
  /\ nc.indication \in {"IDLE", "BUSY"}
  /\ nc.radioState \in Steady \cup DOMAIN Switching
  /\ nc.switchTimer # Off => nc.radioState \in DOMAIN Switching
  /\ \A s \in DOMAIN nc.recvBuff : /\ {"frame", "left"} \subseteq DOMAIN nc.recvBuff[s]
                                   /\ nc.recvBuff[s].left \in Nat /\ FrameOK(nc.recvBuff[s].frame, s, n, o)

\* nd differs from nc in the fields C at most.
NicAlters(nc, nd, C) ==
  /\ NicFields \subseteq DOMAIN nc /\ NicFields \subseteq DOMAIN nd
  /\ \A x \in NicFields \ C : nd[x] = nc[x]

LEMMA Switches ==
  /\ DOMAIN Switching = {"SWITCH_TO_SLEEP", "SWITCH_TO_RECV", "SWITCH_TO_SEND"}
  /\ Switching["SWITCH_TO_SLEEP"] = "SLEEP" /\ Switching["SWITCH_TO_RECV"] = "RECV"
  /\ Switching["SWITCH_TO_SEND"] = "SEND"
  /\ Steady \cap DOMAIN Switching = {} /\ "RECV" \in Steady
BY DEF Switching, Steady

LEMMA addNewSnrOK ==
  ASSUME NEW nc, NEW n, NicFields \subseteq DOMAIN nc
  PROVE  NicAlters(nc, addNewSnr(nc, n), {"sList"})
BY DEF addNewSnr, NicAlters, NicFields

Measured == {"sList", "missed", "noiseLevel", "rssi", "indication"}

\* Frame f of s, which lasts t, has begun.
Started(nc, nd, n, s, f, t) ==
  /\ NicAlters(nc, nd, Measured \cup {"recvBuff", "ptr"})
  /\ DOMAIN nd.recvBuff = DOMAIN nc.recvBuff \cup {s}
  /\ nd.recvBuff[s].frame = f /\ nd.recvBuff[s].left = t /\ {"frame", "left"} \subseteq DOMAIN nd.recvBuff[s]
  /\ \A x \in DOMAIN nc.recvBuff : nd.recvBuff[x] = nc.recvBuff[x]
  /\ IF IsSignal(nc, n, s) THEN nd.ptr = s /\ nd.indication = "BUSY"
     ELSE nd.ptr = nc.ptr /\ nd.indication = nc.indication

\* The frame of s has ended.
Ended(nc, nd, s) ==
  /\ NicAlters(nc, nd, Measured \cup {"recvBuff", "ptr"})
  /\ DOMAIN nd.recvBuff = DOMAIN nc.recvBuff \ {s}
  /\ \A x \in DOMAIN nc.recvBuff \ {s} : nd.recvBuff[x] = nc.recvBuff[x]
  /\ IF s = nc.ptr THEN nd.ptr = NoFrame /\ nd.indication = "IDLE"
     ELSE nd.ptr = nc.ptr /\ nd.indication = nc.indication

LEMMA FrameStartOK ==
  ASSUME NEW nc, NicFields \subseteq DOMAIN nc, NEW n, NEW s, s \notin DOMAIN nc.recvBuff, NEW f, NEW t
  PROVE  Started(nc, handleLowerMsgStart(nc, n, s, f, t), n, s, f, t)
<1>. DEFINE entry == [frame |-> f, left |-> t, duration |-> t]
            buff == [x \in DOMAIN nc.recvBuff \cup {s} |-> IF x = s THEN entry ELSE nc.recvBuff[x]]
            heard == Heard(nc, s, f, t)
            noisier == [heard EXCEPT !.noiseLevel = @ + Power[s][n], !.rssi = @ + heard.noiseLevel + Power[s][n]]
            caught == [heard EXCEPT !.ptr = s, !.sList = <<>>, !.missed = 0]
            listed == addNewSnr(caught, n)
            signal == [listed EXCEPT !.rssi = @ + Power[s][n], !.indication = "BUSY"]
            nd == handleLowerMsgStart(nc, n, s, f, t)
            Shape(d) == /\ NicAlters(nc, d, Measured \cup {"recvBuff", "ptr"}) /\ d.recvBuff = buff
<1>1. nd = IF IsSignal(nc, n, s) THEN signal
           ELSE IF nc.ptr = NoFrame THEN noisier ELSE addNewSnr(noisier, n)
  BY DEF handleLowerMsgStart
<1>2. heard = [nc EXCEPT !.recvBuff = buff]
  BY DEF Heard
<1>3. /\ DOMAIN buff = DOMAIN nc.recvBuff \cup {s} /\ buff[s].frame = f /\ buff[s].left = t
      /\ {"frame", "left"} \subseteq DOMAIN buff[s]
      /\ \A x \in DOMAIN nc.recvBuff : buff[x] = nc.recvBuff[x]
  OBVIOUS
<1>. HIDE DEF buff, nd, heard
<1>4. NicAlters(nc, heard, {"recvBuff"}) /\ heard.recvBuff = buff
  BY <1>2 DEF NicAlters, NicFields
<1>5. NicAlters(heard, noisier, {"noiseLevel", "rssi"})
  BY <1>4 DEF NicAlters, NicFields
<1>6. NicAlters(heard, caught, {"ptr", "sList", "missed"}) /\ caught.ptr = s
  BY <1>4 DEF NicAlters, NicFields
<1>. HIDE DEF noisier, caught
<1>7. NicAlters(noisier, addNewSnr(noisier, n), {"sList"}) /\ NicAlters(caught, listed, {"sList"})
  BY <1>5, <1>6, addNewSnrOK DEF NicAlters
<1>. HIDE DEF listed
<1>8. NicAlters(listed, signal, {"rssi", "indication"}) /\ signal.indication = "BUSY"
  BY <1>7 DEF NicAlters, NicFields
<1>. HIDE DEF signal
<1>9. NicAlters(heard, signal, {"rssi", "indication", "sList", "ptr", "missed"}) /\ signal.ptr = s
  BY <1>6, <1>7, <1>8 DEF NicAlters, NicFields
<1>10. NicAlters(heard, addNewSnr(noisier, n), {"noiseLevel", "rssi", "sList"})
  BY <1>5, <1>7 DEF NicAlters
<1>11. CASE IsSignal(nc, n, s)
  <2>1. NicAlters(nc, nd, Measured \cup {"recvBuff", "ptr"}) /\ nd.recvBuff = buff
    BY <1>1, <1>4, <1>9, <1>11 DEF NicAlters, NicFields, Measured
  <2>2. Started(nc, nd, n, s, f, t)
    BY <1>1, <1>3, <1>8, <1>9, <1>11, <2>1 DEF Started
  <2>. QED  BY <2>2 DEF nd
<1>12. CASE ~IsSignal(nc, n, s)
  <2>1. NicAlters(heard, nd, {"noiseLevel", "rssi", "sList"})
    <3>1. NicAlters(heard, noisier, {"noiseLevel", "rssi", "sList"})
      BY <1>5 DEF NicAlters
    <3>. QED  BY <1>1, <1>10, <1>12, <3>1
  <2>2. NicAlters(nc, nd, Measured \cup {"recvBuff", "ptr"}) /\ nd.recvBuff = buff
        /\ nd.ptr = nc.ptr /\ nd.indication = nc.indication
    BY <1>4, <2>1 DEF NicAlters, NicFields, Measured
  <2>3. Started(nc, nd, n, s, f, t)
    BY <1>3, <1>12, <2>2 DEF Started
  <2>. QED  BY <2>3 DEF nd
<1>. QED  BY <1>11, <1>12

LEMMA FrameEndOK ==
  ASSUME NEW nc, NicFields \subseteq DOMAIN nc, NEW n, NEW s
  PROVE  Ended(nc, handleLowerMsgEnd(nc, n, s), s)
<1>. DEFINE left == Restrict(nc.recvBuff, DOMAIN nc.recvBuff \ {s})
            gone == [nc EXCEPT !.recvBuff = left]
            quieter == [gone EXCEPT !.noiseLevel = @ - Power[s][n], !.rssi = nc.noiseLevel - Power[s][n]]
            ended == [gone EXCEPT !.ptr = NoFrame, !.sList = <<>>, !.missed = 0,
                                  !.rssi = nc.noiseLevel, !.indication = "IDLE"]
            nd == handleLowerMsgEnd(nc, n, s)
<1>1. DOMAIN left = DOMAIN nc.recvBuff \ {s} /\ \A x \in DOMAIN left : left[x] = nc.recvBuff[x]
  BY DEF Restrict
<1>2. nd = IF s = nc.ptr THEN ended ELSE IF nc.ptr = NoFrame THEN quieter ELSE addNewSnr(quieter, n)
  BY DEF handleLowerMsgEnd
<1>. HIDE DEF left, nd
<1>3. NicAlters(nc, gone, {"recvBuff"}) /\ gone.recvBuff = left
  BY DEF NicAlters, NicFields
<1>. HIDE DEF gone
<1>4. /\ NicAlters(gone, quieter, {"noiseLevel", "rssi"})
      /\ NicAlters(gone, ended, {"ptr", "sList", "missed", "rssi", "indication"})
      /\ ended.ptr = NoFrame /\ ended.indication = "IDLE"
  BY <1>3 DEF NicAlters, NicFields
<1>. HIDE DEF quieter, ended
<1>5. NicAlters(quieter, addNewSnr(quieter, n), {"sList"})
  BY <1>4, addNewSnrOK DEF NicAlters
<1>6. CASE s = nc.ptr
  <2>1. NicAlters(nc, nd, Measured \cup {"recvBuff", "ptr"}) /\ nd.recvBuff = left
    BY <1>2, <1>3, <1>4, <1>6 DEF NicAlters, NicFields, Measured
  <2>2. Ended(nc, nd, s)
    BY <1>1, <1>2, <1>4, <1>6, <2>1 DEF Ended
  <2>. QED  BY <2>2 DEF nd
<1>7. CASE s # nc.ptr
  <2>1. NicAlters(gone, nd, {"noiseLevel", "rssi", "sList"})
    BY <1>2, <1>4, <1>5, <1>7 DEF NicAlters
  <2>2. NicAlters(nc, nd, Measured \cup {"recvBuff", "ptr"}) /\ nd.recvBuff = left
        /\ nd.ptr = nc.ptr /\ nd.indication = nc.indication
    BY <1>3, <2>1 DEF NicAlters, NicFields, Measured
  <2>3. Ended(nc, nd, s)
    BY <1>1, <1>7, <2>2 DEF Ended
  <2>. QED  BY <2>3 DEF nd
<1>. QED  BY <1>6, <1>7

LEMMA SwitchedOK ==
  ASSUME NEW nc, NEW n, NEW o, NicOK(nc, n, o), nc.switchTimer = 0
  PROVE  LET nd == SwitchDone(nc)
         IN  /\ NicOK(nd, n, o)
             /\ NicAlters(nc, nd, {"radioState", "switchTimer", "sList", "missed"})
             /\ nd.radioState = "RECV" <=> nc.radioState = "SWITCH_TO_RECV"
<1>. DEFINE done == [nc EXCEPT !.radioState = Switching[nc.radioState], !.switchTimer = Off]
            nd == SwitchDone(nc)
<1>1. nc.radioState \in DOMAIN Switching /\ NicFields \subseteq DOMAIN nc
  BY DEF NicOK, Off
<1>2. /\ NicAlters(nc, done, {"radioState", "switchTimer"})
      /\ done.radioState = Switching[nc.radioState] /\ done.switchTimer = Off
  BY <1>1 DEF NicAlters, NicFields
<1>3. nd = IF done.radioState = "RECV" THEN EnterRecv(done) ELSE done
  BY DEF SwitchDone
<1>. HIDE DEF done
<1>4. NicAlters(done, EnterRecv(done), {"sList", "missed"})
  BY <1>2 DEF EnterRecv, NicAlters, NicFields
<1>5. NicAlters(done, nd, {"sList", "missed"})
  BY <1>2, <1>3, <1>4 DEF NicAlters
<1>. HIDE DEF nd
<1>6. /\ NicAlters(nc, nd, {"radioState", "switchTimer", "sList", "missed"})
      /\ nd.radioState = Switching[nc.radioState] /\ nd.switchTimer = Off
  BY <1>2, <1>5 DEF NicAlters, NicFields
<1>7. /\ nd.recvBuff = nc.recvBuff /\ nd.ptr = nc.ptr /\ nd.indication = nc.indication
      /\ NicFields \subseteq DOMAIN nd
  BY <1>6 DEF NicAlters, NicFields
<1>8. Switching[nc.radioState] \in Steady /\ (Switching[nc.radioState] = "RECV" <=> nc.radioState = "SWITCH_TO_RECV")
  BY <1>1, Switches DEF Steady
<1>9. NicOK(nd, n, o)
  BY <1>6, <1>7, <1>8 DEF NicOK
<1>. QED  BY <1>6, <1>8, <1>9 DEF nd

Commands == {"none", "SWITCH_TO_SEND", "SWITCH_TO_RECV"}

LEMMA CommandedOK ==
  ASSUME NEW nc, NEW n, NEW o, NicOK(nc, n, o), NEW m, m.cmd \in Commands, NEW t
  PROVE  LET radio == Commanded(nc, m)
             nd == [radio EXCEPT !.txOverTimer = t]
             Same(x) == /\ NicOK(x, n, o) /\ NicAlters(nc, x, {"radioState", "switchTimer", "txOverTimer"})
                        /\ x.radioState = "RECV" => nc.radioState = "RECV"
         IN  Same(radio) /\ Same(nd)
<1>. DEFINE radio == Commanded(nc, m)
            nd == [radio EXCEPT !.txOverTimer = t]
            Same(x) == /\ NicOK(x, n, o) /\ NicAlters(nc, x, {"radioState", "switchTimer", "txOverTimer"})
                       /\ x.radioState = "RECV" => nc.radioState = "RECV"
<1>1. CASE radio = nc
  BY <1>1 DEF NicOK, NicAlters, NicFields
<1>2. CASE radio # nc
  <2>. DEFINE w == [nc EXCEPT !.radioState = m.cmd, !.switchTimer = SwitchTime(m.cmd)]
  <2>1. m.cmd \in DOMAIN Switching /\ m.cmd # "RECV" /\ radio = w
    BY <1>2, Switches DEF Commanded, switchTo, Commands
  <2>2. NicAlters(nc, w, {"radioState", "switchTimer"}) /\ w.radioState = m.cmd
    BY DEF NicAlters, NicFields, NicOK
  <2>. HIDE DEF w, radio
  <2>3. NicAlters(radio, nd, {"txOverTimer"})
    BY <2>1, <2>2 DEF NicAlters, NicFields
  <2>. HIDE DEF nd
  <2>4. /\ NicAlters(nc, radio, {"radioState", "switchTimer", "txOverTimer"}) /\ radio.radioState = m.cmd
        /\ NicAlters(nc, nd, {"radioState", "switchTimer", "txOverTimer"}) /\ nd.radioState = m.cmd
    BY <2>1, <2>2, <2>3 DEF NicAlters, NicFields
  <2>5. /\ radio.recvBuff = nc.recvBuff /\ radio.ptr = nc.ptr /\ radio.indication = nc.indication
        /\ nd.recvBuff = nc.recvBuff /\ nd.ptr = nc.ptr /\ nd.indication = nc.indication
        /\ NicFields \subseteq DOMAIN nd /\ NicFields \subseteq DOMAIN radio
    BY <2>4 DEF NicAlters, NicFields
  <2>6. NicOK(radio, n, o)
    BY <2>1, <2>4, <2>5 DEF NicOK
  <2>7. NicOK(nd, n, o)
    BY <2>1, <2>4, <2>5 DEF NicOK
  <2>. QED  BY <2>1, <2>4, <2>6, <2>7 DEF radio, nd
<1>. QED  BY <1>1, <1>2

-----------------------------------------------------------------------------
(* The inductive invariant *)

\* What the decider, or the nic at the end of a frame, has sent to the MAC
FromAir(x) == x.kind # "TRANSMISSION_OVER"

MessageOK(x, n, o) == x.kind \in {"BITERROR", "TRANSMISSION_OVER"} \/ FrameOK(x, x.src, n, o)

\* Between two events nothing is left to be carried out.
MacIdle(m, n, o) ==
  /\ MacOK(m) /\ m.tx = <<>> /\ m.up = <<>> /\ m.cmd = "none"
  /\ \A x \in Ids(m.fromUpperLayer) : x \in DOMAIN o /\ o[x] = n
  /\ Neighborhood(m.neighbors, HeardBy(n))

InboxOK(q, n, o) == IsSeq(q) /\ \A i \in DOMAIN q : MessageOK(q[i], n, o)

StartsOK(a, n, o) ==
  /\ DOMAIN a = Node
  /\ \A s \in Node : IsSeq(a[s]) /\ \A i \in DOMAIN a[s] : FrameOK(a[s][i], s, n, o)

UpOK(r, o) ==
  /\ IsSeq(r) /\ \A i \in DOMAIN r : r[i] \in DOMAIN o
  /\ \A i, j \in DOMAIN r : r[i] = r[j] => i = j

\* A frame that begins while the MAC has one to handle, or waits for the end of
\* a SIFS, ends after the SIFS.
TimingOK(m, nc, q) ==
  /\ \A i, j \in DOMAIN q : FromAir(q[i]) /\ FromAir(q[j]) => i = j
  /\ \A i \in DOMAIN q : FromAir(q[i]) /\ nc.ptr # NoFrame => nc.recvBuff[nc.ptr].left > SIFS
  /\ m.endSifs # Off => \A i \in DOMAIN q : ~FromAir(q[i])
  /\ m.endSifs # Off /\ nc.ptr # NoFrame /\ nc.radioState = "RECV" => nc.recvBuff[nc.ptr].left > m.endSifs

Local(n, o, m, nc, q, a, r) ==
  /\ MacIdle(m, n, o) /\ NicOK(nc, n, o) /\ InboxOK(q, n, o) /\ StartsOK(a, n, o) /\ UpOK(r, o)
  /\ TimingOK(m, nc, q)

PacketsOf(q, n) == {q[i] : i \in {j \in DOMAIN q : IsPacket(q[j]) /\ q[j].src = n}}
OnAir(buff, n) == IF n \in DOMAIN buff THEN OnlyPacket(buff[n].frame) ELSE {}
Got(r, n, o) == {r[i] : i \in {j \in DOMAIN r : o[r[j]] = n}}
Known(s, n) == {x \in Nat : Knows(s, n, x)}

LinkOf(n, o, neighbors, buff, q, starts, r, queue) ==
  Link(PacketsOf(q, n), OnAir(buff, n), starts, Got(r, n, o), Known(neighbors, n), queue)

Typed ==
  /\ handedIn \in Nat
  /\ DOMAIN mac = Node /\ DOMAIN nic = Node /\ DOMAIN toMac = Node /\ DOMAIN arriving = Node
  /\ DOMAIN received = Node

Inv(o) ==
  /\ Typed /\ o \in [1..handedIn -> Node]
  /\ \A n \in Node : Local(n, o, mac[n], nic[n], toMac[n], arriving[n], received[n])
  /\ \A d, n \in Node :
        LinkOf(n, o, mac[d].neighbors, nic[d].recvBuff, toMac[d], arriving[d][n], received[d], Settled(mac[n]))

\* The nodes that handed the packets in are remembered, but not in a variable.
IInv == \E o \in [1..handedIn -> Node] : Inv(o)

-----------------------------------------------------------------------------
(* More packets handed in *)

Extends(o, o2) == DOMAIN o \subseteq DOMAIN o2 /\ \A x \in DOMAIN o : o2[x] = o[x]

LEMMA FrameExtends ==
  ASSUME NEW o, NEW o2, Extends(o, o2), NEW f, NEW s, NEW n, FrameOK(f, s, n, o)
  PROVE  FrameOK(f, s, n, o2)
BY DEF FrameOK, Extends

LEMMA NicExtends ==
  ASSUME NEW o, NEW o2, Extends(o, o2), NEW n, NEW nc, NicOK(nc, n, o)
  PROVE  NicOK(nc, n, o2)
BY FrameExtends DEF NicOK

LEMMA RestExtends ==
  ASSUME NEW o, NEW o2, Extends(o, o2), NEW n, NEW q, InboxOK(q, n, o), NEW a, StartsOK(a, n, o),
         NEW r, UpOK(r, o)
  PROVE  InboxOK(q, n, o2) /\ StartsOK(a, n, o2) /\ UpOK(r, o2)
<1>1. InboxOK(q, n, o2)
  BY FrameExtends DEF InboxOK, MessageOK
<1>2. StartsOK(a, n, o2)
  BY FrameExtends DEF StartsOK
<1>3. UpOK(r, o2)
  BY DEF UpOK, Extends
<1>. QED  BY <1>1, <1>2, <1>3

LEMMA LocalExtends ==
  ASSUME NEW o, NEW o2, Extends(o, o2), NEW n, NEW m, NEW nc, NEW q, NEW a, NEW r,
         Local(n, o, m, nc, q, a, r)
  PROVE  Local(n, o2, m, nc, q, a, r)
<1>1. MacIdle(m, n, o2)
  BY DEF Local, MacIdle, Extends
<1>2. NicOK(nc, n, o2)
  BY NicExtends DEF Local
<1>3. InboxOK(q, n, o2) /\ StartsOK(a, n, o2) /\ UpOK(r, o2)
  BY RestExtends DEF Local
<1>. QED  BY <1>1, <1>2, <1>3 DEF Local

LEMMA GotExtends ==
  ASSUME NEW o, NEW o2, Extends(o, o2), NEW n, NEW r, UpOK(r, o)
  PROVE  Got(r, n, o2) = Got(r, n, o)
<1>1. \A i \in DOMAIN r : o2[r[i]] = o[r[i]]
  BY DEF UpOK, Extends
<1>. QED  BY <1>1 DEF Got

\* All that is on its way, or there, was handed in.
LEMMA HandedIn ==
  ASSUME NEW h \in Nat, NEW o \in [1..h -> Node], NEW d, NEW m, NEW nc, NEW q, NEW a, NEW r,
         Local(d, o, m, nc, q, a, r), NEW n \in Node
  PROVE  /\ \A g \in PacketsOf(q, n) \cup OnAir(nc.recvBuff, n) \cup Packets(a[n]) :
               IsPacket(g) /\ g.src = n /\ g.id \in 0..h /\ g.id \in Nat /\ g.id \in DOMAIN o /\ o[g.id] = n
         /\ Got(r, n, o) \subseteq 0..h /\ Got(r, n, o) \subseteq Nat
<1>1. DOMAIN o \subseteq 0..h /\ DOMAIN o \subseteq Nat
  OBVIOUS
<1>2. \A f, s : FrameOK(f, s, d, o) /\ IsPacket(f) => f.src = s /\ f.id \in DOMAIN o /\ o[f.id] = s
  BY DEF FrameOK
<1>3. \A g \in PacketsOf(q, n) : IsPacket(g) /\ g.src = n /\ FrameOK(g, n, d, o)
  BY DEF PacketsOf, Local, InboxOK, MessageOK, IsPacket
<1>4. \A g \in OnAir(nc.recvBuff, n) : IsPacket(g) /\ FrameOK(g, n, d, o)
  BY DEF OnAir, OnlyPacket, Local, NicOK
<1>5. \A g \in Packets(a[n]) : IsPacket(g) /\ FrameOK(g, n, d, o)
  BY DEF Packets, Local, StartsOK
<1>6. Got(r, n, o) \subseteq DOMAIN o
  BY DEF Got, Local, UpOK
<1>. QED  BY <1>1, <1>2, <1>3, <1>4, <1>5, <1>6

-----------------------------------------------------------------------------
(* The end of an event *)

\* Effect of an event at n, which leaves the MAC m
Done(n, m) ==
  /\ DOMAIN mac' = Node /\ DOMAIN nic' = Node /\ DOMAIN arriving' = Node /\ DOMAIN received' = Node
  /\ \A k \in Node \ {n} : mac'[k] = mac[k] /\ nic'[k] = nic[k] /\ received'[k] = received[k]
  /\ MacOK(mac'[n]) /\ mac'[n].tx = <<>> /\ mac'[n].up = <<>> /\ mac'[n].cmd = "none"
  /\ mac'[n].fromUpperLayer = m.fromUpperLayer /\ Settled(mac'[n]) = Settled(m)
  /\ mac'[n].neighbors = m.neighbors /\ mac'[n].endSifs = m.endSifs
  /\ NicAlters(nic[n], nic'[n], {"radioState", "switchTimer", "txOverTimer"})
  /\ nic'[n].radioState = "RECV" => nic[n].radioState = "RECV"
  /\ received'[n] = received[n] \o m.up
  /\ IF m.tx = <<>> THEN arriving' = arriving
     ELSE \A d \in Node : arriving'[d] = IF n \in HeardBy(d) THEN [arriving[d] EXCEPT ![n] = Append(@, m.tx[1])]
                                         ELSE arriving[d]

LEMMA PutEffect ==
  ASSUME Typed, NEW n \in Node, NEW o, NicOK(nic[n], n, o), NEW m, MacOK(m), m.cmd \in Commands,
         Put(n, m, nic[n])
  PROVE  Done(n, m) /\ NicOK(nic'[n], n, o)
<1>. DEFINE nc == nic[n]
            radio == Commanded(nc, m)
            sending == m.tx # <<>>
            bad == sending /\ nc.txOverTimer # Off
            what == "txOverTimer scheduled twice"
            done == FailIf(m, bad, what)
            moved == IF radio.radioState # nc.radioState THEN TRUE ELSE done.switching
            left == [done EXCEPT !.cmd = "none", !.tx = <<>>, !.up = <<>>, !.dropped = <<>>, !.switching = moved]
            now == IF sending THEN [radio EXCEPT !.txOverTimer = Duration(m.tx[1])] ELSE radio
<1>1. /\ mac' = [mac EXCEPT ![n] = left] /\ nic' = [nic EXCEPT ![n] = now]
      /\ received' = [received EXCEPT ![n] = @ \o m.up]
      /\ IF m.tx = <<>> THEN UNCHANGED arriving ELSE Transmit(n, m.tx[1])
  BY DEF Put, Run
<1>2. /\ NicOK(now, n, o) /\ NicAlters(nc, now, {"radioState", "switchTimer", "txOverTimer"})
      /\ now.radioState = "RECV" => nc.radioState = "RECV"
  BY CommandedOK
<1>. HIDE DEF now, moved
<1>3. Base(done) /\ Alters(m, done, {"error"})
  <2>1. what \in Tolerated
    BY DEF Tolerated
  <2>. HIDE DEF bad, what
  <2>. QED  BY <2>1, FailIfOK DEF MacOK
<1>. HIDE DEF done
<1>4. /\ Alters(done, left, {"cmd", "tx", "up", "dropped", "switching"})
      /\ left.cmd = "none" /\ left.tx = <<>> /\ left.up = <<>>
  BY <1>3 DEF Alters, MacFields
<1>. HIDE DEF left
<1>5. /\ left.contention = m.contention /\ left.state = m.state /\ left.endSifs = m.endSifs
      /\ left.timeout = m.timeout /\ left.sifsFrame = m.sifsFrame /\ left.nav = m.nav
      /\ left.fromUpperLayer = m.fromUpperLayer /\ left.nextIsBroadcast = m.nextIsBroadcast
      /\ left.neighbors = m.neighbors
  BY <1>3, <1>4 DEF Alters, MacFields
<1>6. MacOK(left)
  <2>1. Base(left)
    BY <1>3, <1>4, SameQueue
  <2>2. Phase(left)
    BY <1>5 DEF MacOK, Phase
  <2>. QED  BY <2>1, <2>2 DEF MacOK
<1>7. Settled(left) = Settled(m)
  BY <1>5 DEF Settled
<1>8. mac'[n] = left /\ nic'[n] = now /\ received'[n] = received[n] \o m.up
  BY <1>1 DEF Typed
<1>9. /\ DOMAIN mac' = Node /\ DOMAIN nic' = Node /\ DOMAIN received' = Node
      /\ \A k \in Node \ {n} : mac'[k] = mac[k] /\ nic'[k] = nic[k] /\ received'[k] = received[k]
  BY <1>1 DEF Typed
<1>10. /\ DOMAIN arriving' = Node
       /\ IF m.tx = <<>> THEN arriving' = arriving
          ELSE \A d \in Node : arriving'[d] = IF n \in HeardBy(d) THEN [arriving[d] EXCEPT ![n] = Append(@, m.tx[1])]
                                              ELSE arriving[d]
  <2>1. CASE m.tx = <<>>
    BY <1>1, <2>1 DEF Typed
  <2>2. CASE m.tx # <<>>
    <3>. DEFINE f == m.tx[1]
    <3>1. arriving' = [d \in Node |-> IF d \in Reached(n) THEN [arriving[d] EXCEPT ![n] = Append(@, f)] ELSE arriving[d]]
      BY <1>1, <2>2 DEF Transmit
    <3>2. \A d \in Node : d \in Reached(n) <=> n \in HeardBy(d)
      BY DEF Reached, HeardBy
    <3>. HIDE DEF f
    <3>3. \A d \in Node : arriving'[d] = IF n \in HeardBy(d) THEN [arriving[d] EXCEPT ![n] = Append(@, f)] ELSE arriving[d]
      BY <3>1, <3>2
    <3>4. DOMAIN arriving' = Node
      BY <3>1
    <3>. QED  BY <2>2, <3>3, <3>4 DEF f
  <2>. QED  BY <2>1, <2>2
<1>. QED  BY <1>2, <1>4, <1>5, <1>6, <1>7, <1>8, <1>9, <1>10 DEF Done

LEMMA TimingKept ==
  ASSUME NEW m, NEW nc, NEW q, TimingOK(m, nc, q), NEW s, s.endSifs \in {m.endSifs, Off},
         NEW nd, nd.ptr = nc.ptr, nd.recvBuff = nc.recvBuff, nd.radioState = "RECV" => nc.radioState = "RECV"
  PROVE  TimingOK(s, nd, q)
BY DEF TimingOK

\* A frame f starts at d, after what of n was to start there.
LEMMA StartsAppended ==
  ASSUME NEW o, NEW d \in Node, NEW a, StartsOK(a, d, o), NEW n \in Node, NEW f, FrameOK(f, n, d, o),
         NEW b, DOMAIN b = Node, b[n] = Append(a[n], f), \A s \in Node \ {n} : b[s] = a[s]
  PROVE  StartsOK(b, d, o)
<1>. DEFINE x == Append(a[n], f)
<1>1. IsSeq(a[n])
  BY DEF StartsOK
<1>2. IsSeq(x) /\ \A i \in DOMAIN x : (i \in DOMAIN a[n] /\ x[i] = a[n][i]) \/ x[i] = f
  BY <1>1, Appended
<1>3. b[n] = x
  OBVIOUS
<1>. HIDE DEF x
<1>4. \A i \in DOMAIN x : FrameOK(x[i], n, d, o)
  BY <1>2 DEF StartsOK
<1>. QED  BY <1>2, <1>3, <1>4 DEF StartsOK

\* An event of the MAC of n that passes nothing up and takes no message
LEMMA EventOK ==
  ASSUME NEW o, Inv(o), NEW n \in Node, NEW m, MacOK(m), m.up = <<>>, m.neighbors = mac[n].neighbors,
         m.cmd \in Commands, m.endSifs \in {mac[n].endSifs, Off},
         NEW o2, Extends(o, o2), handedIn' \in Nat, o2 \in [1..handedIn' -> Node],
         \A x \in Ids(m.fromUpperLayer) : x \in DOMAIN o2 /\ o2[x] = n,
         Keeps(mac[n], m, handedIn),
         m.tx = <<>> \/ (Follows(mac[n], m) /\ \E f : m.tx = <<f>> /\ Sends(mac[n], m, f, n)),
         Put(n, m, nic[n]), toMac' = toMac
  PROVE  Inv(o2)'
<1>0. /\ Typed /\ o \in [1..handedIn -> Node] /\ handedIn \in Nat
      /\ \A k \in Node : Local(k, o, mac[k], nic[k], toMac[k], arriving[k], received[k])
  BY DEF Inv, Typed
<1>1. Done(n, m) /\ NicOK(nic'[n], n, o)
  BY <1>0, PutEffect DEF Local
<1>2. Typed'
  BY <1>0, <1>1 DEF Typed, Done
<1>3. NicOK(nic'[n], n, o2) /\ \A k \in Node : Local(k, o2, mac[k], nic[k], toMac[k], arriving[k], received[k])
  BY <1>0, <1>1, NicExtends, LocalExtends
<1>4. \A k \in Node : received'[k] = received[k]
  <2>1. IsSeq(received[n])
    BY <1>0 DEF Local, UpOK
  <2>2. received'[n] = received[n]
    BY <1>1, <2>1, NoneAppended DEF Done
  <2>. QED  BY <1>1, <2>2 DEF Done
<1>5. m.tx # <<>> => FrameShape(m.tx[1]) /\ m.tx[1].src = n /\ Sends(mac[n], m, m.tx[1], n)
                     /\ (IsPacket(m.tx[1]) => m.tx[1].id \in DOMAIN o2 /\ o2[m.tx[1].id] = n)
  <2>. SUFFICES ASSUME m.tx # <<>> PROVE FrameShape(m.tx[1]) /\ m.tx[1].src = n /\ Sends(mac[n], m, m.tx[1], n)
                     /\ (IsPacket(m.tx[1]) => m.tx[1].id \in DOMAIN o2 /\ o2[m.tx[1].id] = n)
    OBVIOUS
  <2>1. PICK f : m.tx = <<f>> /\ Sends(mac[n], m, f, n)
    OBVIOUS
  <2>2. IsPacket(f) => f.id \in DOMAIN o /\ o[f.id] = n
    BY <1>0, <2>1 DEF Sends, Local, MacIdle
  <2>3. m.tx[1] = f
    BY <2>1
  <2>. QED  BY <2>1, <2>2, <2>3 DEF Sends, Extends
<1>6. \A d \in Node : /\ StartsOK(arriving'[d], d, o2)
                      /\ \A k \in Node \ {n} : arriving'[d][k] = arriving[d][k]
                      /\ arriving'[d][n] = IF m.tx # <<>> /\ n \in HeardBy(d) THEN Append(arriving[d][n], m.tx[1])
                                           ELSE arriving[d][n]
  <2>. TAKE d \in Node
  <2>1. StartsOK(arriving[d], d, o2)
    BY <1>3 DEF Local
  <2>2. CASE m.tx # <<>> /\ n \in HeardBy(d)
    <3>1. FrameOK(m.tx[1], n, d, o2)
      BY <1>5, <2>2 DEF FrameOK
    <3>. DEFINE f == m.tx[1]
                a == arriving[d]
                b == arriving'[d]
    <3>2. b = [a EXCEPT ![n] = Append(@, f)]
      BY <1>1, <2>2 DEF Done
    <3>3. FrameOK(f, n, d, o2) /\ StartsOK(a, d, o2)
      BY <2>1, <3>1
    <3>. HIDE DEF f, a, b
    <3>4. DOMAIN b = Node /\ b[n] = Append(a[n], f) /\ \A k \in Node \ {n} : b[k] = a[k]
      BY <3>2, <3>3 DEF StartsOK
    <3>5. StartsOK(b, d, o2)
      BY <3>3, <3>4, StartsAppended
    <3>. QED  BY <2>2, <3>4, <3>5 DEF f, a, b
  <2>3. CASE ~(m.tx # <<>> /\ n \in HeardBy(d))
    <3>1. arriving'[d] = arriving[d]
      BY <1>1, <2>3 DEF Done
    <3>. QED  BY <2>1, <2>3, <3>1
  <2>. QED  BY <2>2, <2>3
<1>7. ASSUME NEW k \in Node PROVE Local(k, o2, mac'[k], nic'[k], toMac'[k], arriving'[k], received'[k])
  <2>1. CASE k # n
    <3>1. mac'[k] = mac[k] /\ nic'[k] = nic[k] /\ toMac'[k] = toMac[k] /\ received'[k] = received[k]
      BY <1>1, <2>1 DEF Done
    <3>. QED  BY <1>3, <1>6, <3>1 DEF Local
  <2>2. CASE k = n
    <3>1. MacIdle(mac'[n], n, o2)
      BY <1>1, <1>3 DEF Done, MacIdle, Local
    <3>2. TimingOK(mac'[n], nic'[n], toMac[n])
      <4>1. nic'[n].ptr = nic[n].ptr /\ nic'[n].recvBuff = nic[n].recvBuff
        BY <1>1 DEF Done, NicAlters, NicFields
      <4>. QED  BY <1>1, <1>3, <4>1, TimingKept DEF Done, Local
    <3>. QED  BY <1>3, <1>4, <1>6, <2>2, <3>1, <3>2 DEF Local
  <2>. QED  BY <2>1, <2>2
<1>8. ASSUME NEW d \in Node, NEW k \in Node
      PROVE  LinkOf(k, o2, mac'[d].neighbors, nic'[d].recvBuff, toMac'[d], arriving'[d][k], received'[d], Settled(mac'[k]))
  <2>. DEFINE U == PacketsOf(toMac[d], k)
              A == OnAir(nic[d].recvBuff, k)
              S == arriving[d][k]
              got == Got(received[d], k, o)
              kn == Known(mac[d].neighbors, k)
              q == Settled(mac[k])
  <2>1. Link(U, A, S, got, kn, q)
    BY DEF Inv, LinkOf
  <2>2. mac'[d].neighbors = mac[d].neighbors /\ nic'[d].recvBuff = nic[d].recvBuff
    BY <1>1 DEF Done, NicAlters, NicFields
  <2>3. Got(received[d], k, o2) = got
    BY <1>0, GotExtends DEF Local
  <2>4. SUFFICES Link(U, A, arriving'[d][k], got, kn, Settled(mac'[k]))
    BY <1>4, <2>2, <2>3 DEF LinkOf
  <2>5. /\ \A g \in U \cup A \cup Packets(S) : g.id \in 0..handedIn /\ g.id \in Nat
        /\ got \subseteq 0..handedIn /\ got \subseteq Nat
    BY <1>0, HandedIn
  <2>6. CASE k # n
    BY <1>1, <1>6, <2>1, <2>6 DEF Done
  <2>7. CASE k = n
    <3>. HIDE DEF U, A, S, got, kn, q
    <3>. DEFINE p == Settled(m)
    <3>0. Settled(mac'[k]) = p /\ q = Settled(mac[n]) /\ S = arriving[d][n]
      BY <1>1, <2>7 DEF Done, q, S
    <3>1. CASE m.tx # <<>> /\ n \in HeardBy(d)
      <4>. DEFINE f == m.tx[1]
      <4>1. /\ \A x \in Nat : /\ Newer(q, x) => Newer(p, x)
                              /\ Again(q, x) => Newer(p, x) \/ Again(p, x)
        BY <3>0, <3>1 DEF Follows, Becomes
      <4>2. IsPacket(f) => /\ \A x \in Nat : /\ Newer(q, x) => x < f.id
                                             /\ Again(q, x) => x = f.id /\ f.kind = "DATA" /\ f.retry
                           /\ Newer(p, f.id) \/ (f.kind = "DATA" /\ Again(p, f.id))
        BY <1>5, <3>0, <3>1 DEF Sends
      <4>3. arriving'[d][k] = Append(S, f)
        BY <1>6, <2>7, <3>0, <3>1
      <4>4. IsSeq(S)
        BY <1>0, <3>0 DEF Local, StartsOK
      <4>. HIDE DEF f, p
      <4>5. Link(U, A, Append(S, f), got, kn, p)
        BY <2>1, <2>5, <4>1, <4>2, <4>4, LinkSend
      <4>. QED  BY <3>0, <4>3, <4>5
    <3>2. CASE ~(m.tx # <<>> /\ n \in HeardBy(d))
      <4>1. arriving'[d][k] = S
        BY <1>6, <2>7, <3>0, <3>2
      <4>2. /\ \A x \in 0..handedIn : /\ Newer(q, x) => Newer(p, x)
                                      /\ Again(q, x) => Newer(p, x) \/ Again(p, x)
        BY <3>0 DEF Keeps
      <4>. HIDE DEF p
      <4>3. \A g \in U \cup A \cup Packets(S) : g.id \in 0..handedIn
        BY <2>5
      <4>. DEFINE h == handedIn
      <4>4. /\ \A x \in 0..h : /\ Newer(q, x) => Newer(p, x)
                               /\ Again(q, x) => Newer(p, x) \/ Again(p, x)
            /\ got \subseteq 0..h /\ \A g \in U \cup A \cup Packets(S) : g.id \in 0..h
        BY <2>5, <4>2
      <4>. HIDE DEF h
      <4>5. Link(U, A, S, got, kn, p)
        BY <2>1, <4>4, LinkKeeps
      <4>. QED  BY <3>0, <4>1, <4>5
    <3>. QED  BY <3>1, <3>2
  <2>. QED  BY <2>6, <2>7
<1>. QED  BY <1>2, <1>7, <1>8 DEF Inv

LEMMA LinkOn ==
  ASSUME NEW h \in Nat, NEW o \in [1..h -> Node], NEW d, NEW m, NEW nc, NEW q, NEW a, NEW r,
         Local(d, o, m, nc, q, a, r), NEW k \in Node, NEW w, NEW w2, Becomes(w, w2), NEW nb,
         LinkOf(k, o, nb, nc.recvBuff, q, a[k], r, w)
  PROVE  LinkOf(k, o, nb, nc.recvBuff, q, a[k], r, w2)
<1>. DEFINE U == PacketsOf(q, k)
            A == OnAir(nc.recvBuff, k)
            S == a[k]
            got == Got(r, k, o)
            kn == Known(nb, k)
<1>1. /\ \A g \in U \cup A \cup Packets(S) : g.id \in 0..h
      /\ got \subseteq 0..h
  BY HandedIn
<1>2. Link(U, A, S, got, kn, w)
  BY DEF LinkOf
<1>. HIDE DEF U, A, S, got, kn
<1>3. \A x \in 0..h : /\ Newer(w, x) => Newer(w2, x)
                      /\ Again(w, x) => Newer(w2, x) \/ Again(w2, x)
  BY DEF Becomes
<1>4. Link(U, A, S, got, kn, w2)
  BY <1>1, <1>2, <1>3, LinkKeeps
<1>. QED  BY <1>4 DEF LinkOf, U, A, S, got, kn

-----------------------------------------------------------------------------
(* The MAC takes a message *)

LEMMA TimingTaken ==
  ASSUME NEW m, NEW nc, NEW q, IsSeq(q), q # <<>>, TimingOK(m, nc, q), NEW s,
         \/ s.endSifs = m.endSifs
         \/ FromAir(Head(q)) /\ s.endSifs \in {Off, SIFS},
         NEW nd, nd.ptr = nc.ptr, nd.recvBuff = nc.recvBuff, nd.radioState = "RECV" => nc.radioState = "RECV"
  PROVE  /\ TimingOK(s, nd, Tail(q))
         /\ FromAir(Head(q)) => m.endSifs = Off /\ \A i \in DOMAIN Tail(q) : ~FromAir(Tail(q)[i])
<1>. DEFINE t == Tail(q)
<1>1. /\ DOMAIN q = 1..Len(q) /\ Len(q) \in Nat /\ Len(q) >= 1 /\ DOMAIN t = 1..(Len(q) - 1)
      /\ Head(q) = q[1] /\ \A i \in 1..(Len(q) - 1) : t[i] = q[i + 1]
  BY Taken
<1>. HIDE DEF t
<1>2. \A i \in DOMAIN t : i + 1 \in DOMAIN q /\ t[i] = q[i + 1] /\ i + 1 # 1 /\ i \in Nat
  BY <1>1
<1>3. 1 \in DOMAIN q
  BY <1>1
<1>4. FromAir(Head(q)) => m.endSifs = Off /\ \A i \in DOMAIN t : ~FromAir(t[i])
  BY <1>1, <1>2, <1>3 DEF TimingOK
<1>5. FromAir(Head(q)) /\ nc.ptr # NoFrame => nc.recvBuff[nc.ptr].left > SIFS
  BY <1>1, <1>3 DEF TimingOK
<1>6. ASSUME NEW i \in DOMAIN t, NEW j \in DOMAIN t, FromAir(t[i]), FromAir(t[j]) PROVE i = j
  <2>1. i + 1 = j + 1
    BY <1>2, <1>6 DEF TimingOK
  <2>. QED  BY <1>2, <2>1
<1>7. \A i \in DOMAIN t : FromAir(t[i]) /\ nd.ptr # NoFrame => nd.recvBuff[nd.ptr].left > SIFS
  BY <1>2 DEF TimingOK
<1>8. s.endSifs # Off => \A i \in DOMAIN t : ~FromAir(t[i])
  BY <1>2, <1>4 DEF TimingOK
<1>9. s.endSifs # Off /\ nd.ptr # NoFrame /\ nd.radioState = "RECV" => nd.recvBuff[nd.ptr].left > s.endSifs
  BY <1>4, <1>5 DEF TimingOK
<1>. QED  BY <1>4, <1>6, <1>7, <1>8, <1>9 DEF TimingOK, t

\* Nothing is passed up, and nothing forgotten; or the packet of the frame is passed up.
TakesIn(m, s, af, n, o) ==
  \/ s.up = <<>> /\ \A b, y : Knows(m.neighbors, b, y) => Knows(s.neighbors, b, y)
  \/ /\ s.up = <<af.id>> /\ IsPacket(af) /\ FrameOK(af, af.src, n, o)
     /\ \A b, y : b # af.src => (Knows(m.neighbors, b, y) => Knows(s.neighbors, b, y))
     /\ \/ /\ af.kind # "DATA"
           /\ \A y : Knows(m.neighbors, af.src, y) => Knows(s.neighbors, af.src, y)
        \/ /\ af.kind = "DATA" /\ Knows(s.neighbors, af.src, af.id)
           /\ ~(af.retry /\ Knows(m.neighbors, af.src, af.id))

LEMMA MessageTaken ==
  ASSUME NEW o, Inv(o), NEW n \in Node, toMac[n] # <<>>, NEW m, MacOK(m), Follows(mac[n], m), m.tx = <<>>,
         m.cmd \in Commands, Neighborhood(m.neighbors, HeardBy(n)),
         NEW af, af = Head(toMac[n]), TakesIn(mac[n], m, af, n, o),
         \/ m.endSifs = mac[n].endSifs
         \/ FromAir(af) /\ m.endSifs \in {Off, SIFS},
         Put(n, m, nic[n]), toMac' = [toMac EXCEPT ![n] = Tail(@)], handedIn' = handedIn
  PROVE  Inv(o)'
<1>. DEFINE q == toMac[n]
            t == Tail(q)
<1>0. /\ Typed /\ o \in [1..handedIn -> Node] /\ handedIn \in Nat
      /\ \A k \in Node : Local(k, o, mac[k], nic[k], toMac[k], arriving[k], received[k])
  BY DEF Inv, Typed
<1>1. Done(n, m) /\ NicOK(nic'[n], n, o)
  BY <1>0, PutEffect DEF Local
<1>2. /\ toMac'[n] = t /\ \A k \in Node \ {n} : toMac'[k] = toMac[k]
      /\ DOMAIN toMac' = Node
  BY <1>0 DEF Typed
<1>3. Typed' /\ arriving' = arriving
  BY <1>0, <1>1, <1>2 DEF Typed, Done
<1>4. /\ IsSeq(q) /\ InboxOK(q, n, o)
  BY <1>0 DEF Local, InboxOK
<1>5. /\ IsSeq(t) /\ DOMAIN q = 1..Len(q) /\ Len(q) \in Nat /\ Len(q) >= 1 /\ DOMAIN t = 1..(Len(q) - 1)
      /\ Head(q) = q[1] /\ \A i \in 1..(Len(q) - 1) : t[i] = q[i + 1]
  BY <1>4, Taken
<1>6. /\ TimingOK(mac'[n], nic'[n], t)
      /\ FromAir(af) => mac[n].endSifs = Off /\ \A i \in DOMAIN t : ~FromAir(t[i])
  <2>1. nic'[n].ptr = nic[n].ptr /\ nic'[n].recvBuff = nic[n].recvBuff
    BY <1>1 DEF Done, NicAlters, NicFields
  <2>2. TimingOK(mac[n], nic[n], q) /\ mac'[n].endSifs = m.endSifs
        /\ (nic'[n].radioState = "RECV" => nic[n].radioState = "RECV")
    BY <1>0, <1>1 DEF Local, Done
  <2>. DEFINE s == mac'[n]
              nd == nic'[n]
              m0 == mac[n]
              nc == nic[n]
  <2>3. /\ TimingOK(m0, nc, q) /\ nd.ptr = nc.ptr /\ nd.recvBuff = nc.recvBuff
        /\ (nd.radioState = "RECV" => nc.radioState = "RECV")
        /\ (s.endSifs = m0.endSifs \/ (FromAir(Head(q)) /\ s.endSifs \in {Off, SIFS}))
    BY <2>1, <2>2
  <2>. HIDE DEF s, nd, m0, nc, q
  <2>4. /\ TimingOK(s, nd, Tail(q))
        /\ FromAir(Head(q)) => m0.endSifs = Off /\ \A i \in DOMAIN Tail(q) : ~FromAir(Tail(q)[i])
    BY <1>4, <2>3, TimingTaken DEF q
  <2>. QED  BY <2>4 DEF s, nd, m0, nc, q
<1>. HIDE DEF q, t
<1>7. \A i \in DOMAIN t : i + 1 \in DOMAIN q /\ t[i] = q[i + 1]
  BY <1>5
<1>8. InboxOK(t, n, o)
  BY <1>4, <1>5, <1>7 DEF InboxOK
<1>9. \A k : PacketsOf(t, k) \subseteq PacketsOf(q, k)
  BY <1>7 DEF PacketsOf
<1>10. af = q[1] /\ 1 \in DOMAIN q
  BY <1>5 DEF q
<1>11. ASSUME IsPacket(af)
       PROVE  PacketsOf(q, af.src) = {af} /\ PacketsOf(t, af.src) = {}
  <2>1. \A x : IsPacket(x) => FromAir(x)
    BY DEF IsPacket, FromAir
  <2>2. \A i \in DOMAIN t : ~IsPacket(t[i])
    BY <1>6, <1>11, <2>1
  <2>3. \A i \in DOMAIN q : i = 1 \/ (i - 1 \in DOMAIN t /\ t[i - 1] = q[i])
    BY <1>5
  <2>4. \A i \in DOMAIN q : IsPacket(q[i]) => i = 1
    BY <2>2, <2>3
  <2>. QED  BY <1>10, <1>11, <2>2, <2>4 DEF PacketsOf
<1>12. IsSeq(received[n]) /\ UpOK(received[n], o)
  BY <1>0 DEF Local, UpOK
<1>13. \A d \in Node : nic'[d].recvBuff = nic[d].recvBuff /\ \A k \in Node \ {n} : Settled(mac'[k]) = Settled(mac[k])
  BY <1>1 DEF Done, NicAlters, NicFields
\* The packet is new.
<1>14. ASSUME m.up = <<af.id>>, IsPacket(af), FrameOK(af, af.src, n, o)
       PROVE  /\ received'[n] = Append(received[n], af.id) /\ UpOK(received'[n], o)
              /\ LinkOf(af.src, o, m.neighbors, nic[n].recvBuff, t, arriving[n][af.src], received'[n],
                        Settled(mac[af.src]))
              /\ \A k : k # af.src => Got(received'[n], k, o) = Got(received[n], k, o)
  <2>. DEFINE k == af.src
              A == OnAir(nic[n].recvBuff, k)
              S == arriving[n][k]
              got == Got(received[n], k, o)
              kn == Known(mac[n].neighbors, k)
              kn2 == Known(m.neighbors, k)
              w == Settled(mac[k])
              r == received[n]
              x == af.id
  <2>1. received'[n] = Append(r, x)
    BY <1>1, <1>12, <1>14, NoneAppended DEF Done
  <2>2. k \in Node /\ x \in DOMAIN o /\ o[x] = k /\ x \in Nat
    BY <1>0, <1>14 DEF FrameOK, HeardBy
  <2>3. Link({af}, A, S, got, kn, w)
    BY <1>11, <1>14, <2>2 DEF Inv, LinkOf, q
  <2>4. got \subseteq Nat /\ \A g \in A \cup Packets(S) : g.id \in Nat
    BY <1>0, <2>2, HandedIn
  <2>5. InOrder(w)
    BY <1>0, <2>2, SettledInOrder DEF Local, MacIdle, MacOK
  <2>6. \/ af.kind # "DATA" /\ kn \subseteq kn2
        \/ af.kind = "DATA" /\ x \in kn2 /\ ~(af.retry /\ x \in kn)
    <3>1. m.up # <<>>
      BY <1>14
    <3>. QED  BY <2>2, <3>1 DEF TakesIn, Known
  <2>. HIDE DEF k, A, S, got, kn, kn2, w
  <2>7. Link({}, A, S, got \cup {x}, kn2, w) /\ x \notin got
    <3>1. af.id \in Nat
      BY <2>2
    <3>2. got \subseteq Nat /\ \A g \in A \cup Packets(S) : g.id \in Nat
      BY <2>4
    <3>3. \/ af.kind # "DATA" /\ kn \subseteq kn2
          \/ af.kind = "DATA" /\ af.id \in kn2 /\ ~(af.retry /\ af.id \in kn)
      BY <2>6
    <3>. QED  BY <2>3, <2>5, <3>1, <3>2, <3>3, LinkTaken
  <2>8. /\ IsSeq(Append(r, x)) /\ Len(r) \in Nat /\ DOMAIN r = 1..Len(r) /\ DOMAIN Append(r, x) = 1..(Len(r) + 1)
        /\ Append(r, x)[Len(r) + 1] = x /\ \A i \in 1..Len(r) : Append(r, x)[i] = r[i]
    BY <1>12, Appended
  <2>. HIDE DEF x
  <2>. DEFINE r2 == Append(r, x)
  <2>9. \A i \in DOMAIN r : r[i] # x
    BY <2>2, <2>7 DEF Got, got
  <2>. HIDE DEF r
  <2>10. /\ IsSeq(r2) /\ Len(r) \in Nat /\ DOMAIN r = 1..Len(r) /\ DOMAIN r2 = 1..(Len(r) + 1)
         /\ r2[Len(r) + 1] = x /\ \A i \in 1..Len(r) : r2[i] = r[i]
    BY <2>8
  <2>. HIDE DEF r2
  <2>11. \A i \in DOMAIN r2 : i = Len(r) + 1 \/ i \in DOMAIN r
    BY <2>10
  <2>12. UpOK(r, o)
    BY <1>12 DEF r
  <2>13. UpOK(r2, o)
    <3>1. \A i \in DOMAIN r2 : r2[i] \in DOMAIN o
      BY <2>2, <2>10, <2>11, <2>12 DEF UpOK
    <3>2. \A i, j \in DOMAIN r2 : r2[i] = r2[j] => i = j
      BY <2>9, <2>10, <2>11, <2>12 DEF UpOK
    <3>. QED  BY <2>10, <3>1, <3>2 DEF UpOK
  <2>14. Got(r2, k, o) = Got(r, k, o) \cup {x}
    BY <2>2, <2>10, <2>11 DEF Got
  <2>15. \A y : y # k => Got(r2, y, o) = Got(r, y, o)
    BY <2>2, <2>10, <2>11 DEF Got
  <2>16. Link({}, A, S, Got(r2, k, o), kn2, w)
    BY <2>7, <2>14 DEF got, r
  <2>17. PacketsOf(t, k) = {}
    BY <1>11, <1>14 DEF k
  <2>18. received'[n] = r2
    BY <2>1 DEF r2
  <2>. QED  BY <2>13, <2>15, <2>16, <2>17, <2>18 DEF LinkOf, k, A, S, kn2, w, r2, r, x
<1>15. UpOK(received'[n], o)
  <2>1. CASE m.up = <<>>
    BY <1>1, <1>12, <2>1, NoneAppended DEF Done
  <2>2. CASE m.up # <<>>
    BY <1>14, <2>2 DEF TakesIn
  <2>. QED  BY <2>1, <2>2
<1>16. ASSUME NEW k \in Node PROVE Local(k, o, mac'[k], nic'[k], toMac'[k], arriving'[k], received'[k])
  <2>1. CASE k # n
    <3>1. mac'[k] = mac[k] /\ nic'[k] = nic[k] /\ toMac'[k] = toMac[k] /\ received'[k] = received[k]
      BY <1>1, <1>2, <2>1 DEF Done
    <3>. QED  BY <1>0, <1>3, <3>1
  <2>2. CASE k = n
    <3>1. MacIdle(mac'[n], n, o)
      <4>1. \A x \in Ids(m.fromUpperLayer) : x \in DOMAIN o /\ o[x] = n
        <5>1. Ids(m.fromUpperLayer) \subseteq Ids(mac[n].fromUpperLayer)
          BY <1>0, FollowsKeeps DEF Local, MacIdle, MacOK
        <5>. QED  BY <1>0, <5>1 DEF Local, MacIdle
      <4>. QED  BY <1>1, <4>1 DEF Done, MacIdle
    <3>. QED  BY <1>0, <1>1, <1>2, <1>3, <1>6, <1>8, <1>15, <2>2, <3>1 DEF Local
  <2>. QED  BY <2>1, <2>2
<1>17. ASSUME NEW d \in Node, NEW k \in Node
       PROVE  LinkOf(k, o, mac'[d].neighbors, nic[d].recvBuff, toMac'[d], arriving[d][k], received'[d], Settled(mac[k]))
  <2>1. LinkOf(k, o, mac[d].neighbors, nic[d].recvBuff, toMac[d], arriving[d][k], received[d], Settled(mac[k]))
    BY DEF Inv
  <2>2. CASE d # n
    BY <1>1, <1>2, <2>1, <2>2 DEF Done
  <2>3. CASE d = n /\ m.up # <<>> /\ k = af.src
    <3>1. m.up = <<af.id>> /\ IsPacket(af) /\ FrameOK(af, af.src, n, o)
      BY <2>3 DEF TakesIn
    <3>. QED  BY <1>1, <1>2, <1>14, <2>3, <3>1 DEF Done
  <2>4. CASE d = n /\ (m.up = <<>> \/ k # af.src)
    <3>1. Known(mac[n].neighbors, k) \subseteq Known(m.neighbors, k)
      <4>1. CASE m.up = <<>>
        BY <4>1 DEF TakesIn, Known
      <4>2. CASE m.up # <<>>
        <5>1. \A y : Knows(mac[n].neighbors, k, y) => Knows(m.neighbors, k, y)
          BY <2>4, <4>2 DEF TakesIn
        <5>. QED  BY <5>1 DEF Known
      <4>. QED  BY <4>1, <4>2
    <3>2. Got(received'[n], k, o) = Got(received[n], k, o)
      <4>1. CASE m.up = <<>>
        BY <1>1, <1>12, <4>1, NoneAppended DEF Done
      <4>2. CASE m.up # <<>>
        BY <1>14, <2>4, <4>2 DEF TakesIn
      <4>. QED  BY <4>1, <4>2
    <3>3. PacketsOf(t, k) \subseteq PacketsOf(q, k)
      BY <1>9
    <3>4. mac'[n].neighbors = m.neighbors
      BY <1>1 DEF Done
    <3>5. LinkOf(k, o, m.neighbors, nic[n].recvBuff, t, arriving[n][k], received'[n], Settled(mac[k]))
      BY <2>1, <2>4, <3>1, <3>2, <3>3, LinkLess DEF LinkOf, q
    <3>. QED  BY <1>2, <2>4, <3>4, <3>5
  <2>. QED  BY <2>2, <2>3, <2>4
<1>18. ASSUME NEW d \in Node, NEW k \in Node
       PROVE  LinkOf(k, o, mac'[d].neighbors, nic'[d].recvBuff, toMac'[d], arriving'[d][k], received'[d], Settled(mac'[k]))
  <2>1. LinkOf(k, o, mac'[d].neighbors, nic'[d].recvBuff, toMac'[d], arriving'[d][k], received'[d], Settled(mac[k]))
    BY <1>3, <1>13, <1>17
  <2>2. Becomes(Settled(mac[k]), Settled(mac'[k]))
    <3>1. CASE k = n
      BY <1>1, <3>1 DEF Follows, Done
    <3>2. CASE k # n
      <4>1. InOrder(Settled(mac[k])) /\ Settled(mac'[k]) = Settled(mac[k])
        BY <1>0, <1>13, <3>2, SettledInOrder DEF Local, MacIdle, MacOK
      <4>. QED  BY <4>1, BecomesItself
    <3>. QED  BY <3>1, <3>2
  <2>. DEFINE h == handedIn
              s == mac'[d]
              nc == nic'[d]
              inbox == toMac'[d]
              a == arriving'[d]
              r == received'[d]
              nb == mac'[d].neighbors
              w == Settled(mac[k])
              w2 == Settled(mac'[k])
  <2>3. /\ h \in Nat /\ o \in [1..h -> Node] /\ Local(d, o, s, nc, inbox, a, r) /\ Becomes(w, w2)
        /\ LinkOf(k, o, nb, nc.recvBuff, inbox, a[k], r, w)
    BY <1>0, <1>16, <2>1, <2>2
  <2>. HIDE DEF h, s, nc, inbox, a, r, nb, w, w2
  <2>4. LinkOf(k, o, nb, nc.recvBuff, inbox, a[k], r, w2)
    BY <2>3, LinkOn
  <2>. QED  BY <2>4 DEF h, s, nc, inbox, a, r, nb, w, w2
<1>. QED  BY <1>0, <1>3, <1>16, <1>18 DEF Inv

-----------------------------------------------------------------------------
(* The timers *)

LEMMA TimerStep ==
  ASSUME NEW o, Inv(o), NEW n \in Node, NEW m,
         \/ Silent(mac[n], m) /\ m.endSifs = Off /\ m.cmd = mac[n].cmd
         \/ Sending(mac[n], m, n),
         Put(n, m, nic[n]), toMac' = toMac, handedIn' = handedIn
  PROVE  Inv(o)'
<1>1. /\ handedIn \in Nat /\ o \in [1..handedIn -> Node] /\ MacIdle(mac[n], n, o)
  BY DEF Inv, Typed, Local
<1>2. /\ MacOK(m) /\ Follows(mac[n], m) /\ m.neighbors = mac[n].neighbors
      /\ m.endSifs \in {mac[n].endSifs, Off}
  BY DEF Silent, Sending
<1>3. m.up = <<>> /\ m.cmd \in Commands
  BY <1>1 DEF Silent, Sending, MacIdle, Commands
<1>4. Keeps(mac[n], m, handedIn) /\ Ids(m.fromUpperLayer) \subseteq Ids(mac[n].fromUpperLayer)
  BY <1>1, <1>2, FollowsKeeps DEF MacIdle, MacOK
<1>5. \A x \in Ids(m.fromUpperLayer) : x \in DOMAIN o /\ o[x] = n
  BY <1>1, <1>4 DEF MacIdle
<1>6. m.tx = <<>> \/ (Follows(mac[n], m) /\ \E f : m.tx = <<f>> /\ Sends(mac[n], m, f, n))
  BY <1>1 DEF Silent, Sending, MacIdle
<1>7. Extends(o, o) /\ handedIn' \in Nat /\ o \in [1..handedIn' -> Node]
  BY <1>1 DEF Extends
<1>. QED  BY <1>2, <1>3, <1>4, <1>5, <1>6, <1>7, EventOK

LEMMA ContentionStep == ASSUME NEW o, Inv(o), NEW n \in Node, Contention(n) PROVE Inv(o)'
<1>. DEFINE m == handleEndContentionTimer(mac[n], n)
<1>1. MacOK(mac[n]) /\ mac[n].contention = 0
  BY DEF Inv, Local, MacIdle, Contention
<1>2. \/ Silent(mac[n], m) /\ m.endSifs = Off /\ m.cmd = mac[n].cmd
      \/ Sending(mac[n], m, n)
  BY <1>1, ContentionOK
<1>3. Put(n, m, nic[n]) /\ toMac' = toMac /\ handedIn' = handedIn
  BY DEF Contention
<1>. HIDE DEF m
<1>. QED  BY <1>2, <1>3, TimerStep

LEMMA NavStep == ASSUME NEW o, Inv(o), NEW n \in Node, Nav(n) PROVE Inv(o)'
<1>. DEFINE m == handleNavTimer(mac[n])
<1>1. MacOK(mac[n]) /\ mac[n].nav = 0
  BY DEF Inv, Local, MacIdle, Nav
<1>2. Silent(mac[n], m) /\ m.endSifs = Off /\ m.cmd = mac[n].cmd
  BY <1>1, NavOK
<1>3. Put(n, m, nic[n]) /\ toMac' = toMac /\ handedIn' = handedIn
  BY DEF Nav
<1>. HIDE DEF m
<1>. QED  BY <1>2, <1>3, TimerStep

LEMMA EndSifsStep == ASSUME NEW o, Inv(o), NEW n \in Node, EndSifs(n) PROVE Inv(o)'
<1>. DEFINE m == handleEndSifsTimer(mac[n], n)
<1>1. MacOK(mac[n]) /\ mac[n].endSifs = 0
  BY DEF Inv, Local, MacIdle, EndSifs
<1>2. Sending(mac[n], m, n)
  BY <1>1, EndSifsOK
<1>3. Put(n, m, nic[n]) /\ toMac' = toMac /\ handedIn' = handedIn
  BY DEF EndSifs
<1>. HIDE DEF m
<1>. QED  BY <1>2, <1>3, TimerStep

LEMMA TimeoutStep == ASSUME NEW o, Inv(o), NEW n \in Node, Timeout(n) PROVE Inv(o)'
<1>1. MacOK(mac[n]) /\ mac[n].timeout = 0 /\ toMac' = toMac /\ handedIn' = handedIn
  BY DEF Inv, Local, MacIdle, Timeout
<1>2. PICK r \in 0..CW_MAX : Put(n, handleTimeoutTimer(mac[n], r), nic[n])
  BY DEF Timeout
<1>. DEFINE m == handleTimeoutTimer(mac[n], r)
<1>3. Silent(mac[n], m) /\ m.endSifs = Off /\ m.cmd = mac[n].cmd
  BY <1>1, TimeoutOK
<1>4. Put(n, m, nic[n])
  BY <1>2
<1>. HIDE DEF m
<1>. QED  BY <1>1, <1>3, <1>4, TimerStep

-----------------------------------------------------------------------------
(* A packet is handed in *)

LEMMA UpperStep ==
  ASSUME NEW h, h = handedIn, NEW o, Inv(o), NEW n \in Node, handleUpperMsg(n)
  PROVE  \E o2 : Inv(o2)'
<1>. DEFINE o2 == [x \in 1..(h + 1) |-> IF x = h + 1 THEN n ELSE o[x]]
            m == mac[n]
<1>1. /\ h \in Nat /\ o \in [1..h -> Node] /\ MacIdle(m, n, o) /\ handedIn' = h + 1 /\ toMac' = toMac
  BY DEF Inv, Typed, Local, handleUpperMsg
<1>2. /\ Extends(o, o2) /\ handedIn' \in Nat /\ o2 \in [1..handedIn' -> Node]
      /\ h + 1 \in DOMAIN o2 /\ o2[h + 1] = n
  BY <1>1 DEF Extends
<1>. HIDE DEF o2
<1>3. PICK d \in Dest[n], s \in Size :
        LET p == [id |-> handedIn + 1, dest |-> d, size |-> s, retry |-> FALSE]
            k == [mac[n] EXCEPT !.fromUpperLayer = Append(@, p)]
        IN  IF Len(mac[n].fromUpperLayer) = queueLength
            THEN Put(n, [mac[n] EXCEPT !.dropped = Append(@, p)], nic[n])
            ELSE Put(n, IF k.state = "IDLE" /\ k.endSifs = Off THEN beginNewCycle(k) ELSE k, nic[n])
  BY DEF handleUpperMsg
<1>. DEFINE p == [id |-> handedIn + 1, dest |-> d, size |-> s, retry |-> FALSE]
            full == [m EXCEPT !.dropped = Append(@, p)]
            k == [m EXCEPT !.fromUpperLayer = Append(@, p)]
            t == IF k.state = "IDLE" /\ k.endSifs = Off THEN beginNewCycle(k) ELSE k
<1>4. Put(n, full, nic[n]) \/ Put(n, t, nic[n])
  BY <1>3
<1>5. p \in Packet /\ p.id = h + 1
  BY <1>1, MacAssumption DEF Packet
<1>. HIDE DEF p
<1>6. MacOK(m) /\ m.tx = <<>> /\ m.up = <<>> /\ m.cmd = "none"
  BY <1>1 DEF MacIdle
<1>7. \A x \in Ids(m.fromUpperLayer) : x \in 1..h /\ x \in DOMAIN o /\ o[x] = n
  BY <1>1 DEF MacIdle
<1>8. \A i \in DOMAIN m.fromUpperLayer : m.fromUpperLayer[i].id < p.id
  BY <1>1, <1>5, <1>7 DEF Ids
<1>9. h < p.id
  BY <1>1, <1>5
<1>10. /\ Silent(m, full) /\ full.cmd = m.cmd /\ full.endSifs = m.endSifs
       /\ MacOK(t) /\ Keeps(m, t, h) /\ Ids(t.fromUpperLayer) \subseteq Ids(m.fromUpperLayer) \cup {p.id}
       /\ t.tx = m.tx /\ t.up = m.up /\ t.neighbors = m.neighbors
       /\ t.cmd = m.cmd /\ t.endSifs = m.endSifs
  BY <1>1, <1>5, <1>6, <1>8, <1>9, UpperMsgOK
<1>. HIDE DEF full, k, t
<1>11. \A x \in Ids(m.fromUpperLayer) : x \in DOMAIN o2 /\ o2[x] = n
  BY <1>2, <1>7 DEF Extends
<1>12. /\ MacOK(full) /\ full.up = <<>> /\ full.neighbors = m.neighbors /\ full.tx = <<>>
       /\ Keeps(m, full, h) /\ Ids(full.fromUpperLayer) \subseteq Ids(m.fromUpperLayer)
  BY <1>6, <1>10, FollowsKeeps DEF Silent, MacOK
<1>13. "none" \in Commands
  BY DEF Commands
<1>14. CASE Put(n, full, nic[n])
  <2>1. \A x \in Ids(full.fromUpperLayer) : x \in DOMAIN o2 /\ o2[x] = n
    BY <1>11, <1>12
  <2>2. full.cmd \in Commands /\ full.endSifs \in {mac[n].endSifs, Off}
    BY <1>6, <1>10, <1>13
  <2>3. Inv(o2)'
    BY <1>1, <1>2, <1>12, <1>14, <2>1, <2>2, EventOK
  <2>. QED  BY <2>3
<1>15. CASE Put(n, t, nic[n])
  <2>1. \A x \in Ids(t.fromUpperLayer) : x \in DOMAIN o2 /\ o2[x] = n
    BY <1>2, <1>5, <1>10, <1>11
  <2>2. t.cmd \in Commands /\ t.endSifs \in {mac[n].endSifs, Off} /\ t.up = <<>> /\ t.tx = <<>>
    BY <1>6, <1>10, <1>13
  <2>3. Inv(o2)'
    BY <1>1, <1>2, <1>10, <1>15, <2>1, <2>2, EventOK
  <2>. QED  BY <2>3
<1>. QED  BY <1>4, <1>14, <1>15

-----------------------------------------------------------------------------
(* What the decider hands over *)

\* The MAC of every node has room for all the nodes that it can hear.
CacheRoom == \A n \in Node : IsFiniteSet(HeardBy(n)) /\ Cardinality(HeardBy(n)) <= neighborhoodCacheSize

\* A handler that neither sends nor passes up anything
LEMMA SilentTakes ==
  ASSUME NEW o, NEW n, NEW m, MacIdle(m, n, o), NEW s, Silent(m, s), NEW af
  PROVE  /\ MacOK(s) /\ Follows(m, s) /\ s.tx = <<>> /\ Neighborhood(s.neighbors, HeardBy(n))
         /\ TakesIn(m, s, af, n, o)
BY DEF Silent, MacIdle, TakesIn

LEMMA ReceivedTakes ==
  ASSUME NEW o, NEW n, NEW m, MacIdle(m, n, o), NEW af, FrameOK(af, af.src, n, o),
         NEW s, Received(m, s, af, HeardBy(n))
  PROVE  /\ MacOK(s) /\ Follows(m, s) /\ s.tx = <<>> /\ Neighborhood(s.neighbors, HeardBy(n))
         /\ TakesIn(m, s, af, n, o)
<1>1. m.up = <<>> /\ m.tx = <<>> /\ Append(m.up, af.id) = <<af.id>>
  BY DEF MacIdle
<1>2. /\ MacOK(s) /\ Follows(m, s) /\ s.tx = <<>> /\ Neighborhood(s.neighbors, HeardBy(n))
  BY <1>1 DEF Received
<1>3. \A b, y : b # af.src => (Knows(m.neighbors, b, y) => Knows(s.neighbors, b, y))
  BY DEF Received
<1>4. CASE s.up = <<>> /\ \A y : Knows(m.neighbors, af.src, y) => Knows(s.neighbors, af.src, y)
  BY <1>2, <1>3, <1>4 DEF TakesIn
<1>5. CASE s.up = <<af.id>>
  <2>1. s.up # m.up
    BY <1>1, <1>5
  <2>2. \/ /\ af.kind = "BROADCAST"
           /\ \A y : Knows(m.neighbors, af.src, y) => Knows(s.neighbors, af.src, y)
        \/ /\ af.kind = "DATA" /\ Knows(s.neighbors, af.src, af.id)
           /\ ~(af.retry /\ Knows(m.neighbors, af.src, af.id))
    BY <2>1 DEF Received
  <2>3. IsPacket(af)
    BY <2>2 DEF IsPacket
  <2>4. \/ /\ af.kind # "DATA"
           /\ \A y : Knows(m.neighbors, af.src, y) => Knows(s.neighbors, af.src, y)
        \/ /\ af.kind = "DATA" /\ Knows(s.neighbors, af.src, af.id)
           /\ ~(af.retry /\ Knows(m.neighbors, af.src, af.id))
    BY <2>2
  <2>. QED  BY <1>2, <1>3, <1>5, <2>3, <2>4 DEF TakesIn
<1>. QED  BY <1>1, <1>4, <1>5 DEF Received

LEMMA DeciderStep ==
  ASSUME OneSize, CacheRoom, NEW o, Inv(o), NEW n \in Node, FromDecider(n)
  PROVE  Inv(o)'
<1>. DEFINE m == mac[n]
            q == toMac[n]
            af == Head(q)
<1>1. /\ MacIdle(m, n, o) /\ InboxOK(q, n, o) /\ TimingOK(m, nic[n], q)
  BY DEF Inv, Local
<1>2. q # <<>> /\ toMac' = [toMac EXCEPT ![n] = Tail(@)] /\ handedIn' = handedIn
  BY DEF FromDecider
<1>3. 1 \in DOMAIN q /\ af = q[1]
  BY <1>1, <1>2, Taken DEF InboxOK
<1>4. MessageOK(af, n, o) /\ (FromAir(af) => m.endSifs = Off)
  BY <1>1, <1>3 DEF InboxOK, TimingOK
<1>5. MacOK(m) /\ Neighborhood(m.neighbors, HeardBy(n)) /\ m.cmd = "none"
  BY <1>1 DEF MacIdle
<1>6. PICK r \in 0..CW_MAX :
         Put(n, IF af.kind \in {"BITERROR", "TRANSMISSION_OVER"}
                THEN handleLowerControl(mac[n], af.kind, r)
                ELSE handleLowerMsg(mac[n], n, af, r), nic[n])
  BY DEF FromDecider
<1>7. {"none", "SWITCH_TO_RECV"} \subseteq Commands
  BY DEF Commands
<1>8. CASE af.kind = "TRANSMISSION_OVER"
  <2>. DEFINE s == handleLowerControl(m, "TRANSMISSION_OVER", r)
  <2>1. Put(n, s, nic[n])
    BY <1>6, <1>8
  <2>2. Silent(m, s) /\ s.cmd = "SWITCH_TO_RECV" /\ s.endSifs = m.endSifs
    BY <1>5, TransmissionOverOK
  <2>. HIDE DEF s
  <2>3. /\ MacOK(s) /\ Follows(m, s) /\ s.tx = <<>> /\ Neighborhood(s.neighbors, HeardBy(n))
        /\ TakesIn(m, s, af, n, o)
    BY <1>1, <2>2, SilentTakes
  <2>4. s.cmd \in Commands
    BY <1>7, <2>2
  <2>. QED  BY <1>2, <2>1, <2>2, <2>3, <2>4, MessageTaken
<1>9. CASE af.kind = "BITERROR"
  <2>. DEFINE yes == TRUE
              s == handleMsgNotForMe(m, EIFS, yes, r)
  <2>1. Put(n, s, nic[n])
    BY <1>6, <1>9 DEF handleLowerControl
  <2>2. m.endSifs = Off /\ yes \in BOOLEAN
    BY <1>4, <1>9 DEF FromAir
  <2>. HIDE DEF yes
  <2>3. Silent(m, s) /\ s.endSifs = Off /\ s.cmd = m.cmd
    BY <1>5, <2>2, NotForMeOK
  <2>. HIDE DEF s
  <2>4. /\ MacOK(s) /\ Follows(m, s) /\ s.tx = <<>> /\ Neighborhood(s.neighbors, HeardBy(n))
        /\ TakesIn(m, s, af, n, o)
    BY <1>1, <2>3, SilentTakes
  <2>5. s.cmd \in Commands /\ s.endSifs = m.endSifs
    BY <1>5, <1>7, <2>2, <2>3
  <2>. QED  BY <1>2, <2>1, <2>4, <2>5, MessageTaken
<1>10. CASE af.kind \notin {"BITERROR", "TRANSMISSION_OVER"}
  <2>. DEFINE s == handleLowerMsg(m, n, af, r)
              H == HeardBy(n)
  <2>1. Put(n, s, nic[n])
    BY <1>6, <1>10
  <2>2. FrameOK(af, af.src, n, o) /\ FromAir(af)
    BY <1>4, <1>10 DEF MessageOK, FromAir
  <2>3. FrameShape(af) /\ af.src \in H /\ IsFiniteSet(H) /\ Cardinality(H) <= neighborhoodCacheSize
        /\ Neighborhood(m.neighbors, H) /\ m.endSifs = Off
    BY <1>4, <1>5, <2>2 DEF FrameOK, CacheRoom
  <2>. HIDE DEF H
  <2>4. Received(m, s, af, H)
    BY <1>5, <2>3, LowerMsgOK
  <2>. HIDE DEF s
  <2>5. /\ MacOK(s) /\ Follows(m, s) /\ s.tx = <<>> /\ Neighborhood(s.neighbors, HeardBy(n))
        /\ TakesIn(m, s, af, n, o)
    BY <1>1, <2>2, <2>4, ReceivedTakes DEF H
  <2>6. s.cmd \in Commands /\ s.endSifs \in {Off, SIFS}
    BY <1>5, <1>7, <2>4 DEF Received
  <2>. QED  BY <1>2, <2>1, <2>2, <2>5, <2>6, MessageTaken
<1>. QED  BY <1>8, <1>9, <1>10

-----------------------------------------------------------------------------
(* The events of the nics *)

\* Nothing changes but at n.
Only(n, m, nd, q, a) ==
  /\ DOMAIN mac' = Node /\ DOMAIN nic' = Node /\ DOMAIN toMac' = Node /\ DOMAIN arriving' = Node
  /\ mac'[n] = m /\ nic'[n] = nd /\ toMac'[n] = q /\ arriving'[n] = a
  /\ \A k \in Node \ {n} : /\ mac'[k] = mac[k] /\ nic'[k] = nic[k]
                           /\ toMac'[k] = toMac[k] /\ arriving'[k] = arriving[k]
  /\ handedIn' = handedIn /\ received' = received

\* An event of the nic of n, which its MAC may hear of, but does not act on
LEMMA NicEvent ==
  ASSUME NEW o, Inv(o), NEW n \in Node, NEW m, Silent(mac[n], m), m.cmd = mac[n].cmd,
         NEW nd, NicOK(nd, n, o), NEW q, InboxOK(q, n, o), TimingOK(m, nd, q), NEW a, StartsOK(a, n, o),
         \A k \in Node : LinkOf(k, o, mac[n].neighbors, nd.recvBuff, q, a[k], received[n], Settled(mac[k])),
         Only(n, m, nd, q, a)
  PROVE  Inv(o)'
<1>1. /\ Typed /\ o \in [1..handedIn -> Node] /\ handedIn \in Nat
      /\ \A k \in Node : Local(k, o, mac[k], nic[k], toMac[k], arriving[k], received[k])
  BY DEF Inv, Typed
<1>2. /\ mac'[n] = m /\ nic'[n] = nd /\ toMac'[n] = q /\ arriving'[n] = a
      /\ \A k \in Node \ {n} : /\ mac'[k] = mac[k] /\ nic'[k] = nic[k]
                               /\ toMac'[k] = toMac[k] /\ arriving'[k] = arriving[k]
      /\ handedIn' = handedIn /\ received' = received
  BY DEF Only
<1>3. Typed'
  BY <1>1 DEF Typed, Only
<1>4. MacIdle(mac[n], n, o) /\ UpOK(received[n], o)
  BY <1>1 DEF Local
<1>5. MacIdle(m, n, o)
  <2>1. Ids(m.fromUpperLayer) \subseteq Ids(mac[n].fromUpperLayer)
    BY <1>4, FollowsKeeps DEF MacIdle, MacOK, Silent
  <2>. QED  BY <1>4, <2>1 DEF MacIdle, Silent
<1>6. ASSUME NEW k \in Node PROVE Local(k, o, mac'[k], nic'[k], toMac'[k], arriving'[k], received'[k])
  <2>1. CASE k # n
    BY <1>1, <1>2, <2>1
  <2>2. CASE k = n
    BY <1>2, <1>4, <1>5, <2>2 DEF Local
  <2>. QED  BY <2>1, <2>2
<1>7. ASSUME NEW d \in Node, NEW k \in Node
      PROVE  LinkOf(k, o, mac'[d].neighbors, nic'[d].recvBuff, toMac'[d], arriving'[d][k], received'[d], Settled(mac'[k]))
  <2>1. LinkOf(k, o, mac'[d].neighbors, nic'[d].recvBuff, toMac'[d], arriving'[d][k], received'[d], Settled(mac[k]))
    <3>1. CASE d # n
      BY <1>2, <3>1 DEF Inv
    <3>2. CASE d = n
      BY <1>2, <3>2 DEF Silent
    <3>. QED  BY <3>1, <3>2
  <2>2. Becomes(Settled(mac[k]), Settled(mac'[k]))
    <3>1. CASE k = n
      BY <1>2, <3>1 DEF Silent, Follows
    <3>2. CASE k # n
      <4>1. InOrder(Settled(mac[k])) /\ Settled(mac'[k]) = Settled(mac[k])
        BY <1>1, <1>2, <3>2, SettledInOrder DEF Local, MacIdle, MacOK
      <4>. QED  BY <4>1, BecomesItself
    <3>. QED  BY <3>1, <3>2
  <2>. DEFINE h == handedIn
              s == mac'[d]
              nc == nic'[d]
              inbox == toMac'[d]
              b == arriving'[d]
              r == received'[d]
              nb == mac'[d].neighbors
              w == Settled(mac[k])
              w2 == Settled(mac'[k])
  <2>3. /\ h \in Nat /\ o \in [1..h -> Node] /\ Local(d, o, s, nc, inbox, b, r) /\ Becomes(w, w2)
        /\ LinkOf(k, o, nb, nc.recvBuff, inbox, b[k], r, w)
    BY <1>1, <1>6, <2>1, <2>2
  <2>. HIDE DEF h, s, nc, inbox, b, r, nb, w, w2
  <2>4. LinkOf(k, o, nb, nc.recvBuff, inbox, b[k], r, w2)
    BY <2>3, LinkOn
  <2>. QED  BY <2>4 DEF h, s, nc, inbox, b, r, nb, w, w2
<1>. QED  BY <1>1, <1>2, <1>3, <1>6, <1>7 DEF Inv

LEMMA SilentItself == ASSUME NEW m, MacOK(m) PROVE Silent(m, m)
<1>1. Base(m)
  BY DEF MacOK
<1>2. Follows(m, m)
  BY <1>1, FollowsItself
<1>. QED  BY <1>2 DEF Silent

\* What was true of the nic and the MAC of n
LEMMA Before ==
  ASSUME NEW o, Inv(o), NEW n \in Node
  PROVE  /\ MacIdle(mac[n], n, o) /\ NicOK(nic[n], n, o) /\ InboxOK(toMac[n], n, o) /\ StartsOK(arriving[n], n, o)
         /\ TimingOK(mac[n], nic[n], toMac[n]) /\ MacOK(mac[n])
         /\ \A k \in Node : LinkOf(k, o, mac[n].neighbors, nic[n].recvBuff, toMac[n], arriving[n][k], received[n],
                                   Settled(mac[k]))
         /\ Typed
BY DEF Inv, Local, MacIdle

LEMMA FrameStartStep ==
  ASSUME LongFrames, NEW o, Inv(o), NEW n \in Node, NEW s \in Node, FrameStart(n, s)
  PROVE  Inv(o)'
<1>. DEFINE nc == nic[n]
            f == Head(arriving[n][s])
            t == Duration(f)
            nd == handleLowerMsgStart(nc, n, s, f, t)
            q == toMac[n]
            a == [arriving[n] EXCEPT ![s] = Tail(@)]
            S == arriving[n][s]
            signal == IsSignal(nc, n, s)
<1>1. /\ MacIdle(mac[n], n, o) /\ NicOK(nc, n, o) /\ InboxOK(q, n, o) /\ StartsOK(arriving[n], n, o)
      /\ TimingOK(mac[n], nc, q) /\ MacOK(mac[n]) /\ Typed
      /\ \A k \in Node : LinkOf(k, o, mac[n].neighbors, nc.recvBuff, q, arriving[n][k], received[n], Settled(mac[k]))
  BY Before
<1>2. /\ S # <<>> /\ s \notin DOMAIN nc.recvBuff
      /\ nic' = [nic EXCEPT ![n] = nd] /\ toMac' = toMac /\ handedIn' = handedIn
      /\ received' = received /\ arriving' = [arriving EXCEPT ![n][s] = Tail(@)]
  BY DEF FrameStart, Starting
<1>3. PICK r \in 0..CW_MAX :
         mac' = [mac EXCEPT ![n] = IF StartPublishesMedium(nic[n], n, s)
                                   THEN MediumPublished(@, "BUSY", r) ELSE @]
  BY DEF FrameStart
<1>. DEFINE m == IF signal /\ nc.radioState = "RECV" THEN MediumPublished(mac[n], "BUSY", r) ELSE mac[n]
<1>4. mac' = [mac EXCEPT ![n] = m]
  BY <1>3 DEF StartPublishesMedium
<1>0. Only(n, m, nd, q, a)
  <2>. HIDE DEF nd, m
  <2>1. arriving' = [arriving EXCEPT ![n] = a]
    BY <1>2
  <2>. HIDE DEF a
  <2>. QED  BY <1>1, <1>2, <1>4, <2>1 DEF Only, Typed
<1>5. /\ Silent(mac[n], m) /\ m.cmd = mac[n].cmd
      /\ IF signal /\ nc.radioState = "RECV" THEN m.endSifs = Off ELSE m = mac[n]
  <2>1. CASE signal /\ nc.radioState = "RECV"
    <3>. DEFINE busy == "BUSY"
    <3>1. busy \in {"IDLE", "BUSY"} /\ busy # "IDLE"
      OBVIOUS
    <3>2. m = MediumPublished(mac[n], busy, r)
      BY <2>1
    <3>. HIDE DEF busy
    <3>3. Silent(mac[n], MediumPublished(mac[n], busy, r)) /\ MediumPublished(mac[n], busy, r).cmd = mac[n].cmd
          /\ MediumPublished(mac[n], busy, r).endSifs = Off
      BY <1>1, <3>1, MediumPublishedOK
    <3>. QED  BY <2>1, <3>2, <3>3
  <2>2. CASE ~(signal /\ nc.radioState = "RECV")
    BY <1>1, <2>2, SilentItself
  <2>. QED  BY <2>1, <2>2
<1>. HIDE DEF m
<1>6. /\ IsSeq(S) /\ \A i \in DOMAIN S : FrameOK(S[i], s, n, o)
      /\ DOMAIN arriving[n] = Node
  BY <1>1 DEF StartsOK
<1>7. /\ IsSeq(Tail(S)) /\ f = S[1] /\ 1 \in DOMAIN S
      /\ \A i \in DOMAIN Tail(S) : i + 1 \in DOMAIN S /\ Tail(S)[i] = S[i + 1]
  <2>. DEFINE R == Tail(S)
  <2>1. /\ IsSeq(R) /\ Len(S) \in Nat /\ Len(S) >= 1 /\ DOMAIN S = 1..Len(S) /\ DOMAIN R = 1..(Len(S) - 1)
        /\ f = S[1] /\ \A i \in 1..(Len(S) - 1) : R[i] = S[i + 1]
    BY <1>2, <1>6, Taken
  <2>. HIDE DEF R, S
  <2>2. /\ IsSeq(R) /\ f = S[1] /\ 1 \in DOMAIN S
        /\ \A i \in DOMAIN R : i + 1 \in DOMAIN S /\ R[i] = S[i + 1]
    BY <2>1
  <2>. QED  BY <2>2 DEF R, S
<1>8. FrameOK(f, s, n, o) /\ \A i \in DOMAIN Tail(S) : FrameOK(Tail(S)[i], s, n, o)
  BY <1>6, <1>7
<1>9. t \in Nat /\ SIFS < t
  BY Durations
<1>. HIDE DEF f, t, S
<1>10. NicFields \subseteq DOMAIN nc
  BY <1>1 DEF NicOK
<1>19. s \notin DOMAIN nc.recvBuff
  BY <1>2
<1>. HIDE DEF nc
<1>11. /\ NicAlters(nc, nd, Measured \cup {"recvBuff", "ptr"})
       /\ DOMAIN nd.recvBuff = DOMAIN nc.recvBuff \cup {s}
       /\ nd.recvBuff[s].frame = f /\ nd.recvBuff[s].left = t /\ {"frame", "left"} \subseteq DOMAIN nd.recvBuff[s]
       /\ \A x \in DOMAIN nc.recvBuff : nd.recvBuff[x] = nc.recvBuff[x]
       /\ IF signal THEN nd.ptr = s /\ nd.indication = "BUSY"
          ELSE nd.ptr = nc.ptr /\ nd.indication = nc.indication
  <2>1. Started(nc, nd, n, s, f, t)
    BY <1>10, <1>19, FrameStartOK
  <2>. HIDE DEF nd
  <2>. QED  BY <2>1 DEF Started
<1>. HIDE DEF nd
<1>12. /\ nd.radioState = nc.radioState /\ nd.switchTimer = nc.switchTimer /\ NicFields \subseteq DOMAIN nd
  BY <1>11 DEF NicAlters, NicFields, Measured
<1>13. signal => nc.ptr = NoFrame
  BY DEF IsSignal
<1>. HIDE DEF signal
<1>14. NicOK(nd, n, o)
  <2>1. \A x \in DOMAIN nd.recvBuff : /\ {"frame", "left"} \subseteq DOMAIN nd.recvBuff[x]
                                    /\ nd.recvBuff[x].left \in Nat /\ FrameOK(nd.recvBuff[x].frame, x, n, o)
    BY <1>1, <1>8, <1>9, <1>11 DEF NicOK
  <2>2. /\ nd.ptr # NoFrame => nd.ptr \in DOMAIN nd.recvBuff /\ nd.indication = "BUSY"
        /\ nd.indication \in {"IDLE", "BUSY"}
    BY <1>1, <1>11 DEF NicOK
  <2>. QED  BY <1>1, <1>12, <2>1, <2>2 DEF NicOK
<1>15. TimingOK(m, nd, q)
  <2>1. ~signal /\ nd.ptr # NoFrame => nd.ptr = nc.ptr /\ nd.recvBuff[nd.ptr] = nc.recvBuff[nc.ptr]
    BY <1>1, <1>11 DEF NicOK
  <2>2. signal => nd.recvBuff[nd.ptr].left > SIFS
    BY <1>9, <1>11, Durations
  <2>3. \A i \in DOMAIN q : FromAir(q[i]) /\ nd.ptr # NoFrame => nd.recvBuff[nd.ptr].left > SIFS
    BY <1>1, <2>1, <2>2 DEF TimingOK
  <2>4. m.endSifs # Off => m = mac[n] /\ (signal => nc.radioState # "RECV")
    BY <1>5
  <2>5. m.endSifs # Off /\ nd.ptr # NoFrame /\ nd.radioState = "RECV" => nd.recvBuff[nd.ptr].left > m.endSifs
    BY <1>1, <1>12, <2>1, <2>4 DEF TimingOK
  <2>. QED  BY <1>1, <2>3, <2>4, <2>5 DEF TimingOK
<1>16. a[s] = Tail(S) /\ DOMAIN a = Node /\ \A k \in Node \ {s} : a[k] = arriving[n][k]
  BY <1>6 DEF S
<1>. HIDE DEF a
<1>17. StartsOK(a, n, o)
  BY <1>1, <1>7, <1>8, <1>16 DEF StartsOK
<1>18. ASSUME NEW k \in Node
       PROVE  LinkOf(k, o, mac[n].neighbors, nd.recvBuff, q, a[k], received[n], Settled(mac[k]))
  <2>1. LinkOf(k, o, mac[n].neighbors, nc.recvBuff, q, arriving[n][k], received[n], Settled(mac[k]))
    BY <1>1
  <2>2. CASE k # s
    <3>1. OnAir(nd.recvBuff, k) = OnAir(nc.recvBuff, k) /\ a[k] = arriving[n][k]
      BY <1>11, <1>16, <2>2 DEF OnAir
    <3>. QED  BY <2>1, <3>1 DEF LinkOf
  <2>3. CASE k = s
    <3>1. OnAir(nc.recvBuff, k) = {} /\ OnAir(nd.recvBuff, k) = OnlyPacket(f) /\ a[k] = Tail(S) /\ f = Head(S)
      BY <1>2, <1>11, <1>16, <2>3 DEF OnAir, f, S, nc
    <3>2. Link(PacketsOf(q, k), {}, S, Got(received[n], k, o), Known(mac[n].neighbors, k), Settled(mac[k]))
      BY <2>1, <2>3, <3>1 DEF LinkOf, S
    <3>3. Link(PacketsOf(q, k), OnlyPacket(Head(S)), Tail(S), Got(received[n], k, o), Known(mac[n].neighbors, k),
               Settled(mac[k]))
      BY <1>2, <1>6, <3>2, LinkStart DEF S
    <3>. QED  BY <3>1, <3>3 DEF LinkOf
  <2>. QED  BY <2>2, <2>3
<1>. QED  BY <1>0, <1>1, <1>5, <1>14, <1>15, <1>17, <1>18, NicEvent

\* One more message for the MAC
LEMMA InboxAppended ==
  ASSUME NEW q, IsSeq(q), NEW x
  PROVE  LET r == Append(q, x)
         IN  /\ IsSeq(r) /\ x \in {r[i] : i \in DOMAIN r}
             /\ \A i \in DOMAIN r : r[i] = x \/ (i \in DOMAIN q /\ r[i] = q[i])
             /\ \A i \in DOMAIN q : i \in DOMAIN r /\ r[i] = q[i]
             /\ (\A i \in DOMAIN q : ~FromAir(q[i])) => \A i, j \in DOMAIN r : FromAir(r[i]) /\ FromAir(r[j]) => i = j
             /\ \A k : PacketsOf(r, k) = PacketsOf(q, k) \cup {y \in {x} : IsPacket(y) /\ y.src = k}
<1>. DEFINE r == Append(q, x)
            l == Len(q)
<1>1. /\ IsSeq(r) /\ l \in Nat /\ DOMAIN q = 1..l /\ DOMAIN r = 1..(l + 1)
      /\ r[l + 1] = x /\ \A i \in 1..l : r[i] = q[i]
  BY Appended
<1>. HIDE DEF r, l
<1>2. /\ \A i \in DOMAIN r : i = l + 1 \/ (i \in DOMAIN q /\ r[i] = q[i])
      /\ \A i \in DOMAIN q : i \in DOMAIN r /\ r[i] = q[i]
      /\ l + 1 \in DOMAIN r /\ r[l + 1] = x
  BY <1>1
<1>3. (\A i \in DOMAIN q : ~FromAir(q[i])) => \A i, j \in DOMAIN r : FromAir(r[i]) /\ FromAir(r[j]) => i = j
  BY <1>2
<1>4. \A k : PacketsOf(r, k) = PacketsOf(q, k) \cup {y \in {x} : IsPacket(y) /\ y.src = k}
  BY <1>2 DEF PacketsOf
<1>. QED  BY <1>1, <1>2, <1>3, <1>4 DEF r

LEMMA FrameEndStep ==
  ASSUME NEW o, Inv(o), NEW n \in Node, NEW s \in Node, FrameEnd(n, s)
  PROVE  Inv(o)'
<1>. DEFINE nc == nic[n]
            nd == handleLowerMsgEnd(nc, n, s)
            q == toMac[n]
            a == arriving[n]
            f == nc.recvBuff[s].frame
            up == GoesUp(nc, s)
<1>1. /\ MacIdle(mac[n], n, o) /\ NicOK(nc, n, o) /\ InboxOK(q, n, o) /\ StartsOK(a, n, o)
      /\ TimingOK(mac[n], nc, q) /\ MacOK(mac[n]) /\ Typed
      /\ \A k \in Node : LinkOf(k, o, mac[n].neighbors, nc.recvBuff, q, a[k], received[n], Settled(mac[k]))
  BY Before
<1>2. /\ s \in DOMAIN nc.recvBuff /\ nc.recvBuff[s].left = 0
      /\ nic' = [nic EXCEPT ![n] = nd] /\ handedIn' = handedIn
      /\ received' = received /\ arriving' = arriving
  BY DEF FrameEnd, Ending
<1>3. PICK r \in 0..CW_MAX :
         mac' = [mac EXCEPT ![n] = IF EndPublishesMedium(nic[n], s)
                                   THEN MediumPublished(@, "IDLE", r) ELSE @]
  BY DEF FrameEnd
<1>4. /\ (toMac' = toMac \/ (up /\ \E x \in {f, BitError} : toMac' = [toMac EXCEPT ![n] = Append(q, x)]))
  BY DEF FrameEnd
<1>. DEFINE m == IF up THEN MediumPublished(mac[n], "IDLE", r) ELSE mac[n]
            p == toMac'[n]
<1>5. mac' = [mac EXCEPT ![n] = m]
  BY <1>3 DEF EndPublishesMedium, GoesUp
<1>6. Silent(mac[n], m) /\ m.cmd = mac[n].cmd /\ m.endSifs = mac[n].endSifs
  <2>1. CASE up
    <3>. DEFINE idle == "IDLE"
    <3>1. idle \in {"IDLE", "BUSY"} /\ idle = "IDLE" /\ m = MediumPublished(mac[n], idle, r)
      BY <2>1
    <3>. HIDE DEF idle, m
    <3>2. Silent(mac[n], MediumPublished(mac[n], idle, r)) /\ MediumPublished(mac[n], idle, r).cmd = mac[n].cmd
          /\ MediumPublished(mac[n], idle, r).endSifs = mac[n].endSifs
      BY <1>1, <3>1, MediumPublishedOK
    <3>. QED  BY <3>1, <3>2
  <2>2. CASE ~up
    BY <1>1, <2>2, SilentItself
  <2>. QED  BY <2>1, <2>2
<1>. HIDE DEF m
<1>7. s # NoFrame /\ SIFS \in Nat
  BY MacAssumption, Durations
<1>8. up => s = nc.ptr /\ nc.radioState = "RECV"
  BY DEF GoesUp
<1>9. FrameOK(f, s, n, o) /\ f.src = s
  BY <1>1, <1>2 DEF NicOK, FrameOK
\* The frame that is being received ends: the MAC had nothing to handle, nor waited.
<1>10. up => mac[n].endSifs = Off /\ \A i \in DOMAIN q : ~FromAir(q[i])
  <2>. SUFFICES ASSUME up PROVE mac[n].endSifs = Off /\ \A i \in DOMAIN q : ~FromAir(q[i])
    OBVIOUS
  <2>1. nc.ptr # NoFrame /\ nc.recvBuff[nc.ptr].left = 0 /\ nc.radioState = "RECV"
    BY <1>2, <1>7, <1>8
  <2>2. mac[n].endSifs # Off => mac[n].endSifs \in Nat
    BY <1>1 DEF MacOK, Phase
  <2>3. mac[n].endSifs = Off
    BY <1>1, <2>1, <2>2 DEF TimingOK
  <2>4. \A i \in DOMAIN q : ~FromAir(q[i])
    BY <1>1, <1>7, <2>1 DEF TimingOK
  <2>. QED  BY <2>3, <2>4
<1>11. Ended(nc, nd, s)
  BY <1>1, FrameEndOK DEF NicOK
<1>12. DOMAIN toMac' = Node /\ \A k \in Node \ {n} : toMac'[k] = toMac[k]
  BY <1>1, <1>4 DEF Typed
<1>13. p = q \/ (up /\ \E x \in {f, BitError} : p = Append(q, x))
  BY <1>1, <1>4 DEF Typed
<1>0. Only(n, m, nd, p, a)
  <2>. HIDE DEF nd
  <2>. QED  BY <1>1, <1>2, <1>5, <1>12 DEF Only, Typed
<1>. HIDE DEF nc, nd, up, q, p, f, a
<1>14. /\ NicAlters(nc, nd, Measured \cup {"recvBuff", "ptr"})
       /\ DOMAIN nd.recvBuff = DOMAIN nc.recvBuff \ {s}
       /\ \A x \in DOMAIN nc.recvBuff \ {s} : nd.recvBuff[x] = nc.recvBuff[x]
       /\ IF s = nc.ptr THEN nd.ptr = NoFrame /\ nd.indication = "IDLE"
          ELSE nd.ptr = nc.ptr /\ nd.indication = nc.indication
  BY <1>11 DEF Ended
<1>15. /\ nd.radioState = nc.radioState /\ nd.switchTimer = nc.switchTimer /\ NicFields \subseteq DOMAIN nd
  BY <1>14 DEF NicAlters, NicFields, Measured
<1>16. nd.ptr # NoFrame => nd.ptr = nc.ptr /\ nc.ptr \in DOMAIN nd.recvBuff
                           /\ nd.recvBuff[nc.ptr] = nc.recvBuff[nc.ptr] /\ ~up
  BY <1>1, <1>8, <1>14 DEF NicOK
<1>17. NicOK(nd, n, o)
  <2>1. \A x \in DOMAIN nd.recvBuff : /\ {"frame", "left"} \subseteq DOMAIN nd.recvBuff[x]
                                    /\ nd.recvBuff[x].left \in Nat /\ FrameOK(nd.recvBuff[x].frame, x, n, o)
    BY <1>1, <1>14 DEF NicOK
  <2>2. /\ nd.ptr # NoFrame => nd.ptr \in DOMAIN nd.recvBuff /\ nd.indication = "BUSY"
        /\ nd.indication \in {"IDLE", "BUSY"}
    BY <1>1, <1>14, <1>16 DEF NicOK
  <2>. QED  BY <1>1, <1>15, <2>1, <2>2 DEF NicOK
<1>18. OnAir(nc.recvBuff, s) = OnlyPacket(f)
       /\ \A k : OnAir(nd.recvBuff, k) = IF k = s THEN {} ELSE OnAir(nc.recvBuff, k)
  BY <1>2, <1>14 DEF OnAir, f
<1>19. CASE p = q
  <2>1. TimingOK(m, nd, p)
    BY <1>1, <1>6, <1>15, <1>16, <1>19 DEF TimingOK
  <2>2. ASSUME NEW k \in Node
        PROVE  LinkOf(k, o, mac[n].neighbors, nd.recvBuff, p, a[k], received[n], Settled(mac[k]))
    <3>1. OnAir(nd.recvBuff, k) \subseteq OnAir(nc.recvBuff, k)
      BY <1>18
    <3>2. LinkOf(k, o, mac[n].neighbors, nc.recvBuff, q, a[k], received[n], Settled(mac[k]))
      BY <1>1
    <3>. QED  BY <1>19, <3>1, <3>2, LinkLess DEF LinkOf
  <2>. QED  BY <1>0, <1>1, <1>6, <1>17, <1>19, <2>1, <2>2, NicEvent
<1>20. CASE up /\ \E x \in {f, BitError} : p = Append(q, x)
  <2>1. PICK x \in {f, BitError} : p = Append(q, x)
    BY <1>20
  <2>2. /\ IsSeq(p) /\ \A i \in DOMAIN p : p[i] = x \/ (i \in DOMAIN q /\ p[i] = q[i])
        /\ (\A i \in DOMAIN q : ~FromAir(q[i])) => \A i, j \in DOMAIN p : FromAir(p[i]) /\ FromAir(p[j]) => i = j
        /\ \A k : PacketsOf(p, k) = PacketsOf(q, k) \cup {y \in {x} : IsPacket(y) /\ y.src = k}
    BY <1>1, <2>1, InboxAppended DEF InboxOK
  <2>3. MessageOK(x, n, o)
    BY <1>9, <2>1 DEF MessageOK, BitError
  <2>4. InboxOK(p, n, o)
    BY <1>1, <2>2, <2>3 DEF InboxOK
  <2>5. nd.ptr = NoFrame
    BY <1>16, <1>20
  <2>6. TimingOK(m, nd, p)
    BY <1>6, <1>10, <1>20, <2>2, <2>5 DEF TimingOK
  <2>7. ASSUME NEW k \in Node
        PROVE  LinkOf(k, o, mac[n].neighbors, nd.recvBuff, p, a[k], received[n], Settled(mac[k]))
    <3>. DEFINE U == PacketsOf(q, k)
                A == OnAir(nc.recvBuff, k)
                got == Got(received[n], k, o)
                kn == Known(mac[n].neighbors, k)
                w == Settled(mac[k])
                S == a[k]
    <3>1. Link(U, A, S, got, kn, w)
      BY <1>1 DEF LinkOf
    <3>2. U = {}
      <4>1. \A y : IsPacket(y) => FromAir(y)
        BY DEF IsPacket, FromAir
      <4>. QED  BY <1>10, <1>20, <4>1 DEF PacketsOf
    <3>3. CASE k # s
      <4>1. PacketsOf(p, k) = U
        <5>1. ~(IsPacket(x) /\ x.src = k)
          BY <1>9, <2>1, <3>3 DEF BitError, IsPacket
        <5>. QED  BY <2>2, <5>1
      <4>2. OnAir(nd.recvBuff, k) = A
        BY <1>18, <3>3
      <4>. QED  BY <3>1, <4>1, <4>2 DEF LinkOf
    <3>4. CASE k = s
      <4>1. PacketsOf(p, k) \subseteq A
        <5>1. x = BitError => ~IsPacket(x)
          BY DEF BitError, IsPacket
        <5>2. PacketsOf(p, k) \subseteq OnlyPacket(f)
          BY <2>1, <2>2, <3>2, <5>1 DEF OnlyPacket
        <5>. QED  BY <1>18, <3>4, <5>2
      <4>2. OnAir(nd.recvBuff, k) = {}
        BY <1>18, <3>4
      <4>. HIDE DEF U, A, got, kn, w, S
      <4>3. Link(A, {}, S, got, kn, w)
        BY <3>1, <3>2, LinkEnd
      <4>4. Link(PacketsOf(p, k), {}, S, got, kn, w)
        BY <4>1, <4>3, LinkLess
      <4>. QED  BY <4>2, <4>4 DEF LinkOf, got, kn, w, S
    <3>. QED  BY <3>3, <3>4
  <2>. QED  BY <1>0, <1>1, <1>6, <1>17, <2>4, <2>6, <2>7, NicEvent
<1>. QED  BY <1>13, <1>19, <1>20

LEMMA RadioSwitchedStep ==
  ASSUME NEW o, Inv(o), NEW n \in Node, RadioSwitched(n)
  PROVE  Inv(o)'
<1>. DEFINE nc == nic[n]
            nd == SwitchDone(nc)
            q == toMac[n]
            a == arriving[n]
            k == [mac[n] EXCEPT !.switching = FALSE]
            on == nc.radioState = "SWITCH_TO_RECV"
            indication == nc.indication
<1>1. /\ MacIdle(mac[n], n, o) /\ NicOK(nc, n, o) /\ InboxOK(q, n, o) /\ StartsOK(a, n, o)
      /\ TimingOK(mac[n], nc, q) /\ MacOK(mac[n]) /\ Typed
      /\ \A x \in Node : LinkOf(x, o, mac[n].neighbors, nc.recvBuff, q, a[x], received[n], Settled(mac[x]))
  BY Before
<1>2. /\ nc.switchTimer = 0 /\ nic' = [nic EXCEPT ![n] = nd] /\ toMac' = toMac /\ handedIn' = handedIn
      /\ received' = received /\ arriving' = arriving
  BY DEF RadioSwitched
<1>3. PICK r \in 0..CW_MAX : mac' = [mac EXCEPT ![n] = IF on THEN MediumPublished(k, indication, r) ELSE k]
  BY DEF RadioSwitched
<1>. DEFINE m == IF on THEN MediumPublished(k, indication, r) ELSE k
<1>4. /\ NicOK(nd, n, o)
      /\ NicAlters(nc, nd, {"radioState", "switchTimer", "sList", "missed"})
      /\ nd.radioState = "RECV" <=> on
  BY <1>1, <1>2, SwitchedOK
<1>0. Only(n, m, nd, q, a)
  <2>. HIDE DEF nd, m
  <2>1. mac' = [mac EXCEPT ![n] = m]
    BY <1>3 DEF m
  <2>. QED  BY <1>1, <1>2, <2>1 DEF Only, Typed
<1>5. Alters(mac[n], k, {"switching"})
  BY <1>1 DEF MacOK, Base, Alters, MacFields
<1>6. indication \in {"IDLE", "BUSY"} /\ (nc.ptr # NoFrame => indication = "BUSY")
  BY <1>1 DEF NicOK
<1>. HIDE DEF k, nd, nc, on, indication
<1>7. /\ MacOK(k) /\ Follows(mac[n], k) /\ k.tx = mac[n].tx /\ k.up = mac[n].up /\ k.cmd = mac[n].cmd
      /\ k.neighbors = mac[n].neighbors /\ k.endSifs = mac[n].endSifs
  <2>1. MacOK(k) /\ Follows(mac[n], k)
    BY <1>1, <1>5, SamePhase DEF PhaseFields
  <2>. QED  BY <1>5, <2>1 DEF Alters, MacFields
<1>8. /\ Silent(mac[n], m) /\ m.cmd = mac[n].cmd
      /\ m.endSifs # Off => m.endSifs = mac[n].endSifs
      /\ on /\ indication = "BUSY" => m.endSifs = Off
  <2>1. CASE on
    <3>. DEFINE s == MediumPublished(k, indication, r)
    <3>1. /\ Silent(k, s) /\ s.cmd = k.cmd
          /\ IF indication = "IDLE" THEN s.endSifs = k.endSifs ELSE s.endSifs = Off
      BY <1>6, <1>7, MediumPublishedOK
    <3>2. m = s
      BY <2>1
    <3>. HIDE DEF s, m
    <3>3. Follows(mac[n], s)
      BY <1>7, <3>1, FollowsTransitive DEF Silent
    <3>. QED  BY <1>6, <1>7, <3>1, <3>2, <3>3 DEF Silent
  <2>2. CASE ~on
    BY <1>7, <2>2 DEF Silent
  <2>. QED  BY <2>1, <2>2
<1>. HIDE DEF m
<1>9. nd.ptr = nc.ptr /\ nd.recvBuff = nc.recvBuff
  BY <1>4 DEF NicAlters, NicFields
<1>10. TimingOK(m, nd, q)
  <2>1. m.endSifs # Off /\ nd.ptr # NoFrame => nd.radioState # "RECV"
    BY <1>4, <1>6, <1>8, <1>9
  <2>2. m.endSifs # Off => \A i \in DOMAIN q : ~FromAir(q[i])
    BY <1>1, <1>8 DEF TimingOK
  <2>. QED  BY <1>1, <1>9, <2>1, <2>2 DEF TimingOK
<1>11. \A x \in Node : LinkOf(x, o, mac[n].neighbors, nd.recvBuff, q, a[x], received[n], Settled(mac[x]))
  BY <1>1, <1>9
<1>. QED  BY <1>0, <1>1, <1>4, <1>8, <1>10, <1>11, NicEvent

LEMMA TxOverStep ==
  ASSUME NEW o, Inv(o), NEW n \in Node, TxOver(n)
  PROVE  Inv(o)'
<1>. DEFINE nc == nic[n]
            nd == [nc EXCEPT !.txOverTimer = Off]
            q == toMac[n]
            p == Append(q, TransmissionOver)
            a == arriving[n]
            m == mac[n]
<1>1. /\ MacIdle(m, n, o) /\ NicOK(nc, n, o) /\ InboxOK(q, n, o) /\ StartsOK(a, n, o)
      /\ TimingOK(m, nc, q) /\ MacOK(m) /\ Typed
      /\ \A k \in Node : LinkOf(k, o, m.neighbors, nc.recvBuff, q, a[k], received[n], Settled(mac[k]))
  BY Before
<1>2. /\ nic' = [nic EXCEPT ![n] = nd] /\ toMac' = [toMac EXCEPT ![n] = p] /\ handedIn' = handedIn
      /\ received' = received /\ arriving' = arriving /\ mac' = mac
  BY DEF TxOver
<1>0. Only(n, m, nd, p, a)
  <2>. HIDE DEF nd, p
  <2>. QED  BY <1>1, <1>2 DEF Only, Typed
<1>3. NicAlters(nc, nd, {"txOverTimer"})
  BY <1>1 DEF NicOK, NicAlters, NicFields
<1>. HIDE DEF nd
<1>4. /\ nd.radioState = nc.radioState /\ nd.switchTimer = nc.switchTimer /\ nd.ptr = nc.ptr
      /\ nd.recvBuff = nc.recvBuff /\ nd.indication = nc.indication /\ NicFields \subseteq DOMAIN nd
  BY <1>3 DEF NicAlters, NicFields
<1>5. NicOK(nd, n, o)
  BY <1>1, <1>4 DEF NicOK
<1>6. ~FromAir(TransmissionOver) /\ ~IsPacket(TransmissionOver) /\ MessageOK(TransmissionOver, n, o)
  BY DEF FromAir, IsPacket, MessageOK, TransmissionOver
<1>7. /\ IsSeq(p) /\ \A i \in DOMAIN p : p[i] = TransmissionOver \/ (i \in DOMAIN q /\ p[i] = q[i])
      /\ \A k : PacketsOf(p, k) = PacketsOf(q, k) \cup {y \in {TransmissionOver} : IsPacket(y) /\ y.src = k}
  BY <1>1, InboxAppended DEF InboxOK
<1>. HIDE DEF p
<1>8. InboxOK(p, n, o)
  BY <1>1, <1>6, <1>7 DEF InboxOK
<1>9. \A i \in DOMAIN p : FromAir(p[i]) => i \in DOMAIN q /\ p[i] = q[i]
  BY <1>6, <1>7
<1>10. TimingOK(m, nd, p)
  BY <1>1, <1>4, <1>9 DEF TimingOK
<1>11. ASSUME NEW k \in Node
       PROVE  LinkOf(k, o, m.neighbors, nd.recvBuff, p, a[k], received[n], Settled(mac[k]))
  <2>1. PacketsOf(p, k) = PacketsOf(q, k)
    BY <1>6, <1>7
  <2>. QED  BY <1>1, <1>4, <2>1 DEF LinkOf
<1>12. Silent(mac[n], m)
  BY <1>1, SilentItself
<1>. QED  BY <1>0, <1>1, <1>5, <1>8, <1>10, <1>11, <1>12, NicEvent

-----------------------------------------------------------------------------
(* The clock *)

LEMMA ElapsedOK ==
  ASSUME NEW m, MacOK(m), NEW d \in Nat, \A t \in MacTimers(m) : d <= t,
         m.timeout = Off \/ d <= m.timeout
  PROVE  LET s == Elapsed(m, d)
         IN  /\ MacOK(s) /\ Settled(s) = Settled(m) /\ s.fromUpperLayer = m.fromUpperLayer
             /\ s.tx = m.tx /\ s.up = m.up /\ s.cmd = m.cmd /\ s.neighbors = m.neighbors
             /\ s.endSifs = Off <=> m.endSifs = Off
             /\ m.endSifs # Off => s.endSifs = m.endSifs - d /\ s.endSifs \in Nat /\ m.endSifs \in Nat
<1>. DEFINE s == Elapsed(m, d)
<1>1. /\ s.contention = Later(m.contention, d) /\ s.nav = Later(m.nav, d)
      /\ s.endSifs = Later(m.endSifs, d) /\ s.timeout = Later(m.timeout, d)
      /\ Alters(m, s, {"contention", "nav", "endSifs", "timeout"})
  BY DEF Elapsed, MacOK, Base, Alters, MacFields
<1>. HIDE DEF s
<1>2. Base(s)
  BY <1>1, SameQueue DEF MacOK
<1>3. /\ s.state = m.state /\ s.fromUpperLayer = m.fromUpperLayer /\ s.sifsFrame = m.sifsFrame
      /\ s.nextIsBroadcast = m.nextIsBroadcast
      /\ s.tx = m.tx /\ s.up = m.up /\ s.cmd = m.cmd /\ s.neighbors = m.neighbors
  BY <1>1 DEF Alters, MacFields
<1>4. /\ m.contention = Off => s.contention = Off
      /\ m.nav = Off => s.nav = Off
      /\ m.timeout = Off => s.timeout = Off
      /\ m.endSifs = Off => s.endSifs = Off
  BY <1>1 DEF Later
<1>5. m.endSifs # Off => m.endSifs \in Nat /\ d <= m.endSifs
  BY DEF MacOK, Phase, MacTimers
<1>6. m.endSifs # Off => s.endSifs = m.endSifs - d /\ s.endSifs \in Nat /\ s.endSifs # Off
  BY <1>1, <1>5 DEF Later, Off
<1>7. m.state = "WFACK" => s.timeout \in Nat
  <2>1. Off \notin Nat
    BY DEF Off
  <2>. QED  BY <1>1, <2>1 DEF Later, MacOK, Phase
<1>8. Phase(s)
  BY <1>3, <1>4, <1>6, <1>7 DEF MacOK, Phase
<1>9. Settled(s) = Settled(m)
  BY <1>3 DEF Settled
<1>. QED  BY <1>2, <1>3, <1>4, <1>5, <1>6, <1>8, <1>9 DEF MacOK, s

LEMMA NicAfterOK ==
  ASSUME NEW nc, NEW n, NEW o, NicOK(nc, n, o), NEW d \in Nat, \A t \in NicTimers(nc) : d <= t
  PROVE  LET nd == NicAfter(nc, d)
         IN  /\ NicOK(nd, n, o) /\ nd.ptr = nc.ptr /\ nd.radioState = nc.radioState
             /\ DOMAIN nd.recvBuff = DOMAIN nc.recvBuff
             /\ \A x \in DOMAIN nc.recvBuff : /\ nd.recvBuff[x].left = nc.recvBuff[x].left - d
                                              /\ nd.recvBuff[x].frame = nc.recvBuff[x].frame
                                              /\ nc.recvBuff[x].left \in Nat
<1>. DEFINE nd == NicAfter(nc, d)
            buff == [x \in DOMAIN nc.recvBuff |-> [nc.recvBuff[x] EXCEPT !.left = @ - d]]
<1>1. NicFields \subseteq DOMAIN nc
  BY DEF NicOK
<1>2. /\ NicAlters(nc, nd, {"switchTimer", "txOverTimer", "recvBuff", "sList"})
      /\ nd.switchTimer = Later(nc.switchTimer, d) /\ nd.recvBuff = buff
  BY <1>1 DEF NicAfter, NicAlters, NicFields
<1>. HIDE DEF nd
<1>3. /\ nd.ptr = nc.ptr /\ nd.radioState = nc.radioState /\ nd.indication = nc.indication
      /\ NicFields \subseteq DOMAIN nd
  BY <1>2 DEF NicAlters, NicFields
<1>5. ASSUME NEW x \in DOMAIN nc.recvBuff
      PROVE  nc.recvBuff[x].left \in Nat /\ d <= nc.recvBuff[x].left /\ {"frame", "left"} \subseteq DOMAIN nc.recvBuff[x]
  BY DEF NicOK, NicTimers
<1>6. ASSUME NEW x \in DOMAIN nc.recvBuff
      PROVE  /\ buff[x].frame = nc.recvBuff[x].frame /\ buff[x].left = nc.recvBuff[x].left - d
             /\ {"frame", "left"} \subseteq DOMAIN buff[x]
  BY <1>5
<1>7. nd.switchTimer # Off => nc.switchTimer # Off
  BY <1>2 DEF Later
<1>. HIDE DEF buff
<1>8. DOMAIN buff = DOMAIN nc.recvBuff
  BY DEF buff
<1>9. NicOK(nd, n, o)
  BY <1>2, <1>3, <1>5, <1>6, <1>7, <1>8 DEF NicOK
<1>. QED  BY <1>2, <1>3, <1>5, <1>6, <1>8, <1>9 DEF nd

LEMMA TickStep ==
  ASSUME NEW o, Inv(o), NEW d, d = Step, Tick
  PROVE  Inv(o)'
<1>1. /\ d \in Nat /\ handedIn' = handedIn /\ received' = received /\ toMac' = toMac /\ arriving' = arriving
      /\ \A n \in Node : /\ toMac[n] = <<>> /\ \A s \in Node : arriving[n][s] = <<>>
                         /\ \A t \in NicTimers(nic[n]) : d <= t
                         /\ \A t \in MacTimers(mac[n]) : d <= t
                         /\ mac[n].timeout = Off \/ d <= mac[n].timeout
  BY DEF Tick, QuietFor, NicsQuietFor
<1>2. /\ nic' = [n \in Node |-> NicAfter(nic[n], d)] /\ mac' = [n \in Node |-> Elapsed(mac[n], d)]
  BY DEF Tick
<1>3. /\ Typed /\ o \in [1..handedIn -> Node]
      /\ \A n \in Node : Local(n, o, mac[n], nic[n], toMac[n], arriving[n], received[n])
  BY DEF Inv
<1>4. Typed'
  BY <1>1, <1>2, <1>3 DEF Typed
<1>5. ASSUME NEW n \in Node
      PROVE  /\ mac'[n] = Elapsed(mac[n], d) /\ MacOK(mac'[n])
             /\ Settled(mac'[n]) = Settled(mac[n]) /\ mac'[n].fromUpperLayer = mac[n].fromUpperLayer
             /\ mac'[n].tx = mac[n].tx /\ mac'[n].up = mac[n].up /\ mac'[n].cmd = mac[n].cmd
             /\ mac'[n].neighbors = mac[n].neighbors
             /\ mac'[n].endSifs = Off <=> mac[n].endSifs = Off
             /\ mac[n].endSifs # Off => /\ mac'[n].endSifs = mac[n].endSifs - d /\ mac'[n].endSifs \in Nat
                                        /\ mac[n].endSifs \in Nat
  <2>. DEFINE m == mac[n]
              s == Elapsed(m, d)
  <2>1. MacOK(m) /\ d \in Nat /\ (\A t \in MacTimers(m) : d <= t) /\ (m.timeout = Off \/ d <= m.timeout)
    BY <1>1, <1>3 DEF Local, MacIdle
  <2>2. mac'[n] = s
    BY <1>2
  <2>. HIDE DEF m
  <2>3. /\ MacOK(s) /\ Settled(s) = Settled(m) /\ s.fromUpperLayer = m.fromUpperLayer
        /\ s.tx = m.tx /\ s.up = m.up /\ s.cmd = m.cmd /\ s.neighbors = m.neighbors
        /\ s.endSifs = Off <=> m.endSifs = Off
        /\ m.endSifs # Off => s.endSifs = m.endSifs - d /\ s.endSifs \in Nat /\ m.endSifs \in Nat
    BY <2>1, ElapsedOK
  <2>. HIDE DEF s
  <2>4. mac'[n] = Elapsed(mac[n], d)
    BY <1>2
  <2>. QED  BY <2>2, <2>3, <2>4 DEF m
<1>6. ASSUME NEW n \in Node
      PROVE  /\ NicOK(nic'[n], n, o) /\ nic'[n].ptr = nic[n].ptr /\ nic'[n].radioState = nic[n].radioState
             /\ DOMAIN nic'[n].recvBuff = DOMAIN nic[n].recvBuff
             /\ \A x \in DOMAIN nic[n].recvBuff : /\ nic'[n].recvBuff[x].left = nic[n].recvBuff[x].left - d
                                                  /\ nic'[n].recvBuff[x].frame = nic[n].recvBuff[x].frame
                                                  /\ nic[n].recvBuff[x].left \in Nat
  <2>. DEFINE nc == nic[n]
              nd == NicAfter(nc, d)
  <2>1. NicOK(nc, n, o) /\ d \in Nat /\ \A t \in NicTimers(nc) : d <= t
    BY <1>1, <1>3 DEF Local
  <2>2. nic'[n] = nd
    BY <1>2
  <2>. HIDE DEF nc
  <2>3. /\ NicOK(nd, n, o) /\ nd.ptr = nc.ptr /\ nd.radioState = nc.radioState
        /\ DOMAIN nd.recvBuff = DOMAIN nc.recvBuff
        /\ \A x \in DOMAIN nc.recvBuff : /\ nd.recvBuff[x].left = nc.recvBuff[x].left - d
                                         /\ nd.recvBuff[x].frame = nc.recvBuff[x].frame
                                         /\ nc.recvBuff[x].left \in Nat
    BY <2>1, NicAfterOK
  <2>. HIDE DEF nd
  <2>. QED  BY <2>2, <2>3 DEF nc
<1>7. ASSUME NEW n \in Node PROVE Local(n, o, mac'[n], nic'[n], toMac'[n], arriving'[n], received'[n])
  <2>1. MacIdle(mac'[n], n, o)
    BY <1>3, <1>5 DEF Local, MacIdle
  <2>2. toMac'[n] = <<>> /\ DOMAIN <<>> = {}
    BY <1>1, EmptyIsSeq
  <2>3. TimingOK(mac'[n], nic'[n], toMac'[n])
    <3>1. TimingOK(mac[n], nic[n], toMac[n]) /\ NicOK(nic[n], n, o)
      BY <1>3 DEF Local
    <3>. DEFINE m == mac[n]
                s == mac'[n]
                nc == nic[n]
                nd == nic'[n]
    <3>2. nd.ptr # NoFrame => nd.ptr = nc.ptr /\ nc.ptr \in DOMAIN nc.recvBuff
                              /\ nd.recvBuff[nd.ptr].left = nc.recvBuff[nc.ptr].left - d
                              /\ nc.recvBuff[nc.ptr].left \in Nat
      BY <1>6, <3>1 DEF NicOK
    <3>3. s.endSifs # Off => m.endSifs # Off /\ s.endSifs = m.endSifs - d /\ m.endSifs \in Nat
      BY <1>5
    <3>4. m.endSifs # Off /\ nc.ptr # NoFrame /\ nc.radioState = "RECV" => nc.recvBuff[nc.ptr].left > m.endSifs
      BY <3>1 DEF TimingOK
    <3>5. nd.radioState = nc.radioState
      BY <1>6
    <3>. HIDE DEF m, s, nc, nd
    <3>6. s.endSifs # Off /\ nd.ptr # NoFrame /\ nd.radioState = "RECV" => nd.recvBuff[nd.ptr].left > s.endSifs
      BY <1>1, <3>2, <3>3, <3>4, <3>5
    <3>7. TimingOK(s, nd, <<>>)
      BY <2>2, <3>6 DEF TimingOK
    <3>. QED  BY <2>2, <3>7 DEF s, nd
  <2>. QED  BY <1>1, <1>3, <1>6, <2>1, <2>3 DEF Local
<1>8. ASSUME NEW e \in Node, NEW n \in Node
      PROVE  LinkOf(n, o, mac'[e].neighbors, nic'[e].recvBuff, toMac'[e], arriving'[e][n], received'[e], Settled(mac'[n]))
  <2>1. LinkOf(n, o, mac[e].neighbors, nic[e].recvBuff, toMac[e], arriving[e][n], received[e], Settled(mac[n]))
    BY DEF Inv
  <2>2. OnAir(nic'[e].recvBuff, n) = OnAir(nic[e].recvBuff, n)
    BY <1>6 DEF OnAir
  <2>3. mac'[e].neighbors = mac[e].neighbors /\ Settled(mac'[n]) = Settled(mac[n])
    BY <1>5
  <2>. QED  BY <1>1, <2>1, <2>2, <2>3 DEF LinkOf
<1>. QED  BY <1>1, <1>3, <1>4, <1>7, <1>8 DEF Inv

-----------------------------------------------------------------------------
(* The beginning *)

LEMMA InitMac ==
  ASSUME NEW broadcast, NEW r, NEW n, NEW o
  PROVE  LET m == MacInit(broadcast, r)
         IN  MacIdle(m, n, o) /\ m.neighbors = <<>> /\ m.endSifs = Off /\ Settled(m) = <<>>
<1>. DEFINE m == MacInit(broadcast, r)
            none == <<>>
<1>0. DOMAIN none = {} /\ none \in Seq(Packet) /\ none \in Seq(Entry(HeardBy(n)))
  BY EmptyIsSeq, EmptySeq
<1>. HIDE DEF none
<1>1. MacFields \subseteq DOMAIN m
  BY DEF MacInit, MacFields
<1>2. /\ m.state = "IDLE" /\ m.fromUpperLayer = none /\ m.timeout = Off /\ m.nav = Off /\ m.endSifs = Off
      /\ m.longRetryCounter = 0 /\ m.shortRetryCounter = 0 /\ m.neighbors = none /\ m.error = NoError
      /\ m.cmd = "none" /\ m.tx = none /\ m.up = none
  BY DEF MacInit, none
<1>. HIDE DEF m
<1>3. InOrder(none) /\ Ids(none) = {} /\ Neighborhood(none, HeardBy(n))
  BY <1>0 DEF InOrder, Ids, Neighborhood
<1>4. Base(m)
  BY <1>1, <1>2, <1>3 DEF Base, Tolerated
<1>5. Phase(m)
  BY <1>2 DEF Phase
<1>. QED  BY <1>2, <1>3, <1>4, <1>5 DEF MacIdle, MacOK, Settled, m, none

LEMMA InitOK == Init => \E o : Inv(o)
<1>. SUFFICES ASSUME Init PROVE \E o : Inv(o)
  OBVIOUS
<1>. DEFINE o == [x \in {} |-> x]
            none == <<>>
<1>0. DOMAIN none = {} /\ IsSeq(none) /\ DOMAIN o = {} /\ o \in [1..0 -> Node]
  BY EmptyIsSeq
<1>. HIDE DEF o
<1>1. PICK b \in [Node -> BOOLEAN], r \in [Node -> 0..CW_MIN] : mac = [n \in Node |-> MacInit(b[n], r[n] * ST)]
  BY DEF Init
<1>2. /\ handedIn = 0 /\ received = [n \in Node |-> none] /\ nic = [n \in Node |-> NicInit]
      /\ arriving = [n \in Node |-> [s \in Node |-> none]] /\ toMac = [n \in Node |-> none]
  BY DEF Init, InitNic
<1>3. NicFields \subseteq DOMAIN NicInit /\ NicInit.recvBuff = none /\ NicInit.ptr = NoFrame
      /\ NicInit.indication = "IDLE" /\ NicInit.radioState = "RECV" /\ NicInit.switchTimer = Off
  BY DEF NicInit, NicFields
<1>. HIDE DEF none
<1>4. Typed /\ o \in [1..handedIn -> Node]
  BY <1>0, <1>1, <1>2 DEF Typed
<1>5. ASSUME NEW n \in Node
      PROVE  /\ MacIdle(mac[n], n, o) /\ mac[n].neighbors = none /\ mac[n].endSifs = Off /\ Settled(mac[n]) = none
             /\ nic[n] = NicInit /\ toMac[n] = none /\ received[n] = none
             /\ arriving[n] = [s \in Node |-> none]
  <2>1. mac[n] = MacInit(b[n], r[n] * ST)
    BY <1>1
  <2>2. MacIdle(mac[n], n, o) /\ mac[n].neighbors = none /\ mac[n].endSifs = Off /\ Settled(mac[n]) = none
    BY <2>1, InitMac DEF none
  <2>. QED  BY <1>2, <2>2
<1>6. ASSUME NEW n \in Node PROVE Local(n, o, mac[n], nic[n], toMac[n], arriving[n], received[n])
  <2>1. NicOK(nic[n], n, o)
    <3>1. "RECV" \in Steady
      BY DEF Steady
    <3>. QED  BY <1>0, <1>3, <1>5, <3>1 DEF NicOK
  <2>2. InboxOK(toMac[n], n, o) /\ UpOK(received[n], o)
    BY <1>0, <1>5 DEF InboxOK, UpOK
  <2>3. StartsOK(arriving[n], n, o)
    BY <1>0, <1>5 DEF StartsOK
  <2>4. TimingOK(mac[n], nic[n], toMac[n])
    BY <1>0, <1>5 DEF TimingOK
  <2>. QED  BY <1>5, <2>1, <2>2, <2>3, <2>4 DEF Local
<1>7. ASSUME NEW d \in Node, NEW n \in Node
      PROVE  LinkOf(n, o, mac[d].neighbors, nic[d].recvBuff, toMac[d], arriving[d][n], received[d], Settled(mac[n]))
  <2>1. PacketsOf(none, n) = {} /\ OnAir(none, n) = {} /\ Packets(none) = {} /\ Got(none, n, o) = {}
    BY <1>0 DEF PacketsOf, OnAir, Packets, Got
  <2>2. Link({}, {}, none, {}, Known(none, n), none)
    BY <1>0, <2>1 DEF Link
  <2>. QED  BY <1>3, <1>5, <2>1, <2>2 DEF LinkOf
<1>8. Inv(o)
  BY <1>4, <1>6, <1>7 DEF Inv
<1>. QED  BY <1>8

-----------------------------------------------------------------------------
(* The invariant, and what it says *)

LEMMA StepOK ==
  ASSUME OneSize, LongFrames, CacheRoom, NEW o, Inv(o), [Next]_vars
  PROVE  \E o2 : Inv(o2)'
<1>1. CASE UNCHANGED vars
  <2>1. Inv(o)'
    BY <1>1 DEF vars, nicVars, Inv, Typed
  <2>. QED  BY <2>1
<1>2. ASSUME NEW n \in Node, handleUpperMsg(n) PROVE \E o2 : Inv(o2)'
  <2>1. PICK h : h = handedIn
    OBVIOUS
  <2>. QED  BY <1>2, <2>1, UpperStep
<1>3. ASSUME NEW n \in Node,
             FromDecider(n) \/ RadioSwitched(n) \/ TxOver(n) \/ Contention(n) \/ Nav(n) \/ EndSifs(n) \/ Timeout(n)
      PROVE  \E o2 : Inv(o2)'
  <2>1. Inv(o)'
    BY <1>3, DeciderStep, RadioSwitchedStep, TxOverStep, ContentionStep, NavStep, EndSifsStep, TimeoutStep
  <2>. QED  BY <2>1
<1>4. ASSUME NEW n \in Node, NEW s \in Node, FrameStart(n, s) \/ FrameEnd(n, s) PROVE \E o2 : Inv(o2)'
  <2>1. Inv(o)'
    BY <1>4, FrameStartStep, FrameEndStep
  <2>. QED  BY <2>1
<1>5. CASE Tick
  <2>1. PICK d : d = Step
    OBVIOUS
  <2>2. Inv(o)'
    BY <1>5, <2>1, TickStep
  <2>. QED  BY <2>2
<1>. QED  BY <1>1, <1>2, <1>3, <1>4, <1>5 DEF Next

-----------------------------------------------------------------------------
(* The theorems *)

\* error() may say that a frame came in while the node was sending, that a frame of
\* the wrong kind came in, or that the radio was still sending the last one.
OnlyTolerated == \A n \in Node : mac[n].error \in Tolerated

LEMMA Invariance ==
  ASSUME OneSize, LongFrames, CacheRoom
  PROVE  Spec => []IInv
<1>1. Init => IInv
  BY InitOK DEF IInv, Inv
<1>2. IInv /\ [Next]_vars => IInv'
  <2>. SUFFICES ASSUME IInv, [Next]_vars PROVE IInv'
    OBVIOUS
  <2>1. PICK o \in [1..handedIn -> Node] : Inv(o)
    BY DEF IInv
  <2>2. PICK o2 : Inv(o2)'
    BY <2>1, StepOK
  <2>3. o2 \in [1..handedIn' -> Node]
    BY <2>2 DEF Inv
  <2>. QED  BY <2>2, <2>3 DEF IInv
<1>. QED  BY <1>1, <1>2, PTL DEF Spec

\* No packet is passed to a network layer twice, whatever is lost, hit by a bit error,
\* repeated or overheard: the duplicates that a lost ACK gives rise to are all filtered
\* (Mac80211::handleDATAframe, addNeighbor).  It takes packets that all take part in
\* RTS/CTS or all do not, frames longer than a SIFS, and a cache with room for all
\* the nodes that can be heard.
THEOREM NoPacketTwice ==
  ASSUME OneSize, LongFrames, CacheRoom
  PROVE  Spec => []NoDuplicateUp
<1>1. IInv => NoDuplicateUp
  BY DEF IInv, Inv, Local, UpOK, NoDuplicateUp
<1>. QED  BY <1>1, Invariance, PTL

\* No timer of a MAC expires in a state that does not expect it, none is scheduled twice,
\* no frame to be answered comes in within a SIFS, the front of an empty queue is not
\* read, and every frame's sender is registered as a neighbour: what the error() calls and
\* assertions of Mac80211 on its own timers and queues guard against does not happen.
THEOREM TimersFit ==
  ASSUME OneSize, LongFrames, CacheRoom
  PROVE  Spec => []OnlyTolerated
<1>1. IInv => OnlyTolerated
  BY DEF IInv, Inv, Local, MacIdle, MacOK, Base, OnlyTolerated
<1>. QED  BY <1>1, Invariance, PTL

=============================================================================
