----------------------------- MODULE FloodProofs -----------------------------
(***************************************************************************)
(* Proofs about Flood.                                                     *)
(*                                                                         *)
(* First the list of messages seen: its operators erase nothing fresh but  *)
(* what pop_front forgets.  Then the invariant: as long as there are       *)
(* copies of a message, who has seen it remembers it freshly.  Last, where *)
(* a flood has been: each hop led to a new node, and copies leave the set  *)
(* of nodes that have seen it until that set is closed.                    *)
(***************************************************************************)
EXTENDS Flood, FiniteSetTheorems, SequenceTheorems, WellFoundedInduction, TLAPS

-----------------------------------------------------------------------------
(* The list of messages seen *)

Entry == [src : Node, seq : Nat, left : Int]

Listed(q) == {q[i] : i \in DOMAIN q}

\* A set of naturals that is not empty has a least member.
LEMMA Least ==
  ASSUME NEW T \in SUBSET Nat, T # {}
  PROVE  \E k \in T : \A j \in T : k <= j
<1>1. PICK k \in T : \A j \in T : ~(<<j, k>> \in OpToRel(<, Nat))
  BY NatLessThanWellFounded, WFMin
<1>2. OpToRel(<, Nat) = {ss \in Nat \X Nat : ss[1] < ss[2]}
  BY DEF OpToRel
<1>3. \A j \in T : ~(j < k)
  BY <1>1, <1>2
<1>. QED  BY <1>3

LEMMA ListedTyped ==
  ASSUME NEW q \in Seq(Entry)
  PROVE  \A e \in Listed(q) : e \in Entry
<1>1. \A i \in DOMAIN q : q[i] \in Entry
  OBVIOUS
<1>. QED  BY <1>1 DEF Listed

LEMMA ListedAppend ==
  ASSUME NEW q \in Seq(Entry), NEW e \in Entry
  PROVE  Append(q, e) \in Seq(Entry) /\ Listed(Append(q, e)) = Listed(q) \cup {e}
<1>1. Len(Append(q, e)) = Len(q) + 1 /\ \A i \in 1..Len(q) : Append(q, e)[i] = q[i]
  OBVIOUS
<1>2. Append(q, e)[Len(q) + 1] = e /\ Append(q, e) \in Seq(Entry)
  OBVIOUS
<1>. QED  BY <1>1, <1>2 DEF Listed

LEMMA ListedConcat ==
  ASSUME NEW q \in Seq(Entry), NEW p \in Seq(Entry)
  PROVE  q \o p \in Seq(Entry) /\ Listed(q \o p) = Listed(q) \cup Listed(p)
<1>1. Len(q \o p) = Len(q) + Len(p) /\ q \o p \in Seq(Entry)
  OBVIOUS
<1>2. \A i \in 1..(Len(q) + Len(p)) : (q \o p)[i] = IF i <= Len(q) THEN q[i] ELSE p[i - Len(q)]
  OBVIOUS
<1>3. Listed(q) \cup Listed(p) \subseteq Listed(q \o p)
  <2>1. \A i \in 1..Len(q) : i \in 1..(Len(q) + Len(p)) /\ (q \o p)[i] = q[i]
    BY <1>2
  <2>2. ASSUME NEW i \in 1..Len(p) PROVE p[i] \in Listed(q \o p)
    <3>1. i + Len(q) \in 1..(Len(q) + Len(p)) /\ (q \o p)[i + Len(q)] = p[i]
      BY <1>2
    <3>. QED  BY <3>1, <1>1 DEF Listed
  <2>3. Listed(p) \subseteq Listed(q \o p)
    BY <2>2 DEF Listed
  <2>4. Listed(q) \subseteq Listed(q \o p)
    BY <2>1, <1>1 DEF Listed
  <2>. QED  BY <2>3, <2>4
<1>4. Listed(q \o p) \subseteq Listed(q) \cup Listed(p)
  BY <1>1, <1>2 DEF Listed
<1>. QED  BY <1>1, <1>3, <1>4

LEMMA ListedSub ==
  ASSUME NEW q \in Seq(Entry), NEW a \in 1..(Len(q) + 1), NEW z \in 0..Len(q)
  PROVE  SubSeq(q, a, z) \in Seq(Entry) /\ Listed(SubSeq(q, a, z)) = {q[i] : i \in a..z}
<1>1. SubSeq(q, a, z) \in Seq(Entry) /\ Len(SubSeq(q, a, z)) = (IF a <= z THEN z - a + 1 ELSE 0)
  OBVIOUS
<1>2. \A i \in 1..Len(SubSeq(q, a, z)) : SubSeq(q, a, z)[i] = q[a + i - 1]
  BY <1>1
<1>3. Listed(SubSeq(q, a, z)) \subseteq {q[i] : i \in a..z}
  BY <1>1, <1>2 DEF Listed
<1>4. ASSUME NEW i \in a..z PROVE q[i] \in Listed(SubSeq(q, a, z))
  <2>1. i - a + 1 \in 1..Len(SubSeq(q, a, z)) /\ SubSeq(q, a, z)[i - a + 1] = q[i]
    BY <1>1, <1>2
  <2>. QED  BY <2>1 DEF Listed
<1>. QED  BY <1>1, <1>3, <1>4

-----------------------------------------------------------------------------
\* The equation of the recursion in FreshEntries
LEMMA KeptEquation ==
  ASSUME NEW q \in Seq(Entry), NEW kept,
         kept = CHOOSE f : f = [i \in 0..Len(q) |->
                   IF i = 0 THEN <<>> ELSE IF Fresh(q[i]) THEN Append(f[i - 1], q[i]) ELSE f[i - 1]]
  PROVE  kept = [i \in 0..Len(q) |->
                   IF i = 0 THEN <<>> ELSE IF Fresh(q[i]) THEN Append(kept[i - 1], q[i]) ELSE kept[i - 1]]
<1>. DEFINE Solves(f, k) == f = [i \in 0..k |->
                IF i = 0 THEN <<>> ELSE IF Fresh(q[i]) THEN Append(f[i - 1], q[i]) ELSE f[i - 1]]
            Solvable(k) == \E f : Solves(f, k)
            T == {k \in Nat : ~Solvable(k)}
<1>. HIDE DEF Solvable
<1>1. T = {}
  <2>. SUFFICES ASSUME T # {} PROVE FALSE
    OBVIOUS
  <2>1. PICK k \in T : \A j \in T : k <= j
    BY Least
  <2>2. k # 0
    <3>1. Solves([i \in 0..0 |-> <<>>], 0)
      OBVIOUS
    <3>. QED  BY <3>1 DEF Solvable
  <2>3. k - 1 \in Nat /\ k - 1 \notin T
    BY <2>1, <2>2
  <2>4. PICK f : Solves(f, k - 1)
    BY <2>3 DEF Solvable
  <2>. DEFINE g == [i \in 0..k |-> IF i < k THEN f[i]
                                   ELSE IF Fresh(q[k]) THEN Append(f[k - 1], q[k]) ELSE f[k - 1]]
  <2>5. \A i \in 0..k : g[i] = IF i = 0 THEN <<>>
                               ELSE IF Fresh(q[i]) THEN Append(g[i - 1], q[i]) ELSE g[i - 1]
    <3>. SUFFICES ASSUME NEW i \in 0..k
                  PROVE  g[i] = IF i = 0 THEN <<>>
                                ELSE IF Fresh(q[i]) THEN Append(g[i - 1], q[i]) ELSE g[i - 1]
      OBVIOUS
    <3>1. CASE i < k
      <4>1. i \in 0..(k - 1) /\ g[i] = f[i] /\ (i # 0 => g[i - 1] = f[i - 1])
        BY <3>1, <2>3
      <4>2. f[i] = IF i = 0 THEN <<>>
                   ELSE IF Fresh(q[i]) THEN Append(f[i - 1], q[i]) ELSE f[i - 1]
        BY <4>1, <2>4
      <4>. QED  BY <4>1, <4>2
    <3>2. CASE i = k
      <4>1. g[i - 1] = f[i - 1] /\ i # 0
        BY <3>2, <2>2, <2>3
      <4>2. g[i] = IF Fresh(q[i]) THEN Append(f[i - 1], q[i]) ELSE f[i - 1]
        BY <3>2
      <4>. QED  BY <4>1, <4>2
    <3>. QED  BY <3>1, <3>2
  <2>6. Solves(g, k)
    BY <2>5
  <2>. QED  BY <2>1, <2>6 DEF Solvable
<1>2. \E f : Solves(f, Len(q))
  BY <1>1 DEF Solvable
<1>. QED  BY <1>2

\* It keeps what is fresh.
LEMMA FreshKept ==
  ASSUME NEW q \in Seq(Entry)
  PROVE  /\ FreshEntries(q) \in Seq(Entry)
         /\ Listed(FreshEntries(q)) = {e \in Listed(q) : Fresh(e)}
<1>. DEFINE kept[i \in 0..Len(q)] ==
              IF i = 0 THEN <<>> ELSE IF Fresh(q[i]) THEN Append(kept[i - 1], q[i]) ELSE kept[i - 1]
<1>1. kept = [i \in 0..Len(q) |->
                IF i = 0 THEN <<>> ELSE IF Fresh(q[i]) THEN Append(kept[i - 1], q[i]) ELSE kept[i - 1]]
  BY KeptEquation
<1>2. FreshEntries(q) = kept[Len(q)]
  BY DEF FreshEntries
<1>. HIDE DEF kept
<1>. DEFINE Right(k) == /\ kept[k] \in Seq(Entry)
                        /\ Listed(kept[k]) = {q[j] : j \in {i \in 1..k : Fresh(q[i])}}
            T == {k \in 0..Len(q) : ~Right(k)}
<1>. HIDE DEF Right
<1>3. T = {}
  <2>. SUFFICES ASSUME T # {} PROVE FALSE
    OBVIOUS
  <2>0. T \in SUBSET Nat
    OBVIOUS
  <2>1. PICK k \in T : \A j \in T : k <= j
    BY <2>0, Least
  <2>2. k # 0
    <3>1. kept[0] = <<>>
      BY <1>1
    <3>2. <<>> \in Seq(Entry) /\ DOMAIN <<>> = {}
      OBVIOUS
    <3>3. Listed(<<>>) = {}
      BY <3>2 DEF Listed
    <3>4. Right(0)
      BY <3>1, <3>2, <3>3 DEF Right
    <3>. QED  BY <3>4
  <2>3. k - 1 \in 0..Len(q) /\ Right(k - 1) /\ k \in 1..Len(q) /\ q[k] \in Entry
    BY <2>1, <2>2
  <2>4. kept[k] = IF Fresh(q[k]) THEN Append(kept[k - 1], q[k]) ELSE kept[k - 1]
    BY <1>1, <2>2, <2>3
  <2>5. 1..k = 1..(k - 1) \cup {k}
    BY <2>3
  <2>6. Right(k)
    <3>1. CASE Fresh(q[k])
      BY <3>1, <2>3, <2>4, <2>5, ListedAppend DEF Right
    <3>2. CASE ~Fresh(q[k])
      BY <3>2, <2>3, <2>4, <2>5 DEF Right
    <3>. QED  BY <3>1, <3>2
  <2>. QED  BY <2>1, <2>6
<1>4. Right(Len(q))
  BY <1>3
<1>5. {q[j] : j \in {i \in 1..Len(q) : Fresh(q[i])}} = {e \in Listed(q) : Fresh(e)}
  <2>1. DOMAIN q = 1..Len(q)
    OBVIOUS
  <2>. QED  BY <2>1 DEF Listed
<1>. QED  BY <1>2, <1>4, <1>5 DEF Right

\* pop_front forgets no more than the first message.
LEMMA RoomMade ==
  ASSUME NEW q \in Seq(Entry)
  PROVE  /\ MakeRoom(q) \in Seq(Entry) /\ Listed(MakeRoom(q)) \subseteq Listed(q)
         /\ \A e \in Listed(q) : e \in Listed(MakeRoom(q)) \/ Id(e) \in Forgotten(q)
<1>1. CASE Len(q) < bcMaxEntries
  BY <1>1, ParameterAssumption DEF MakeRoom
<1>2. CASE Len(q) >= bcMaxEntries
  <2>1. q # <<>> /\ Len(q) # 0 /\ MakeRoom(q) = Tail(q) /\ Forgotten(q) = {Id(q[1])}
    BY <1>2, ParameterAssumption DEF MakeRoom, Forgotten
  <2>2. Tail(q) \in Seq(Entry) /\ Len(Tail(q)) = Len(q) - 1 /\ \A i \in 1..(Len(q) - 1) : Tail(q)[i] = q[i + 1]
    BY <2>1
  <2>3. Listed(Tail(q)) \subseteq Listed(q)
    BY <2>2 DEF Listed
  <2>4. ASSUME NEW i \in 1..Len(q), i # 1 PROVE q[i] \in Listed(Tail(q))
    <3>1. i - 1 \in DOMAIN Tail(q) /\ Tail(q)[i - 1] = q[i]
      BY <2>2, <2>4
    <3>. QED  BY <3>1 DEF Listed
  <2>5. \A e \in Listed(q) : e \in Listed(Tail(q)) \/ e = q[1]
    BY <2>4 DEF Listed
  <2>. QED  BY <2>1, <2>2, <2>3, <2>5
<1>3. Len(q) \in Int /\ bcMaxEntries \in Int
  BY ParameterAssumption
<1>. QED  BY <1>1, <1>2, <1>3

EntryOf(m) == [src |-> m.src, seq |-> m.seq, left |-> bcDelTime]

LEMMA Remembers ==
  ASSUME NEW q \in Seq(Entry), NEW m, m.src \in Node, m.seq \in Nat
  PROVE  /\ Remember(q, m) \in Seq(Entry) /\ EntryOf(m) \in Listed(Remember(q, m))
         /\ Listed(Remember(q, m)) \subseteq Listed(q) \cup {EntryOf(m)}
         /\ \A e \in Listed(q) : e \in Listed(Remember(q, m)) \/ Id(e) \in Forgotten(q)
<1>1. EntryOf(m) \in Entry /\ Remember(q, m) = Append(MakeRoom(q), EntryOf(m))
  BY ParameterAssumption DEF EntryOf, Entry, Remember
<1>. QED  BY <1>1, RoomMade, ListedAppend

\* An entry that is fresh is not erased for a message of its own.
LEMMA FirstErased ==
  ASSUME NEW q \in Seq(Entry)
  PROVE  /\ EraseFirst(q) \in Seq(Entry) /\ Listed(EraseFirst(q)) \subseteq Listed(q)
         /\ \A e \in Listed(q) : Fresh(e) => e \in Listed(EraseFirst(q))
<1>. DEFINE old == {i \in DOMAIN q : Outdated(q[i])}
            i == CHOOSE i \in old : \A j \in old : i <= j
<1>1. CASE Len(q) < bcMaxEntries \/ old = {}
  BY <1>1 DEF EraseFirst
<1>2. CASE ~(Len(q) < bcMaxEntries \/ old = {})
  <2>1. EraseFirst(q) = SubSeq(q, 1, i - 1) \o SubSeq(q, i + 1, Len(q))
    BY <1>2 DEF EraseFirst
  <2>2. old \in SUBSET Nat /\ old # {}
    BY <1>2
  <2>3. i \in old
    BY <2>2, Least
  <2>4. i \in 1..Len(q) /\ Outdated(q[i])
    BY <2>3
  <2>. HIDE DEF i, old
  <2>5. i \in 1..(Len(q) + 1) /\ i - 1 \in 0..Len(q) /\ i + 1 \in 1..(Len(q) + 1) /\ Len(q) \in 0..Len(q)
    BY <2>4
  <2>6. /\ SubSeq(q, 1, i - 1) \in Seq(Entry) /\ SubSeq(q, i + 1, Len(q)) \in Seq(Entry)
        /\ Listed(SubSeq(q, 1, i - 1)) = {q[j] : j \in 1..(i - 1)}
        /\ Listed(SubSeq(q, i + 1, Len(q))) = {q[j] : j \in (i + 1)..Len(q)}
    BY <2>5, ListedSub
  <2>7. Listed(EraseFirst(q)) = {q[j] : j \in 1..(i - 1)} \cup {q[j] : j \in (i + 1)..Len(q)}
    BY <2>1, <2>6, ListedConcat
  <2>8. EraseFirst(q) \in Seq(Entry)
    BY <2>1, <2>6, ListedConcat
  <2>9. ASSUME NEW e \in Listed(q), Fresh(e) PROVE e \in Listed(EraseFirst(q))
    <3>1. PICK j \in 1..Len(q) : e = q[j]
      BY DEF Listed
    <3>2. j # i
      BY <3>1, <2>4, <2>9 DEF Fresh
    <3>3. j \in 1..(i - 1) \/ j \in (i + 1)..Len(q)
      BY <3>2, <2>4
    <3>. QED  BY <3>1, <3>3, <2>7
  <2>10. 1..(i - 1) \subseteq DOMAIN q /\ (i + 1)..Len(q) \subseteq DOMAIN q
    BY <2>4
  <2>11. Listed(EraseFirst(q)) \subseteq Listed(q)
    BY <2>7, <2>10 DEF Listed
  <2>. QED  BY <2>8, <2>9, <2>11
<1>. QED  BY <1>1, <1>2

LEMMA Renewed ==
  ASSUME NEW e \in Entry
  PROVE  /\ [e EXCEPT !.left = bcDelTime] \in Entry /\ [e EXCEPT !.left = bcDelTime].left = bcDelTime
         /\ Id([e EXCEPT !.left = bcDelTime]) = Id(e)
BY ParameterAssumption DEF Entry, Id

\* Looking for m renews its entry, and erases none that is fresh.
LEMMA SearchedList ==
  ASSUME NEW q \in Seq(Entry), NEW m, plainFlooding
  PROVE  /\ Searched(q, m) \in Seq(Entry)
         /\ \A e \in Listed(Searched(q, m)) : e \in Listed(q) \/ (Id(e) = Id(m) /\ e.left = bcDelTime)
         /\ \A e \in Listed(q) : Fresh(e) => \E k \in Listed(Searched(q, m)) : Id(k) = Id(e)
<1>1. CASE Known(q, m) = {}
  <2>1. Searched(q, m) = FreshEntries(q)
    BY <1>1 DEF Searched
  <2>. QED  BY <2>1, FreshKept
<1>2. CASE Known(q, m) # {}
  <2>. DEFINE i == CHOOSE i \in Known(q, m) : TRUE
              renewed == [q[i] EXCEPT !.left = bcDelTime]
              before == SubSeq(q, 1, i - 1)
              after == SubSeq(q, i + 1, Len(q))
  <2>1. Searched(q, m) = (FreshEntries(before) \o <<renewed>>) \o after
    BY <1>2 DEF Searched
  <2>2. i \in Known(q, m)
    BY <1>2
  <2>3. i \in 1..Len(q) /\ Id(q[i]) = Id(m) /\ q[i] \in Entry
    BY <2>2 DEF Known
  <2>. HIDE DEF i
  <2>4. renewed \in Entry /\ Id(renewed) = Id(m) /\ renewed.left = bcDelTime
    <3>1. renewed \in Entry /\ renewed.left = bcDelTime /\ Id(renewed) = Id(q[i])
      BY <2>3, Renewed
    <3>. QED  BY <3>1, <2>3
  <2>. HIDE DEF renewed
  <2>5. i \in 1..(Len(q) + 1) /\ i - 1 \in 0..Len(q) /\ i + 1 \in 1..(Len(q) + 1) /\ Len(q) \in 0..Len(q)
    BY <2>3
  <2>6. /\ before \in Seq(Entry) /\ after \in Seq(Entry)
        /\ Listed(before) = {q[j] : j \in 1..(i - 1)} /\ Listed(after) = {q[j] : j \in (i + 1)..Len(q)}
    BY <2>5, ListedSub
  <2>. HIDE DEF before, after
  <2>7. <<renewed>> \in Seq(Entry) /\ Listed(<<renewed>>) = {renewed}
    BY <2>4 DEF Listed
  <2>8. /\ FreshEntries(before) \in Seq(Entry)
        /\ Listed(FreshEntries(before)) = {e \in Listed(before) : Fresh(e)}
    BY <2>6, FreshKept
  <2>9. /\ FreshEntries(before) \o <<renewed>> \in Seq(Entry)
        /\ Listed(FreshEntries(before) \o <<renewed>>) = Listed(FreshEntries(before)) \cup {renewed}
    BY <2>7, <2>8, ListedConcat
  <2>10. /\ Searched(q, m) \in Seq(Entry)
         /\ Listed(Searched(q, m)) = {e \in Listed(before) : Fresh(e)} \cup {renewed} \cup Listed(after)
    BY <2>1, <2>6, <2>8, <2>9, ListedConcat
  <2>11. Listed(q) = Listed(before) \cup {q[i]} \cup Listed(after)
    <3>1. 1..Len(q) = 1..(i - 1) \cup {i} \cup (i + 1)..Len(q) /\ DOMAIN q = 1..Len(q)
      BY <2>3
    <3>2. Listed(q) = {q[j] : j \in 1..(i - 1) \cup {i} \cup (i + 1)..Len(q)}
      BY <3>1 DEF Listed
    <3>. QED  BY <3>2, <2>6
  <2>12. \A e \in Listed(Searched(q, m)) : e \in Listed(q) \/ (Id(e) = Id(m) /\ e.left = bcDelTime)
    BY <2>4, <2>10, <2>11
  <2>13. \A e \in Listed(q) : Fresh(e) => \E k \in Listed(Searched(q, m)) : Id(k) = Id(e)
    BY <2>3, <2>4, <2>10, <2>11
  <2>. QED  BY <2>10, <2>12, <2>13
<1>. QED  BY <1>1, <1>2

\* A message is new if the list has no fresh entry of it.
LEMMA NewOnes ==
  ASSUME NEW q \in Seq(Entry), NEW m, plainFlooding
  PROVE  notBroadcasted(q, m) <=> ~\E e \in Listed(q) : Id(e) = Id(m) /\ Fresh(e)
BY DEF notBroadcasted, Known, Listed

-----------------------------------------------------------------------------
(* What is on the air, what is remembered *)

\* A message is forgotten no sooner than its last copy is gone.
LongMemory == plainFlooding /\ bcDelTime >= defaultTtl * MaxDelay

Msg == [src : Node, seq : Nat, dest : Node \cup {L3BROADCAST}]
Copy == [msg : Msg, ttl : 1..defaultTtl, from : Node, to : Node, left : 0..MaxDelay]

TypeOK ==
  /\ seqNum \in [Node -> Nat] /\ bcMsgs \in [Node -> Seq(Entry)] /\ air \subseteq Copy
  /\ stopped \in BOOLEAN /\ sent \subseteq Msg /\ got \in [Node -> [sent -> Nat]]
  /\ evicted \in [Node -> SUBSET (Node \X Nat)]

\* Numbers are given once.
Numbered ==
  /\ \A m \in sent : m.seq < seqNum[m.src]
  /\ \A m, k \in sent : Id(m) = Id(k) => m = k
  /\ \A c \in air : c.msg \in sent
  /\ \A n \in Node : \A e \in Listed(bcMsgs[n]) : e.seq < seqNum[e.src]

\* How long there can be copies that c is the origin of
Life(c) == (c.ttl - 1) * MaxDelay + c.left

\* What is remembered of a message stays fresh as long as there are copies of it.
Alive ==
  \A n \in Node : \A e \in Listed(bcMsgs[n]) : \A c \in air : Id(e) = Id(c.msg) => e.left >= Life(c)

\* Who has seen a message of which there are copies remembers it, or forgot it to make room.
Remembered ==
  \A n \in Node : \A c \in air : (got[n][c.msg] > 0 \/ c.msg.src = n) =>
     \/ Id(c.msg) \in evicted[n]
     \/ \E e \in Listed(bcMsgs[n]) : Id(e) = Id(c.msg)

IInv == TypeOK /\ Numbered /\ Alive /\ Remembered /\ NoDuplicateUp

\* Facts of arithmetic that are used below
LEMMA HopTime ==
  ASSUME NEW ttl \in 1..defaultTtl
  PROVE  /\ (ttl - 1) * MaxDelay \in Nat /\ MaxDelay \in Nat
         /\ (ttl - 1) * MaxDelay + MaxDelay <= defaultTtl * MaxDelay
         /\ ttl > 1 => (ttl - 1 - 1) * MaxDelay + MaxDelay = (ttl - 1) * MaxDelay
<1>1. defaultTtl \in Nat /\ MaxDelay \in Nat /\ ttl \in Nat /\ ttl >= 1 /\ ttl <= defaultTtl
  BY ParameterAssumption
<1>2. \A x, y \in Nat : x * y \in Nat
  BY Z3
<1>3. (ttl - 1) * MaxDelay \in Nat /\ (defaultTtl - ttl) * MaxDelay \in Nat
  BY <1>1, <1>2
<1>4. defaultTtl * MaxDelay = (ttl - 1) * MaxDelay + MaxDelay + (defaultTtl - ttl) * MaxDelay
  BY <1>1, Z3
<1>5. (ttl - 1 - 1) * MaxDelay + MaxDelay = (ttl - 1) * MaxDelay
  BY <1>1, Z3
<1>6. defaultTtl * MaxDelay \in Int
  BY <1>1, Z3
<1>. QED  BY <1>1, <1>3, <1>4, <1>5, <1>6

LEMMA Lives ==
  ASSUME LongMemory, NEW c \in Copy
  PROVE  Life(c) \in Nat /\ Life(c) <= bcDelTime /\ bcDelTime \in Nat
<1>1. c.ttl \in 1..defaultTtl /\ c.left \in Nat /\ c.left <= MaxDelay
  BY ParameterAssumption DEF Copy
<1>2. defaultTtl * MaxDelay \in Int
  BY ParameterAssumption, Z3
<1>. QED  BY <1>1, <1>2, HopTime, ParameterAssumption DEF LongMemory, Life

\* New copies are of the message, and live as long as the hops that are left.
LEMMA CopiesMade ==
  ASSUME NEW n \in Node, NEW m \in Msg, NEW ttl \in 1..defaultTtl, NEW hop
  PROVE  \A x \in Copies(n, m, ttl, hop) :
            x \in Copy /\ x.msg = m /\ x.ttl = ttl /\ x.left = MaxDelay
BY NetworkAssumption, ParameterAssumption DEF Copies, Copy

LEMMA ForwardedCopies ==
  ASSUME NEW c \in Copy, NEW n \in Node
  PROVE  \A x \in Forwarded(n, c) : x \in Copy /\ x.msg = c.msg /\ Life(x) <= Life(c)
<1>. SUFFICES ASSUME NEW x \in Forwarded(n, c)
              PROVE  x \in Copy /\ x.msg = c.msg /\ Life(x) <= Life(c)
  OBVIOUS
<1>1. c.msg \in Msg /\ c.ttl \in 1..defaultTtl /\ c.left \in Nat
  BY ParameterAssumption DEF Copy
<1>2. c.ttl > 1 /\ c.ttl - 1 \in 1..defaultTtl
  BY <1>1, ParameterAssumption DEF Forwarded, HopsLeft
<1>3. PICK hop : x \in Copies(n, c.msg, c.ttl - 1, hop)
  BY DEF Forwarded
<1>4. x \in Copy /\ x.msg = c.msg /\ x.ttl = c.ttl - 1 /\ x.left = MaxDelay
  BY <1>1, <1>2, <1>3, CopiesMade
<1>5. Life(x) = (c.ttl - 1 - 1) * MaxDelay + MaxDelay
  BY <1>4 DEF Life
<1>6. Life(x) = (c.ttl - 1) * MaxDelay
  BY <1>1, <1>2, <1>5, HopTime
<1>7. Life(c) = (c.ttl - 1) * MaxDelay + c.left /\ (c.ttl - 1) * MaxDelay \in Nat
  BY <1>1, HopTime DEF Life
<1>. QED  BY <1>1, <1>4, <1>6, <1>7

\* What there are copies of is remembered freshly.
LEMMA Freshness ==
  ASSUME LongMemory, IInv, NEW n \in Node, NEW e \in Listed(bcMsgs[n]), NEW c \in air, Id(e) = Id(c.msg)
  PROVE  Fresh(e)
<1>0. e.left >= Life(c) /\ c \in Copy /\ bcMsgs[n] \in Seq(Entry)
  BY DEF IInv, Alive, TypeOK
<1>1. e \in Entry
  BY <1>0, ListedTyped
<1>2. Life(c) \in Nat /\ e.left \in Int
  BY <1>0, <1>1, Lives DEF Entry
<1>. QED  BY <1>0, <1>2 DEF Fresh, Outdated

LEMMA InitFlood == Init => IInv
<1>. SUFFICES ASSUME Init PROVE IInv
  OBVIOUS
<1>1. <<>> \in Seq(Entry) /\ DOMAIN <<>> = {}
  OBVIOUS
<1>2. sent = {} /\ air = {} /\ \A n \in Node : bcMsgs[n] = <<>> /\ seqNum[n] = 0
  BY DEF Init
<1>3. got \in [Node -> [sent -> Nat]]
  <2>1. <<>> \in [{} -> Nat]
    BY <1>1
  <2>. QED  BY <2>1, <1>2 DEF Init
<1>4. TypeOK
  <2>1. seqNum \in [Node -> Nat] /\ bcMsgs \in [Node -> Seq(Entry)] /\ evicted \in [Node -> SUBSET (Node \X Nat)]
    BY <1>1 DEF Init
  <2>2. stopped \in BOOLEAN
    BY Zenon DEF Init
  <2>. QED  BY <1>2, <1>3, <2>1, <2>2 DEF TypeOK
<1>5. \A n \in Node : Listed(bcMsgs[n]) = {}
  BY <1>1, <1>2 DEF Listed
<1>6. Numbered /\ Alive /\ Remembered /\ NoDuplicateUp
  BY <1>2, <1>5 DEF Numbered, Alive, Remembered, NoDuplicateUp
<1>. QED  BY <1>4, <1>6 DEF IInv

LEMMA LoseStep == ASSUME LongMemory, IInv, NEW c \in air, Lose(c) PROVE IInv'
<1>1. /\ air' \subseteq air
      /\ UNCHANGED <<seqNum, bcMsgs, stopped, sent, got, evicted>>
  BY DEF Lose
<1>2. TypeOK'
  BY <1>1 DEF IInv, TypeOK
<1>3. Numbered'
  BY <1>1 DEF IInv, Numbered
<1>4. Alive' /\ Remembered'
  BY <1>1 DEF IInv, Alive, Remembered
<1>5. NoDuplicateUp'
  BY <1>1 DEF IInv, NoDuplicateUp
<1>. QED  BY <1>2, <1>3, <1>4, <1>5 DEF IInv

\* An entry whose time goes on
Older(e) == [e EXCEPT !.left = IF @ < 0 THEN @ ELSE @ - 1]

LEMMA OlderEntry ==
  ASSUME NEW e \in Entry
  PROVE  /\ Older(e) \in Entry /\ Id(Older(e)) = Id(e) /\ Older(e).src = e.src /\ Older(e).seq = e.seq
         /\ Older(e).left = IF e.left < 0 THEN e.left ELSE e.left - 1
BY DEF Older, Entry, Id

LEMMA OlderCopy ==
  ASSUME NEW c \in Copy, c.left > 0
  PROVE  /\ [c EXCEPT !.left = @ - 1] \in Copy /\ [c EXCEPT !.left = @ - 1].msg = c.msg
         /\ Life([c EXCEPT !.left = @ - 1]) = Life(c) - 1
<1>. DEFINE d == [c EXCEPT !.left = @ - 1]
<1>1. c.left \in 0..MaxDelay /\ MaxDelay \in Nat /\ c.ttl \in 1..defaultTtl
  BY ParameterAssumption DEF Copy
<1>2. d.left = c.left - 1 /\ d.ttl = c.ttl /\ d.msg = c.msg /\ d \in Copy
  BY <1>1 DEF Copy
<1>. HIDE DEF d
<1>3. (c.ttl - 1) * MaxDelay \in Nat
  BY <1>1, HopTime
<1>4. Life(d) = (c.ttl - 1) * MaxDelay + (c.left - 1) /\ Life(c) = (c.ttl - 1) * MaxDelay + c.left
  BY <1>2 DEF Life
<1>5. Life(d) = Life(c) - 1
  BY <1>1, <1>3, <1>4
<1>. QED  BY <1>2, <1>5 DEF d

LEMMA TickStep == ASSUME LongMemory, IInv, Tick PROVE IInv'
<1>1. /\ \A c \in air : c.left > 0
      /\ air' = {[c EXCEPT !.left = @ - 1] : c \in air}
      /\ UNCHANGED <<seqNum, stopped, sent, got, evicted>>
  BY DEF Tick, histVars
<1>2. \A n \in Node : bcMsgs'[n] = [i \in DOMAIN bcMsgs[n] |-> Older(bcMsgs[n][i])]
  BY DEF Tick, Older
<1>3. air \subseteq Copy /\ bcMsgs \in [Node -> Seq(Entry)]
  BY DEF IInv, TypeOK
<1>4. ASSUME NEW n \in Node
      PROVE  bcMsgs'[n] \in Seq(Entry) /\ Listed(bcMsgs'[n]) = {Older(e) : e \in Listed(bcMsgs[n])}
  <2>1. bcMsgs[n] \in Seq(Entry) /\ DOMAIN bcMsgs[n] = 1..Len(bcMsgs[n]) /\ Len(bcMsgs[n]) \in Nat
    BY <1>3
  <2>2. \A i \in 1..Len(bcMsgs[n]) : Older(bcMsgs[n][i]) \in Entry
    BY <2>1, OlderEntry
  <2>3. bcMsgs'[n] \in Seq(Entry)
    <3>1. bcMsgs'[n] \in [1..Len(bcMsgs[n]) -> Entry]
      BY <1>2, <2>1, <2>2
    <3>. QED  BY <2>1, <3>1, SeqDef
  <2>4. DOMAIN bcMsgs'[n] = DOMAIN bcMsgs[n] /\ \A i \in DOMAIN bcMsgs[n] : bcMsgs'[n][i] = Older(bcMsgs[n][i])
    BY <1>2
  <2>. QED  BY <2>3, <2>4 DEF Listed
<1>5. \A n \in Node : \A e \in Listed(bcMsgs[n]) : e \in Entry
  BY <1>3, ListedTyped
<1>6. \A d \in air' : d \in Copy /\ \E c \in air : d.msg = c.msg /\ Life(d) = Life(c) - 1
  BY <1>1, <1>3, OlderCopy
<1>7. TypeOK'
  <2>1. bcMsgs' = [n \in Node |-> bcMsgs'[n]]
    BY DEF Tick
  <2>2. bcMsgs' \in [Node -> Seq(Entry)]
    BY <1>4, <2>1
  <2>. QED  BY <1>1, <1>6, <2>2 DEF IInv, TypeOK
<1>8. Numbered'
  <2>1. \A m \in sent' : m.seq < seqNum'[m.src]
    BY <1>1 DEF IInv, Numbered
  <2>2. \A m, k \in sent' : Id(m) = Id(k) => m = k
    BY <1>1 DEF IInv, Numbered
  <2>3. \A c \in air' : c.msg \in sent'
    BY <1>1, <1>6 DEF IInv, Numbered
  <2>4. \A n \in Node : \A e \in Listed(bcMsgs'[n]) : e.seq < seqNum'[e.src]
    BY <1>1, <1>4, <1>5, OlderEntry DEF IInv, Numbered
  <2>. QED  BY <2>1, <2>2, <2>3, <2>4 DEF Numbered
<1>9. Alive'
  <2>. SUFFICES ASSUME NEW n \in Node, NEW d \in Listed(bcMsgs'[n]), NEW x \in air', Id(d) = Id(x.msg)
                PROVE  d.left >= Life(x)
    BY DEF Alive
  <2>1. PICK e \in Listed(bcMsgs[n]) : d = Older(e)
    BY <1>4
  <2>2. PICK c \in air : x.msg = c.msg /\ Life(x) = Life(c) - 1
    BY <1>6
  <2>3. e \in Entry /\ c \in Copy /\ x \in Copy
    BY <1>3, <1>5, <1>6
  <2>4. Id(e) = Id(c.msg) /\ d.left = IF e.left < 0 THEN e.left ELSE e.left - 1
    BY <2>1, <2>2, <2>3, OlderEntry
  <2>5. e.left >= Life(c)
    BY <2>4 DEF IInv, Alive
  <2>6. Life(c) \in Nat /\ Life(x) \in Nat /\ e.left \in Int
    BY <2>3, Lives DEF Entry
  <2>. QED  BY <2>2, <2>4, <2>5, <2>6
<1>10. Remembered'
  <2>. SUFFICES ASSUME NEW n \in Node, NEW x \in air', got'[n][x.msg] > 0 \/ x.msg.src = n
                PROVE  \/ Id(x.msg) \in evicted'[n]
                       \/ \E e \in Listed(bcMsgs'[n]) : Id(e) = Id(x.msg)
    BY DEF Remembered
  <2>1. PICK c \in air : x.msg = c.msg
    BY <1>6
  <2>2. \/ Id(c.msg) \in evicted[n]
        \/ \E e \in Listed(bcMsgs[n]) : Id(e) = Id(c.msg)
    BY <1>1, <2>1 DEF IInv, Remembered
  <2>3. CASE Id(c.msg) \in evicted[n]
    BY <1>1, <2>1, <2>3
  <2>4. CASE \E e \in Listed(bcMsgs[n]) : Id(e) = Id(c.msg)
    <3>1. PICK e \in Listed(bcMsgs[n]) : Id(e) = Id(c.msg)
      BY <2>4
    <3>2. Older(e) \in Listed(bcMsgs'[n]) /\ Id(Older(e)) = Id(c.msg)
      BY <1>4, <1>5, <3>1, OlderEntry
    <3>. QED  BY <3>2, <2>1
  <2>. QED  BY <2>2, <2>3, <2>4
<1>11. NoDuplicateUp'
  BY <1>1 DEF IInv, NoDuplicateUp
<1>. QED  BY <1>7, <1>8, <1>9, <1>10, <1>11 DEF IInv

LEMMA ForgottenTyped ==
  ASSUME NEW q \in Seq(Entry)
  PROVE  Forgotten(q) \subseteq Node \X Nat
<1>1. CASE Len(q) >= bcMaxEntries
  <2>1. Len(q) # 0 /\ Head(q) \in Entry
    BY <1>1, ParameterAssumption
  <2>. QED  BY <2>1 DEF Forgotten, Id, Entry
<1>2. CASE ~(Len(q) >= bcMaxEntries)
  BY <1>2 DEF Forgotten
<1>. QED  BY <1>1, <1>2

\* What handleUpperMsg does with a message m: its number is new, and it is remembered.
Originated(n, m) ==
    /\ m \in Msg /\ m.src = n /\ m.seq = seqNum[n]
    /\ \A k \in sent : Id(k) # Id(m)
    /\ \A k \in Node : \A e \in Listed(bcMsgs[k]) : e \in Entry /\ Id(e) # Id(m)
    /\ Id(EntryOf(m)) = Id(m) /\ EntryOf(m).left = bcDelTime
    /\ bcMsgs' \in [Node -> Seq(Entry)] /\ EntryOf(m) \in Listed(bcMsgs'[n])
    /\ \A k \in Node : \A e \in Listed(bcMsgs'[k]) : e \in Listed(bcMsgs[k]) \/ (k = n /\ e = EntryOf(m))
    /\ \A k \in Node : \A e \in Listed(bcMsgs[k]) :
          Fresh(e) => e \in Listed(bcMsgs'[k]) \/ Id(e) \in evicted'[k]
    /\ evicted' \in [Node -> SUBSET (Node \X Nat)] /\ \A k \in Node : evicted[k] \subseteq evicted'[k]
    /\ sent' = sent \cup {m} /\ seqNum' = [seqNum EXCEPT ![n] = @ + 1]
    /\ air' = air \cup Copies(n, m, defaultTtl, m.dest) /\ UNCHANGED <<stopped, damaged>>
    /\ got' = [k \in Node |-> [x \in sent' |-> IF x = m THEN 0 ELSE got[k][x]]]

LEMMA UpperEffect ==
  ASSUME LongMemory, IInv, NEW n \in Node, NEW d \in Flow[n], handleUpperMsg(n, d),
         NEW m, m = [src |-> n, seq |-> seqNum[n], dest |-> d]
  PROVE  Originated(n, m)
<1>. DEFINE q == EraseFirst(bcMsgs[n])
<1>1. /\ plainFlooding
      /\ seqNum' = [seqNum EXCEPT ![n] = @ + 1]
      /\ bcMsgs' = [bcMsgs EXCEPT ![n] = Remember(q, m)]
      /\ evicted' = [evicted EXCEPT ![n] = @ \cup Forgotten(q)]
      /\ air' = air \cup Copies(n, m, defaultTtl, d)
      /\ sent' = sent \cup {m}
      /\ got' = [k \in Node |-> [x \in sent' |-> IF x = m THEN 0 ELSE got[k][x]]]
      /\ UNCHANGED <<stopped, damaged>>
  BY DEF handleUpperMsg, LongMemory, NextHop
<1>2. /\ seqNum \in [Node -> Nat] /\ bcMsgs \in [Node -> Seq(Entry)] /\ sent \subseteq Msg
      /\ evicted \in [Node -> SUBSET (Node \X Nat)]
  BY DEF IInv, TypeOK
<1>3. m \in Msg /\ m.src = n /\ m.seq = seqNum[n] /\ m.dest = d /\ Id(m) = <<n, seqNum[n]>>
  BY <1>2, NetworkAssumption DEF Msg, Id
<1>5. \A k \in sent : Id(k) # Id(m)
  BY <1>2, <1>3 DEF IInv, Numbered, Msg, Id
<1>6. \A k \in Node : \A e \in Listed(bcMsgs[k]) : e \in Entry /\ Id(e) # Id(m)
  <2>. SUFFICES ASSUME NEW k \in Node, NEW e \in Listed(bcMsgs[k]) PROVE e \in Entry /\ Id(e) # Id(m)
    OBVIOUS
  <2>1. bcMsgs[k] \in Seq(Entry)
    BY <1>2
  <2>2. e \in Entry
    BY <2>1, ListedTyped
  <2>3. e.seq < seqNum[e.src]
    BY DEF IInv, Numbered
  <2>4. Id(e) = <<e.src, e.seq>> /\ e.src \in Node /\ e.seq \in Nat /\ seqNum[n] \in Nat
    BY <1>2, <2>2 DEF Id, Entry
  <2>. QED  BY <1>3, <2>2, <2>3, <2>4
<1>7. Id(EntryOf(m)) = Id(m) /\ EntryOf(m).left = bcDelTime /\ EntryOf(m).src = n /\ EntryOf(m).seq = seqNum[n]
  BY <1>3 DEF EntryOf, Id
<1>8. /\ q \in Seq(Entry) /\ Listed(q) \subseteq Listed(bcMsgs[n])
      /\ \A e \in Listed(bcMsgs[n]) : Fresh(e) => e \in Listed(q)
  BY <1>2, FirstErased
<1>. HIDE DEF q
<1>9. /\ Remember(q, m) \in Seq(Entry) /\ EntryOf(m) \in Listed(Remember(q, m))
      /\ Listed(Remember(q, m)) \subseteq Listed(q) \cup {EntryOf(m)}
      /\ \A e \in Listed(q) : e \in Listed(Remember(q, m)) \/ Id(e) \in Forgotten(q)
  BY <1>2, <1>3, <1>8, Remembers
<1>10. /\ bcMsgs'[n] = Remember(q, m) /\ evicted'[n] = evicted[n] \cup Forgotten(q)
       /\ \A k \in Node : k # n => bcMsgs'[k] = bcMsgs[k] /\ evicted'[k] = evicted[k]
  BY <1>1, <1>2
<1>11. \A k \in Node : \A e \in Listed(bcMsgs'[k]) : e \in Listed(bcMsgs[k]) \/ (k = n /\ e = EntryOf(m))
  BY <1>8, <1>9, <1>10
<1>12. bcMsgs' \in [Node -> Seq(Entry)]
  BY <1>1, <1>2, <1>9
<1>13. evicted' \in [Node -> SUBSET (Node \X Nat)] /\ \A k \in Node : evicted[k] \subseteq evicted'[k]
  <2>1. Forgotten(q) \subseteq Node \X Nat
    BY <1>8, ForgottenTyped
  <2>. QED  BY <1>1, <1>2, <1>10, <2>1
<1>14. \A k \in Node : \A e \in Listed(bcMsgs[k]) :
          Fresh(e) => e \in Listed(bcMsgs'[k]) \/ Id(e) \in evicted'[k]
  BY <1>8, <1>9, <1>10
<1>15. EntryOf(m) \in Listed(bcMsgs'[n])
  BY <1>9, <1>10
<1>. QED  BY <1>1, <1>3, <1>5, <1>6, <1>7, <1>11, <1>12, <1>13, <1>14, <1>15 DEF Originated

LEMMA UpperStep ==
  ASSUME LongMemory, IInv, NEW n \in Node, NEW d \in Flow[n], handleUpperMsg(n, d)
  PROVE  IInv'
<1>0. PICK m : m = [src |-> n, seq |-> seqNum[n], dest |-> d]
  OBVIOUS
<1>1. Originated(n, m)
  BY <1>0, UpperEffect
<1>. DEFINE made == Copies(n, m, defaultTtl, m.dest)
<1>2. /\ seqNum \in [Node -> Nat] /\ bcMsgs \in [Node -> Seq(Entry)] /\ air \subseteq Copy
      /\ sent \subseteq Msg /\ got \in [Node -> [sent -> Nat]]
  BY DEF IInv, TypeOK
<1>3. EntryOf(m).src = n /\ EntryOf(m).seq = seqNum[n]
  BY <1>1 DEF EntryOf, Originated
<1>4. \A x \in made : x \in Copy /\ x.msg = m
  <2>1. m \in Msg
    BY <1>1 DEF Originated
  <2>2. defaultTtl \in 1..defaultTtl
    BY ParameterAssumption
  <2>. QED  BY ONLY <2>1, <2>2, CopiesMade DEF made
<1>. HIDE DEF made
<1>12. \A k \in Node : \A y \in sent' : got'[k][y] = IF y = m THEN 0 ELSE got[k][y]
  BY <1>1 DEF Originated
<1>13. \A x \in air : x \in Copy /\ x.msg \in sent /\ x.msg # m
  BY <1>1, <1>2 DEF IInv, Numbered, Originated
<1>14. TypeOK'
  <2>1. seqNum' \in [Node -> Nat]
    BY <1>1, <1>2 DEF Originated
  <2>2. bcMsgs' \in [Node -> Seq(Entry)]
    BY <1>1 DEF Originated
  <2>3. air' \subseteq Copy /\ sent' \subseteq Msg
    BY <1>1, <1>2, <1>4 DEF Originated, made
  <2>4. got' \in [Node -> [sent' -> Nat]]
    <3>1. \A k \in Node, y \in sent' : (IF y = m THEN 0 ELSE got[k][y]) \in Nat
      BY <1>1, <1>2 DEF Originated
    <3>. QED  BY <1>1, <3>1 DEF Originated
  <2>5. evicted' \in [Node -> SUBSET (Node \X Nat)]
    BY <1>1 DEF Originated
  <2>6. stopped' \in BOOLEAN
    BY <1>1 DEF IInv, TypeOK, Originated
  <2>. QED  BY <2>1, <2>2, <2>3, <2>4, <2>5, <2>6 DEF TypeOK
<1>15. Numbered'
  <2>1. \A k \in Node : seqNum[k] \in Nat /\ seqNum'[k] = IF k = n THEN seqNum[k] + 1 ELSE seqNum[k]
    BY <1>1, <1>2 DEF Originated
  <2>2. \A y \in sent : y.src \in Node /\ y.seq \in Nat /\ y.seq < seqNum[y.src]
    BY <1>2 DEF IInv, Numbered, Msg
  <2>3. \A y \in sent' : y.seq < seqNum'[y.src]
    BY <1>1, <2>1, <2>2 DEF Originated
  <2>4. \A y, k \in sent' : Id(y) = Id(k) => y = k
    BY <1>1 DEF IInv, Numbered, Originated
  <2>5. \A x \in air' : x.msg \in sent'
    BY <1>1, <1>4, <1>13 DEF Originated, made
  <2>6. \A k \in Node : \A e \in Listed(bcMsgs[k]) : e.src \in Node /\ e.seq \in Nat /\ e.seq < seqNum[e.src]
    BY <1>1 DEF IInv, Numbered, Entry, Originated
  <2>7. \A k \in Node : \A e \in Listed(bcMsgs'[k]) : e.seq < seqNum'[e.src]
    BY <1>1, <1>3, <2>1, <2>6 DEF Originated
  <2>. QED  BY <2>3, <2>4, <2>5, <2>7 DEF Numbered
<1>16. Alive'
  <2>. SUFFICES ASSUME NEW k \in Node, NEW e \in Listed(bcMsgs'[k]), NEW x \in air', Id(e) = Id(x.msg)
                PROVE  e.left >= Life(x)
    BY DEF Alive
  <2>1. CASE x \in air
    <3>1. Id(e) # Id(m)
      BY <1>1, <1>13, <2>1 DEF Originated
    <3>2. e \in Listed(bcMsgs[k])
      BY <1>1, <3>1 DEF Originated
    <3>. QED  BY <2>1, <3>2 DEF IInv, Alive
  <2>2. CASE x \in made
    <3>1. x \in Copy /\ Id(e) = Id(m)
      BY <1>4, <2>2
    <3>2. e.left = bcDelTime
      BY <1>1, <3>1 DEF Originated
    <3>3. Life(x) \in Nat /\ Life(x) <= bcDelTime /\ bcDelTime \in Nat
      BY <3>1, Lives
    <3>. QED  BY <3>2, <3>3
  <2>. QED  BY <1>1, <2>1, <2>2 DEF Originated, made
<1>17. Remembered'
  <2>. SUFFICES ASSUME NEW k \in Node, NEW x \in air', got'[k][x.msg] > 0 \/ x.msg.src = k
                PROVE  \/ Id(x.msg) \in evicted'[k]
                       \/ \E e \in Listed(bcMsgs'[k]) : Id(e) = Id(x.msg)
    BY DEF Remembered
  <2>1. CASE x \in made
    <3>1. x.msg = m /\ m \in sent' /\ got'[k][m] = 0
      BY <1>1, <1>4, <1>12, <2>1 DEF Originated
    <3>2. k = n
      BY <1>1, <3>1 DEF Originated
    <3>. QED  BY <1>1, <3>1, <3>2 DEF Originated
  <2>2. CASE x \in air
    <3>1. x.msg \in sent' /\ got'[k][x.msg] = got[k][x.msg]
      BY <1>1, <1>12, <1>13, <2>2 DEF Originated
    <3>2. \/ Id(x.msg) \in evicted[k]
          \/ \E e \in Listed(bcMsgs[k]) : Id(e) = Id(x.msg)
      BY <2>2, <3>1 DEF IInv, Remembered
    <3>3. CASE Id(x.msg) \in evicted[k]
      BY <1>1, <3>3 DEF Originated
    <3>4. CASE \E e \in Listed(bcMsgs[k]) : Id(e) = Id(x.msg)
      <4>1. PICK e \in Listed(bcMsgs[k]) : Id(e) = Id(x.msg)
        BY <3>4
      <4>2. Fresh(e)
        BY <2>2, <4>1, Freshness
      <4>. QED  BY <1>1, <4>1, <4>2 DEF Originated
    <3>. QED  BY <3>2, <3>3, <3>4
  <2>. QED  BY <1>1, <2>1, <2>2 DEF Originated, made
<1>18. NoDuplicateUp'
  <2>. SUFFICES ASSUME NEW k \in Node, NEW y \in sent', got'[k][y] > (IF y.src = k THEN 0 ELSE 1)
                PROVE  <<y.src, y.seq>> \in evicted'[k]
    BY DEF NoDuplicateUp
  <2>1. y # m /\ y \in sent /\ got'[k][y] = got[k][y]
    BY <1>1, <1>12 DEF Originated
  <2>2. <<y.src, y.seq>> \in evicted[k]
    BY <2>1 DEF IInv, NoDuplicateUp
  <2>. QED  BY <2>2, <1>1 DEF Originated
<1>. QED  BY <1>14, <1>15, <1>16, <1>17, <1>18 DEF IInv

\* What handleLowerMsg does with a copy c: its message is remembered, and every copy on
\* the air descends from one that was there; a message that is new was not seen here.
Arrived(c) ==
    LET n == c.to
        m == c.msg
        new == notBroadcasted(bcMsgs[n], m)
    IN  /\ c \in Copy /\ n \in Node /\ m \in sent /\ m.src \in Node /\ m.seq \in Nat
        /\ bcMsgs' \in [Node -> Seq(Entry)] /\ \E e \in Listed(bcMsgs'[n]) : Id(e) = Id(m)
        /\ \A k \in Node : \A e \in Listed(bcMsgs'[k]) :
              e \in Listed(bcMsgs[k]) \/ (k = n /\ Id(e) = Id(m) /\ e.left = bcDelTime)
        /\ \A k \in Node : \A e \in Listed(bcMsgs[k]) : Fresh(e) =>
              Id(e) \in evicted'[k] \/ \E x \in Listed(bcMsgs'[k]) : Id(x) = Id(e)
        /\ evicted' \in [Node -> SUBSET (Node \X Nat)] /\ \A k \in Node : evicted[k] \subseteq evicted'[k]
        /\ air' = (air \ {c}) \cup IF new THEN Forwarded(n, c) ELSE {}
        /\ \A x \in air' : x \in Copy /\ \E y \in air : x.msg = y.msg /\ Life(x) <= Life(y)
        /\ got' \in [Node -> [sent -> Nat]]
        /\ \A k \in Node, y \in sent : got'[k][y] =
              IF k = n /\ y = m /\ new /\ m.dest \in {n, L3BROADCAST} THEN got[k][y] + 1 ELSE got[k][y]
        /\ new => Id(m) \in evicted[n] \/ (got[n][m] = 0 /\ m.src # n)
        /\ ~new => \E e \in Listed(bcMsgs[n]) : Id(e) = Id(m)
        /\ stopped' \in BOOLEAN /\ UNCHANGED <<seqNum, sent, damaged>>

LEMMA LowerEffect ==
  ASSUME LongMemory, IInv, NEW c \in air, handleLowerMsg(c)
  PROVE  Arrived(c)
<1>. DEFINE n == c.to
            m == c.msg
            new == notBroadcasted(bcMsgs[n], m)
            q == Searched(bcMsgs[n], m)
            list == IF new THEN Remember(q, m) ELSE q
<1>1. /\ plainFlooding
      /\ bcMsgs' = [bcMsgs EXCEPT ![n] = list]
      /\ evicted' = [evicted EXCEPT ![n] = IF new THEN @ \cup Forgotten(q) ELSE @]
      /\ air' = (air \ {c}) \cup IF new THEN Forwarded(n, c) ELSE {}
      /\ got' = [got EXCEPT ![n][m] = IF new /\ m.dest \in {n, L3BROADCAST} THEN @ + 1 ELSE @]
      /\ UNCHANGED <<seqNum, sent, damaged>>
  BY DEF handleLowerMsg, LongMemory
<1>2. /\ bcMsgs \in [Node -> Seq(Entry)] /\ air \subseteq Copy
      /\ sent \subseteq Msg /\ got \in [Node -> [sent -> Nat]]
      /\ evicted \in [Node -> SUBSET (Node \X Nat)]
  BY DEF IInv, TypeOK
<1>3. c \in Copy /\ n \in Node /\ m \in sent /\ m.src \in Node /\ m.seq \in Nat /\ bcMsgs[n] \in Seq(Entry)
  BY <1>2 DEF IInv, Numbered, Copy, Msg
<1>4. stopped' \in BOOLEAN
  BY DEF handleLowerMsg
<1>. HIDE DEF n, m
<1>5. new <=> ~\E e \in Listed(bcMsgs[n]) : Id(e) = Id(m) /\ Fresh(e)
  BY <1>1, <1>3, NewOnes
<1>6. /\ q \in Seq(Entry)
      /\ \A e \in Listed(q) : e \in Listed(bcMsgs[n]) \/ (Id(e) = Id(m) /\ e.left = bcDelTime)
      /\ \A e \in Listed(bcMsgs[n]) : Fresh(e) => \E k \in Listed(q) : Id(k) = Id(e)
  BY <1>1, <1>3, SearchedList
<1>. HIDE DEF new, q
<1>7. /\ Remember(q, m) \in Seq(Entry) /\ EntryOf(m) \in Listed(Remember(q, m))
      /\ Listed(Remember(q, m)) \subseteq Listed(q) \cup {EntryOf(m)}
      /\ \A e \in Listed(q) : e \in Listed(Remember(q, m)) \/ Id(e) \in Forgotten(q)
  BY <1>3, <1>6, Remembers
<1>8. Id(EntryOf(m)) = Id(m) /\ EntryOf(m).left = bcDelTime
  BY DEF EntryOf, Id
<1>9. list \in Seq(Entry)
  BY <1>6, <1>7
<1>10. \A e \in Listed(list) : e \in Listed(bcMsgs[n]) \/ (Id(e) = Id(m) /\ e.left = bcDelTime)
  BY <1>6, <1>7, <1>8
<1>11. \E e \in Listed(list) : Id(e) = Id(m)
  BY <1>5, <1>6, <1>7, <1>8
<1>12. /\ bcMsgs'[n] = list /\ evicted'[n] = IF new THEN evicted[n] \cup Forgotten(q) ELSE evicted[n]
       /\ \A k \in Node : k # n => bcMsgs'[k] = bcMsgs[k] /\ evicted'[k] = evicted[k]
  BY <1>1, <1>2, <1>3
<1>13. \A e \in Listed(bcMsgs[n]) : Fresh(e) => \/ Id(e) \in evicted'[n]
                                               \/ \E k \in Listed(list) : Id(k) = Id(e)
  <2>. SUFFICES ASSUME NEW e \in Listed(bcMsgs[n]), Fresh(e)
                PROVE  \/ Id(e) \in evicted'[n]
                       \/ \E k \in Listed(list) : Id(k) = Id(e)
    OBVIOUS
  <2>1. PICK k \in Listed(q) : Id(k) = Id(e)
    BY <1>6
  <2>. QED  BY <1>7, <1>12, <2>1
<1>. HIDE DEF list
<1>14. \A x \in air' : x \in Copy /\ \E y \in air : x.msg = y.msg /\ Life(x) <= Life(y)
  <2>1. \A x \in air : x \in Copy /\ Life(x) <= Life(x)
    BY <1>2, Lives
  <2>2. \A x \in Forwarded(n, c) : x \in Copy /\ x.msg = c.msg /\ Life(x) <= Life(c)
    BY <1>3, ForwardedCopies
  <2>. QED  BY <1>1, <2>1, <2>2
<1>15. \A k \in Node, y \in sent : got'[k][y] =
          IF k = n /\ y = m /\ new /\ m.dest \in {n, L3BROADCAST} THEN got[k][y] + 1 ELSE got[k][y]
  BY <1>1, <1>2, <1>3
<1>16. bcMsgs' \in [Node -> Seq(Entry)]
  BY <1>1, <1>2, <1>9
<1>17. got' \in [Node -> [sent -> Nat]]
  <2>1. \A k \in Node, y \in sent : got[k][y] \in Nat
    BY <1>2
  <2>2. got'[n][m] \in Nat
    BY <1>3, <1>15, <2>1
  <2>3. got' = [got EXCEPT ![n] = [got[n] EXCEPT ![m] = got'[n][m]]]
    BY <1>1, <1>2, <1>3
  <2>. DEFINE counts == [got[n] EXCEPT ![m] = got'[n][m]]
  <2>4. counts \in [sent -> Nat]
    BY <1>2, <1>3, <2>2
  <2>. HIDE DEF counts
  <2>5. [got EXCEPT ![n] = counts] \in [Node -> [sent -> Nat]]
    BY <1>2, <1>3, <2>4
  <2>. QED  BY <2>3, <2>5 DEF counts
<1>18. evicted' \in [Node -> SUBSET (Node \X Nat)] /\ \A k \in Node : evicted[k] \subseteq evicted'[k]
  <2>1. Forgotten(q) \subseteq Node \X Nat
    BY <1>6, ForgottenTyped
  <2>. QED  BY <1>1, <1>2, <1>3, <1>12, <2>1
<1>19. \A k \in Node : \A e \in Listed(bcMsgs'[k]) :
          e \in Listed(bcMsgs[k]) \/ (k = n /\ Id(e) = Id(m) /\ e.left = bcDelTime)
  BY <1>10, <1>12
<1>20. \A k \in Node : \A e \in Listed(bcMsgs[k]) : Fresh(e) =>
          Id(e) \in evicted'[k] \/ \E x \in Listed(bcMsgs'[k]) : Id(x) = Id(e)
  BY <1>12, <1>13
<1>21. new => Id(m) \in evicted[n] \/ (got[n][m] = 0 /\ m.src # n)
  <2>1. \A e \in Listed(bcMsgs[n]) : Id(e) = Id(m) => Fresh(e)
    BY <1>3, Freshness DEF m
  <2>2. got[n][m] \in Nat
    BY <1>2, <1>3
  <2>. QED  BY <1>3, <1>5, <2>1, <2>2 DEF IInv, Remembered, m
<1>22. ~new => \E e \in Listed(bcMsgs[n]) : Id(e) = Id(m)
  BY <1>5
<1>23. \E e \in Listed(bcMsgs'[n]) : Id(e) = Id(m)
  BY <1>11, <1>12
<1>. QED  BY <1>1, <1>3, <1>4, <1>14, <1>15, <1>16, <1>17, <1>18, <1>19, <1>20, <1>21, <1>22, <1>23
          DEF Arrived, new, n, m

LEMMA LowerStep ==
  ASSUME LongMemory, IInv, NEW c \in air, handleLowerMsg(c)
  PROVE  IInv'
<1>. DEFINE n == c.to
            m == c.msg
            new == notBroadcasted(bcMsgs[n], m)
<1>0. Arrived(c)
  BY LowerEffect
<1>1. /\ c \in Copy /\ n \in Node /\ m \in sent /\ m.src \in Node /\ m.seq \in Nat
      /\ bcMsgs' \in [Node -> Seq(Entry)] /\ \E e \in Listed(bcMsgs'[n]) : Id(e) = Id(m)
      /\ evicted' \in [Node -> SUBSET (Node \X Nat)] /\ \A k \in Node : evicted[k] \subseteq evicted'[k]
      /\ got' \in [Node -> [sent -> Nat]]
      /\ new => Id(m) \in evicted[n] \/ (got[n][m] = 0 /\ m.src # n)
      /\ stopped' \in BOOLEAN /\ UNCHANGED <<seqNum, sent, damaged>>
  BY <1>0 DEF Arrived
<1>2. /\ bcMsgs \in [Node -> Seq(Entry)] /\ air \subseteq Copy
      /\ sent \subseteq Msg /\ got \in [Node -> [sent -> Nat]]
  BY DEF IInv, TypeOK
<1>10. \A k \in Node : \A e \in Listed(bcMsgs'[k]) :
          e \in Listed(bcMsgs[k]) \/ (k = n /\ Id(e) = Id(m) /\ e.left = bcDelTime)
  BY <1>0 DEF Arrived
<1>13. \A k \in Node : \A e \in Listed(bcMsgs[k]) : Fresh(e) =>
          Id(e) \in evicted'[k] \/ \E x \in Listed(bcMsgs'[k]) : Id(x) = Id(e)
  BY <1>0 DEF Arrived
<1>14. \A x \in air' : x \in Copy /\ \E y \in air : x.msg = y.msg /\ Life(x) <= Life(y)
  BY <1>0 DEF Arrived
<1>15. \A k \in Node, y \in sent : got'[k][y] =
          IF k = n /\ y = m /\ new /\ m.dest \in {n, L3BROADCAST} THEN got[k][y] + 1 ELSE got[k][y]
  BY <1>0 DEF Arrived
<1>. HIDE DEF n, m, new
<1>16. TypeOK'
  <2>1. air' \subseteq Copy
    BY <1>14
  <2>. QED  BY <1>1, <2>1 DEF IInv, TypeOK
<1>17. Numbered'
  <2>1. \A x \in air' : x.msg \in sent'
    BY <1>1, <1>14 DEF IInv, Numbered
  <2>2. ASSUME NEW k \in Node, NEW e \in Listed(bcMsgs'[k]) PROVE e.seq < seqNum'[e.src]
    <3>1. CASE e \in Listed(bcMsgs[k])
      BY <1>1, <3>1 DEF IInv, Numbered
    <3>2. CASE e \notin Listed(bcMsgs[k])
      <4>1. k = n /\ Id(e) = Id(m)
        BY <1>10, <3>2
      <4>2. e.src = m.src /\ e.seq = m.seq
        BY <4>1 DEF Id
      <4>. QED  BY <1>1, <4>2 DEF IInv, Numbered
    <3>. QED  BY <3>1, <3>2
  <2>3. \A y \in sent' : y.seq < seqNum'[y.src]
    BY <1>1 DEF IInv, Numbered
  <2>4. \A y, k \in sent' : Id(y) = Id(k) => y = k
    BY <1>1 DEF IInv, Numbered
  <2>. QED  BY <2>1, <2>2, <2>3, <2>4 DEF Numbered
<1>18. Alive'
  <2>. SUFFICES ASSUME NEW k \in Node, NEW e \in Listed(bcMsgs'[k]), NEW x \in air', Id(e) = Id(x.msg)
                PROVE  e.left >= Life(x)
    BY DEF Alive
  <2>1. PICK y \in air : x.msg = y.msg /\ Life(x) <= Life(y)
    BY <1>14
  <2>2. x \in Copy /\ y \in Copy
    BY <1>2, <1>14
  <2>3. Life(x) \in Nat /\ Life(y) \in Nat /\ Life(x) <= bcDelTime /\ bcDelTime \in Nat
    BY <2>2, Lives
  <2>4. CASE e \in Listed(bcMsgs[k])
    <3>1. e.left >= Life(y)
      BY <2>1, <2>4 DEF IInv, Alive
    <3>2. bcMsgs[k] \in Seq(Entry)
      BY <1>2
    <3>3. e.left \in Int
      BY <2>4, <3>2, ListedTyped DEF Entry
    <3>. QED  BY <2>1, <2>3, <3>1, <3>3
  <2>5. CASE e \notin Listed(bcMsgs[k])
    <3>1. e.left = bcDelTime
      BY <1>10, <2>5
    <3>. QED  BY <2>3, <3>1
  <2>. QED  BY <2>4, <2>5
<1>19. Remembered'
  <2>. SUFFICES ASSUME NEW k \in Node, NEW x \in air', got'[k][x.msg] > 0 \/ x.msg.src = k
                PROVE  \/ Id(x.msg) \in evicted'[k]
                       \/ \E e \in Listed(bcMsgs'[k]) : Id(e) = Id(x.msg)
    BY DEF Remembered
  <2>1. PICK y \in air : x.msg = y.msg
    BY <1>14
  <2>2. y.msg \in sent
    BY DEF IInv, Numbered
  <2>3. CASE k = n /\ y.msg = m
    BY <1>1, <2>1, <2>3
  <2>4. CASE ~(k = n /\ y.msg = m)
    <3>1. got'[k][y.msg] = got[k][y.msg]
      BY <1>15, <2>2, <2>4
    <3>2. \/ Id(y.msg) \in evicted[k]
          \/ \E e \in Listed(bcMsgs[k]) : Id(e) = Id(y.msg)
      BY <2>1, <3>1 DEF IInv, Remembered
    <3>3. CASE Id(y.msg) \in evicted[k]
      BY <1>1, <2>1, <3>3
    <3>4. CASE \E e \in Listed(bcMsgs[k]) : Id(e) = Id(y.msg)
      <4>1. PICK e \in Listed(bcMsgs[k]) : Id(e) = Id(y.msg)
        BY <3>4
      <4>2. Fresh(e)
        BY <4>1, Freshness
      <4>. QED  BY <1>13, <2>1, <4>1, <4>2
    <3>. QED  BY <3>2, <3>3, <3>4
  <2>. QED  BY <2>3, <2>4
<1>20. NoDuplicateUp'
  <2>. SUFFICES ASSUME NEW k \in Node, NEW y \in sent, got'[k][y] > (IF y.src = k THEN 0 ELSE 1)
                PROVE  <<y.src, y.seq>> \in evicted'[k]
    BY <1>1 DEF NoDuplicateUp
  <2>1. got[k][y] \in Nat
    BY <1>2
  <2>2. CASE got'[k][y] = got[k][y]
    <3>1. <<y.src, y.seq>> \in evicted[k]
      BY <2>2 DEF IInv, NoDuplicateUp
    <3>. QED  BY <3>1, <1>1
  <2>3. CASE got'[k][y] # got[k][y]
    <3>1. k = n /\ y = m /\ new /\ got'[k][y] = got[k][y] + 1
      BY <1>15, <2>3
    <3>2. got[k][y] > 0 \/ m.src = n
      BY <2>1, <3>1
    <3>3. Id(m) \in evicted[n]
      BY <1>1, <3>1, <3>2
    <3>. QED  BY <1>1, <3>1, <3>3 DEF Id
  <2>. QED  BY <2>2, <2>3
<1>. QED  BY <1>16, <1>17, <1>18, <1>19, <1>20 DEF IInv

LEMMA FloodStep == ASSUME LongMemory, IInv, [Next]_vars PROVE IInv'
<1>1. CASE UNCHANGED vars
  BY <1>1 DEF vars, histVars, IInv, TypeOK, Numbered, Alive, Remembered, NoDuplicateUp
<1>2. CASE Next
  BY <1>2, UpperStep, LowerStep, LoseStep, TickStep DEF Next
<1>. QED  BY <1>1, <1>2

\* Flood::notBroadcasted: an application gets a message once, and never its own, unless the
\* node forgot it because its list was full, in every network whose nodes remember a message
\* as long as it can travel.  Plain flooding only: without a list every copy is new.
THEOREM OncePerApplication == ASSUME LongMemory PROVE Spec => []NoDuplicateUp
<1>1. IInv => NoDuplicateUp
  BY DEF IInv
<1>. QED  BY <1>1, InitFlood, FloodStep, PTL DEF Spec

-----------------------------------------------------------------------------
(* A flood reaches everybody *)

\* A message has hops enough to visit every node, and a message for one node goes to a neighbour.
FarEnough ==
  /\ IsFiniteSet(Node) /\ defaultTtl >= Cardinality(Node) - 1
  /\ \A n \in Node : Flow[n] \subseteq Nbr[n] \cup {n, L3BROADCAST}

NothingForgotten == \A n \in Node : evicted[n] = {}

Seen(m) == {n \in Node : n = m.src \/ got[n][m] > 0}

\* Who remembers a message that is for it has passed it up.
Noted ==
  \A n \in Node : \A e \in Listed(bcMsgs[n]) : \A m \in sent :
     Id(e) = Id(m) /\ m.dest \in {n, L3BROADCAST} => n \in Seen(m)

\* Each hop of a flooded message took it to a node that had not seen it.
HopsSpent ==
  \A c \in air : c.msg.dest = L3BROADCAST => c.ttl + Cardinality(Seen(c.msg)) > defaultTtl

\* A flooded message leaves the nodes that have seen it.
Leaving ==
  \A m \in sent \ damaged : m.dest = L3BROADCAST =>
     \A n \in Seen(m) : \A k \in Nbr[n] : k \in Seen(m) \/ \E c \in air : c.msg = m /\ c.to = k

Direct ==
  \A m \in sent \ damaged : m.dest \in Node /\ m.dest # m.src =>
     m.dest \in Seen(m) \/ \E c \in air : c.msg = m /\ c.to = m.dest

ReachInv == NothingForgotten => Noted /\ HopsSpent /\ Leaving /\ Direct

\* The node that none but it has missed is the last one.
LEMMA LastOne ==
  ASSUME FarEnough, NEW S \in SUBSET Node, NEW n \in Node \ S
  PROVE  /\ Cardinality(S) \in Nat /\ Cardinality(S \cup {n}) = Cardinality(S) + 1
         /\ 1 + Cardinality(S) > defaultTtl => S \cup {n} = Node
<1>1. IsFiniteSet(S) /\ IsFiniteSet(S \cup {n})
  BY FS_Subset DEF FarEnough
<1>2. Cardinality(S) \in Nat /\ Cardinality(Node) \in Nat /\ defaultTtl \in Nat
  BY <1>1, FS_CardinalityType, ParameterAssumption DEF FarEnough
<1>3. Cardinality(S \cup {n}) = Cardinality(S) + 1
  BY <1>1, FS_AddElement
<1>4. /\ Cardinality(S \cup {n}) <= Cardinality(Node)
      /\ Cardinality(S \cup {n}) = Cardinality(Node) => S \cup {n} = Node
  BY FS_Subset DEF FarEnough
<1>. QED  BY <1>2, <1>3, <1>4 DEF FarEnough

LEMMA SeenMore ==
  ASSUME FarEnough, NEW S \in SUBSET Node, NEW T \in SUBSET Node, S \subseteq T
  PROVE  Cardinality(S) \in Nat /\ Cardinality(T) \in Nat /\ Cardinality(S) <= Cardinality(T)
<1>1. IsFiniteSet(S) /\ IsFiniteSet(T)
  BY FS_Subset DEF FarEnough
<1>. QED  BY <1>1, FS_Subset, FS_CardinalityType

LEMMA InitReach == Init => ReachInv
<1>1. DOMAIN <<>> = {}
  OBVIOUS
<1>. SUFFICES ASSUME Init PROVE Noted /\ HopsSpent /\ Leaving /\ Direct
  BY DEF ReachInv
<1>. QED  BY <1>1 DEF Init, Noted, HopsSpent, Leaving, Direct

LEMMA LoseReach == ASSUME IInv, ReachInv, NEW c \in air, Lose(c) PROVE ReachInv'
<1>1. /\ air' = air \ {c} /\ damaged' = damaged \cup {c.msg}
      /\ UNCHANGED <<seqNum, bcMsgs, stopped, sent, got, evicted>>
  BY DEF Lose
<1>2. \A m \in sent : Seen(m)' = Seen(m)
  BY <1>1 DEF Seen
<1>3. \A x \in air : x.msg \in sent
  BY DEF IInv, Numbered
<1>. SUFFICES ASSUME NothingForgotten, Noted, HopsSpent, Leaving, Direct
              PROVE  Noted' /\ HopsSpent' /\ Leaving' /\ Direct'
  BY <1>1 DEF ReachInv, NothingForgotten
<1>4. Noted'
  BY <1>1, <1>2 DEF Noted
<1>5. HopsSpent'
  BY <1>1, <1>2, <1>3 DEF HopsSpent
<1>6. Leaving'
  BY <1>1, <1>2 DEF Leaving
<1>7. Direct'
  BY <1>1, <1>2 DEF Direct
<1>. QED  BY <1>4, <1>5, <1>6, <1>7

LEMMA TickReach == ASSUME IInv, ReachInv, Tick PROVE ReachInv'
<1>1. /\ air' = {[c EXCEPT !.left = @ - 1] : c \in air}
      /\ UNCHANGED <<seqNum, stopped, sent, got, damaged, evicted>>
  BY DEF Tick, histVars
<1>2. \A m \in sent : Seen(m)' = Seen(m)
  BY <1>1 DEF Seen
<1>3. \A x \in air : x.msg \in sent /\ x \in Copy
  BY DEF IInv, Numbered, TypeOK
<1>4. \A x \in air : /\ [x EXCEPT !.left = @ - 1].msg = x.msg /\ [x EXCEPT !.left = @ - 1].ttl = x.ttl
                     /\ [x EXCEPT !.left = @ - 1].to = x.to
  BY <1>3 DEF Copy
<1>5. \A y \in air' : \E x \in air : y.msg = x.msg /\ y.ttl = x.ttl
  BY <1>1, <1>4
<1>6. \A x \in air : \E y \in air' : y.msg = x.msg /\ y.to = x.to
  BY <1>1, <1>4
<1>7. \A n \in Node : \A d \in Listed(bcMsgs'[n]) : \E e \in Listed(bcMsgs[n]) : Id(d) = Id(e)
  <2>. SUFFICES ASSUME NEW n \in Node, NEW d \in Listed(bcMsgs'[n])
                PROVE  \E e \in Listed(bcMsgs[n]) : Id(d) = Id(e)
    OBVIOUS
  <2>1. bcMsgs'[n] = [i \in DOMAIN bcMsgs[n] |-> Older(bcMsgs[n][i])] /\ bcMsgs[n] \in Seq(Entry)
    BY DEF Tick, Older, IInv, TypeOK
  <2>2. PICK i \in DOMAIN bcMsgs[n] : d = Older(bcMsgs[n][i])
    BY <2>1 DEF Listed
  <2>3. bcMsgs[n][i] \in Listed(bcMsgs[n]) /\ bcMsgs[n][i] \in Entry
    BY <2>1, <2>2 DEF Listed
  <2>. QED  BY <2>2, <2>3, OlderEntry
<1>. SUFFICES ASSUME NothingForgotten, Noted, HopsSpent, Leaving, Direct
              PROVE  Noted' /\ HopsSpent' /\ Leaving' /\ Direct'
  BY <1>1 DEF ReachInv, NothingForgotten
<1>8. Noted'
  <2>. SUFFICES ASSUME NEW n \in Node, NEW d \in Listed(bcMsgs'[n]), NEW m \in sent,
                       Id(d) = Id(m), m.dest \in {n, L3BROADCAST}
                PROVE  n \in Seen(m)
    BY <1>1, <1>2 DEF Noted
  <2>. QED  BY <1>7 DEF Noted
<1>9. HopsSpent'
  BY <1>1, <1>2, <1>3, <1>5 DEF HopsSpent
<1>10. Leaving'
  <2>. SUFFICES ASSUME NEW m \in sent \ damaged, m.dest = L3BROADCAST, NEW n \in Seen(m), NEW k \in Nbr[n]
                PROVE  k \in Seen(m) \/ \E c \in air' : c.msg = m /\ c.to = k
    BY <1>1, <1>2 DEF Leaving
  <2>. QED  BY <1>6 DEF Leaving
<1>11. Direct'
  <2>. SUFFICES ASSUME NEW m \in sent \ damaged, m.dest \in Node, m.dest # m.src
                PROVE  m.dest \in Seen(m) \/ \E c \in air' : c.msg = m /\ c.to = m.dest
    BY <1>1, <1>2 DEF Direct
  <2>. QED  BY <1>6 DEF Direct
<1>. QED  BY <1>8, <1>9, <1>10, <1>11

LEMMA UpperReach ==
  ASSUME LongMemory, FarEnough, IInv, ReachInv, NEW n \in Node, NEW d \in Flow[n], handleUpperMsg(n, d)
  PROVE  ReachInv'
<1>0. PICK m : m = [src |-> n, seq |-> seqNum[n], dest |-> d]
  OBVIOUS
<1>1. Originated(n, m) /\ m.dest = d
  BY <1>0, UpperEffect
<1>2. /\ air \subseteq Copy /\ sent \subseteq Msg
      /\ evicted \in [Node -> SUBSET (Node \X Nat)] /\ got \in [Node -> [sent -> Nat]]
  BY DEF IInv, TypeOK
<1>3. /\ m.src = n /\ m \in Msg /\ sent' = sent \cup {m} /\ damaged' = damaged
      /\ \A k \in sent : Id(k) # Id(m) /\ k # m
      /\ air' = air \cup Copies(n, m, defaultTtl, m.dest)
      /\ \A x \in air : x.msg \in sent
  BY <1>1 DEF Originated, IInv, Numbered
<1>4. \A k \in Node, y \in sent' : got'[k][y] = IF y = m THEN 0 ELSE got[k][y]
  BY <1>1 DEF Originated
<1>5. \A y \in sent : Seen(y)' = Seen(y)
  BY <1>3, <1>4 DEF Seen
<1>6. Seen(m)' = {n}
  <2>1. \A k \in Node : got'[k][m] = 0
    BY <1>3, <1>4
  <2>. QED  BY <1>3, <2>1 DEF Seen
<1>7. \A x \in Copies(n, m, defaultTtl, m.dest) : x.msg = m /\ x.ttl = defaultTtl
  BY <1>3, ParameterAssumption, CopiesMade
<1>. SUFFICES ASSUME NothingForgotten' PROVE Noted' /\ HopsSpent' /\ Leaving' /\ Direct'
  BY DEF ReachInv
<1>8. NothingForgotten /\ Noted /\ HopsSpent /\ Leaving /\ Direct
  BY <1>1, <1>2 DEF ReachInv, NothingForgotten, Originated
<1>9. Noted'
  <2>. SUFFICES ASSUME NEW k \in Node, NEW e \in Listed(bcMsgs'[k]), NEW y \in sent',
                       Id(e) = Id(y), y.dest \in {k, L3BROADCAST}
                PROVE  k \in Seen(y)'
    BY DEF Noted
  <2>1. CASE e \in Listed(bcMsgs[k])
    <3>1. Id(e) # Id(m)
      BY <1>1, <2>1 DEF Originated
    <3>2. y \in sent
      BY <1>3, <3>1
    <3>. QED  BY <1>5, <1>8, <2>1, <3>2 DEF Noted
  <2>2. CASE e \notin Listed(bcMsgs[k])
    <3>1. k = n /\ Id(y) = Id(m)
      BY <1>1, <2>2 DEF Originated
    <3>. QED  BY <1>3, <1>6, <3>1
  <2>. QED  BY <2>1, <2>2
<1>10. HopsSpent'
  <2>. SUFFICES ASSUME NEW x \in air', x.msg.dest = L3BROADCAST
                PROVE  x.ttl + Cardinality(Seen(x.msg)') > defaultTtl
    BY DEF HopsSpent
  <2>1. CASE x \in air
    BY <1>3, <1>5, <1>8, <2>1 DEF HopsSpent
  <2>2. CASE x \notin air
    <3>1. x.msg = m /\ x.ttl = defaultTtl
      BY <1>3, <1>7, <2>2
    <3>2. Cardinality(Seen(m)') = 1
      BY <1>6, FS_Singleton
    <3>. QED  BY <3>1, <3>2, ParameterAssumption
  <2>. QED  BY <2>1, <2>2
<1>11. Leaving'
  <2>. SUFFICES ASSUME NEW y \in sent' \ damaged, y.dest = L3BROADCAST, NEW j \in Seen(y)', NEW k \in Nbr[j]
                PROVE  k \in Seen(y)' \/ \E c \in air' : c.msg = y /\ c.to = k
    BY <1>3 DEF Leaving
  <2>1. CASE y \in sent
    BY <1>3, <1>5, <1>8, <2>1 DEF Leaving
  <2>2. CASE y = m
    <3>1. j = n
      BY <1>6, <2>2
    <3>2. [msg |-> m, ttl |-> defaultTtl, from |-> n, to |-> k, left |-> MaxDelay] \in air'
      BY <1>3, <2>2, <3>1 DEF Copies
    <3>. QED  BY <2>2, <3>2
  <2>. QED  BY <1>3, <2>1, <2>2
<1>12. Direct'
  <2>. SUFFICES ASSUME NEW y \in sent' \ damaged, y.dest \in Node, y.dest # y.src
                PROVE  y.dest \in Seen(y)' \/ \E c \in air' : c.msg = y /\ c.to = y.dest
    BY <1>3 DEF Direct
  <2>1. CASE y \in sent
    BY <1>3, <1>5, <1>8, <2>1 DEF Direct
  <2>2. CASE y = m
    <3>1. m.dest \in Nbr[n] /\ m.dest # L3BROADCAST
      BY <1>1, <1>3, <2>2, NetworkAssumption DEF FarEnough
    <3>2. [msg |-> m, ttl |-> defaultTtl, from |-> n, to |-> m.dest, left |-> MaxDelay] \in air'
      BY <1>3, <3>1 DEF Copies
    <3>. QED  BY <2>2, <3>2
  <2>. QED  BY <1>3, <2>1, <2>2
<1>. QED  BY <1>9, <1>10, <1>11, <1>12

LEMMA LowerReach ==
  ASSUME LongMemory, FarEnough, IInv, ReachInv, NEW c \in air, handleLowerMsg(c)
  PROVE  ReachInv'
<1>. DEFINE n == c.to
            m == c.msg
            new == notBroadcasted(bcMsgs[n], m)
<1>1. Arrived(c)
  BY LowerEffect
<1>2. /\ n \in Node /\ m \in sent /\ c \in Copy /\ c.ttl \in 1..defaultTtl
      /\ UNCHANGED <<seqNum, sent, damaged>>
      /\ air' = (air \ {c}) \cup IF new THEN Forwarded(n, c) ELSE {}
      /\ ~new => \E e \in Listed(bcMsgs[n]) : Id(e) = Id(m)
  BY <1>1 DEF Arrived, Copy
<1>3. \A k \in Node : \A e \in Listed(bcMsgs'[k]) :
         e \in Listed(bcMsgs[k]) \/ (k = n /\ Id(e) = Id(m) /\ e.left = bcDelTime)
  BY <1>1 DEF Arrived
<1>4. \A k \in Node, y \in sent : got'[k][y] =
         IF k = n /\ y = m /\ new /\ m.dest \in {n, L3BROADCAST} THEN got[k][y] + 1 ELSE got[k][y]
  BY <1>1 DEF Arrived
<1>5. /\ evicted \in [Node -> SUBSET (Node \X Nat)] /\ got \in [Node -> [sent -> Nat]]
      /\ \A x \in air : x.msg \in sent
      /\ \A y, k \in sent : Id(y) = Id(k) => y = k
  BY DEF IInv, TypeOK, Numbered
<1>. SUFFICES ASSUME NothingForgotten' PROVE Noted' /\ HopsSpent' /\ Leaving' /\ Direct'
  BY DEF ReachInv
<1>6. NothingForgotten
  BY <1>1, <1>5 DEF NothingForgotten, Arrived
<1>7. Noted /\ HopsSpent /\ Leaving /\ Direct
  BY <1>6 DEF ReachInv
<1>8. new => n \notin Seen(m)
  BY <1>1, <1>2, <1>5, <1>6 DEF Arrived, NothingForgotten, Seen
<1>. HIDE DEF n, m, new
<1>9. ~new /\ m.dest \in {n, L3BROADCAST} => n \in Seen(m)
  BY <1>2, <1>7 DEF Noted
<1>10. \A y \in sent : Seen(y) \subseteq Node /\ Seen(y)' \subseteq Node /\ Seen(y) \subseteq Seen(y)'
  BY <1>2, <1>4, <1>5 DEF Seen
<1>11. \A y \in sent : y # m => Seen(y)' = Seen(y)
  BY <1>2, <1>4 DEF Seen
<1>12. ~new => Seen(m)' = Seen(m)
  BY <1>2, <1>4 DEF Seen
<1>13. new /\ m.dest \in {n, L3BROADCAST} => Seen(m)' = Seen(m) \cup {n}
  <2>. SUFFICES ASSUME new, m.dest \in {n, L3BROADCAST} PROVE Seen(m)' = Seen(m) \cup {n}
    OBVIOUS
  <2>1. got[n][m] \in Nat /\ got'[n][m] = got[n][m] + 1
    BY <1>2, <1>4, <1>5
  <2>2. \A k \in Node : k # n => got'[k][m] = got[k][m]
    BY <1>2, <1>4
  <2>. QED  BY <1>2, <2>1, <2>2 DEF Seen
<1>14. \A x \in Forwarded(n, c) : x.msg = m /\ x.ttl = c.ttl - 1
  <2>. SUFFICES ASSUME NEW x \in Forwarded(n, c) PROVE x.msg = m /\ x.ttl = c.ttl - 1
    OBVIOUS
  <2>1. \E hop : x \in Copies(n, c.msg, c.ttl - 1, hop)
    BY DEF Forwarded
  <2>. QED  BY <2>1 DEF Copies, m
<1>15. Noted'
  <2>. SUFFICES ASSUME NEW k \in Node, NEW e \in Listed(bcMsgs'[k]), NEW y \in sent,
                       Id(e) = Id(y), y.dest \in {k, L3BROADCAST}
                PROVE  k \in Seen(y)'
    BY <1>2 DEF Noted
  <2>1. CASE e \in Listed(bcMsgs[k])
    BY <1>7, <1>10, <2>1 DEF Noted
  <2>2. CASE e \notin Listed(bcMsgs[k])
    <3>1. k = n /\ y = m
      BY <1>2, <1>3, <1>5, <2>2
    <3>. QED  BY <1>9, <1>12, <1>13, <3>1
  <2>. QED  BY <2>1, <2>2
<1>16. HopsSpent'
  <2>. SUFFICES ASSUME NEW x \in air', x.msg.dest = L3BROADCAST
                PROVE  x.ttl + Cardinality(Seen(x.msg)') > defaultTtl
    BY DEF HopsSpent
  <2>1. CASE x \in air
    <3>1. x.msg \in sent /\ x.ttl \in Nat
      BY <1>5, <2>1, ParameterAssumption DEF IInv, TypeOK, Copy
    <3>2. x.ttl + Cardinality(Seen(x.msg)) > defaultTtl
      BY <1>7, <2>1 DEF HopsSpent
    <3>3. /\ Cardinality(Seen(x.msg)) \in Nat /\ Cardinality(Seen(x.msg)') \in Nat
          /\ Cardinality(Seen(x.msg)) <= Cardinality(Seen(x.msg)')
      BY <1>10, <3>1, SeenMore
    <3>. QED  BY <3>1, <3>2, <3>3, ParameterAssumption
  <2>2. CASE x \notin air
    <3>1. new /\ x.msg = m /\ x.ttl = c.ttl - 1
      BY <1>2, <1>14, <2>2
    <3>2. Seen(m)' = Seen(m) \cup {n} /\ n \in Node \ Seen(m)
      BY <1>2, <1>8, <1>13, <3>1
    <3>3. Cardinality(Seen(m)) \in Nat /\ Cardinality(Seen(m)') = Cardinality(Seen(m)) + 1
      BY <1>2, <1>10, <3>2, LastOne
    <3>4. c.ttl + Cardinality(Seen(m)) > defaultTtl
      BY <1>7, <3>1 DEF HopsSpent, m
    <3>. QED  BY <1>2, <3>1, <3>3, <3>4, ParameterAssumption
  <2>. QED  BY <2>1, <2>2
<1>17. Leaving'
  <2>. SUFFICES ASSUME NEW y \in sent \ damaged, y.dest = L3BROADCAST, NEW j \in Seen(y)', NEW k \in Nbr[j]
                PROVE  k \in Seen(y)' \/ \E x \in air' : x.msg = y /\ x.to = k
    BY <1>2 DEF Leaving
  <2>1. CASE j \in Seen(y)
    <3>1. k \in Seen(y) \/ \E x \in air : x.msg = y /\ x.to = k
      BY <1>7, <2>1 DEF Leaving
    <3>2. CASE k \in Seen(y)
      BY <1>10, <3>2
    <3>3. CASE \E x \in air : x.msg = y /\ x.to = k
      <4>1. PICK x \in air : x.msg = y /\ x.to = k
        BY <3>3
      <4>2. CASE x = c
        <5>1. y = m /\ k = n
          BY <4>1, <4>2 DEF m, n
        <5>. QED  BY <1>9, <1>12, <1>13, <5>1
      <4>3. CASE x # c
        BY <1>2, <4>1, <4>3
      <4>. QED  BY <4>2, <4>3
    <3>. QED  BY <3>1, <3>2, <3>3
  <2>2. CASE j \notin Seen(y)
    <3>1. y = m /\ new
      BY <1>11, <1>12, <2>2
    <3>2. j = n /\ Seen(m)' = Seen(m) \cup {n} /\ n \in Node \ Seen(m)
      BY <1>2, <1>8, <1>13, <2>2, <3>1
    <3>3. CASE c.ttl > 1
      <4>1. Forwarded(n, c) = Copies(n, m, c.ttl - 1, L3BROADCAST)
        BY <1>2, <3>1, <3>3, NetworkAssumption DEF Forwarded, HopsLeft, m
      <4>2. [msg |-> m, ttl |-> c.ttl - 1, from |-> n, to |-> k, left |-> MaxDelay] \in Forwarded(n, c)
        BY <3>2, <4>1 DEF Copies
      <4>. QED  BY <1>2, <3>1, <4>2
    <3>4. CASE ~(c.ttl > 1)
      <4>1. c.ttl = 1
        BY <1>2, <3>4
      <4>2. 1 + Cardinality(Seen(m)) > defaultTtl
        BY <1>7, <3>1, <4>1 DEF HopsSpent, m
      <4>3. Seen(m)' = Node
        BY <1>2, <1>10, <3>2, <4>2, LastOne
      <4>4. k \in Node
        BY <1>2, <3>2, NetworkAssumption
      <4>. QED  BY <3>1, <4>3, <4>4
    <3>. QED  BY <3>3, <3>4
  <2>. QED  BY <2>1, <2>2
<1>18. Direct'
  <2>. SUFFICES ASSUME NEW y \in sent \ damaged, y.dest \in Node, y.dest # y.src
                PROVE  y.dest \in Seen(y)' \/ \E x \in air' : x.msg = y /\ x.to = y.dest
    BY <1>2 DEF Direct
  <2>1. CASE y.dest \in Seen(y)
    BY <1>10, <2>1
  <2>2. CASE y.dest \notin Seen(y)
    <3>1. PICK x \in air : x.msg = y /\ x.to = y.dest
      BY <1>7, <2>2 DEF Direct
    <3>2. CASE x = c
      <4>1. y = m /\ y.dest = n
        BY <3>1, <3>2 DEF m, n
      <4>. QED  BY <1>9, <1>12, <1>13, <4>1
    <3>3. CASE x # c
      BY <1>2, <3>1, <3>3
    <3>. QED  BY <3>2, <3>3
  <2>. QED  BY <2>1, <2>2
<1>. QED  BY <1>15, <1>16, <1>17, <1>18

\* The equation of the recursion in Within
LEMMA WithinEquation ==
  Within = [k \in 0..defaultTtl |-> [n \in Node |->
              IF k = 0 THEN {n}
              ELSE Within[k - 1][n] \cup UNION {Nbr[x] : x \in Within[k - 1][n]}]]
<1>. DEFINE Layer(f, k) == [n \in Node |-> IF k = 0 THEN {n} ELSE f[k - 1][n] \cup UNION {Nbr[x] : x \in f[k - 1][n]}]
            Solves(f, j) == f = [k \in 0..j |-> Layer(f, k)]
            Solvable(j) == \E f : Solves(f, j)
            T == {j \in Nat : ~Solvable(j)}
<1>0. Within = CHOOSE f : Solves(f, defaultTtl)
  BY DEF Within
<1>. HIDE DEF Solvable
<1>1. T = {}
  <2>. SUFFICES ASSUME T # {} PROVE FALSE
    OBVIOUS
  <2>1. PICK j \in T : \A i \in T : j <= i
    BY Least
  <2>2. j # 0
    <3>. DEFINE f == [k \in 0..0 |-> [n \in Node |-> {n}]]
    <3>1. \A k \in 0..0 : Layer(f, k) = [n \in Node |-> {n}]
      OBVIOUS
    <3>2. Solves(f, 0)
      BY <3>1
    <3>. QED  BY <3>2 DEF Solvable
  <2>3. j - 1 \in Nat /\ j - 1 \notin T
    BY <2>1, <2>2
  <2>4. PICK f : Solves(f, j - 1)
    BY <2>3 DEF Solvable
  <2>. DEFINE g == [k \in 0..j |-> IF k < j THEN f[k] ELSE Layer(f, j)]
  <2>5. \A k \in 0..j : k # 0 => g[k - 1] = f[k - 1]
    BY <2>3
  <2>6. \A k \in 0..j : Layer(g, k) = Layer(f, k)
    BY <2>5
  <2>7. \A k \in 0..(j - 1) : f[k] = Layer(f, k)
    BY <2>4
  <2>. HIDE DEF Layer
  <2>8. \A k \in 0..j : g[k] = Layer(g, k)
    BY <2>3, <2>6, <2>7
  <2>9. Solves(g, j)
    BY <2>8
  <2>. QED  BY <2>1, <2>9 DEF Solvable
<1>2. \E f : Solves(f, defaultTtl)
  BY <1>1, ParameterAssumption DEF Solvable
<1>3. Solves(Within, defaultTtl)
  BY <1>0, <1>2
<1>. QED  BY <1>3

\* Who is within some hops of n is in every set that holds n and the neighbours of its members.
LEMMA WithinClosed ==
  ASSUME NEW S \in SUBSET Node, \A x \in S : Nbr[x] \subseteq S, NEW n \in S
  PROVE  Within[defaultTtl][n] \subseteq S
<1>. DEFINE T == {k \in 0..defaultTtl : ~(Within[k][n] \subseteq S)}
<1>1. T = {}
  <2>. SUFFICES ASSUME T # {} PROVE FALSE
    OBVIOUS
  <2>1. T \in SUBSET Nat
    OBVIOUS
  <2>2. PICK k \in T : \A i \in T : k <= i
    BY <2>1, Least
  <2>3. Within[k][n] = IF k = 0 THEN {n}
                       ELSE Within[k - 1][n] \cup UNION {Nbr[x] : x \in Within[k - 1][n]}
    <3>1. k \in 0..defaultTtl
      BY <2>2
    <3>. QED  BY <3>1, WithinEquation
  <2>4. k # 0 /\ k - 1 \in 0..defaultTtl /\ k - 1 \notin T
    <3>1. k \in 0..defaultTtl /\ ~(Within[k][n] \subseteq S)
      BY <2>2
    <3>2. k # 0
      BY <2>3, <3>1
    <3>3. k - 1 \in 0..defaultTtl
      BY <3>1, <3>2, ParameterAssumption
    <3>. QED  BY <2>1, <2>2, <3>2, <3>3
  <2>5. Within[k - 1][n] \subseteq S
    BY <2>4
  <2>. QED  BY <2>2, <2>3, <2>4, <2>5
<1>2. defaultTtl \in 0..defaultTtl
  BY ParameterAssumption
<1>. QED  BY <1>1, <1>2

\* Flood.cc:69, a message "is flooded (i.e. has to be send to all neighbors)": while no list
\* was full, a message that lost no copy has reached everybody when its last copy is gone, in
\* every network of at most defaultTtl + 1 nodes, where each path without a loop is short enough.
THEOREM FloodReachesAll ==
  ASSUME LongMemory, FarEnough PROVE Spec => [](NothingForgotten => FloodReaches)
<1>1. IInv /\ ReachInv /\ [Next]_vars => IInv' /\ ReachInv'
  <2>1. ASSUME ReachInv, UNCHANGED vars PROVE ReachInv'
    BY <2>1 DEF vars, histVars, ReachInv, NothingForgotten, Noted, HopsSpent, Leaving, Direct, Seen
  <2>2. ASSUME IInv, ReachInv, Next PROVE ReachInv'
    BY <2>2, UpperReach, LowerReach, LoseReach, TickReach DEF Next
  <2>. QED  BY <2>1, <2>2, FloodStep
<1>2. IInv /\ ReachInv => (NothingForgotten => FloodReaches)
  <2>. SUFFICES ASSUME IInv, Leaving, Direct, NEW m \in sent \ damaged, NEW n \in Node,
                       n # m.src, m.dest \in {n, L3BROADCAST}, n \in Within[defaultTtl][m.src],
                       \A c \in air : c.msg # m
                PROVE  got[n][m] > 0
    BY DEF ReachInv, FloodReaches
  <2>1. n \in Seen(m)
    <3>1. CASE m.dest = L3BROADCAST
      <4>1. \A x \in Seen(m) : Nbr[x] \subseteq Seen(m)
        BY <3>1 DEF Leaving
      <4>2. Seen(m) \in SUBSET Node /\ m.src \in Seen(m)
        BY DEF Seen, IInv, TypeOK, Msg
      <4>. QED  BY <4>1, <4>2, WithinClosed
    <3>2. CASE m.dest = n
      BY <3>2 DEF Direct
    <3>. QED  BY <3>1, <3>2
  <2>. QED  BY <2>1 DEF Seen
<1>. QED  BY <1>1, <1>2, InitFlood, InitReach, PTL DEF Spec
=============================================================================
