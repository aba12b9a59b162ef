------------------------ MODULE ChannelControlProofs ------------------------
(***************************************************************************)
(* What holds of ChannelControl for any number of nics, any playground and *)
(* any interference distance.                                              *)
(*                                                                         *)
(* The argument: two places in range lie in the same or in adjacent        *)
(* squares (InRangeIsAround), hence a nic outside the squares that a move  *)
(* checks is neither in range of the old place, so that it has no          *)
(* connection to lose, nor of the new place, so that it has none to get.   *)
(* The lemma needs the borders of the grid not to wrap around, or a grid   *)
(* of one square.                                                          *)
(***************************************************************************)
EXTENDS NicGates, CsmaAloha, SequenceTheorems, FiniteSetTheorems, WellFoundedInduction, TLAPS

NoWrap == ~useTorus \/ OneSquare
-----------------------------------------------------------------------------
(***************************************************************************)
(* Arithmetic of the grid                                                  *)
(***************************************************************************)
LEMMA Quotient ==
    ASSUME NEW d \in Nat \ {0}, NEW a \in Nat
    PROVE  /\ a \div d \in Nat
           /\ d * (a \div d) <= a
           /\ a < d * (a \div d) + d
OBVIOUS

\* Places closer than the edge of a square are at most one square apart.
LEMMA AdjacentSquares ==
    ASSUME NEW d \in Nat \ {0}, NEW a \in Nat, NEW b \in Nat, a - b < d
    PROVE  a \div d <= b \div d + 1
<1> DEFINE q == a \div d
           r == b \div d
<1>1. q \in Nat /\ d * q <= a /\ r \in Nat /\ b < d * r + d
  BY Quotient
<1> HIDE DEF q, r
<1>2. d * q < d * r + d + d
  BY <1>1
<1>3. d * r + d + d = d * (r + 2)
  BY <1>1
<1>4. ASSUME q >= r + 2 PROVE FALSE
  <2>1. d * (r + 2) <= d * q
    BY <1>1, <1>4
  <2> QED BY <1>1, <1>2, <1>3, <2>1
<1>5. q <= r + 1
  BY <1>1, <1>4
<1> QED BY <1>5 DEF q, r

\* A wider square never has a higher number.
LEMMA WiderSquares ==
    ASSUME NEW d \in Nat \ {0}, NEW e \in Nat, e >= d,
           NEW a \in Nat, NEW b \in Nat, a <= b
    PROVE  a \div e <= b \div d
<1> DEFINE q == a \div e
           r == b \div d
<1>1. q \in Nat /\ e * q <= a /\ r \in Nat /\ b < d * r + d
  BY Quotient
<1> HIDE DEF q, r
<1>2. ASSUME q >= r + 1 PROVE FALSE
  <2>1. d * (r + 1) <= d * q
    BY <1>1, <1>2
  <2>2. d * q <= e * q
    BY <1>1
  <2>3. d * (r + 1) = d * r + d
    BY <1>1
  <2> QED BY <1>1, <2>1, <2>2, <2>3
<1>3. q <= r
  BY <1>1, <1>2
<1> QED BY <1>3 DEF q, r

LEMMA SmallSide ==
    ASSUME NEW dx \in Int, NEW dy \in Int, NEW d \in Nat, dx * dx + dy * dy < d * d
    PROVE  /\ dx < d /\ -dx < d
           /\ dy < d /\ -dy < d
<1>1. dx * dx >= 0 /\ dy * dy >= 0
  OBVIOUS
<1>2. dx * dx < d * d /\ dy * dy < d * d
  BY <1>1
<1>3. ASSUME NEW x \in Int, x >= d PROVE x * x >= d * d
  BY <1>3
<1>4. (-dx) * (-dx) = dx * dx /\ (-dy) * (-dy) = dy * dy
  OBVIOUS
<1>5. -dx \in Int /\ -dy \in Int
  OBVIOUS
<1>6. ~(dx >= d) /\ ~(-dx >= d) /\ ~(dy >= d) /\ ~(-dy >= d)
  BY <1>2, <1>3, <1>4, <1>5
<1> QED BY <1>6
-----------------------------------------------------------------------------
(***************************************************************************)
(* Squares and ranges                                                      *)
(***************************************************************************)
Playground == (0 .. playgroundSizeX) \X (0 .. playgroundSizeY)

LEMMA GridSizes ==
    /\ findDistance \in Nat \ {0}
    /\ maxX \in Nat /\ maxY \in Nat
    /\ ~OneSquare => /\ findDistance >= maxInterferenceDistance
                     /\ maxX = playgroundSizeX \div maxInterferenceDistance
                     /\ maxY = playgroundSizeY \div maxInterferenceDistance
<1>1. /\ playgroundSizeX \div maxInterferenceDistance \in Nat
      /\ playgroundSizeY \div maxInterferenceDistance \in Nat
  BY PlaygroundAssumption, Quotient
<1>2. numX - 1 = playgroundSizeX \div maxInterferenceDistance
  BY <1>1 DEF numX
<1>3. numY - 1 = playgroundSizeY \div maxInterferenceDistance
  BY <1>1 DEF numY
<1> QED BY <1>1, <1>2, <1>3, PlaygroundAssumption DEF findDistance, maxX, maxY

\* In a playground of one square every place is in square <<0, 0>>.
LEMMA OneSquareForAll ==
    ASSUME OneSquare, NEW p \in Playground
    PROVE  Square(p) = <<0, 0>>
<1>1. /\ p[1] \in Nat /\ p[1] < findDistance
      /\ p[2] \in Nat /\ p[2] < findDistance
  BY PlaygroundAssumption DEF Playground, findDistance
<1>2. ASSUME NEW a \in Nat, a < findDistance PROVE a \div findDistance = 0
  <2> DEFINE q == a \div findDistance
  <2>1. q \in Nat /\ findDistance * q <= a
    BY GridSizes, Quotient
  <2> HIDE DEF q
  <2>2. ASSUME q >= 1 PROVE FALSE
    <3>1. findDistance * q >= findDistance
      BY <2>1, <2>2, GridSizes
    <3> QED BY <2>1, <3>1, <1>2, GridSizes
  <2>3. q = 0
    BY <2>1, <2>2
  <2> QED BY <2>3 DEF q
<1> QED BY <1>1, <1>2 DEF Square

\* Every place has a square that the matrix has.
LEMMA SquareInGrid ==
    ASSUME NEW p \in Playground
    PROVE  Square(p) \in Grid
<1>1. CASE OneSquare
  <2>1. 0 \in 0 .. maxX /\ 0 \in 0 .. maxY
    BY GridSizes
  <2> QED BY <1>1, <2>1, OneSquareForAll DEF Grid
<1>2. CASE ~OneSquare
  <2>1. /\ p[1] \in Nat /\ p[1] <= playgroundSizeX
        /\ p[2] \in Nat /\ p[2] <= playgroundSizeY
    BY PlaygroundAssumption DEF Playground
  <2>2. p[1] \div findDistance <= maxX /\ p[2] \div findDistance <= maxY
    BY <1>2, <2>1, GridSizes, WiderSquares, PlaygroundAssumption
  <2>3. p[1] \div findDistance \in Nat /\ p[2] \div findDistance \in Nat
    BY <2>1, GridSizes, Quotient
  <2>4. p[1] \div findDistance \in 0 .. maxX /\ p[2] \div findDistance \in 0 .. maxY
    BY <2>2, <2>3, GridSizes
  <2> QED BY <2>4 DEF Grid, Square
<1> QED BY <1>1, <1>2

LEMMA OneApartIsNear ==
    ASSUME NEW max \in Nat, NEW s \in 0 .. max, NEW t \in 0 .. max,
           s <= t + 1, t <= s + 1
    PROVE  t \in Near(max, s)
<1>1. t = s \/ (t = s + 1 /\ s < max) \/ (t = s - 1 /\ s > 0)
  OBVIOUS
<1>2. CASE t = s
  BY <1>2 DEF Near
<1>3. CASE t = s + 1 /\ s < max
  BY <1>3 DEF Near
<1>4. CASE t = s - 1 /\ s > 0
  BY <1>4 DEF Near
<1> QED BY <1>1, <1>2, <1>3, <1>4

\* A nic in range of a place sits in a square around the square of the place.
LEMMA InRangeIsAround ==
    ASSUME NoWrap,
           NEW a \in Playground, NEW b \in Playground, InRange(a, b)
    PROVE  Square(b) \in Around(Square(a))
<1>1. CASE OneSquare
  <2>1. Around(<<0, 0>>) = {<<0, 0>>}
    BY <1>1 DEF Around, maxX, maxY
  <2> QED BY <1>1, <2>1, OneSquareForAll
<1>2. CASE ~OneSquare
  <2>0. ~useTorus
    BY <1>2 DEF NoWrap
  <2>1. /\ a[1] \in Nat /\ a[2] \in Nat /\ b[1] \in Nat /\ b[2] \in Nat
        /\ maxInterferenceDistance \in Nat
    BY PlaygroundAssumption DEF Playground
  <2>2. (a[1] - b[1]) * (a[1] - b[1]) + (a[2] - b[2]) * (a[2] - b[2])
            < maxInterferenceDistance * maxInterferenceDistance
    BY <2>0 DEF InRange, inRangeEuclid, Close
  <2>3. a[1] - b[1] \in Int /\ a[2] - b[2] \in Int
    BY <2>1
  <2>4. /\ a[1] - b[1] < maxInterferenceDistance /\ -(a[1] - b[1]) < maxInterferenceDistance
        /\ a[2] - b[2] < maxInterferenceDistance /\ -(a[2] - b[2]) < maxInterferenceDistance
    BY <2>1, <2>2, <2>3, SmallSide
  <2>5. /\ a[1] - b[1] < findDistance /\ b[1] - a[1] < findDistance
        /\ a[2] - b[2] < findDistance /\ b[2] - a[2] < findDistance
    BY <1>2, <2>1, <2>4, GridSizes
  <2>6. /\ a[1] \div findDistance <= b[1] \div findDistance + 1
        /\ b[1] \div findDistance <= a[1] \div findDistance + 1
        /\ a[2] \div findDistance <= b[2] \div findDistance + 1
        /\ b[2] \div findDistance <= a[2] \div findDistance + 1
    BY <2>1, <2>5, GridSizes, AdjacentSquares
  <2>7. Square(a) \in Grid /\ Square(b) \in Grid
    BY SquareInGrid
  <2>8. /\ Square(b)[1] \in Near(maxX, Square(a)[1])
        /\ Square(b)[2] \in Near(maxY, Square(a)[2])
    BY <2>6, <2>7, GridSizes, OneApartIsNear DEF Grid, Square
  <2>9. Square(b) = <<Square(b)[1], Square(b)[2]>>
    BY DEF Square
  <2>10. CASE maxX = 0 /\ maxY = 0
    <3>1. Square(b) = Square(a)
      BY <2>7, <2>10 DEF Grid, Square
    <3> QED BY <2>10, <3>1 DEF Around
  <2>11. CASE ~(maxX = 0 /\ maxY = 0)
    BY <2>8, <2>9, <2>11 DEF Around
  <2> QED BY <2>10, <2>11
<1> QED BY <1>1, <1>2

LEMMA RangeIsSymmetric ==
    ASSUME NEW a \in Playground, NEW b \in Playground
    PROVE  InRange(a, b) <=> InRange(b, a)
<1>1. /\ a[1] \in Int /\ a[2] \in Int /\ b[1] \in Int /\ b[2] \in Int
      /\ playgroundSizeX \in Int /\ playgroundSizeY \in Int
  BY PlaygroundAssumption DEF Playground
<1>2. ASSUME NEW dx \in Int, NEW dy \in Int PROVE Close(dx, dy) <=> Close(-dx, -dy)
  BY DEF Close
<1>3. inRangeEuclid(a, b) <=> inRangeEuclid(b, a)
  <2>1. -(a[1] - b[1]) = b[1] - a[1] /\ -(a[2] - b[2]) = b[2] - a[2]
    BY <1>1
  <2> QED BY <1>1, <1>2, <2>1 DEF inRangeEuclid
<1>4. ASSUME NEW p \in Playground, NEW q \in Playground, inRangeTorus(p, q)
      PROVE  inRangeTorus(q, p)
  <2>0. /\ p[1] \in Int /\ p[2] \in Int /\ q[1] \in Int /\ q[2] \in Int
        /\ playgroundSizeX \in Int /\ playgroundSizeY \in Int
    BY PlaygroundAssumption DEF Playground
  <2>1. ASSUME NEW i \in {-1, 0, 1}, NEW j \in {-1, 0, 1},
               Close(p[1] + i * playgroundSizeX - q[1], p[2] + j * playgroundSizeY - q[2])
        PROVE  /\ -i \in {-1, 0, 1} /\ -j \in {-1, 0, 1}
               /\ Close(q[1] + (-i) * playgroundSizeX - p[1],
                        q[2] + (-j) * playgroundSizeY - p[2])
    <3> DEFINE dx == p[1] + i * playgroundSizeX - q[1]
               dy == p[2] + j * playgroundSizeY - q[2]
    <3>1. dx \in Int /\ dy \in Int
      BY <2>0
    <3>2. /\ q[1] + (-i) * playgroundSizeX - p[1] = -dx
          /\ q[2] + (-j) * playgroundSizeY - p[2] = -dy
      BY <2>0
    <3>3. Close(dx, dy)
      BY <2>1
    <3> HIDE DEF dx, dy
    <3>4. Close(-dx, -dy)
      BY <1>2, <3>1, <3>3
    <3> QED BY <3>2, <3>4
  <2> QED BY <1>4, <2>1 DEF inRangeTorus
<1> QED BY <1>3, <1>4 DEF InRange
-----------------------------------------------------------------------------
(***************************************************************************)
(* The inductive invariant                                                 *)
(***************************************************************************)
NoSelf == \A n \in Nic : outConns[<<n, n>>] = "ABSENT"

\* No nic in range is missed, unless a unicast left an entry without a gate; without
\* unicasts there is no such entry.
AllLinked ==
    /\ ~P2P => \A n, m \in Nic : outConns[<<n, m>>] # "NULL"
    /\ \A n, m \in Registered :
          n # m /\ NoVoid(n, m) /\ InRange(pos[n], pos[m]) => outConns[<<n, m>>] = "GATE"

IInv == TypeOK /\ PosFollowsHost /\ MatrixFollowsHosts /\ NoSelf /\ NoStrayGate /\ AllLinked

LEMMA PlaceInPlayground == Place \subseteq Playground
BY PlaygroundAssumption DEF Playground

\* What a move of nic n to place p does, from registerNic or updateNicPos.
Move(n, p) ==
    /\ hostMove' = [hostMove EXCEPT ![n] = p]
    /\ \/ hostMove[n] = Nowhere /\ checkGrid(Inserted(nics, n, Square(p)), n, Square(p), p)
       \/ hostMove[n] # Nowhere /\ checkGrid(nics, n, Square(hostMove[n]), p)

\* The one entry of a registered nic
LEMMA OneEntry ==
    ASSUME IInv, NEW m \in Nic
    PROVE  /\ m \in Registered =>
                /\ hostMove[m] \in Place /\ pos[m] = hostMove[m]
                /\ Square(hostMove[m]) \in Grid
                /\ \A s : Holds(nics, m, s) <=> s = Square(hostMove[m])
           /\ m \notin Registered => \A s : ~Holds(nics, m, s)
<1>1. {s \in Grid : m \in nics[s]} = IF m \in Registered THEN {Square(hostMove[m])} ELSE {}
  BY DEF IInv, MatrixFollowsHosts
<1>2. m \in Registered => hostMove[m] \in Place /\ pos[m] = hostMove[m]
  BY DEF IInv, TypeOK, PosFollowsHost, Registered
<1> QED BY <1>1, <1>2 DEF Holds

\* A nic that moves leaves the square of its old place and enters that of the new one
LEMMA EntryMoves ==
    ASSUME IInv, NEW n \in Nic, NEW p \in Place, Move(n, p)
    PROVE  /\ nics' \in [Grid -> SUBSET Nic]
           /\ \A m \in Nic \ {n} : \A s \in Grid : m \in nics'[s] <=> m \in nics[s]
           /\ {s \in Grid : n \in nics'[s]} = {Square(p)}
<1>1. Square(p) \in Grid
  BY PlaceInPlayground, SquareInGrid
<1>2. nics \in [Grid -> SUBSET Nic]
  BY DEF IInv, TypeOK
<1>3. CASE hostMove[n] = Nowhere
  <2>1. nics' = Inserted(nics, n, Square(p))
    BY <1>3 DEF Move, checkGrid
  <2>2. \A s \in Grid : n \notin nics[s]
    BY <1>3, OneEntry DEF Registered, Holds
  <2> QED BY <1>1, <1>2, <2>1, <2>2 DEF Inserted
<1>4. CASE hostMove[n] # Nowhere
  <2> DEFINE old == Square(hostMove[n])
  <2>1. nics' = IF Square(p) = old THEN nics ELSE Inserted(Erased(nics, n, old), n, Square(p))
    BY <1>4 DEF Move, checkGrid
  <2>2. old \in Grid /\ \A s \in Grid : n \in nics[s] <=> s = old
    BY <1>4, OneEntry DEF Registered, Holds
  <2> HIDE DEF old
  <2> QED BY <1>1, <1>2, <2>1, <2>2 DEF Inserted, Erased
<1> QED BY <1>3, <1>4

\* The set that a move checks holds every nic that matters.
LEMMA CheckedNics ==
    ASSUME NoWrap, IInv, NEW n \in Nic, NEW p \in Place, Move(n, p)
    PROVE  \E others :
             /\ updateConnections(n, p, others)
             /\ others \subseteq Registered \ {n}
             /\ \A m \in Registered \ {n} :
                   InRange(p, pos[m]) \/ outConns[<<n, m>>] = "GATE" => m \in others
<1> DEFINE old == IF hostMove[n] = Nowhere THEN Square(p) ELSE Square(hostMove[n])
           others == Others(n, gridUnion(old, Square(p)))
<1>1. updateConnections(n, p, others)
  BY DEF Move, checkGrid
<1>2. p \in Playground
  BY PlaceInPlayground
<1>4. others \subseteq Registered \ {n}
  BY OneEntry DEF Others
<1>5. ASSUME NEW m \in Registered \ {n}, InRange(p, pos[m]) \/ outConns[<<n, m>>] = "GATE"
      PROVE  m \in others
  <2>1. /\ m \in Nic /\ pos[m] = hostMove[m] /\ pos[m] \in Playground
        /\ Holds(nics, m, Square(pos[m]))
    BY OneEntry, PlaceInPlayground DEF Registered
  <2>2. CASE InRange(p, pos[m])
    <3>1. Square(pos[m]) \in Around(Square(p))
      BY <1>2, <2>1, <2>2, InRangeIsAround
    <3> QED BY <2>1, <3>1 DEF Others, gridUnion
  <2>3. CASE outConns[<<n, m>>] = "GATE"
    <3>1. n \in Registered /\ InRange(pos[n], pos[m])
      BY <2>1, <2>3 DEF IInv, NoStrayGate
    <3>2. pos[n] \in Playground /\ old = Square(pos[n])
      BY <3>1, OneEntry, PlaceInPlayground DEF Registered
    <3>3. Square(pos[m]) \in Around(old)
      BY <2>1, <3>1, <3>2, InRangeIsAround
    <3> QED BY <2>1, <3>3 DEF Others, gridUnion
  <2> QED BY <1>5, <2>2, <2>3
<1> HIDE DEF others
<1> QED BY <1>1, <1>4, <1>5

\* Entries between the nic that moves and another one.
LEMMA EntriesAfterMove ==
    ASSUME NoWrap, IInv, NEW n \in Nic, NEW p \in Place, Move(n, p), NEW m \in Nic \ {n}
    PROVE  /\ outConns'[<<n, m>>] = "GATE" =>
                m \in Registered /\ InRange(p, pos[m])
           /\ outConns'[<<n, m>>] = "GATE" <=> outConns'[<<m, n>>] = "GATE"
           /\ ~P2P => outConns'[<<n, m>>] # "NULL" /\ outConns'[<<m, n>>] # "NULL"
           /\ NoVoid(n, m)' /\ m \in Registered /\ InRange(p, pos[m]) =>
                outConns'[<<n, m>>] = "GATE"
<1>1. PICK others :
             /\ updateConnections(n, p, others)
             /\ others \subseteq Registered \ {n}
             /\ \A k \in Registered \ {n} :
                   InRange(p, pos[k]) \/ outConns[<<n, k>>] = "GATE" => k \in others
  BY CheckedNics
<1> DEFINE joined == m \in others /\ InRange(p, pos[m]) /\ outConns[<<n, m>>] = "ABSENT"
           parted == m \in others /\ ~InRange(p, pos[m]) /\ outConns[<<n, m>>] # "ABSENT"
<1>2. /\ <<n, m>> \in Between(n, Joined(n, p, others)) <=> joined
      /\ <<m, n>> \in Between(n, Joined(n, p, others)) <=> joined
      /\ <<n, m>> \in Between(n, Parted(n, p, others)) <=> parted
      /\ <<m, n>> \in Between(n, Parted(n, p, others)) <=> parted
  BY DEF Between, Joined, Parted
<1>3. \A e \in {<<n, m>>, <<m, n>>} :
         outConns'[e] = IF joined THEN "GATE" ELSE IF parted THEN "ABSENT" ELSE outConns[e]
  BY <1>1, <1>2 DEF updateConnections
<1>4. /\ outConns[<<n, m>>] \in Entry /\ outConns[<<m, n>>] \in Entry
      /\ outConns[<<n, m>>] = "GATE" <=> outConns[<<m, n>>] = "GATE"
      /\ outConns[<<n, m>>] = "GATE" => m \in Registered
      /\ ~P2P => outConns[<<n, m>>] # "NULL" /\ outConns[<<m, n>>] # "NULL"
  BY DEF IInv, TypeOK, NoStrayGate, AllLinked
<1>5. m \in Registered /\ (InRange(p, pos[m]) \/ outConns[<<n, m>>] = "GATE") => m \in others
  BY <1>1
<1>6. m \in others => m \in Registered
  BY <1>1
<1> QED BY <1>3, <1>4, <1>5, <1>6 DEF Entry, NoVoid

\* Entries between two nics that stay where they are.
LEMMA EntriesElsewhere ==
    ASSUME NEW n \in Nic, NEW p \in Place, Move(n, p)
    PROVE  \A i, j \in Nic :
              (i = n <=> j = n) => outConns'[<<i, j>>] = outConns[<<i, j>>]
<1>0. \A squares : n \notin Others(n, squares)
  BY DEF Others
<1>1. PICK others : updateConnections(n, p, others) /\ n \notin others
  BY <1>0 DEF Move, checkGrid
<1>2. \A T, i, j : n \notin T /\ (i = n <=> j = n) => <<i, j>> \notin Between(n, T)
  BY DEF Between
<1>3. n \notin Joined(n, p, others) /\ n \notin Parted(n, p, others)
  BY <1>1 DEF Joined, Parted
<1> QED BY <1>1, <1>2, <1>3 DEF updateConnections

LEMMA MovePreserves ==
    ASSUME NoWrap, IInv, NEW n \in Nic, NEW p \in Place, Move(n, p)
    PROVE  IInv'
<1>1. PICK others : /\ updateConnections(n, p, others)
                    /\ pos' = [pos EXCEPT ![n] = p]
                    /\ stopped' \in BOOLEAN
  BY DEF Move, checkGrid
<1>2. hostMove' = [hostMove EXCEPT ![n] = p]
  BY DEF Move
<1>3. p # Nowhere /\ p \in Playground
  BY PlaceInPlayground, PlaygroundAssumption
<1>4. TypeOK'
  <2>1. hostMove' \in [Nic -> Place \cup {Nowhere}] /\ pos' \in [Nic -> Place \cup {Nowhere}]
    BY <1>1, <1>2 DEF IInv, TypeOK
  <2>2. nics' \in [Grid -> SUBSET Nic]
    BY EntryMoves
  <2>3. outConns' \in [Nic \X Nic -> Entry]
    BY <1>1 DEF IInv, TypeOK, updateConnections, Entry
  <2> QED BY <1>1, <2>1, <2>2, <2>3 DEF TypeOK
<1>5. PosFollowsHost' /\ MatrixFollowsHosts'
  <2>1. PosFollowsHost'
    BY <1>1, <1>2 DEF IInv, PosFollowsHost
  <2>2. ASSUME NEW m \in Nic
        PROVE  {s \in Grid : m \in nics'[s]}
                   = IF m \in Registered' THEN {Square(hostMove'[m])} ELSE {}
    <3>1. CASE m = n
      <4>1. hostMove'[n] = p /\ n \in Registered'
        BY <1>2, <1>3 DEF IInv, TypeOK, Registered
      <4> QED BY <3>1, <4>1, EntryMoves
    <3>2. CASE m # n
      <4>1. hostMove'[m] = hostMove[m] /\ (m \in Registered' <=> m \in Registered)
        BY <1>2, <3>2 DEF IInv, TypeOK, Registered
      <4>2. {s \in Grid : m \in nics'[s]} = {s \in Grid : m \in nics[s]}
        BY <3>2, EntryMoves
      <4> QED BY <4>1, <4>2 DEF IInv, MatrixFollowsHosts
    <3> QED BY <3>1, <3>2
  <2> QED BY <2>1, <2>2 DEF MatrixFollowsHosts, Square, Grid
<1>6. NoSelf'
  <2> SUFFICES ASSUME NEW k \in Nic PROVE outConns'[<<k, k>>] = "ABSENT"
    BY DEF NoSelf
  <2>1. outConns'[<<k, k>>] = outConns[<<k, k>>]
    BY EntriesElsewhere
  <2> QED BY <2>1 DEF IInv, NoSelf
<1>7. /\ Registered' = Registered \cup {n}
      /\ pos'[n] = p
      /\ \A k \in Nic \ {n} : pos'[k] = pos[k]
  BY <1>1, <1>2, <1>3 DEF Registered, IInv, TypeOK
<1>8. NoStrayGate'
  <2> SUFFICES ASSUME NEW i \in Nic, NEW j \in Nic, outConns'[<<i, j>>] = "GATE"
               PROVE  /\ {i, j} \subseteq Registered'
                      /\ InRange(pos'[i], pos'[j])
                      /\ outConns'[<<j, i>>] = "GATE"
    BY DEF NoStrayGate, InRange, inRangeTorus, inRangeEuclid, Close
  <2>1. CASE i # n /\ j # n
    <3>1. outConns'[<<i, j>>] = outConns[<<i, j>>] /\ outConns'[<<j, i>>] = outConns[<<j, i>>]
      BY <2>1, EntriesElsewhere
    <3> QED BY <1>7, <2>1, <3>1 DEF IInv, NoStrayGate
  <2>2. CASE i = n /\ j = n
    BY <1>6, <2>2 DEF NoSelf
  <2>3. CASE i = n /\ j # n
    BY <1>7, <2>3, EntriesAfterMove
  <2>4. CASE i # n /\ j = n
    <3>1. i \in Registered /\ InRange(p, pos[i]) /\ outConns'[<<j, i>>] = "GATE"
      BY <2>4, EntriesAfterMove
    <3>2. InRange(pos[i], p)
      BY <1>3, <3>1, RangeIsSymmetric, PlaceInPlayground
         DEF IInv, TypeOK, PosFollowsHost, Registered
    <3> QED BY <1>7, <2>4, <3>1, <3>2
  <2> QED BY <2>1, <2>2, <2>3, <2>4
<1>9. AllLinked'
  <2> SUFFICES ASSUME NEW i \in Nic, NEW j \in Nic
               PROVE  /\ ~P2P => outConns'[<<i, j>>] # "NULL"
                      /\ i \in Registered' /\ j \in Registered' /\ i # j /\ NoVoid(i, j)'
                            /\ InRange(pos'[i], pos'[j]) => outConns'[<<i, j>>] = "GATE"
    BY DEF AllLinked, NoVoid, Registered, InRange, inRangeTorus, inRangeEuclid, Close
  <2>1. CASE i # n /\ j # n
    <3>1. outConns'[<<i, j>>] = outConns[<<i, j>>] /\ outConns'[<<j, i>>] = outConns[<<j, i>>]
      BY <2>1, EntriesElsewhere
    <3> QED BY <1>7, <2>1, <3>1 DEF IInv, AllLinked, NoVoid
  <2>2. CASE i = n /\ j = n
    BY <1>6, <2>2 DEF NoSelf
  <2>3. CASE i = n /\ j # n
    BY <1>7, <2>3, EntriesAfterMove
  <2>4. CASE i # n /\ j = n
    <3>1. ASSUME i \in Registered', InRange(pos'[i], pos'[j]), NoVoid(i, j)'
          PROVE  outConns'[<<i, j>>] = "GATE"
      <4>1. i \in Registered /\ InRange(pos[i], p)
        BY <1>7, <2>4, <3>1
      <4>2. InRange(p, pos[i])
        BY <1>3, <4>1, RangeIsSymmetric, PlaceInPlayground
           DEF IInv, TypeOK, PosFollowsHost, Registered
      <4>3. NoVoid(n, i)'
        BY <2>4, <3>1 DEF NoVoid
      <4> QED BY <2>4, <4>1, <4>2, <4>3, EntriesAfterMove
    <3>2. ~P2P => outConns'[<<i, j>>] # "NULL"
      BY <2>4, EntriesAfterMove
    <3> QED BY <3>1, <3>2
  <2> QED BY <2>1, <2>2, <2>3, <2>4
<1> QED BY <1>4, <1>5, <1>6, <1>8, <1>9 DEF IInv

LEMMA UnicastPreserves ==
    ASSUME IInv, NEW n \in Nic, NEW m \in Nic, sendDelayedP2P(n, m)
    PROVE  IInv'
<1>1. /\ outConns' = [outConns EXCEPT ![<<n, m>>] = IF @ = "ABSENT" THEN "NULL" ELSE @]
      /\ P2P /\ m # n
      /\ UNCHANGED <<hostMove, pos, nics>>
      /\ stopped' \in BOOLEAN
  BY DEF sendDelayedP2P
<1>2. TypeOK'
  BY <1>1 DEF IInv, TypeOK, Entry
<1>3. \A i, j \in Nic : /\ outConns'[<<i, j>>] = "GATE" <=> outConns[<<i, j>>] = "GATE"
                        /\ i = j => outConns'[<<i, j>>] = outConns[<<i, j>>]
  BY <1>1 DEF IInv, TypeOK, Entry
<1>4. PosFollowsHost' /\ MatrixFollowsHosts' /\ NoSelf' /\ AllLinked'
  <2>1. \A i, j \in Nic : outConns'[<<i, j>>] = outConns[<<i, j>>] \/ outConns'[<<i, j>>] = "NULL"
    BY <1>1 DEF IInv, TypeOK
  <2> QED BY <1>1, <1>3, <2>1 DEF IInv, PosFollowsHost, MatrixFollowsHosts, NoSelf, AllLinked, NoVoid,
             Registered, InRange, inRangeTorus, inRangeEuclid, Close
<1>5. NoStrayGate'
  BY <1>1, <1>3 DEF IInv, NoStrayGate, Registered, InRange, inRangeTorus, inRangeEuclid, Close
<1> QED BY <1>2, <1>4, <1>5 DEF IInv

LEMMA InitIInv == Init => IInv
<1> SUFFICES ASSUME Init PROVE IInv
  OBVIOUS
<1>1. TypeOK /\ NoSelf /\ NoStrayGate
  BY DEF Init, TypeOK, Entry, NoSelf, NoStrayGate
<1>2. PosFollowsHost /\ MatrixFollowsHosts /\ AllLinked
  BY DEF Init, PosFollowsHost, MatrixFollowsHosts, AllLinked, Registered
<1> QED BY <1>1, <1>2 DEF IInv

LEMMA StepIInv == NoWrap /\ IInv /\ [Next]_vars => IInv'
<1> SUFFICES ASSUME NoWrap, IInv, [Next]_vars PROVE IInv'
  OBVIOUS
<1>1. CASE \E n \in Nic : \E p \in Place : registerNic(n, p) \/ updateNicPos(n, p)
  <2>1. PICK n \in Nic, p \in Place : Move(n, p)
    BY <1>1 DEF registerNic, updateNicPos, Move
  <2> QED BY <2>1, MovePreserves
<1>2. CASE \E n \in Nic : sendToChannel(n)
  BY <1>2 DEF sendToChannel, IInv, TypeOK, PosFollowsHost, MatrixFollowsHosts, NoSelf, NoStrayGate,
              AllLinked, NoVoid, Registered, InRange, inRangeTorus, inRangeEuclid, Close
<1>3. CASE \E n, m \in Nic : sendDelayedP2P(n, m)
  BY <1>3, UnicastPreserves
<1>4. CASE UNCHANGED vars
  BY <1>4 DEF vars, IInv, TypeOK, PosFollowsHost, MatrixFollowsHosts, NoSelf, NoStrayGate,
              AllLinked, NoVoid, Registered, InRange, inRangeTorus, inRangeEuclid, Close
<1> QED BY <1>1, <1>2, <1>3, <1>4 DEF Next
-----------------------------------------------------------------------------
\* The inductive invariant holds of every run whose grid does not wrap: every
\* entry of the matrix sits where ChannelAccess looks for it, and gates come in
\* pairs of nics that are in range.
THEOREM Invariance == NoWrap => (Spec => []IInv)
<1> SUFFICES ASSUME NoWrap PROVE Spec => []IInv
  OBVIOUS
<1>1. IInv /\ [Next]_vars => IInv'
  BY StepIInv
<1> QED BY <1>1, InitIInv, PTL DEF Spec

\* Wherever the hosts move, and at the far borders of the playground too, the nic that
\* updateNicPos, getGateList and getOutGateTo look up has one entry, in a square that
\* the matrix has and where they look: MatrixFollowsHosts for every playground.
THEOREM HostsAreFound ==
    NoWrap => (Spec => [](MatrixFollowsHosts /\ \A n \in Registered : Found(n)))
<1> SUFFICES ASSUME NoWrap PROVE Spec => [](MatrixFollowsHosts /\ \A n \in Registered : Found(n))
  OBVIOUS
<1>1. IInv => MatrixFollowsHosts /\ \A n \in Registered : Found(n)
  BY OneEntry DEF IInv, Found, Registered
<1> QED BY <1>1, Invariance, PTL

\* No connection outlives the range, whatever unicasts do to the entries.
THEOREM GatesAreInRange == NoWrap => (Spec => []NoStrayGate)
<1> SUFFICES ASSUME NoWrap PROVE Spec => []NoStrayGate
  OBVIOUS
<1>1. IInv => NoStrayGate
  BY DEF IInv
<1> QED BY <1>1, Invariance, PTL

\* Checking the squares around the old and the new place keeps the connections
\* of all nics exact, for every playground and range.
THEOREM ConnectionsAreExact == NoWrap => (Spec => []ConnectedIffInRange)
<1> SUFFICES ASSUME NoWrap PROVE Spec => []ConnectedIffInRange
  OBVIOUS
<1>1. IInv => ConnectedIffInRange
  BY DEF IInv, NoStrayGate, AllLinked, ConnectedIffInRange, Registered
<1> QED BY <1>1, Invariance, PTL

\* Without unicasts no null pointer and no square past the matrix is ever used.
THEOREM NeverStops == NoWrap /\ ~P2P => (Spec => []EntriesAreValid)
<1> SUFFICES ASSUME NoWrap, ~P2P PROVE Spec => []EntriesAreValid
  OBVIOUS
<1>1. Init => EntriesAreValid
  BY DEF Init, EntriesAreValid
<1>2. IInv /\ EntriesAreValid /\ [Next]_vars => EntriesAreValid'
  <2> SUFFICES ASSUME IInv, EntriesAreValid, [Next]_vars PROVE ~stopped'
    BY DEF EntriesAreValid
  <2>1. \A n, m \in Nic : outConns[<<n, m>>] # "NULL"
    BY DEF IInv, AllLinked
  <2>2. CASE \E n \in Nic : \E p \in Place : registerNic(n, p) \/ updateNicPos(n, p)
    <3>1. PICK n \in Nic, p \in Place : registerNic(n, p) \/ updateNicPos(n, p)
      BY <2>2
    <3>2. Square(p) \in Grid
      BY PlaceInPlayground, SquareInGrid
    <3>3. PICK matrix, old, others :
              /\ others \in SUBSET (Nic \ {n})
              /\ Holds(matrix, n, old)
              /\ stopped' = (\/ ~Holds(matrix, n, old)
                            \/ Square(p) \notin Grid
                            \/ DropsVoid(n, p, others))
      <4>0. \A squares : Others(n, squares) \in SUBSET (Nic \ {n})
        BY DEF Others
      <4>1. CASE registerNic(n, p)
        <5>1. Holds(Inserted(nics, n, Square(p)), n, Square(p))
          BY <3>2 DEF Holds, Inserted
        <5> QED BY <4>0, <4>1, <5>1 DEF registerNic, checkGrid
      <4>2. CASE updateNicPos(n, p)
        <5>1. Holds(nics, n, Square(hostMove[n]))
          BY <4>2, OneEntry DEF updateNicPos, Registered
        <5> QED BY <4>0, <4>2, <5>1 DEF updateNicPos, checkGrid
      <4> QED BY <3>1, <4>1, <4>2
    <3>4. ASSUME NEW m \in Parted(n, p, others)
          PROVE  outConns[<<n, m>>] = "GATE" /\ outConns[<<m, n>>] = "GATE"
      BY <2>1, <3>3, <3>4 DEF Parted, IInv, TypeOK, Entry, NoStrayGate
    <3>5. ASSUME NEW e \in Between(n, Parted(n, p, others)) PROVE outConns[e] = "GATE"
      <4>1. PICK m \in Parted(n, p, others) : e = <<n, m>> \/ e = <<m, n>>
        BY <3>5 DEF Between
      <4> QED BY <3>4, <4>1
    <3> QED BY <3>2, <3>3, <3>5 DEF DropsVoid
  <2>3. CASE \E n \in Nic : sendToChannel(n)
    BY <2>1, <2>3, OneEntry DEF sendToChannel, Found, Registered
  <2>4. CASE UNCHANGED vars
    BY <2>4 DEF vars, EntriesAreValid
  <2> QED BY <2>2, <2>3, <2>4 DEF Next, sendDelayedP2P
<1> QED BY <1>1, <1>2, Invariance, PTL DEF Spec
-----------------------------------------------------------------------------
(***************************************************************************)
(* ChannelControl with the pools of gates of its nics (NicGates)           *)
(***************************************************************************)
\* The gates follow the connections and never hold up a move or a frame
\* (connectTo and disconnectFrom of NicEntryDebug).
THEOREM GatesImplementConnections == GatesSpec => Spec
<1>1. [GatesNext]_gateVars => [Next]_vars
  <2>1. GatesNext => Next
    BY DEF GatesNext, Next
  <2>2. UNCHANGED gateVars => UNCHANGED vars
    BY DEF gateVars
  <2> QED BY <2>1, <2>2
<1>2. GatesInit => Init
  BY DEF GatesInit
<1> QED BY <1>1, <1>2, PTL DEF GatesSpec, Spec

\* Exactly the nics in range are connected, with gates from the pools too.
THEOREM GatedConnectionsAreExact == NoWrap => (GatesSpec => []ConnectedIffInRange)
<1> SUFFICES ASSUME NoWrap PROVE GatesSpec => []ConnectedIffInRange
  OBVIOUS
<1>1. Spec => []ConnectedIffInRange
  BY ConnectionsAreExact
<1> QED BY <1>1, GatesImplementConnections, PTL
-----------------------------------------------------------------------------
(* The pools of gates *)

\* A stack of free gates and the gates that are wired share the gates made so far
Shared(cnt, free, wired) ==
    /\ cnt \in Nat /\ free \in Seq(Nat)
    /\ \A i, j \in 1..Len(free) : free[i] = free[j] => i = j
    /\ \A k : ~((\E i \in 1..Len(free) : free[i] = k) /\ k \in wired)
    /\ \A k : k \in 1..cnt <=> ((\E i \in 1..Len(free) : free[i] = k) \/ k \in wired)

\* The gates made once requestGate has been called
Count(free, cnt) == IF requestGate(free, cnt) > cnt THEN requestGate(free, cnt) ELSE cnt

\* The gate that requestGate takes was not wired, whether it is new or comes off the stack
LEMMA GateTaken ==
  ASSUME NEW cnt, NEW free, NEW wired, Shared(cnt, free, wired)
  PROVE  /\ requestGate(free, cnt) \in Nat \ {0}
         /\ requestGate(free, cnt) \notin wired
         /\ Shared(Count(free, cnt), Popped(free), wired \cup {requestGate(free, cnt)})
<1> DEFINE n == Len(free)
           k == requestGate(free, cnt)
<1>1. cnt \in Nat /\ free \in Seq(Nat) /\ n \in Nat /\ \A i \in 1..n : free[i] \in Nat
  BY DEF Shared
<1>2. CASE free = <<>>
  <2>1. n = 0 /\ k = cnt + 1 /\ Popped(free) = free /\ Count(free, cnt) = cnt + 1
    BY <1>1, <1>2 DEF requestGate, Popped, Count
  <2>2. k \notin wired
    BY <1>1, <2>1 DEF Shared
  <2> HIDE DEF k
  <2>3. Shared(cnt + 1, free, wired \cup {k})
    BY <1>1, <2>1, <2>2 DEF Shared
  <2> QED BY <1>1, <2>1, <2>2, <2>3 DEF k
<1>3. CASE free # <<>>
  <2>1. n > 0
    BY <1>1, <1>3, EmptySeq
  <2>2. k = free[n] /\ Popped(free) = SubSeq(free, 1, n - 1)
    BY <1>3 DEF requestGate, Popped, Last, Front
  <2>3. /\ SubSeq(free, 1, n - 1) \in Seq(Nat) /\ Len(SubSeq(free, 1, n - 1)) = n - 1
        /\ \A i \in 1..(n - 1) : SubSeq(free, 1, n - 1)[i] = free[i]
    <3> HIDE DEF n
    <3>1. 1 \in 1..(Len(free) + 1) /\ n - 1 \in 0..Len(free) /\ n = Len(free)
      BY <1>1, <2>1 DEF n
    <3>2. \A i \in 1..(n - 1) : 1 + i - 1 = i
      BY <1>1
    <3>3. IF 1 <= n - 1 THEN n - 1 - 1 + 1 = n - 1 ELSE n - 1 = 0
      BY <1>1, <2>1
    <3> QED BY <1>1, <2>1, <3>1, <3>2, <3>3, SubSeqProperties
  <2>4. k \in 1..cnt /\ k \notin wired
    BY <1>1, <2>1, <2>2 DEF Shared
  <2>5. Count(free, cnt) = cnt
    BY <1>1, <2>4 DEF Count
  <2> DEFINE rest == Popped(free)
  <2>6. rest \in Seq(Nat) /\ Len(rest) = n - 1 /\ \A i \in 1..(n - 1) : rest[i] = free[i]
    BY <2>2, <2>3
  <2> HIDE DEF k, n, rest
  <2>7. n = Len(free)
    BY DEF n
  <2>8. \A i, j \in 1..n : free[i] = free[j] => i = j
    BY <2>7 DEF Shared
  <2>9. \A x : (\E i \in 1..n : free[i] = x) <=> ((\E i \in 1..(n - 1) : rest[i] = x) \/ x = k)
    <3>1. \A i \in 1..n : i \in 1..(n - 1) \/ i = n
      BY <1>1, <2>1
    <3>2. \A i \in 1..(n - 1) : i \in 1..n
      BY <1>1, <2>1
    <3>3. n \in 1..n
      BY <1>1, <2>1
    <3> QED BY <2>2, <2>6, <3>1, <3>2, <3>3
  <2>10. \A i \in 1..(n - 1) : rest[i] # k
    BY <1>1, <2>1, <2>2, <2>6, <2>8
  <2>11. \A i, j \in 1..Len(rest) : rest[i] = rest[j] => i = j
    BY <1>1, <2>1, <2>6, <2>8
  <2>12. \A x : x \in 1..cnt <=> ((\E i \in 1..Len(rest) : rest[i] = x) \/ x \in wired \cup {k})
    BY <2>6, <2>7, <2>9 DEF Shared
  <2>13. \A x : ~((\E i \in 1..Len(rest) : rest[i] = x) /\ x \in wired \cup {k})
    BY <2>6, <2>7, <2>9, <2>10 DEF Shared
  <2>14. Shared(cnt, rest, wired \cup {k})
    BY <1>1, <2>6, <2>11, <2>12, <2>13 DEF Shared
  <2> QED BY <1>1, <2>4, <2>5, <2>14 DEF k, rest
<1> QED BY <1>2, <1>3

\* A gate that loses its wire goes to the stack
LEMMA GateFreed ==
  ASSUME NEW cnt, NEW free, NEW wired, Shared(cnt, free, wired), NEW k \in wired
  PROVE  Shared(cnt, Append(free, k), wired \ {k})
<1> DEFINE n == Len(free)
           more == Append(free, k)
<1>1. cnt \in Nat /\ free \in Seq(Nat) /\ n \in Nat /\ k \in 1..cnt
  BY DEF Shared
<1>2. more \in Seq(Nat) /\ Len(more) = n + 1 /\ more[n + 1] = k
      /\ \A i \in 1..n : more[i] = free[i]
  BY <1>1
<1>3. \A i \in 1..n : free[i] # k
  BY DEF Shared
<1> HIDE DEF more, n
<1>4. n = Len(free)
  BY DEF n
<1>5. \A i, j \in 1..Len(more) : more[i] = more[j] => i = j
  <2> SUFFICES ASSUME NEW i \in 1..(n + 1), NEW j \in 1..(n + 1), more[i] = more[j] PROVE i = j
    BY <1>2
  <2>1. \A l \in 1..(n + 1) : l \in 1..n \/ l = n + 1
    BY <1>1
  <2> QED BY <2>1, <1>2, <1>3, <1>4 DEF Shared
<1>6. \A x : (\E i \in 1..Len(more) : more[i] = x) <=> ((\E i \in 1..n : free[i] = x) \/ x = k)
  BY <1>1, <1>2
<1> QED BY <1>1, <1>2, <1>3, <1>4, <1>5, <1>6 DEF more, Shared

\* The gates of nic n with a wire
WiredOut(g, n) == {k \in Nat : \E w \in g.wires : w[1] = <<n, k>>}
WiredIn(g, n) == {k \in Nat : \E w \in g.wires : w[2] = <<n, k>>}

\* The pools g serve the connections conns: each has a wire of its own
Serves(g, conns) ==
    /\ g \in Pools /\ IsFiniteSet(g.wires)
    /\ \A e \in conns : \E k \in Nat : <<<<e[1], g.gateTo[e]>>, <<e[2], k>>>> \in g.wires
    /\ \A w \in g.wires : /\ <<w[1][1], w[2][1]>> \in conns
                          /\ g.gateTo[<<w[1][1], w[2][1]>>] = w[1][2]
    /\ \A v, w \in g.wires : (v[1] = w[1] \/ v[2] = w[2]) => v = w
    /\ \A n \in Nic : /\ Shared(g.outCnt[n], g.freeOutGates[n], WiredOut(g, n))
                      /\ Shared(g.inCnt[n], g.freeInGates[n], WiredIn(g, n))

\* A wire leads from a gate out of one nic to a gate into another
Wire == (Nic \X Nat) \X (Nic \X Nat)

\* connectTo gives a new connection a wire of its own
LEMMA Connects ==
  ASSUME NEW conns \in SUBSET (Nic \X Nic), NEW g, Serves(g, conns),
         NEW e \in (Nic \X Nic) \ conns
  PROVE  Serves(connectTo(g, e), conns \cup {e})
<1> DEFINE a == e[1]
           b == e[2]
           out == requestGate(g.freeOutGates[a], g.outCnt[a])
           in == requestGate(g.freeInGates[b], g.inCnt[b])
           wire == <<<<a, out>>, <<b, in>>>>
           h == connectTo(g, e)
<1>1. a \in Nic /\ b \in Nic /\ e = <<a, b>>
  OBVIOUS
<1>2. g \in Pools /\ g.wires \in SUBSET Wire
  BY DEF Serves, Pools, Wire
<1>3. /\ Shared(g.outCnt[a], g.freeOutGates[a], WiredOut(g, a))
      /\ Shared(g.inCnt[b], g.freeInGates[b], WiredIn(g, b))
  BY <1>1 DEF Serves
<1>4. /\ out \in Nat \ {0} /\ out \notin WiredOut(g, a)
      /\ Shared(Count(g.freeOutGates[a], g.outCnt[a]), Popped(g.freeOutGates[a]), WiredOut(g, a) \cup {out})
  BY <1>3, GateTaken
<1>5. /\ in \in Nat \ {0} /\ in \notin WiredIn(g, b)
      /\ Shared(Count(g.freeInGates[b], g.inCnt[b]), Popped(g.freeInGates[b]), WiredIn(g, b) \cup {in})
  BY <1>3, GateTaken
<1>6. h = [g EXCEPT !.outCnt[a] = Count(g.freeOutGates[a], g.outCnt[a]),
                    !.inCnt[b]  = Count(g.freeInGates[b], g.inCnt[b]),
                    !.freeOutGates[a] = Popped(g.freeOutGates[a]),
                    !.freeInGates[b]  = Popped(g.freeInGates[b]),
                    !.gateTo[e] = out,
                    !.wires = g.wires \cup {wire}]
  BY DEF connectTo, Count
<1> HIDE DEF h, out, in
<1>7. /\ h.wires = g.wires \cup {wire}
      /\ h.gateTo = [g.gateTo EXCEPT ![e] = out]
      /\ h.outCnt = [g.outCnt EXCEPT ![a] = Count(g.freeOutGates[a], g.outCnt[a])]
      /\ h.inCnt = [g.inCnt EXCEPT ![b] = Count(g.freeInGates[b], g.inCnt[b])]
      /\ h.freeOutGates = [g.freeOutGates EXCEPT ![a] = Popped(g.freeOutGates[a])]
      /\ h.freeInGates = [g.freeInGates EXCEPT ![b] = Popped(g.freeInGates[b])]
  BY <1>2, <1>6 DEF Pools
<1>8. wire \in Wire
  BY <1>1, <1>4, <1>5 DEF Wire
<1>9. h \in Pools
  BY <1>1, <1>2, <1>4, <1>5, <1>6, <1>8 DEF Pools, Wire, Shared
<1>10. \A w \in g.wires : w[1] # wire[1] /\ w[2] # wire[2]
  BY <1>2, <1>4, <1>5 DEF WiredOut, WiredIn, Wire
<1>11. \A w \in g.wires : <<w[1][1], w[2][1]>> \in conns /\ <<w[1][1], w[2][1]>> # e
                          /\ g.gateTo[<<w[1][1], w[2][1]>>] = w[1][2]
  BY DEF Serves
<1>12. IsFiniteSet(h.wires)
  <2>1. IsFiniteSet(g.wires \cup {wire})
    BY FS_AddElement DEF Serves
  <2> QED BY <1>7, <2>1
<1>13. \A c \in conns \cup {e} : \E k \in Nat : <<<<c[1], h.gateTo[c]>>, <<c[2], k>>>> \in h.wires
  <2>1. h.gateTo[e] = out /\ \A c \in conns : h.gateTo[c] = g.gateTo[c]
    BY <1>2, <1>7 DEF Pools
  <2>2. ASSUME NEW c \in conns
        PROVE  \E k \in Nat : <<<<c[1], h.gateTo[c]>>, <<c[2], k>>>> \in h.wires
    BY <1>7, <2>1 DEF Serves
  <2> QED BY <1>5, <1>7, <2>1, <2>2
<1>14. \A w \in h.wires : /\ <<w[1][1], w[2][1]>> \in conns \cup {e}
                          /\ h.gateTo[<<w[1][1], w[2][1]>>] = w[1][2]
  <2>1. ASSUME NEW w \in g.wires
        PROVE  /\ <<w[1][1], w[2][1]>> \in conns \cup {e}
               /\ h.gateTo[<<w[1][1], w[2][1]>>] = w[1][2]
    BY <1>2, <1>7, <1>11 DEF Pools
  <2>2. <<wire[1][1], wire[2][1]>> = e /\ h.gateTo[e] = wire[1][2]
    BY <1>1, <1>2, <1>7 DEF Pools
  <2> QED BY <1>7, <2>1, <2>2
<1>15. \A v, w \in h.wires : (v[1] = w[1] \/ v[2] = w[2]) => v = w
  BY <1>7, <1>10 DEF Serves
<1>16. /\ WiredOut(h, a) = WiredOut(g, a) \cup {out}
       /\ \A n \in Nic \ {a} : WiredOut(h, n) = WiredOut(g, n)
  <2>1. \A n, k : (\E w \in h.wires : w[1] = <<n, k>>)
                     <=> ((\E w \in g.wires : w[1] = <<n, k>>) \/ (n = a /\ k = out))
    <3>1. \A n, k : wire[1] = <<n, k>> <=> (n = a /\ k = out)
      OBVIOUS
    <3> HIDE DEF wire
    <3> QED BY <1>7, <3>1
  <2> HIDE DEF a
  <2> QED BY <1>4, <2>1 DEF WiredOut
<1>17. /\ WiredIn(h, b) = WiredIn(g, b) \cup {in}
       /\ \A n \in Nic \ {b} : WiredIn(h, n) = WiredIn(g, n)
  <2>1. \A n, k : (\E w \in h.wires : w[2] = <<n, k>>)
                     <=> ((\E w \in g.wires : w[2] = <<n, k>>) \/ (n = b /\ k = in))
    <3>1. \A n, k : wire[2] = <<n, k>> <=> (n = b /\ k = in)
      OBVIOUS
    <3> HIDE DEF wire
    <3> QED BY <1>7, <3>1
  <2> HIDE DEF b
  <2> QED BY <1>5, <2>1 DEF WiredIn
<1>18. ASSUME NEW n \in Nic
       PROVE  Shared(h.outCnt[n], h.freeOutGates[n], WiredOut(h, n))
  <2>1. CASE n = a
    <3>1. h.outCnt[a] = Count(g.freeOutGates[a], g.outCnt[a]) /\ h.freeOutGates[a] = Popped(g.freeOutGates[a])
      BY <1>1, <1>2, <1>7 DEF Pools
    <3> QED BY <1>4, <1>16, <2>1, <3>1, Zenon
  <2>2. CASE n # a
    <3>1. h.outCnt[n] = g.outCnt[n] /\ h.freeOutGates[n] = g.freeOutGates[n]
      BY <1>2, <1>7, <2>2 DEF Pools
    <3>2. WiredOut(h, n) = WiredOut(g, n)
      BY <1>16, <2>2
    <3>3. Shared(g.outCnt[n], g.freeOutGates[n], WiredOut(g, n))
      BY DEF Serves
    <3> QED BY <3>1, <3>2, <3>3, Zenon
  <2> QED BY <2>1, <2>2
<1>19. ASSUME NEW n \in Nic
       PROVE  Shared(h.inCnt[n], h.freeInGates[n], WiredIn(h, n))
  <2>1. CASE n = b
    <3>1. h.inCnt[b] = Count(g.freeInGates[b], g.inCnt[b]) /\ h.freeInGates[b] = Popped(g.freeInGates[b])
      BY <1>1, <1>2, <1>7 DEF Pools
    <3> QED BY <1>5, <1>17, <2>1, <3>1, Zenon
  <2>2. CASE n # b
    <3>1. h.inCnt[n] = g.inCnt[n] /\ h.freeInGates[n] = g.freeInGates[n]
      BY <1>2, <1>7, <2>2 DEF Pools
    <3>2. WiredIn(h, n) = WiredIn(g, n)
      BY <1>17, <2>2
    <3>3. Shared(g.inCnt[n], g.freeInGates[n], WiredIn(g, n))
      BY DEF Serves
    <3> QED BY <3>1, <3>2, <3>3, Zenon
  <2> QED BY <2>1, <2>2
<1> QED BY <1>9, <1>12, <1>13, <1>14, <1>15, <1>18, <1>19 DEF Serves, h

\* disconnectFrom finds the wire of the connection and removes no other
LEMMA Disconnects ==
  ASSUME NEW conns \in SUBSET (Nic \X Nic), NEW g, Serves(g, conns), NEW e \in conns
  PROVE  Serves(disconnectFrom(g, e), conns \ {e})
<1> DEFINE a == e[1]
           b == e[2]
           out == <<a, g.gateTo[e]>>
           wire == CHOOSE w \in g.wires : w[1] = out
           in == wire[2]
           h == disconnectFrom(g, e)
<1>1. a \in Nic /\ b \in Nic /\ e = <<a, b>>
  OBVIOUS
<1>2. g \in Pools /\ g.wires \in SUBSET Wire
  BY DEF Serves, Pools, Wire
<1>3. \E w \in g.wires : w[1] = out /\ w[2][1] = b
  BY DEF Serves
<1>4. wire \in g.wires /\ wire[1] = out
  BY <1>3
<1>5. in[1] = b /\ \A w \in g.wires \ {wire} : w[1] # out /\ w[2] # in
  BY <1>3, <1>4 DEF Serves
<1>6. h = [g EXCEPT !.freeOutGates[a] = Append(g.freeOutGates[a], out[2]),
                    !.freeInGates[b]  = Append(g.freeInGates[b], in[2]),
                    !.gateTo[e] = NoGate,
                    !.wires = g.wires \ {wire}]
  BY DEF disconnectFrom
<1> HIDE DEF h, wire
<1>7. /\ h.wires = g.wires \ {wire}
      /\ h.gateTo = [g.gateTo EXCEPT ![e] = NoGate]
      /\ h.outCnt = g.outCnt /\ h.inCnt = g.inCnt
      /\ h.freeOutGates = [g.freeOutGates EXCEPT ![a] = Append(g.freeOutGates[a], out[2])]
      /\ h.freeInGates = [g.freeInGates EXCEPT ![b] = Append(g.freeInGates[b], in[2])]
  BY <1>2, <1>6 DEF Pools
<1>8. wire \in Wire /\ out[2] \in Nat /\ in[2] \in Nat /\ in = <<b, in[2]>>
  BY <1>2, <1>4, <1>5 DEF Wire
<1>9. /\ out[2] \in WiredOut(g, a) /\ in[2] \in WiredIn(g, b)
      /\ Shared(g.outCnt[a], g.freeOutGates[a], WiredOut(g, a))
      /\ Shared(g.inCnt[b], g.freeInGates[b], WiredIn(g, b))
  BY <1>1, <1>4, <1>8 DEF Serves, WiredOut, WiredIn
<1>10. /\ Shared(g.outCnt[a], Append(g.freeOutGates[a], out[2]), WiredOut(g, a) \ {out[2]})
       /\ Shared(g.inCnt[b], Append(g.freeInGates[b], in[2]), WiredIn(g, b) \ {in[2]})
  BY <1>9, GateFreed
<1>11. h \in Pools
  <2>1. Append(g.freeOutGates[a], out[2]) \in Seq(Nat) /\ Append(g.freeInGates[b], in[2]) \in Seq(Nat)
    BY <1>10 DEF Shared
  <2> QED BY <1>2, <1>6, <2>1 DEF Pools, NoGate
<1>12. IsFiniteSet(h.wires)
  <2>1. IsFiniteSet(g.wires \ {wire})
    BY FS_RemoveElement DEF Serves
  <2> QED BY <1>7, <2>1
<1>13. \A w \in g.wires \ {wire} : <<w[1][1], w[2][1]>> # e
  BY <1>2, <1>5 DEF Serves, Wire
<1>14. \A c \in conns \ {e} : \E k \in Nat : <<<<c[1], h.gateTo[c]>>, <<c[2], k>>>> \in h.wires
  <2> SUFFICES ASSUME NEW c \in conns \ {e}
               PROVE  \E k \in Nat : <<<<c[1], h.gateTo[c]>>, <<c[2], k>>>> \in h.wires
    OBVIOUS
  <2>1. h.gateTo[c] = g.gateTo[c]
    BY <1>2, <1>7 DEF Pools
  <2>2. PICK k \in Nat : <<<<c[1], g.gateTo[c]>>, <<c[2], k>>>> \in g.wires
    BY DEF Serves
  <2>3. <<<<c[1], g.gateTo[c]>>, <<c[2], k>>>> # wire
    BY <1>1, <1>4, <1>5
  <2> QED BY <1>7, <2>1, <2>2, <2>3
<1>15. \A w \in h.wires : /\ <<w[1][1], w[2][1]>> \in conns \ {e}
                          /\ h.gateTo[<<w[1][1], w[2][1]>>] = w[1][2]
  BY <1>2, <1>7, <1>13 DEF Serves, Pools
<1>16. \A v, w \in h.wires : (v[1] = w[1] \/ v[2] = w[2]) => v = w
  BY <1>7 DEF Serves
<1>17. /\ WiredOut(h, a) = WiredOut(g, a) \ {out[2]}
       /\ \A n \in Nic \ {a} : WiredOut(h, n) = WiredOut(g, n)
  BY <1>4, <1>5, <1>7 DEF WiredOut
<1>18. /\ WiredIn(h, b) = WiredIn(g, b) \ {in[2]}
       /\ \A n \in Nic \ {b} : WiredIn(h, n) = WiredIn(g, n)
  BY <1>5, <1>7, <1>8 DEF WiredIn
<1>19. ASSUME NEW n \in Nic
       PROVE  Shared(h.outCnt[n], h.freeOutGates[n], WiredOut(h, n))
  <2>1. CASE n = a
    <3>1. h.outCnt[a] = g.outCnt[a] /\ h.freeOutGates[a] = Append(g.freeOutGates[a], out[2])
      BY <1>1, <1>2, <1>7 DEF Pools
    <3> QED BY <1>10, <1>17, <2>1, <3>1, Zenon
  <2>2. CASE n # a
    <3>1. h.outCnt[n] = g.outCnt[n] /\ h.freeOutGates[n] = g.freeOutGates[n]
      BY <1>2, <1>7, <2>2 DEF Pools
    <3>2. WiredOut(h, n) = WiredOut(g, n)
      BY <1>17, <2>2
    <3>3. Shared(g.outCnt[n], g.freeOutGates[n], WiredOut(g, n))
      BY DEF Serves
    <3> QED BY <3>1, <3>2, <3>3, Zenon
  <2> QED BY <2>1, <2>2
<1>20. ASSUME NEW n \in Nic
       PROVE  Shared(h.inCnt[n], h.freeInGates[n], WiredIn(h, n))
  <2>1. CASE n = b
    <3>1. h.inCnt[b] = g.inCnt[b] /\ h.freeInGates[b] = Append(g.freeInGates[b], in[2])
      BY <1>1, <1>2, <1>7 DEF Pools
    <3> QED BY <1>10, <1>18, <2>1, <3>1, Zenon
  <2>2. CASE n # b
    <3>1. h.inCnt[n] = g.inCnt[n] /\ h.freeInGates[n] = g.freeInGates[n]
      BY <1>2, <1>7, <2>2 DEF Pools
    <3>2. WiredIn(h, n) = WiredIn(g, n)
      BY <1>18, <2>2
    <3>3. Shared(g.inCnt[n], g.freeInGates[n], WiredIn(g, n))
      BY DEF Serves
    <3> QED BY <3>1, <3>2, <3>3, Zenon
  <2> QED BY <2>1, <2>2
<1> QED BY <1>11, <1>12, <1>14, <1>15, <1>16, <1>19, <1>20 DEF Serves, h

\* The pairs of nics with a connection
Linked == {e \in Nic \X Nic : outConns[e] = "GATE"}

\* Connections go both ways, and to another nic
Mutual ==
    /\ outConns \in [Nic \X Nic -> Entry]
    /\ \A n, m \in Nic : <<n, m>> \in Linked => n # m /\ <<m, n>> \in Linked

\* The gates after the rewiring of nic n with m
Rewired(n, g, m) ==
    IF outConns'[<<n, m>>] = "GATE"
    THEN connectTo(connectTo(g, <<n, m>>), <<m, n>>)
    ELSE disconnectFrom(disconnectFrom(g, <<n, m>>), <<m, n>>)

\* The connections when those of n with the nics of S have changed
Halfway(n, S) == (Linked \ Between(n, S)) \cup (Linked' \cap Between(n, S))

\* The nics that come into or leave the range of n
Changed(n) == {m \in Nic : (outConns[<<n, m>>] = "GATE") # (outConns'[<<n, m>>] = "GATE")}

\* One turn of the loop over the nics around n
LEMMA RewiringOfOne ==
  ASSUME Mutual, Mutual', NEW n \in Nic, NEW S \in SUBSET Changed(n),
         NEW m \in Changed(n) \ S, NEW g, Serves(g, Halfway(n, S))
  PROVE  Serves(Rewired(n, g, m), Halfway(n, S \cup {m}))
<1> DEFINE C == Halfway(n, S)
<1>1. m \in Nic /\ m # n /\ C \in SUBSET (Nic \X Nic)
      /\ <<n, m>> \in Nic \X Nic /\ <<m, n>> \in Nic \X Nic /\ <<n, m>> # <<m, n>>
  BY DEF Changed, Mutual, Linked, Halfway
<1>2. /\ <<n, m>> \in C <=> <<n, m>> \in Linked
      /\ <<m, n>> \in C <=> <<m, n>> \in Linked
  BY <1>1 DEF Halfway, Between, Changed
<1>3. CASE outConns'[<<n, m>>] = "GATE"
  <2>1. <<n, m>> \notin C /\ <<m, n>> \notin C
    BY <1>1, <1>2, <1>3 DEF Changed, Linked, Mutual
  <2>2. <<n, m>> \in Linked' /\ <<m, n>> \in Linked'
    BY <1>1, <1>3 DEF Linked, Mutual
  <2>3. Halfway(n, S \cup {m}) = (C \cup {<<n, m>>}) \cup {<<m, n>>}
    BY <1>1, <2>1, <2>2 DEF Halfway, Between
  <2> HIDE DEF C
  <2>4. Serves(connectTo(g, <<n, m>>), C \cup {<<n, m>>})
    BY <1>1, <2>1, Connects DEF C
  <2>5. Serves(connectTo(connectTo(g, <<n, m>>), <<m, n>>), (C \cup {<<n, m>>}) \cup {<<m, n>>})
    BY <1>1, <2>1, <2>4, Connects
  <2> QED BY <1>3, <2>3, <2>5, Zenon DEF Rewired
<1>4. CASE outConns'[<<n, m>>] # "GATE"
  <2>1. <<n, m>> \in C /\ <<m, n>> \in C
    BY <1>1, <1>2, <1>4 DEF Changed, Linked, Mutual
  <2>2. <<n, m>> \notin Linked' /\ <<m, n>> \notin Linked'
    BY <1>1, <1>4 DEF Linked, Mutual
  <2>3. Halfway(n, S \cup {m}) = (C \ {<<n, m>>}) \ {<<m, n>>}
    BY <1>1, <2>1, <2>2 DEF Halfway, Between
  <2> HIDE DEF C
  <2>4. Serves(disconnectFrom(g, <<n, m>>), C \ {<<n, m>>})
    BY <1>1, <2>1, Disconnects DEF C
  <2>5. Serves(disconnectFrom(disconnectFrom(g, <<n, m>>), <<m, n>>), (C \ {<<n, m>>}) \ {<<m, n>>})
    BY <1>1, <2>1, <2>4, Disconnects
  <2> QED BY <1>4, <2>3, <2>5, Zenon DEF Rewired
<1> QED BY <1>3, <1>4

\* Max of a set of natural numbers with a bound exists
LEMMA LargestIn ==
  ASSUME NEW K \in Nat, NEW s \in SUBSET (1..K), s # {}
  PROVE  Max(s) \in s /\ \A y \in s : Max(s) >= y
<1> DEFINE D == 1..K
           HasMax(t) == \E x \in t : \A y \in t : x >= y
           W == {t \in SUBSET D : t # {} /\ ~HasMax(t)}
<1>0. IsFiniteSet(D)
  BY FS_Interval
<1>1. IsWellFoundedOn(StrictSubsetOrdering(D), SUBSET D)
  BY <1>0, FS_StrictSubsetOrderingWellFounded, FS_FiniteSubsetsOfFinite
<1> HIDE DEF HasMax
<1>2. ASSUME W # {} PROVE FALSE
  <2>1. PICK t \in W : \A u \in W : <<u, t>> \notin StrictSubsetOrdering(D)
    BY <1>1, <1>2, WFMin
  <2>2. PICK x \in t : TRUE
    BY <2>1
  <2>3. t \ {x} \in SUBSET D /\ (t \ {x} = {} \/ HasMax(t \ {x}))
    <3>1. t \in SUBSET D /\ t \ {x} \in SUBSET D /\ t \ {x} # t
      BY <2>1, <2>2
    <3>2. <<t \ {x}, t>> \in StrictSubsetOrdering(D)
      BY <3>1 DEF StrictSubsetOrdering
    <3>3. t \ {x} \notin W
      BY <2>1, <3>2
    <3> QED BY <3>1, <3>3
  <2>4. CASE t \ {x} = {}
    <3>1. \A y \in t : y = x
      BY <2>4
    <3> QED BY <2>1, <2>2, <3>1 DEF HasMax
  <2>5. CASE HasMax(t \ {x})
    <3>1. PICK z \in t \ {x} : \A y \in t \ {x} : z >= y
      BY <2>5 DEF HasMax
    <3>2. x \in Int /\ z \in Int /\ \A y \in t : y \in Int
      BY <2>1, <2>2, <3>1
    <3>3. CASE z >= x
      BY <2>1, <2>2, <3>1, <3>2, <3>3 DEF HasMax
    <3>4. CASE x >= z
      <4>1. \A y \in t : x >= y
        BY <2>1, <2>2, <3>1, <3>2, <3>4
      <4> QED BY <2>1, <2>2, <4>1 DEF HasMax
    <3> QED BY <3>2, <3>3, <3>4
  <2> QED BY <2>3, <2>4, <2>5
<1>3. HasMax(s)
  BY <1>2
<1> QED BY <1>3 DEF Max, HasMax

\* The recursion of FoldLeft: f[s] is what the turns for the positions s of order make
Folding(n, order, base, D, f) ==
    f = [s \in SUBSET D |-> IF s = {} THEN base
                            ELSE Rewired(n, f[s \ {Max(s)}], order[Max(s)])]

\* It has a solution: a smallest set without one would have one from the set without its
\* largest element.
LEMMA FoldExists ==
  ASSUME NEW n, NEW order, NEW base, NEW K \in Nat
  PROVE  \E f : Folding(n, order, base, 1..K, f)
<1> DEFINE D == 1..K
           Sol(s, f) == Folding(n, order, base, s, f)
           W == {s \in SUBSET D : ~\E f : Sol(s, f)}
<1>1. IsFiniteSet(D)
  BY FS_Interval
<1>2. IsWellFoundedOn(StrictSubsetOrdering(D), SUBSET D)
  BY <1>1, FS_StrictSubsetOrderingWellFounded, FS_FiniteSubsetsOfFinite
<1>3. ASSUME W # {} PROVE FALSE
  <2>1. PICK s \in W : \A t \in W : <<t, s>> \notin StrictSubsetOrdering(D)
    BY <1>2, <1>3, WFMin
  <2>2. s # {}
    <3>1. Sol({}, [t \in SUBSET {} |-> base])
      BY DEF Folding
    <3> QED BY <2>1, <3>1
  <2> DEFINE x == Max(s)
  <2>3. x \in s /\ \A y \in s : x >= y
    BY <2>1, <2>2, LargestIn
  <2>4. PICK f : Sol(s \ {x}, f)
    <3>1. s \in SUBSET D /\ s \ {x} \in SUBSET D /\ s \ {x} # s
      BY <2>1, <2>3
    <3>2. <<s \ {x}, s>> \in StrictSubsetOrdering(D)
      BY <3>1 DEF StrictSubsetOrdering
    <3>3. s \ {x} \notin W
      BY <2>1, <3>2
    <3> HIDE DEF Sol, x
    <3> QED BY <3>1, <3>3
  <2> DEFINE h == [t \in SUBSET s |-> IF x \in t THEN Rewired(n, f[t \ {x}], order[x]) ELSE f[t]]
  <2> HIDE DEF x
  <2>5. ASSUME NEW t \in SUBSET s
        PROVE  h[t] = IF t = {} THEN base ELSE Rewired(n, h[t \ {Max(t)}], order[Max(t)])
    <3>1. CASE x \in t
      <4>1. Max(t) = x
        <5>1. t \in SUBSET D /\ t # {} /\ t \subseteq s
          BY <2>1, <3>1
        <5>2. Max(t) \in t /\ \A y \in t : Max(t) >= y
          BY <5>1, LargestIn
        <5>3. Max(t) >= x /\ x >= Max(t)
          BY <2>3, <3>1, <5>1, <5>2
        <5>4. x \in 1..K /\ Max(t) \in 1..K
          BY <2>1, <2>3, <5>1, <5>2
        <5> QED BY <5>3, <5>4
      <4>2. h[t] = Rewired(n, f[t \ {x}], order[x])
        BY <3>1
      <4>3. t \ {x} \in SUBSET s /\ x \notin t \ {x} /\ h[t \ {x}] = f[t \ {x}]
        OBVIOUS
      <4> QED BY <3>1, <4>1, <4>2, <4>3
    <3>2. CASE x \notin t
      <4>1. t \in SUBSET (s \ {x}) /\ h[t] = f[t]
        BY <3>2
      <4>2. f[t] = IF t = {} THEN base ELSE Rewired(n, f[t \ {Max(t)}], order[Max(t)])
        BY <2>4, <4>1 DEF Folding
      <4>3. t \ {Max(t)} \in SUBSET s /\ x \notin t \ {Max(t)} /\ h[t \ {Max(t)}] = f[t \ {Max(t)}]
        BY <3>2
      <4> QED BY <4>1, <4>2, <4>3
    <3> QED BY <3>1, <3>2
  <2>6. h = [t \in SUBSET s |-> h[t]]
    OBVIOUS
  <2> HIDE DEF h
  <2>7. Sol(s, h)
    BY <2>5, <2>6 DEF Folding
  <2> QED BY <2>1, <2>7
<1> QED BY <1>3

\* In whatever order a move goes through the nics, each connection that is left has a wire
\* of its own: after i turns the connections with i nics have changed.
LEMMA RewireServes ==
  ASSUME Mutual, Mutual', NEW n \in Nic, Serves(gates, Linked), Rewire(n), ~stopped',
         \A e \in Nic \X Nic : (e[1] # n /\ e[2] # n) => (e \in Linked' <=> e \in Linked)
  PROVE  Serves(gates', Linked')
<1>1. PICK order \in SetToSeqs(Changed(n)) :
         gates' = (CHOOSE f : Folding(n, order, gates, DOMAIN order, f))[DOMAIN order]
  BY DEF Rewire, FoldLeft, MapThenFoldSet, Changed, Rewired, Folding
<1> DEFINE K == Cardinality(Changed(n))
           D == 1..K
           T(i) == {order[j] : j \in 1..i}
<1>2. /\ IsFiniteSet(Changed(n)) /\ K \in Nat
      /\ order \in [D -> Changed(n)] /\ \A i, j \in D : i # j => order[i] # order[j]
  <2>1. IsFiniteSet(Changed(n))
    BY NicAssumption, FS_Subset DEF Changed
  <2> QED BY <2>1, FS_CardinalityType DEF SetToSeqs
<1>3. \A m \in Changed(n) : \E i \in D : order[i] = m
  <2>1. order \in Injection(D, Changed(n))
    BY <1>2 DEF Injection, IsInjective
  <2>2. Cardinality(D) = K
    BY <1>2, FS_Interval
  <2>3. order \in Surjection(D, Changed(n))
    BY <1>2, <2>1, <2>2, FS_Injection
  <2> QED BY <2>3 DEF Surjection
<1> HIDE DEF K
<1>4. DOMAIN order = D
  BY <1>2
<1>5. PICK f : /\ f = (CHOOSE g : Folding(n, order, gates, DOMAIN order, g))
               /\ Folding(n, order, gates, D, f)
  <2>1. \E g : Folding(n, order, gates, D, g)
    BY <1>2, FoldExists
  <2> QED BY <1>4, <2>1, Zenon
<1>6. \A s \in SUBSET D : f[s] = IF s = {} THEN gates
                                 ELSE Rewired(n, f[s \ {Max(s)}], order[Max(s)])
  BY <1>5 DEF Folding
<1>7. /\ f[{}] = gates
      /\ \A i \in 1..K : f[1..i] = Rewired(n, f[1..(i - 1)], order[i])
  <2> SUFFICES ASSUME NEW i \in 1..K PROVE f[1..i] = Rewired(n, f[1..(i - 1)], order[i])
    BY <1>6
  <2>1. 1..i \in SUBSET D /\ 1..i # {} /\ i \in 1..i /\ i \in Nat
    BY <1>2
  <2>2. Max(1..i) = i
    <3>1. Max(1..i) \in 1..i /\ \A y \in 1..i : Max(1..i) >= y
      BY <2>1, LargestIn
    <3>2. Max(1..i) <= i /\ Max(1..i) >= i /\ Max(1..i) \in Int
      BY <2>1, <3>1
    <3> QED BY <2>1, <3>2
  <2>3. (1..i) \ {i} = 1..(i - 1)
    BY <2>1
  <2>4. f[1..i] = Rewired(n, f[(1..i) \ {Max(1..i)}], order[Max(1..i)])
    BY <1>6, <2>1
  <2> QED BY <2>2, <2>3, <2>4, Zenon
<1>8. \A i \in 0..K : Serves(f[1..i], Halfway(n, T(i)))
  <2> DEFINE W == {s \in SUBSET D : \E i \in 0..K : s = 1..i /\ ~Serves(f[1..i], Halfway(n, T(i)))}
  <2>1. IsWellFoundedOn(StrictSubsetOrdering(D), SUBSET D)
    <3>1. IsFiniteSet(D)
      BY <1>2, FS_Interval
    <3> QED BY <3>1, FS_StrictSubsetOrderingWellFounded, FS_FiniteSubsetsOfFinite
  <2>2. ASSUME W # {} PROVE FALSE
    <3>1. PICK s \in W : \A t \in W : <<t, s>> \notin StrictSubsetOrdering(D)
      BY <2>1, <2>2, WFMin
    <3>2. PICK i \in 0..K : s = 1..i /\ ~Serves(f[1..i], Halfway(n, T(i)))
      BY <3>1
    <3>3. CASE i = 0
      <4>1. 1..i = {} /\ T(i) = {}
        BY <3>3
      <4>2. Halfway(n, {}) = Linked
        BY DEF Halfway, Between
      <4> QED BY <1>7, <3>2, <4>1, <4>2, Zenon
    <3>4. CASE i # 0
      <4>1. i \in 1..K /\ i - 1 \in 0..K /\ i \in Nat
        BY <1>2, <3>2, <3>4
      <4>2. 1..(i - 1) \in SUBSET D /\ 1..i \in SUBSET D /\ 1..(i - 1) # 1..i /\ 1..(i - 1) \subseteq 1..i
        BY <1>2, <4>1
      <4>3. <<1..(i - 1), s>> \in StrictSubsetOrdering(D)
        BY <3>2, <4>2 DEF StrictSubsetOrdering
      <4>4. Serves(f[1..(i - 1)], Halfway(n, T(i - 1)))
        BY <3>1, <4>1, <4>2, <4>3
      <4>5. T(i - 1) \in SUBSET Changed(n) /\ order[i] \in Changed(n) \ T(i - 1)
        BY <1>2, <4>1
      <4>6. T(i) = T(i - 1) \cup {order[i]}
        <5>1. \A j \in 1..i : j \in 1..(i - 1) \/ j = i
          BY <4>1
        <5>2. 1..(i - 1) \subseteq 1..i /\ i \in 1..i
          BY <4>1
        <5> QED BY <5>1, <5>2
      <4>7. Serves(Rewired(n, f[1..(i - 1)], order[i]), Halfway(n, T(i - 1) \cup {order[i]}))
        BY <4>4, <4>5, RewiringOfOne
      <4>8. f[1..i] = Rewired(n, f[1..(i - 1)], order[i])
        BY <1>7, <4>1
      <4> QED BY <3>2, <4>6, <4>7, <4>8, Zenon
    <3> QED BY <3>3, <3>4
  <2>3. ASSUME NEW i \in 0..K PROVE Serves(f[1..i], Halfway(n, T(i)))
    <3>1. 1..i \in SUBSET D
      BY <1>2
    <3>2. 1..i \notin W
      BY <2>2
    <3> QED BY <3>1, <3>2
  <2> QED BY <2>3
<1>9. Halfway(n, T(K)) = Linked'
  <2>1. T(K) = Changed(n)
    BY <1>2, <1>3
  <2>2. Halfway(n, Changed(n)) = Linked'
    <3> SUFFICES ASSUME NEW e \in Nic \X Nic
                 PROVE  e \in Halfway(n, Changed(n)) <=> e \in Linked'
      BY DEF Halfway, Linked
    <3>1. CASE e \in Between(n, Changed(n))
      BY <3>1 DEF Halfway
    <3>2. CASE e \notin Between(n, Changed(n))
      <4>1. e \in Linked' <=> e \in Linked
        BY <3>2 DEF Between, Changed, Linked, Mutual
      <4> QED BY <3>2, <4>1 DEF Halfway
    <3> QED BY <3>1, <3>2
  <2> QED BY <2>1, <2>2, Zenon
<1>10. gates' = f[1..K]
  BY <1>1, <1>4, <1>5, Zenon
<1>11. Serves(f[1..K], Halfway(n, T(K)))
  BY <1>2, <1>8
<1> QED BY <1>9, <1>10, <1>11, Zenon

\* The counts of gates follow
LEMMA SharedIsAccounted ==
  ASSUME NEW cnt, NEW free, NEW wired, wired \subseteq Nat, Shared(cnt, free, wired)
  PROVE  Accounted(cnt, free, wired)
<1> DEFINE idle == ToSet(free)
           n == Len(free)
           at == [i \in 1..n |-> free[i]]
<1>1. cnt \in Nat /\ free \in Seq(Nat) /\ n \in Nat /\ DOMAIN free = 1..n
  BY DEF Shared
<1>2. \A k : k \in idle <=> \E i \in 1..n : free[i] = k
  BY <1>1 DEF ToSet
<1>3. at \in Surjection(1..n, idle) /\ at \in Injection(1..n, idle)
  BY <1>1, <1>2 DEF Surjection, Injection, IsInjective, Shared
<1>4. IsFiniteSet(1..n) /\ Cardinality(1..n) = n
  <2> HIDE DEF n
  <2> QED BY <1>1, FS_Interval
<1>5. IsFiniteSet(idle) /\ Cardinality(idle) = n
  <2> HIDE DEF at, idle, n
  <2> QED BY <1>3, <1>4, FS_Surjection
<1>6. idle \cup wired = 1..cnt /\ idle \cap wired = {}
  <2> HIDE DEF idle
  <2> QED BY <1>2 DEF Shared
<1>7. IsFiniteSet(1..cnt) /\ Cardinality(1..cnt) = cnt
  BY <1>1, FS_Interval
<1>8. IsFiniteSet(wired)
  BY <1>6, <1>7, FS_Subset
<1>9. Cardinality(idle \cup wired) = Cardinality(idle) + Cardinality(wired) - Cardinality(idle \cap wired)
  BY <1>5, <1>8, FS_Union
<1>10. Cardinality(idle \cap wired) = 0 /\ Cardinality(wired) \in Nat
  BY <1>6, <1>8, FS_EmptySet, FS_CardinalityType
<1>11. Cardinality(idle \cup wired) = cnt
  BY <1>6, <1>7, Zenon
<1> HIDE DEF idle, n
<1>12. n + Cardinality(wired) = cnt
  BY <1>1, <1>5, <1>9, <1>10, <1>11
<1> QED BY <1>6, <1>12 DEF Accounted, idle, n

\* The gates the property speaks of are those with a wire
LEMMA GatesOfWires ==
  ASSUME gates \in Pools, NEW n \in Nic
  PROVE  GatesOf(n, 1) = WiredOut(gates, n) /\ GatesOf(n, 2) = WiredIn(gates, n)
<1>1. gates.wires \in SUBSET Wire
  BY DEF Pools, Wire
<1>2. \A k : k \in GatesOf(n, 1) <=> \E w \in gates.wires : w[1][1] = n /\ w[1][2] = k
  BY DEF GatesOf, Wired
<1>3. \A k : k \in GatesOf(n, 2) <=> \E w \in gates.wires : w[2][1] = n /\ w[2][2] = k
  BY DEF GatesOf, Wired
<1>4. \A w \in gates.wires : /\ w[1] = <<w[1][1], w[1][2]>> /\ w[1][2] \in Nat
                             /\ w[2] = <<w[2][1], w[2][2]>> /\ w[2][2] \in Nat
  BY <1>1 DEF Wire
<1> QED BY <1>2, <1>3, <1>4 DEF WiredOut, WiredIn

\* No gate has two wires
LEMMA EndsOfWires ==
  ASSUME Serves(gates, Linked), NEW side \in {1, 2}
  PROVE  Cardinality(gates.wires) = Cardinality(Wired(side))
<1> DEFINE end == [w \in gates.wires |-> w[side]]
<1>1. end \in Surjection(gates.wires, Wired(side))
  BY DEF Wired, Surjection
<1>2. end \in Injection(gates.wires, Wired(side))
  BY <1>1 DEF Injection, IsInjective, Surjection, Serves
<1> HIDE DEF end
<1> QED BY <1>1, <1>2, FS_Surjection DEF Serves

LEMMA ServedUnshared == Mutual /\ Serves(gates, Linked) => GatesUnshared
<1> SUFFICES ASSUME Mutual, Serves(gates, Linked) PROVE GatesUnshared
  OBVIOUS
<1>1. gates \in Pools
  BY DEF Serves
<1>2. \A e \in Nic \X Nic :
         outConns[e] = "GATE" <=>
            \E w \in gates.wires : w[1] = <<e[1], gates.gateTo[e]>> /\ w[2][1] = e[2]
  <2> SUFFICES ASSUME NEW e \in Nic \X Nic
               PROVE  outConns[e] = "GATE" <=>
                        \E w \in gates.wires : w[1] = <<e[1], gates.gateTo[e]>> /\ w[2][1] = e[2]
    OBVIOUS
  <2>1. outConns[e] = "GATE" => \E w \in gates.wires : w[1] = <<e[1], gates.gateTo[e]>> /\ w[2][1] = e[2]
    <3> SUFFICES ASSUME outConns[e] = "GATE"
                 PROVE  \E w \in gates.wires : w[1] = <<e[1], gates.gateTo[e]>> /\ w[2][1] = e[2]
      OBVIOUS
    <3>1. e \in Linked
      BY DEF Linked
    <3>2. PICK k \in Nat : <<<<e[1], gates.gateTo[e]>>, <<e[2], k>>>> \in gates.wires
      BY <3>1 DEF Serves
    <3> QED BY <3>2
  <2>2. ASSUME NEW w \in gates.wires, w[1] = <<e[1], gates.gateTo[e]>>, w[2][1] = e[2]
        PROVE  outConns[e] = "GATE"
    <3>1. <<w[1][1], w[2][1]>> \in Linked
      BY DEF Serves
    <3>2. <<w[1][1], w[2][1]>> = e
      BY <2>2
    <3> QED BY <3>1, <3>2 DEF Linked
  <2> QED BY <2>1, <2>2
<1>3. /\ Cardinality(gates.wires) = Cardinality(Wired(1))
      /\ Cardinality(gates.wires) = Cardinality(Wired(2))
  BY EndsOfWires
<1>4. ASSUME NEW n \in Nic
      PROVE  /\ Accounted(gates.outCnt[n], gates.freeOutGates[n], GatesOf(n, 1))
             /\ Accounted(gates.inCnt[n], gates.freeInGates[n], GatesOf(n, 2))
  <2>1. WiredOut(gates, n) \subseteq Nat /\ WiredIn(gates, n) \subseteq Nat
    BY DEF WiredOut, WiredIn
  <2>2. /\ Accounted(gates.outCnt[n], gates.freeOutGates[n], WiredOut(gates, n))
        /\ Accounted(gates.inCnt[n], gates.freeInGates[n], WiredIn(gates, n))
    BY <2>1, SharedIsAccounted DEF Serves
  <2> QED BY <1>1, <2>2, GatesOfWires, Zenon
<1> QED BY <1>2, <1>3, <1>4 DEF GatesUnshared

\* What updateConnections does to the connections
LEMMA MutualKept ==
  ASSUME Mutual, NEW n \in Nic, NEW p, NEW others \in SUBSET (Nic \ {n}),
         updateConnections(n, p, others)
  PROVE  /\ Mutual'
         /\ \A e \in Nic \X Nic : (e[1] # n /\ e[2] # n) => (e \in Linked' <=> e \in Linked)
<1> DEFINE J == Joined(n, p, others)
           P == Parted(n, p, others)
<1>1. J \in SUBSET (Nic \ {n}) /\ P \in SUBSET (Nic \ {n})
  BY DEF Joined, Parted
<1>2. outConns' = [e \in Nic \X Nic |-> IF e \in Between(n, J) THEN "GATE"
                                        ELSE IF e \in Between(n, P) THEN "ABSENT"
                                        ELSE outConns[e]]
  BY DEF updateConnections
<1> HIDE DEF J, P
<1>3. \A S \in SUBSET (Nic \ {n}), a, b \in Nic :
         /\ <<a, b>> \in Between(n, S) <=> <<b, a>> \in Between(n, S)
         /\ <<a, b>> \in Between(n, S) => a # b /\ (a = n \/ b = n)
  BY DEF Between
<1>4. outConns' \in [Nic \X Nic -> Entry]
  BY <1>2 DEF Mutual, Entry
<1>5. \A a, b \in Nic : <<a, b>> \in Linked' <=>
         \/ <<a, b>> \in Between(n, J)
         \/ <<a, b>> \notin Between(n, P) /\ <<a, b>> \in Linked
  BY <1>2 DEF Linked
<1>6. \A a, b \in Nic : <<a, b>> \in Linked' => a # b /\ <<b, a>> \in Linked'
  BY <1>1, <1>3, <1>5 DEF Mutual
<1>7. Mutual'
  BY <1>4, <1>6 DEF Mutual
<1>8. \A a, b \in Nic : (a # n /\ b # n) => (<<a, b>> \in Linked' <=> <<a, b>> \in Linked)
  BY <1>1, <1>3, <1>5
<1> QED BY <1>7, <1>8

\* The inductive invariant of the pools
PoolsServe == Mutual /\ (stopped \/ Serves(gates, Linked))

LEMMA InitServes == GatesInit => PoolsServe
<1> SUFFICES ASSUME GatesInit PROVE PoolsServe
  OBVIOUS
<1>1. Linked = {} /\ Mutual
  BY DEF GatesInit, Init, Linked, Mutual, Entry
<1>2. gates \in Pools
  BY EmptySeq DEF GatesInit, Pools, NoGate
<1>3. /\ gates.wires = {}
      /\ \A n \in Nic : /\ gates.outCnt[n] = 0 /\ gates.freeOutGates[n] = <<>>
                        /\ gates.inCnt[n] = 0 /\ gates.freeInGates[n] = <<>>
  BY DEF GatesInit
<1>4. \A n \in Nic : WiredOut(gates, n) = {} /\ WiredIn(gates, n) = {}
  BY <1>3 DEF WiredOut, WiredIn
<1>5. Shared(0, <<>>, {})
  BY EmptySeq DEF Shared
<1>6. \A n \in Nic : /\ Shared(gates.outCnt[n], gates.freeOutGates[n], WiredOut(gates, n))
                     /\ Shared(gates.inCnt[n], gates.freeInGates[n], WiredIn(gates, n))
  BY <1>3, <1>4, <1>5, Zenon
<1>7. IsFiniteSet(gates.wires)
  BY <1>3, FS_EmptySet
<1> QED BY <1>1, <1>2, <1>3, <1>6, <1>7 DEF PoolsServe, Serves

LEMMA ServesStep == PoolsServe /\ [GatesNext]_gateVars => PoolsServe'
<1> SUFFICES ASSUME PoolsServe, [GatesNext]_gateVars PROVE PoolsServe'
  OBVIOUS
<1>1. ASSUME outConns' = outConns, gates' = gates, stopped => stopped' PROVE PoolsServe'
  <2>1. Linked' = Linked
    BY <1>1 DEF Linked
  <2>2. Mutual'
    BY <1>1, <2>1 DEF PoolsServe, Mutual
  <2>3. stopped' \/ Serves(gates', Linked')
    BY <1>1, <2>1, Zenon DEF PoolsServe
  <2> QED BY <2>2, <2>3 DEF PoolsServe
<1>2. CASE UNCHANGED gateVars
  BY <1>1, <1>2 DEF gateVars, vars
<1>3. ASSUME ~stopped, NEW n \in Nic, NEW p \in Place, registerNic(n, p) \/ updateNicPos(n, p), Rewire(n)
      PROVE  PoolsServe'
  <2>1. PICK others \in SUBSET (Nic \ {n}) : updateConnections(n, p, others)
    BY <1>3 DEF registerNic, updateNicPos, checkGrid, Others
  <2>2. Mutual /\ Serves(gates, Linked)
    BY <1>3 DEF PoolsServe
  <2>3. /\ Mutual'
        /\ \A e \in Nic \X Nic : (e[1] # n /\ e[2] # n) => (e \in Linked' <=> e \in Linked)
    BY <2>1, <2>2, MutualKept
  <2>4. CASE stopped'
    BY <2>3, <2>4 DEF PoolsServe
  <2>5. CASE ~stopped'
    BY <1>3, <2>2, <2>3, <2>5, RewireServes DEF PoolsServe
  <2> QED BY <2>4, <2>5
<1>4. ASSUME ~stopped, NEW n \in Nic, sendToChannel(n), UNCHANGED gates
      PROVE  PoolsServe'
  BY <1>1, <1>4 DEF sendToChannel
<1>5. ASSUME ~stopped, NEW n \in Nic, NEW m \in Nic, sendDelayedP2P(n, m), UNCHANGED gates
      PROVE  PoolsServe'
  <2>1. /\ outConns' = [outConns EXCEPT ![<<n, m>>] = IF @ = "ABSENT" THEN "NULL" ELSE @]
        /\ outConns \in [Nic \X Nic -> Entry] /\ gates' = gates
    BY <1>5 DEF sendDelayedP2P, PoolsServe, Mutual
  <2>2. Linked' = Linked /\ outConns' \in [Nic \X Nic -> Entry]
    BY <2>1 DEF Linked, Entry
  <2>3. Mutual'
    BY <2>2 DEF PoolsServe, Mutual
  <2>4. Serves(gates', Linked')
    BY <1>5, <2>1, <2>2, Zenon DEF PoolsServe
  <2> QED BY <2>3, <2>4 DEF PoolsServe
<1> QED BY <1>2, <1>3, <1>4, <1>5 DEF GatesNext

\* For any number of nics, any moves and any order in which the matrix lists the nics: every
\* connection has a wire of its own, no gate is used twice, and none is lost or made in
\* vain (requestOutGate, requestInGate and disconnectFrom of NicEntryDebug).
THEOREM EveryConnectionAWire == GatesSpec => []GatesUnshared
<1>1. PoolsServe => GatesUnshared
  BY ServedUnshared DEF PoolsServe, GatesUnshared
<1> QED BY <1>1, InitServes, ServesStep, PTL DEF GatesSpec
-----------------------------------------------------------------------------
(***************************************************************************)
(* The medium as a MAC uses it: AlohaMacLayer on the nics of SnrNic.  The  *)
(* argument: an Aloha node is always in one of four phases (Fine), told    *)
(* apart by its MAC, its radio, the timer of the transmission and what its *)
(* nic has sent to the MAC; each hands over to the next, and none of them  *)
(* lets a packet wait in front of a radio that is ready.                   *)
(***************************************************************************)
(* What a nic and a MAC are made of *)

Timer == Nat \cup {Off}
Packet == [id : Nat \ {0}, dest : UNION {Dest[n] : n \in Node}]
Message == Packet \cup {TransmissionOver}

NicFields == {"radioState", "switchTimer", "txOverTimer", "recvBuff"}

\* Who switches waits for the end of the switch; the frames on the air are packets.
NicOK(nc) ==
  /\ NicFields \subseteq DOMAIN nc
  /\ nc.radioState \in Steady \cup DOMAIN Switching /\ nc.switchTimer \in Timer /\ nc.txOverTimer \in Timer
  /\ nc.switchTimer # Off => nc.radioState \in DOMAIN Switching
  /\ \A s \in DOMAIN nc.recvBuff : nc.recvBuff[s].left \in Nat /\ nc.recvBuff[s].frame \in Packet

\* The receiver leaves the radio alone.
SameRadio(nd, nc) ==
  /\ NicFields \subseteq DOMAIN nd
  /\ nd.radioState = nc.radioState /\ nd.switchTimer = nc.switchTimer /\ nd.txOverTimer = nc.txOverTimer

MacFields == {"macState", "macQueue", "backoffTimer", "minorMsg", "txAttempts", "cmd", "tx"}

MacOK(m) ==
  /\ MacFields \subseteq DOMAIN m
  /\ m.macState \in {"RX", "CCA", "TX"} /\ m.macQueue \in Seq(Packet)
  /\ m.backoffTimer \in Timer /\ m.minorMsg \in Timer /\ m.txAttempts \in 0..(maxTxAttempts + 1)
  /\ m.cmd \in {"none", "SWITCH_TO_SEND", "SWITCH_TO_RECV"}
  /\ m.tx = <<>> \/ \E p \in Packet : m.tx = <<p>>

\* Between two events nothing is left to be carried out.
MacIdle(m) == MacOK(m) /\ m.cmd = "none" /\ m.tx = <<>>

Typed ==
  /\ DOMAIN mac = Node /\ DOMAIN nic = Node /\ handedIn \in Nat
  /\ \A n \in Node : MacIdle(mac[n]) /\ NicOK(nic[n])
  /\ toMac \in [Node -> Seq(Message)]
  /\ arriving \in [Node -> [Node -> Seq(Packet)]]

-----------------------------------------------------------------------------
(* CSMAMacLayer keeps the types *)

LEMMA FailIfOK ==
  ASSUME NEW m, MacOK(m), NEW bad, NEW what
  PROVE  LET f == FailIf(m, bad, what)
         IN  /\ MacOK(f) /\ f.macState = m.macState /\ f.macQueue = m.macQueue /\ f.cmd = m.cmd /\ f.tx = m.tx
             /\ f.backoffTimer = m.backoffTimer /\ f.minorMsg = m.minorMsg /\ f.txAttempts = m.txAttempts
BY DEF MacOK, MacFields, FailIf

LEMMA DropFrontOK ==
  ASSUME NEW m, MacOK(m)
  PROVE  MacOK(DropFront(m))
<1>1. CASE m.macQueue = <<>>
  BY <1>1, FailIfOK DEF DropFront
<1>2. CASE m.macQueue # <<>>
  <2>1. Tail(m.macQueue) \in Seq(Packet)
    BY <1>2 DEF MacOK
  <2>. QED  BY <1>2, <2>1 DEF DropFront, MacOK, MacFields
<1>. QED  BY <1>1, <1>2

LEMMA SendFrontOK ==
  ASSUME NEW m, MacOK(m)
  PROVE  /\ MacOK(SendFront(m)) /\ SendFront(m).macState = m.macState /\ SendFront(m).cmd = m.cmd
         /\ SendFront(m).backoffTimer = m.backoffTimer /\ SendFront(m).minorMsg = m.minorMsg
         /\ m.macQueue # <<>> => SendFront(m).tx # <<>> /\ SendFront(m).macQueue = Tail(m.macQueue)
<1>1. CASE m.macQueue = <<>>
  <2>. DEFINE f == FailIf(m, TRUE, EmptyQueue)
  <2>1. SendFront(m) = f
    BY <1>1 DEF SendFront
  <2>2. /\ MacOK(f) /\ f.macState = m.macState /\ f.cmd = m.cmd
        /\ f.backoffTimer = m.backoffTimer /\ f.minorMsg = m.minorMsg
    BY DEF FailIf, MacOK, MacFields
  <2>. QED  BY <1>1, <2>1, <2>2
<1>2. CASE m.macQueue # <<>>
  <2>1. Tail(m.macQueue) \in Seq(Packet) /\ Head(m.macQueue) \in Packet /\ <<Head(m.macQueue)>> # <<>>
    BY <1>2 DEF MacOK
  <2>2. MacOK(SendFront(m))
    BY <1>2, <2>1 DEF SendFront, MacOK, MacFields
  <2>. QED  BY <1>2, <2>1, <2>2 DEF SendFront, MacOK, MacFields
<1>. QED  BY <1>1, <1>2

LEMMA PassUpOK ==
  ASSUME NEW m, MacOK(m), NEW n, NEW f
  PROVE  LET g == PassUp(m, n, f)
         IN  /\ MacOK(g) /\ g.macState = m.macState /\ g.macQueue = m.macQueue /\ g.cmd = m.cmd /\ g.tx = m.tx
             /\ g.backoffTimer = m.backoffTimer /\ g.minorMsg = m.minorMsg
BY DEF MacOK, MacFields, PassUp

LEMMA WaitingTimeOK ==
  ASSUME NEW m, MacOK(m), NEW r \in Nat
  PROVE  WaitingTime(m, r) \in Nat
<1>1. /\ m.txAttempts \in Nat /\ m.txAttempts <= maxTxAttempts + 1 /\ maxTxAttempts \in Nat
      /\ initialCW \in Nat /\ slotDuration \in Nat /\ slotDuration > 0 /\ maxTxAttempts + 1 < initialCW
  BY CsmaAlohaAssumption DEF MacOK
<1>2. initialCW - m.txAttempts + 1 \in Nat /\ initialCW - m.txAttempts + 1 > 0
  BY <1>1
<1>3. \A x, y \in Nat : x > 0 /\ y > 0 => x * y \in Nat /\ x * y > 0
  BY Z3
<1>4. (initialCW - m.txAttempts + 1) * slotDuration \in Nat /\ (initialCW - m.txAttempts + 1) * slotDuration > 0
  BY <1>1, <1>2, <1>3
<1>5. \A x, y \in Nat : y > 0 => x % y \in Nat
  BY Z3
<1>. QED  BY <1>4, <1>5 DEF WaitingTime

LEMMA scheduleBackoffOK ==
  ASSUME NEW m, MacOK(m), NEW r \in Nat
  PROVE  MacOK(scheduleBackoff(m, r))
<1>. DEFINE t == IF m.txAttempts > maxTxAttempts THEN [DropFront(m) EXCEPT !.txAttempts = 0] ELSE m
            f == FailIf(t, t.backoffTimer # Off, "backoff scheduled twice")
            now == [f EXCEPT !.txAttempts = @ + 1, !.minorMsg = Off,
                             !.macState = IF t.minorMsg # Off THEN "RX" ELSE @]
<1>0. maxTxAttempts \in Nat
  BY CsmaAlohaAssumption
<1>1. MacOK(t) /\ t.txAttempts <= maxTxAttempts
  <2>1. CASE m.txAttempts > maxTxAttempts
    <3>1. MacOK(DropFront(m))
      BY DropFrontOK
    <3>. QED  BY <1>0, <2>1, <3>1 DEF MacOK, MacFields
  <2>2. CASE ~(m.txAttempts > maxTxAttempts)
    BY <1>0, <2>2 DEF MacOK
  <2>. QED  BY <2>1, <2>2
<1>2. MacOK(f) /\ f.txAttempts <= maxTxAttempts
  <2>. HIDE DEF t
  <2>. DEFINE bad == t.backoffTimer # Off
              what == "backoff scheduled twice"
  <2>1. f = FailIf(t, bad, what)
    OBVIOUS
  <2>. HIDE DEF bad, what, f
  <2>. QED  BY <1>1, <2>1, FailIfOK
<1>3. scheduleBackoff(m, r) = IF t.macQueue = <<>> THEN t ELSE [now EXCEPT !.backoffTimer = WaitingTime(now, r)]
  BY DEF scheduleBackoff
<1>. HIDE DEF f, t
<1>4. MacOK(now)
  BY <1>0, <1>2 DEF MacOK, MacFields, Timer
<1>. HIDE DEF now
<1>5. WaitingTime(now, r) \in Timer
  BY <1>4, WaitingTimeOK DEF Timer
<1>6. MacOK([now EXCEPT !.backoffTimer = WaitingTime(now, r)])
  BY <1>4, <1>5 DEF MacOK, MacFields
<1>. QED  BY <1>1, <1>3, <1>6

LEMMA BackoffUnlessScheduledOK ==
  ASSUME NEW m, MacOK(m), NEW r \in Nat
  PROVE  MacOK(BackoffUnlessScheduled(m, r))
BY scheduleBackoffOK DEF BackoffUnlessScheduled

LEMMA CsmaUpperMsgOK ==
  ASSUME NEW m, MacOK(m), NEW p \in Packet, NEW r \in Nat
  PROVE  MacOK(CsmaUpperMsg(m, p, r))
<1>. DEFINE q == [m EXCEPT !.macQueue = Append(@, p)]
<1>1. Append(m.macQueue, p) \in Seq(Packet)
  BY DEF MacOK
<1>2. MacOK(q)
  BY <1>1 DEF MacOK, MacFields
<1>3. MacOK([m EXCEPT !.dropped = @ \cup {p.id}])
  BY DEF MacOK, MacFields
<1>4. MacOK(scheduleBackoff(q, r))
  BY <1>2, scheduleBackoffOK
<1>. QED  BY <1>2, <1>3, <1>4 DEF CsmaUpperMsg

LEMMA CsmaTimersOK ==
  ASSUME NEW m, MacOK(m), NEW nc, NEW r \in Nat
  PROVE  MacOK(CsmaBackoffExpires(m, nc, r)) /\ MacOK(CsmaMinorExpires(m, nc, r))
<1>. DEFINE b == [m EXCEPT !.backoffTimer = Off]
            c == [m EXCEPT !.minorMsg = Off]
            d == [b EXCEPT !.macState = "CCA", !.minorMsg = difs]
<1>1. MacOK(b) /\ MacOK(c)
  BY DEF MacOK, MacFields, Timer
<1>2. MacOK(d)
  BY <1>1, CsmaAlohaAssumption DEF MacOK, MacFields, Timer
<1>3. MacOK([b EXCEPT !.macState = "CCA"]) /\ MacOK([c EXCEPT !.macState = "RX"])
  BY <1>1 DEF MacOK, MacFields
<1>4. MacOK([c EXCEPT !.macState = "TX", !.cmd = "SWITCH_TO_SEND"])
  BY <1>1 DEF MacOK, MacFields
<1>5. MacOK(CsmaBackoffExpires(m, nc, r))
  <2>1. CASE m.macState # "RX"
    BY <1>1, <2>1, FailIfOK DEF CsmaBackoffExpires
  <2>2. CASE m.macState = "RX" /\ m.macQueue = <<>>
    BY <1>1, <2>2 DEF CsmaBackoffExpires
  <2>3. CASE m.macState = "RX" /\ m.macQueue # <<>> /\ nc.radioState # "RECV"
    BY <1>3, <2>3 DEF CsmaBackoffExpires
  <2>4. CASE m.macState = "RX" /\ m.macQueue # <<>> /\ nc.radioState = "RECV"
    BY <1>1, <1>2, <2>4, FailIfOK, scheduleBackoffOK DEF CsmaBackoffExpires
  <2>. QED  BY <2>1, <2>2, <2>3, <2>4
<1>6. MacOK(CsmaMinorExpires(m, nc, r))
  <2>1. CASE ~(m.macState = "CCA" /\ nc.radioState = "RECV")
    BY <1>1, <2>1, FailIfOK DEF CsmaMinorExpires
  <2>2. CASE m.macState = "CCA" /\ nc.radioState = "RECV" /\ m.rssi < busyRSSI
    BY <1>4, <2>2 DEF CsmaMinorExpires
  <2>3. CASE m.macState = "CCA" /\ nc.radioState = "RECV" /\ ~(m.rssi < busyRSSI)
    <3>1. MacOK(BackoffUnlessScheduled([c EXCEPT !.macState = "RX"], r))
      BY <1>3, BackoffUnlessScheduledOK
    <3>. QED  BY <2>3, <3>1 DEF CsmaMinorExpires
  <2>. QED  BY <2>1, <2>2, <2>3
<1>. QED  BY <1>5, <1>6

LEMMA CsmaReceivesOK ==
  ASSUME NEW m, MacOK(m), NEW n, NEW f, NEW r \in Nat
  PROVE  MacOK(CsmaLowerMsg(m, n, f, r)) /\ MacOK(CsmaTransmissionOver(m, r))
<1>1. MacOK([m EXCEPT !.macState = "RX", !.cmd = "SWITCH_TO_RECV", !.txAttempts = 0])
  <2>1. 0 \in 0..(maxTxAttempts + 1)
    BY CsmaAlohaAssumption
  <2>. QED  BY <2>1 DEF MacOK, MacFields
<1>2. MacOK(CsmaTransmissionOver(m, r))
  BY <1>1, BackoffUnlessScheduledOK DEF CsmaTransmissionOver
<1>. QED  BY <1>2, PassUpOK, BackoffUnlessScheduledOK DEF CsmaLowerMsg

LEMMA RssiPublishedOK ==
  ASSUME NEW m, MacOK(m), NEW nc
  PROVE  MacOK(RssiPublished(m, nc)) /\ RssiPublished(m, nc).cmd = m.cmd /\ RssiPublished(m, nc).tx = m.tx
<1>. DEFINE t == [m EXCEPT !.rssi = nc.rssi]
<1>1. MacOK(t) /\ t.cmd = m.cmd /\ t.tx = m.tx
  BY DEF MacOK, MacFields
<1>2. difs \in Timer /\ Off \in Timer
  BY CsmaAlohaAssumption DEF Timer
<1>. HIDE DEF t
<1>3. MacOK([t EXCEPT !.minorMsg = difs]) /\ [t EXCEPT !.minorMsg = difs].cmd = t.cmd /\ [t EXCEPT !.minorMsg = difs].tx = t.tx
  BY <1>1, <1>2 DEF MacOK, MacFields
<1>. DEFINE u == [t EXCEPT !.minorMsg = Off, !.backoffTimer = Off, !.macState = "RX"]
<1>4. MacOK(u) /\ u.cmd = t.cmd /\ u.tx = t.tx
  BY <1>1, <1>2 DEF MacOK, MacFields
<1>. QED  BY <1>1, <1>3, <1>4 DEF RssiPublished, t

-----------------------------------------------------------------------------
(* The nics keep the types *)

LEMMA Switches ==
  /\ DOMAIN Switching = {"SWITCH_TO_SLEEP", "SWITCH_TO_RECV", "SWITCH_TO_SEND"}
  /\ Switching["SWITCH_TO_SLEEP"] = "SLEEP" /\ Switching["SWITCH_TO_RECV"] = "RECV"
  /\ Switching["SWITCH_TO_SEND"] = "SEND"
  /\ Steady \cap DOMAIN Switching = {}
BY DEF Switching, Steady

LEMMA addNewSnrOK ==
  ASSUME NEW nc, NEW n, NicFields \subseteq DOMAIN nc
  PROVE  /\ SameRadio(addNewSnr(nc, n), nc) /\ addNewSnr(nc, n).recvBuff = nc.recvBuff
         /\ (NicOK(nc) => NicOK(addNewSnr(nc, n)))
BY DEF addNewSnr, SameRadio, NicFields, NicOK

LEMMA HeardOK ==
  ASSUME NEW nc, NicOK(nc), NEW s, NEW f \in Packet
  PROVE  NicOK(Heard(nc, s, f, FrameTime)) /\ SameRadio(Heard(nc, s, f, FrameTime), nc)
<1>. DEFINE entry == [frame |-> f, left |-> FrameTime, duration |-> FrameTime]
            buff == [x \in DOMAIN nc.recvBuff \cup {s} |-> IF x = s THEN entry ELSE nc.recvBuff[x]]
<1>1. entry.left \in Nat /\ entry.frame \in Packet
  BY CsmaAlohaAssumption
<1>. HIDE DEF entry
<1>2. \A x \in DOMAIN buff : buff[x] = entry \/ (x \in DOMAIN nc.recvBuff /\ buff[x] = nc.recvBuff[x])
  OBVIOUS
<1>. HIDE DEF buff
<1>3. Heard(nc, s, f, FrameTime) = [nc EXCEPT !.recvBuff = buff]
  BY DEF Heard, buff, entry
<1>. QED  BY <1>1, <1>2, <1>3 DEF NicOK, SameRadio, NicFields

LEMMA FrameStartOK ==
  ASSUME NEW nc, NicOK(nc), NEW n, NEW s, NEW f \in Packet
  PROVE  LET nd == handleLowerMsgStart(nc, n, s, f, FrameTime) IN NicOK(nd) /\ SameRadio(nd, nc)
<1>. DEFINE heard == Heard(nc, s, f, FrameTime)
            noisier == [heard EXCEPT !.noiseLevel = @ + Power[s][n], !.rssi = @ + heard.noiseLevel + Power[s][n]]
            caught == [heard EXCEPT !.ptr = s, !.sList = <<>>, !.missed = 0]
            signal == [addNewSnr(caught, n) EXCEPT !.rssi = @ + Power[s][n], !.indication = "BUSY"]
<1>1. NicOK(heard) /\ SameRadio(heard, nc)
  BY HeardOK
<1>2. /\ handleLowerMsgStart(nc, n, s, f, FrameTime) =
            IF IsSignal(nc, n, s) THEN signal ELSE IF nc.ptr = NoFrame THEN noisier ELSE addNewSnr(noisier, n)
  BY DEF handleLowerMsgStart
<1>. HIDE DEF heard
<1>3. NicOK(noisier) /\ SameRadio(noisier, nc) /\ NicOK(caught) /\ SameRadio(caught, nc)
  BY <1>1 DEF NicOK, SameRadio, NicFields
<1>. HIDE DEF noisier, caught
<1>4. NicOK(addNewSnr(noisier, n)) /\ SameRadio(addNewSnr(noisier, n), nc)
  BY <1>3, addNewSnrOK DEF NicOK, SameRadio
<1>5. NicOK(addNewSnr(caught, n)) /\ SameRadio(addNewSnr(caught, n), nc)
  BY <1>3, addNewSnrOK DEF NicOK, SameRadio
<1>6. NicOK(signal) /\ SameRadio(signal, nc)
  BY <1>5 DEF NicOK, SameRadio, NicFields
<1>. HIDE DEF signal
<1>. QED  BY <1>2, <1>3, <1>4, <1>6

LEMMA FrameEndOK ==
  ASSUME NEW nc, NicOK(nc), NEW n, NEW s
  PROVE  LET nd == handleLowerMsgEnd(nc, n, s) IN NicOK(nd) /\ SameRadio(nd, nc)
<1>. DEFINE left == Restrict(nc.recvBuff, DOMAIN nc.recvBuff \ {s})
            gone == [nc EXCEPT !.recvBuff = left]
            quieter == [gone EXCEPT !.noiseLevel = @ - Power[s][n], !.rssi = nc.noiseLevel - Power[s][n]]
            ended == [gone EXCEPT !.ptr = NoFrame, !.sList = <<>>, !.missed = 0,
                                  !.rssi = nc.noiseLevel, !.indication = "IDLE"]
<1>1. \A x \in DOMAIN left : x \in DOMAIN nc.recvBuff /\ left[x] = nc.recvBuff[x]
  BY DEF Restrict
<1>2. handleLowerMsgEnd(nc, n, s) =
         IF s = nc.ptr THEN ended ELSE IF nc.ptr = NoFrame THEN quieter ELSE addNewSnr(quieter, n)
  BY DEF handleLowerMsgEnd
<1>. HIDE DEF left
<1>3. NicOK(gone) /\ SameRadio(gone, nc)
  BY <1>1 DEF NicOK, SameRadio, NicFields
<1>. HIDE DEF gone
<1>4. NicOK(quieter) /\ SameRadio(quieter, nc) /\ NicOK(ended) /\ SameRadio(ended, nc)
  BY <1>3 DEF NicOK, SameRadio, NicFields
<1>. HIDE DEF quieter, ended
<1>5. NicOK(addNewSnr(quieter, n)) /\ SameRadio(addNewSnr(quieter, n), nc)
  BY <1>4, addNewSnrOK DEF NicOK, SameRadio
<1>. QED  BY <1>2, <1>4, <1>5

\* The two steps of the end of a switch
LEMMA SwitchedOK ==
  ASSUME NEW nc, NicOK(nc), nc.switchTimer = 0
  PROVE  /\ nc.radioState \in DOMAIN Switching
         /\ LET done == [nc EXCEPT !.radioState = Switching[@], !.switchTimer = Off]
            IN  /\ NicOK(done) /\ done.radioState = Switching[nc.radioState] /\ done.txOverTimer = nc.txOverTimer
                /\ NicOK(SwitchDone(nc)) /\ SwitchDone(nc).radioState = done.radioState
                /\ SwitchDone(nc).txOverTimer = nc.txOverTimer
<1>1. nc.radioState \in DOMAIN Switching
  BY DEF NicOK, Off
<1>. DEFINE done == [nc EXCEPT !.radioState = Switching[@], !.switchTimer = Off]
<1>2. Switching[nc.radioState] \in Steady
  BY <1>1, Switches DEF Steady
<1>3. NicOK(done) /\ done.radioState = Switching[nc.radioState] /\ done.txOverTimer = nc.txOverTimer
  BY <1>1, <1>2 DEF NicOK, NicFields, Timer
<1>4. SwitchDone(nc) = IF done.radioState = "RECV" THEN EnterRecv(done) ELSE done
  BY DEF SwitchDone
<1>. HIDE DEF done
<1>5. NicOK(EnterRecv(done)) /\ EnterRecv(done).radioState = done.radioState /\ EnterRecv(done).txOverTimer = done.txOverTimer
  BY <1>3 DEF EnterRecv, NicOK, NicFields
<1>6. NicOK(SwitchDone(nc)) /\ SwitchDone(nc).radioState = done.radioState /\ SwitchDone(nc).txOverTimer = nc.txOverTimer
  BY <1>3, <1>4, <1>5
<1>. QED  BY <1>1, <1>3, <1>6 DEF done

LEMMA switchToOK ==
  ASSUME NEW nc, NicOK(nc), NEW s \in {"SWITCH_TO_SEND", "SWITCH_TO_RECV"}
  PROVE  /\ NicOK(switchTo(nc, s)) /\ switchTo(nc, s).txOverTimer = nc.txOverTimer
         /\ switchTo(nc, s).radioState = IF CanSwitch(nc) THEN s ELSE nc.radioState
<1>1. SwitchTime(s) \in Timer
  BY SnrNicAssumption DEF SwitchTime, Timer
<1>2. s \in DOMAIN Switching
  BY Switches
<1>3. ASSUME NEW t \in Timer PROVE
         LET nd == [nc EXCEPT !.radioState = s, !.switchTimer = t]
         IN  NicOK(nd) /\ nd.txOverTimer = nc.txOverTimer /\ nd.radioState = s
  BY <1>2 DEF NicOK, NicFields
<1>. QED  BY <1>1, <1>3 DEF switchTo

-----------------------------------------------------------------------------
(* The end of an event *)

\* Effect of an event of the MAC of n, which left it m and the nic nc
Done(n, m, nc) ==
    /\ DOMAIN mac' = Node /\ DOMAIN nic' = Node
    /\ \A k \in Node \ {n} : mac'[k] = mac[k] /\ nic'[k] = nic[k]
    /\ MacIdle(mac'[n]) /\ mac'[n].macState = m.macState /\ mac'[n].macQueue = m.macQueue
    /\ mac'[n].backoffTimer = m.backoffTimer /\ mac'[n].minorMsg = m.minorMsg
    /\ NicOK(nic'[n])
    /\ nic'[n].radioState = IF m.cmd # "none" /\ CanSwitch(nc) THEN m.cmd ELSE nc.radioState
    /\ nic'[n].txOverTimer = IF m.tx # <<>> THEN FrameTime ELSE nc.txOverTimer
    /\ arriving' \in [Node -> [Node -> Seq(Packet)]]

LEMMA PutEffect ==
  ASSUME Typed, NEW n \in Node, NEW m, MacOK(m), NEW nc, NicOK(nc), Put(n, m, nc)
  PROVE  Done(n, m, nc)
<1>. DEFINE radio == IF m.cmd = "none" THEN nc ELSE switchTo(nc, m.cmd)
            sending == m.tx # <<>>
            bad == sending /\ nc.txOverTimer # Off
            f == FailIf(m, bad, "sending twice")
            left == [f EXCEPT !.cmd = "none", !.tx = <<>>, !.up = {}, !.dropped = {}]
            now == IF sending THEN [radio EXCEPT !.txOverTimer = FrameTime] ELSE radio
<1>1. /\ mac' = [mac EXCEPT ![n] = left] /\ nic' = [nic EXCEPT ![n] = now]
      /\ IF sending THEN Transmit(n, m.tx[1]) ELSE UNCHANGED arriving
  BY DEF Put
<1>. HIDE DEF bad
<1>2. /\ MacOK(f) /\ f.macState = m.macState /\ f.macQueue = m.macQueue
      /\ f.backoffTimer = m.backoffTimer /\ f.minorMsg = m.minorMsg
  BY DEF FailIf, MacOK, MacFields
<1>. HIDE DEF f
<1>3. /\ MacIdle(left) /\ left.macState = m.macState /\ left.macQueue = m.macQueue
      /\ left.backoffTimer = m.backoffTimer /\ left.minorMsg = m.minorMsg
  BY <1>2 DEF MacIdle, MacOK, MacFields
<1>. HIDE DEF left
<1>4. /\ NicOK(radio) /\ radio.txOverTimer = nc.txOverTimer
      /\ radio.radioState = IF m.cmd # "none" /\ CanSwitch(nc) THEN m.cmd ELSE nc.radioState
  <2>1. CASE m.cmd = "none"
    BY <2>1
  <2>2. CASE m.cmd # "none"
    <3>1. m.cmd \in {"SWITCH_TO_SEND", "SWITCH_TO_RECV"}
      BY <2>2 DEF MacOK
    <3>. QED  BY <2>2, <3>1, switchToOK
  <2>. QED  BY <2>1, <2>2
<1>. HIDE DEF radio
<1>5. /\ NicOK(now) /\ now.radioState = radio.radioState
      /\ now.txOverTimer = IF sending THEN FrameTime ELSE nc.txOverTimer
  <2>1. FrameTime \in Timer
    BY CsmaAlohaAssumption DEF Timer
  <2>. QED  BY <1>4, <2>1 DEF NicOK, NicFields
<1>. HIDE DEF now
<1>6. arriving' \in [Node -> [Node -> Seq(Packet)]]
  <2>1. CASE ~ sending
    BY <1>1, <2>1 DEF Typed
  <2>2. CASE sending
    <3>1. m.tx[1] \in Packet
      BY <2>2 DEF MacOK
    <3>. DEFINE p == m.tx[1]
    <3>2. arriving' = [r \in Node |-> IF r \in Reached(n) THEN [arriving[r] EXCEPT ![n] = Append(@, p)] ELSE arriving[r]]
      BY <1>1, <2>2 DEF Transmit
    <3>. HIDE DEF p
    <3>3. \A r \in Node : [arriving[r] EXCEPT ![n] = Append(@, p)] \in [Node -> Seq(Packet)]
      BY <3>1 DEF Typed, p
    <3>. QED  BY <3>2, <3>3 DEF Typed
  <2>. QED  BY <2>1, <2>2
<1>7. DOMAIN mac = Node /\ DOMAIN nic = Node
  BY DEF Typed
<1>. QED  BY <1>1, <1>3, <1>4, <1>5, <1>6, <1>7 DEF Done

-----------------------------------------------------------------------------
(* The four phases of an Aloha node                                         *)

NoneOver(q) == \A i \in 1..Len(q) : q[i] # TransmissionOver
OneOver(q) == \E i \in 1..Len(q) : q[i] = TransmissionOver /\ \A j \in 1..Len(q) \ {i} : q[j] # TransmissionOver

Listens(m, nc, q) ==
  /\ m.macState = "RX" /\ nc.radioState \in {"RECV", "SWITCH_TO_RECV"} /\ nc.txOverTimer = Off /\ NoneOver(q)
  /\ m.macQueue # <<>> => nc.radioState = "SWITCH_TO_RECV"
TurnsToSend(m, nc, q) ==
  m.macState = "TX" /\ nc.radioState = "SWITCH_TO_SEND" /\ m.macQueue # <<>> /\ nc.txOverTimer = Off /\ NoneOver(q)
OnTheAir(m, nc, q) ==
  m.macState = "TX" /\ nc.radioState = "SEND" /\ nc.txOverTimer # Off /\ NoneOver(q)
HasSent(m, nc, q) ==
  m.macState = "TX" /\ nc.radioState = "SEND" /\ nc.txOverTimer = Off /\ OneOver(q)

\* An Aloha node sends what waits, or the end of what it sends is still to come.
Fine(m, nc, q) ==
  /\ m.backoffTimer = Off /\ m.minorMsg = Off
  /\ Listens(m, nc, q) \/ TurnsToSend(m, nc, q) \/ OnTheAir(m, nc, q) \/ HasSent(m, nc, q)

AlohaInv == Typed /\ \A n \in AlohaNode : Fine(mac[n], nic[n], toMac[n])

LEMMA OverIsNoPacket == \A p \in Packet : p # TransmissionOver
<1>1. \A p \in Packet : p.id # 0
  BY DEF Packet
<1>2. TransmissionOver.id = 0
  BY DEF TransmissionOver
<1>. QED  BY <1>1, <1>2

LEMMA OverAppended ==
  ASSUME NEW q \in Seq(Message), NoneOver(q)
  PROVE  OneOver(Append(q, TransmissionOver))
<1>. DEFINE r == Append(q, TransmissionOver)
            i == Len(q) + 1
<1>1. Len(r) = i /\ r[i] = TransmissionOver /\ i \in 1..Len(r)
  BY DEF Message
<1>2. \A j \in 1..Len(r) \ {i} : r[j] # TransmissionOver
  BY DEF Message, NoneOver
<1>. QED  BY <1>1, <1>2 DEF OneOver

LEMMA PacketAppended ==
  ASSUME NEW q \in Seq(Message), NEW p \in Packet
  PROVE  /\ NoneOver(q) => NoneOver(Append(q, p))
         /\ OneOver(q) => OneOver(Append(q, p))
<1>. DEFINE r == Append(q, p)
            i == Len(q) + 1
<1>1. Len(r) = i /\ r[i] = p /\ \A j \in 1..Len(q) : r[j] = q[j] /\ j \in 1..Len(r) /\ j # i
  BY DEF Message
<1>2. p # TransmissionOver
  BY OverIsNoPacket
<1>3. \A j \in 1..Len(r) : j = i \/ j \in 1..Len(q)
  BY <1>1
<1>. HIDE DEF r, i
<1>4. NoneOver(q) => NoneOver(r)
  BY <1>1, <1>2, <1>3 DEF NoneOver
<1>5. OneOver(q) => OneOver(r)
  BY <1>1, <1>2, <1>3 DEF OneOver
<1>. QED  BY <1>4, <1>5 DEF r

\* The MAC takes the first message.
LEMMA FirstTaken ==
  ASSUME NEW q \in Seq(Message), q # <<>>
  PROVE  /\ Head(q) # TransmissionOver /\ NoneOver(q) => NoneOver(Tail(q))
         /\ Head(q) # TransmissionOver /\ OneOver(q) => OneOver(Tail(q))
         /\ Head(q) = TransmissionOver => ~NoneOver(q)
         /\ Head(q) = TransmissionOver /\ OneOver(q) => NoneOver(Tail(q))
<1>. DEFINE r == Tail(q)
<1>1. /\ Len(q) \in Nat /\ Len(q) >= 1 /\ Len(r) = Len(q) - 1 /\ Head(q) = q[1] /\ 1 \in 1..Len(q)
      /\ \A j \in 1..Len(r) : r[j] = q[j + 1] /\ j + 1 \in 1..Len(q) /\ j + 1 # 1
  OBVIOUS
<1>2. \A j \in 1..Len(q) : j = 1 \/ (j - 1 \in 1..Len(r) /\ r[j - 1] = q[j])
  BY <1>1
<1>. HIDE DEF r
<1>4. Head(q) # TransmissionOver /\ NoneOver(q) => NoneOver(r)
  BY <1>1 DEF NoneOver
<1>5. Head(q) = TransmissionOver => ~NoneOver(q)
  BY <1>1 DEF NoneOver
<1>6. Head(q) = TransmissionOver /\ OneOver(q) => NoneOver(r)
  <2>. SUFFICES ASSUME Head(q) = TransmissionOver, OneOver(q), NEW j \in 1..Len(r) PROVE r[j] # TransmissionOver
    BY DEF NoneOver
  <2>. QED  BY <1>1 DEF OneOver
<1>7. ASSUME Head(q) # TransmissionOver, OneOver(q) PROVE OneOver(r)
  <2>1. PICK i \in 1..Len(q) : q[i] = TransmissionOver /\ \A j \in 1..Len(q) \ {i} : q[j] # TransmissionOver
    BY <1>7 DEF OneOver
  <2>2. i - 1 \in 1..Len(r) /\ r[i - 1] = TransmissionOver
    BY <1>1, <1>2, <1>7, <2>1
  <2>3. ASSUME NEW j \in 1..Len(r), j # i - 1 PROVE r[j] # TransmissionOver
    BY <1>1, <2>1, <2>3
  <2>. QED  BY <2>2, <2>3 DEF OneOver
<1>. QED  BY <1>4, <1>5, <1>6, <1>7 DEF r

LEMMA Kinds == ASSUME NEW n \in AlohaNode PROVE n \in Node /\ n \notin CsmaNode
BY DEF AlohaNode

\* What an event of the MAC of n does to the others
LEMMA OthersFine ==
  ASSUME AlohaInv, NEW n \in Node, NEW m, NEW nc, Done(n, m, nc),
         handedIn' \in Nat, toMac' \in [Node -> Seq(Message)],
         \A k \in Node \ {n} : toMac'[k] = toMac[k],
         n \in AlohaNode => Fine(mac'[n], nic'[n], toMac'[n])
  PROVE  AlohaInv'
<1>1. Typed'
  BY DEF AlohaInv, Typed, Done
<1>2. ASSUME NEW k \in AlohaNode, k # n PROVE Fine(mac'[k], nic'[k], toMac'[k])
  BY <1>2, Kinds DEF AlohaInv, Done
<1>. QED  BY <1>1, <1>2 DEF AlohaInv

\* Of the record of a MAC after its event, only this counts.
LEMMA FineOfDone ==
  ASSUME NEW n, NEW m, NEW nc, Done(n, m, nc), m.backoffTimer = Off, m.minorMsg = Off, NEW q,
         NEW nd, nd = nic'[n],
         \/ Listens(m, nd, q) \/ TurnsToSend(m, nd, q) \/ OnTheAir(m, nd, q) \/ HasSent(m, nd, q)
  PROVE  Fine(mac'[n], nic'[n], q)
BY DEF Fine, Done, Listens, TurnsToSend, OnTheAir, HasSent

-----------------------------------------------------------------------------
(* The steps                                                                *)

LEMMA InitAloha == CsmaAlohaInit => AlohaInv
<1>. SUFFICES ASSUME CsmaAlohaInit PROVE AlohaInv
  OBVIOUS
<1>1. /\ mac = [n \in Node |-> MacInit] /\ nic = [n \in Node |-> NicInit] /\ handedIn = 0
      /\ toMac = [n \in Node |-> <<>>] /\ arriving = [n \in Node |-> [s \in Node |-> <<>>]]
  BY DEF CsmaAlohaInit, InitNic
<1>2. MacIdle(MacInit)
  BY CsmaAlohaAssumption DEF MacInit, MacIdle, MacOK, MacFields, Timer
<1>3. NicOK(NicInit)
  BY DEF NicInit, NicOK, NicFields, Timer, Steady, Off
<1>4. Listens(MacInit, NicInit, <<>>) /\ MacInit.backoffTimer = Off /\ MacInit.minorMsg = Off
  BY DEF Listens, MacInit, NicInit, NoneOver
<1>. HIDE DEF MacInit, NicInit
<1>5. Typed
  BY <1>1, <1>2, <1>3 DEF Typed
<1>. QED  BY <1>1, <1>4, <1>5, Kinds DEF AlohaInv, Fine

LEMMA UpperStep ==
  ASSUME AlohaInv, NEW n \in Node, handleUpperMsg(n)
  PROVE  AlohaInv'
<1>. DEFINE nc == nic[n]
            m == mac[n]
<1>1. PICK d \in Dest[n], r \in Draw :
        LET p == [id |-> handedIn + 1, dest |-> d]
        IN  Put(n, IF n \in CsmaNode THEN CsmaUpperMsg(m, p, r) ELSE AlohaUpperMsg(m, nc, p), nc)
  BY DEF handleUpperMsg
<1>. DEFINE p == [id |-> handedIn + 1, dest |-> d]
<1>2. handedIn \in Nat /\ handedIn' \in Nat /\ toMac' = toMac /\ MacIdle(m) /\ NicOK(nc) /\ Typed
  BY DEF handleUpperMsg, AlohaInv, Typed
<1>3. p \in Packet
  BY <1>2 DEF Packet
<1>. HIDE DEF p, nc, m
<1>4. r \in Nat
  BY CsmaAlohaAssumption DEF Draw
<1>5. CASE n \in CsmaNode
  <2>1. MacOK(CsmaUpperMsg(m, p, r))
    BY <1>2, <1>3, <1>4, CsmaUpperMsgOK DEF MacIdle
  <2>2. Put(n, CsmaUpperMsg(m, p, r), nc)
    BY <1>1, <1>5 DEF p
  <2>3. Done(n, CsmaUpperMsg(m, p, r), nc)
    BY <1>2, <2>1, <2>2, PutEffect
  <2>. QED  BY <1>2, <1>5, <2>3, OthersFine, Kinds DEF Typed
<1>6. CASE n \notin CsmaNode
  <2>. DEFINE u == AlohaUpperMsg(m, nc, p)
              q == [m EXCEPT !.macQueue = Append(@, p)]
              s == [q EXCEPT !.cmd = "SWITCH_TO_SEND", !.macState = "TX"]
              dropped == [m EXCEPT !.dropped = @ \cup {p.id}]
  <2>1. Put(n, u, nc)
    BY <1>1, <1>6 DEF p
  <2>2. Append(m.macQueue, p) \in Seq(Packet) /\ Append(m.macQueue, p) # <<>>
    BY <1>2, <1>3 DEF MacIdle, MacOK
  <2>3. MacIdle(q) /\ q.macState = m.macState /\ q.macQueue # <<>> /\ q.backoffTimer = m.backoffTimer /\ q.minorMsg = m.minorMsg
    BY <1>2, <2>2 DEF MacIdle, MacOK, MacFields
  <2>4. /\ MacIdle(dropped) /\ dropped.macState = m.macState /\ dropped.macQueue = m.macQueue
        /\ dropped.backoffTimer = m.backoffTimer /\ dropped.minorMsg = m.minorMsg
    BY <1>2 DEF MacIdle, MacOK, MacFields
  <2>5. u = IF Len(m.macQueue) > queueLength THEN dropped
            ELSE IF Len(m.macQueue) = 0 /\ m.macState = "RX" THEN IF q.macQueue # <<>> /\ CanSwitch(nc) THEN s ELSE q
            ELSE q
    <3>1. queueLength \in Nat /\ Len(m.macQueue) \in Nat
      BY <1>2, CsmaAlohaAssumption DEF MacIdle, MacOK
    <3>. QED  BY <3>1 DEF AlohaUpperMsg, prepareSend
  <2>. HIDE DEF u, dropped, q
  <2>6. /\ MacOK(s) /\ s.tx = <<>> /\ s.macState = "TX" /\ s.cmd = "SWITCH_TO_SEND" /\ s.macQueue = q.macQueue
        /\ s.backoffTimer = m.backoffTimer /\ s.minorMsg = m.minorMsg
    BY <2>3 DEF MacIdle, MacOK, MacFields
  <2>. HIDE DEF s
  <2>7. MacOK(u) /\ u.tx = <<>> /\ u.backoffTimer = m.backoffTimer /\ u.minorMsg = m.minorMsg
    BY <2>3, <2>4, <2>5, <2>6 DEF MacIdle
  <2>8. Done(n, u, nc)
    BY <1>2, <2>1, <2>7, PutEffect
  <2>9. ASSUME n \in AlohaNode PROVE Fine(mac'[n], nic'[n], toMac'[n])
    <3>. DEFINE nd == nic'[n]
                o == toMac[n]
    <3>1. nd.radioState = (IF u.cmd # "none" /\ CanSwitch(nc) THEN u.cmd ELSE nc.radioState) /\ nd.txOverTimer = nc.txOverTimer
      BY <2>7, <2>8 DEF Done
    <3>2. Fine(m, nc, o)
      BY <2>9 DEF AlohaInv, m, nc
    <3>3. CASE u = s /\ m.macQueue = <<>> /\ m.macState = "RX" /\ CanSwitch(nc)
      <4>1. Listens(m, nc, o)
        BY <3>2, <3>3 DEF Fine, Listens, TurnsToSend, OnTheAir, HasSent
      <4>2. TurnsToSend(u, nd, o)
        BY <2>3, <2>6, <3>1, <3>3, <4>1 DEF Listens, TurnsToSend
      <4>3. u.backoffTimer = Off /\ u.minorMsg = Off
        BY <2>7, <3>2 DEF Fine
      <4>. QED  BY <1>2, <2>8, <4>2, <4>3, FineOfDone
    <3>4. CASE u.cmd = "none" /\ u.macState = m.macState /\ (m.macQueue # <<>> => u.macQueue # <<>>)
               /\ (u.macQueue # <<>> /\ m.macState = "RX" /\ m.macQueue = <<>> => ~CanSwitch(nc))
      <4>1. u.backoffTimer = Off /\ u.minorMsg = Off
        BY <2>7, <3>2 DEF Fine
      <4>2. nd.radioState = nc.radioState /\ nd.txOverTimer = nc.txOverTimer
        BY <3>1, <3>4
      <4>3. "RECV" \in Steady
        BY DEF Steady
      <4>4. Listens(u, nd, o) \/ TurnsToSend(u, nd, o) \/ OnTheAir(u, nd, o) \/ HasSent(u, nd, o)
        BY <3>2, <3>4, <4>2, <4>3 DEF Fine, Listens, TurnsToSend, OnTheAir, HasSent, CanSwitch
      <4>. QED  BY <1>2, <2>8, <4>1, <4>4, FineOfDone
    <3>5. m.macQueue \in Seq(Packet) /\ (Len(m.macQueue) = 0 <=> m.macQueue = <<>>)
      BY <1>2 DEF MacIdle, MacOK
    <3>. QED  BY <2>3, <2>4, <2>5, <3>3, <3>4, <3>5 DEF MacIdle
  <2>. QED  BY <1>2, <2>8, <2>9, OthersFine DEF Typed
<1>. QED  BY <1>5, <1>6

LEMMA FromNicStep ==
  ASSUME AlohaInv, NEW n \in Node, FromNic(n)
  PROVE  AlohaInv'
<1>. DEFINE nc == nic[n]
            m == mac[n]
            q == toMac[n]
            f == Head(q)
<1>1. PICK r \in Draw :
        Put(n, CASE f = TransmissionOver /\ n \in CsmaNode -> CsmaTransmissionOver(m, r)
                 [] f = TransmissionOver /\ n \in AlohaNode -> AlohaTransmissionOver(m)
                 [] f # TransmissionOver /\ n \in CsmaNode -> CsmaLowerMsg(m, n, f, r)
                 [] f # TransmissionOver /\ n \in AlohaNode -> PassUp(m, n, f), nc)
  BY DEF FromNic
<1>2. /\ handedIn' \in Nat /\ MacIdle(m) /\ NicOK(nc) /\ Typed /\ toMac \in [Node -> Seq(Message)]
      /\ q \in Seq(Message) /\ q # <<>>
      /\ toMac' = [toMac EXCEPT ![n] = Tail(@)]
  BY DEF FromNic, AlohaInv, Typed
<1>3. Tail(q) \in Seq(Message)
  BY <1>2
<1>4. toMac' \in [Node -> Seq(Message)] /\ toMac'[n] = Tail(q) /\ \A k \in Node \ {n} : toMac'[k] = toMac[k]
  BY <1>2, <1>3
<1>5. r \in Nat
  BY CsmaAlohaAssumption DEF Draw
<1>. HIDE DEF nc, m, f, q
<1>6. CASE n \in CsmaNode
  <2>. DEFINE u == IF f = TransmissionOver THEN CsmaTransmissionOver(m, r) ELSE CsmaLowerMsg(m, n, f, r)
  <2>1. Put(n, u, nc)
    BY <1>1, <1>6, Kinds
  <2>2. MacOK(u)
    BY <1>2, <1>5, CsmaReceivesOK DEF MacIdle
  <2>3. Done(n, u, nc)
    BY <1>2, <2>1, <2>2, PutEffect
  <2>. QED  BY <1>2, <1>4, <1>6, <2>3, OthersFine, Kinds
<1>7. CASE n \notin CsmaNode /\ f = TransmissionOver
  <2>0. n \in AlohaNode
    BY <1>7 DEF AlohaNode
  <2>. DEFINE u == AlohaTransmissionOver(m)
  <2>1. Put(n, u, nc)
    BY <1>1, <1>7, <2>0
  <2>2. /\ MacOK(u) /\ u.tx = <<>> /\ u.macState = "RX" /\ u.cmd = "SWITCH_TO_RECV"
        /\ u.backoffTimer = m.backoffTimer /\ u.minorMsg = m.minorMsg
    BY <1>2 DEF AlohaTransmissionOver, MacIdle, MacOK, MacFields
  <2>. HIDE DEF u
  <2>3. Done(n, u, nc)
    BY <1>2, <2>1, <2>2, PutEffect
  <2>4. Fine(m, nc, q)
    BY <2>0 DEF AlohaInv, m, nc, q
  <2>5. HasSent(m, nc, q) /\ NoneOver(Tail(q))
    <3>1. ~NoneOver(q)
      BY <1>2, <1>7, FirstTaken DEF f
    <3>2. HasSent(m, nc, q)
      BY <2>4, <3>1 DEF Fine, Listens, TurnsToSend, OnTheAir
    <3>. QED  BY <1>2, <1>7, <3>2, FirstTaken DEF f, HasSent
  <2>6. CanSwitch(nc)
    BY <2>5 DEF HasSent, CanSwitch, Steady
  <2>7. nic'[n].radioState = "SWITCH_TO_RECV" /\ nic'[n].txOverTimer = nc.txOverTimer
    BY <2>2, <2>3, <2>6 DEF Done
  <2>8. Listens(u, nic'[n], Tail(q)) /\ u.backoffTimer = Off /\ u.minorMsg = Off
    BY <2>2, <2>4, <2>5, <2>7 DEF Listens, HasSent, Fine
  <2>9. Fine(mac'[n], nic'[n], toMac'[n])
    BY <1>4, <2>3, <2>8, FineOfDone
  <2>. QED  BY <1>2, <1>4, <2>3, <2>9, OthersFine
<1>8. CASE n \notin CsmaNode /\ f # TransmissionOver
  <2>0. n \in AlohaNode
    BY <1>8 DEF AlohaNode
  <2>. DEFINE u == PassUp(m, n, f)
  <2>1. Put(n, u, nc)
    BY <1>1, <1>8, <2>0
  <2>2. /\ MacOK(u) /\ u.tx = <<>> /\ u.macState = m.macState /\ u.cmd = "none" /\ u.macQueue = m.macQueue
        /\ u.backoffTimer = m.backoffTimer /\ u.minorMsg = m.minorMsg
    BY <1>2, PassUpOK DEF MacIdle
  <2>. HIDE DEF u
  <2>3. Done(n, u, nc)
    BY <1>2, <2>1, <2>2, PutEffect
  <2>4. Fine(m, nc, q)
    BY <2>0 DEF AlohaInv, m, nc, q
  <2>5. (NoneOver(q) => NoneOver(Tail(q))) /\ (OneOver(q) => OneOver(Tail(q)))
    BY <1>2, <1>8, FirstTaken DEF f
  <2>6. nic'[n].radioState = nc.radioState /\ nic'[n].txOverTimer = nc.txOverTimer
    BY <2>2, <2>3 DEF Done
  <2>. DEFINE nd == nic'[n]
              o == Tail(q)
  <2>7. Listens(u, nd, o) \/ TurnsToSend(u, nd, o) \/ OnTheAir(u, nd, o) \/ HasSent(u, nd, o)
    BY <2>2, <2>4, <2>5, <2>6 DEF Listens, TurnsToSend, OnTheAir, HasSent, Fine
  <2>8. u.backoffTimer = Off /\ u.minorMsg = Off
    BY <2>2, <2>4 DEF Fine
  <2>9. Fine(mac'[n], nic'[n], toMac'[n])
    BY <1>4, <2>3, <2>7, <2>8, FineOfDone
  <2>. QED  BY <1>2, <1>4, <2>3, <2>9, OthersFine
<1>. QED  BY <1>6, <1>7, <1>8

LEMMA TimerSteps ==
  ASSUME AlohaInv, NEW n \in Node, BackoffTimer(n) \/ MinorMsg(n)
  PROVE  AlohaInv'
<1>. DEFINE nc == nic[n]
            m == mac[n]
<1>1. m.backoffTimer = 0 \/ m.minorMsg = 0
  BY DEF BackoffTimer, MinorMsg
<1>2. /\ handedIn' \in Nat /\ MacIdle(m) /\ NicOK(nc) /\ Typed /\ toMac \in [Node -> Seq(Message)]
      /\ toMac' = toMac
  BY DEF BackoffTimer, MinorMsg, AlohaInv, Typed
<1>3. n \notin AlohaNode
  BY <1>1 DEF AlohaInv, Fine, Off
<1>4. PICK r \in Draw : Put(n, CsmaBackoffExpires(m, nc, r), nc) \/ Put(n, CsmaMinorExpires(m, nc, r), nc)
  BY DEF BackoffTimer, MinorMsg
<1>5. r \in Nat
  BY CsmaAlohaAssumption DEF Draw
<1>. HIDE DEF nc, m
<1>. DEFINE b == CsmaBackoffExpires(m, nc, r)
            c == CsmaMinorExpires(m, nc, r)
<1>6. MacOK(b) /\ MacOK(c)
  BY <1>2, <1>5, CsmaTimersOK DEF MacIdle
<1>. HIDE DEF b, c
<1>7. Done(n, b, nc) \/ Done(n, c, nc)
  BY <1>2, <1>4, <1>6, PutEffect DEF b, c
<1>. QED  BY <1>2, <1>3, <1>7, OthersFine

\* Frames begin and end beside the MAC of an Aloha node.
LEMMA FrameKept ==
  ASSUME AlohaInv, NEW n \in Node, NEW nd, NicOK(nd), SameRadio(nd, nic[n]), NEW m, MacIdle(m),
         n \in AlohaNode => m = mac[n],
         nic' = [nic EXCEPT ![n] = nd], mac' = [mac EXCEPT ![n] = m], handedIn' = handedIn,
         arriving' \in [Node -> [Node -> Seq(Packet)]],
         NEW p \in Packet, toMac' = [toMac EXCEPT ![n] = Append(@, p)] \/ toMac' = toMac
  PROVE  AlohaInv'
<1>1. /\ DOMAIN mac = Node /\ DOMAIN nic = Node /\ handedIn \in Nat /\ toMac \in [Node -> Seq(Message)]
      /\ \A k \in Node : MacIdle(mac[k]) /\ NicOK(nic[k])
  BY DEF AlohaInv, Typed
<1>2. p \in Message
  BY DEF Message
<1>3. toMac' \in [Node -> Seq(Message)] /\ toMac'[n] \in {toMac[n], Append(toMac[n], p)}
      /\ \A k \in Node \ {n} : toMac'[k] = toMac[k]
  <2>1. toMac[n] \in Seq(Message) /\ Append(toMac[n], p) \in Seq(Message)
    BY <1>1, <1>2
  <2>. QED  BY <1>1, <2>1
<1>4. nic'[n] = nd /\ mac'[n] = m /\ \A k \in Node \ {n} : nic'[k] = nic[k] /\ mac'[k] = mac[k]
  BY <1>1
<1>5. Typed'
  BY <1>1, <1>3, <1>4 DEF Typed
<1>6. ASSUME NEW k \in AlohaNode PROVE Fine(mac'[k], nic'[k], toMac'[k])
  <2>1. Fine(mac[k], nic[k], toMac[k]) /\ k \in Node /\ toMac[k] \in Seq(Message)
    BY <1>1, Kinds DEF AlohaInv
  <2>2. CASE k # n
    BY <1>3, <1>4, <2>1, <2>2
  <2>3. CASE k = n
    <3>1. nd.radioState = nic[n].radioState /\ nd.txOverTimer = nic[n].txOverTimer /\ m = mac[n]
      BY <2>3 DEF SameRadio
    <3>2. (NoneOver(toMac[n]) => NoneOver(toMac'[n])) /\ (OneOver(toMac[n]) => OneOver(toMac'[n]))
      BY <1>3, <2>1, <2>3, PacketAppended
    <3>3. Fine(m, nd, toMac'[n])
      BY <2>1, <2>3, <3>1, <3>2 DEF Fine, Listens, TurnsToSend, OnTheAir, HasSent
    <3>. QED  BY <1>4, <2>3, <3>3
  <2>. QED  BY <2>2, <2>3
<1>. QED  BY <1>5, <1>6 DEF AlohaInv

LEMMA PublishedIdle ==
  ASSUME NEW m, MacIdle(m), NEW nc
  PROVE  MacIdle(RssiPublished(m, nc))
BY RssiPublishedOK DEF MacIdle

LEMMA FrameStartStep ==
  ASSUME AlohaInv, NEW n \in Node, NEW s \in Node, FrameStart(n, s)
  PROVE  AlohaInv'
<1>. DEFINE p == Head(arriving[n][s])
            nd == handleLowerMsgStart(nic[n], n, s, p, FrameTime)
            m == IF n \in CsmaNode /\ StartPublishesRSSI(nic[n], n, s) THEN RssiPublished(mac[n], nd) ELSE mac[n]
<1>1. /\ arriving[n][s] \in Seq(Packet) /\ arriving[n][s] # <<>> /\ MacIdle(mac[n]) /\ NicOK(nic[n])
      /\ arriving \in [Node -> [Node -> Seq(Packet)]] /\ DOMAIN mac = Node
  BY DEF AlohaInv, Typed, FrameStart, Starting
<1>2. p \in Packet /\ Tail(arriving[n][s]) \in Seq(Packet)
  BY <1>1
<1>3. /\ nic' = [nic EXCEPT ![n] = nd] /\ mac' = [mac EXCEPT ![n] = m] /\ handedIn' = handedIn /\ toMac' = toMac
      /\ arriving' = [arriving EXCEPT ![n][s] = Tail(@)]
  BY <1>1 DEF FrameStart
<1>4. arriving' \in [Node -> [Node -> Seq(Packet)]]
  BY <1>1, <1>2, <1>3
<1>. HIDE DEF p
<1>5. NicOK(nd) /\ SameRadio(nd, nic[n])
  BY <1>1, <1>2, FrameStartOK
<1>. HIDE DEF nd
<1>6. MacIdle(m) /\ (n \in AlohaNode => m = mac[n])
  BY <1>1, PublishedIdle, Kinds
<1>. HIDE DEF m
<1>. QED  BY <1>2, <1>3, <1>4, <1>5, <1>6, FrameKept

LEMMA FrameEndStep ==
  ASSUME AlohaInv, NEW n \in Node, NEW s \in Node, FrameEnd(n, s)
  PROVE  AlohaInv'
<1>. DEFINE p == nic[n].recvBuff[s].frame
            nd == handleLowerMsgEnd(nic[n], n, s)
            m == IF n \in CsmaNode /\ EndPublishesRSSI(nic[n], s) THEN RssiPublished(mac[n], nd) ELSE mac[n]
<1>1. /\ s \in DOMAIN nic[n].recvBuff /\ MacIdle(mac[n]) /\ NicOK(nic[n])
      /\ arriving \in [Node -> [Node -> Seq(Packet)]] /\ DOMAIN mac = Node
  BY DEF AlohaInv, Typed, FrameEnd, Ending
<1>2. p \in Packet
  BY <1>1 DEF NicOK
<1>3. /\ nic' = [nic EXCEPT ![n] = nd] /\ mac' = [mac EXCEPT ![n] = m] /\ handedIn' = handedIn
      /\ toMac' = [toMac EXCEPT ![n] = Append(@, p)] \/ toMac' = toMac
      /\ arriving' = arriving
  BY <1>1 DEF FrameEnd
<1>. HIDE DEF p
<1>5. NicOK(nd) /\ SameRadio(nd, nic[n])
  BY <1>1, FrameEndOK
<1>. HIDE DEF nd
<1>6. MacIdle(m) /\ (n \in AlohaNode => m = mac[n])
  BY <1>1, PublishedIdle, Kinds
<1>. HIDE DEF m
<1>. QED  BY <1>1, <1>2, <1>3, <1>5, <1>6, FrameKept

LEMMA TxOverStep ==
  ASSUME AlohaInv, NEW n \in Node, TxOver(n)
  PROVE  AlohaInv'
<1>. DEFINE nd == [nic[n] EXCEPT !.txOverTimer = Off]
            q == Append(toMac[n], TransmissionOver)
<1>1. /\ DOMAIN mac = Node /\ DOMAIN nic = Node /\ handedIn \in Nat /\ toMac \in [Node -> Seq(Message)]
      /\ \A k \in Node : MacIdle(mac[k]) /\ NicOK(nic[k])
      /\ arriving \in [Node -> [Node -> Seq(Packet)]]
  BY DEF AlohaInv, Typed
<1>2. /\ nic[n].txOverTimer = 0 /\ nic' = [nic EXCEPT ![n] = nd] /\ mac' = mac /\ handedIn' = handedIn
      /\ toMac' = [toMac EXCEPT ![n] = q] /\ arriving' = arriving
  BY DEF TxOver
<1>3. NicOK(nd) /\ nd.radioState = nic[n].radioState /\ nd.txOverTimer = Off
  BY <1>1 DEF NicOK, NicFields, Timer
<1>4. TransmissionOver \in Message /\ toMac[n] \in Seq(Message) /\ q \in Seq(Message)
  BY <1>1 DEF Message
<1>5. NoneOver(toMac[n]) => OneOver(q)
  BY <1>4, OverAppended
<1>. HIDE DEF nd, q
<1>6. nic'[n] = nd /\ toMac'[n] = q /\ \A k \in Node \ {n} : nic'[k] = nic[k] /\ toMac'[k] = toMac[k]
  BY <1>1, <1>2
<1>7. Typed'
  BY <1>1, <1>2, <1>3, <1>4, <1>6 DEF Typed
<1>8. ASSUME NEW k \in AlohaNode PROVE Fine(mac'[k], nic'[k], toMac'[k])
  <2>1. Fine(mac[k], nic[k], toMac[k]) /\ k \in Node
    BY Kinds DEF AlohaInv
  <2>2. CASE k # n
    BY <1>2, <1>6, <2>1, <2>2
  <2>3. CASE k = n
    <3>1. OnTheAir(mac[n], nic[n], toMac[n])
      BY <1>2, <2>1, <2>3 DEF Fine, Listens, TurnsToSend, OnTheAir, HasSent, Off
    <3>2. HasSent(mac[n], nd, q)
      BY <1>3, <1>5, <3>1 DEF OnTheAir, HasSent
    <3>. QED  BY <1>2, <1>6, <2>1, <2>3, <3>2 DEF Fine
  <2>. QED  BY <2>2, <2>3
<1>. QED  BY <1>7, <1>8 DEF AlohaInv

LEMMA SwitchedStep ==
  ASSUME AlohaInv, NEW n \in Node, RadioSwitched(n)
  PROVE  AlohaInv'
<1>. DEFINE nc == nic[n]
            m == mac[n]
            q == toMac[n]
            done == [nc EXCEPT !.radioState = Switching[@], !.switchTimer = Off]
            entered == SwitchDone(nc)
            aloha == AlohaRadioPublished(m, done)
            csma == IF m.macState = "TX" /\ done.radioState = "SEND" THEN SendFront(m)
                    ELSE IF done.radioState = "RECV" THEN RssiPublished(m, entered) ELSE m
            told == IF aloha.cmd = "none" THEN entered ELSE done
<1>1. /\ handedIn' \in Nat /\ MacIdle(m) /\ NicOK(nc) /\ Typed /\ toMac \in [Node -> Seq(Message)]
      /\ toMac' = toMac /\ nc.switchTimer = 0
  BY DEF RadioSwitched, AlohaInv, Typed
<1>2. IF n \in CsmaNode THEN Put(n, csma, entered) ELSE Put(n, aloha, told)
  BY DEF RadioSwitched
<1>. HIDE DEF nc, m, q
<1>3. /\ nc.radioState \in DOMAIN Switching
      /\ NicOK(done) /\ done.radioState = Switching[nc.radioState] /\ done.txOverTimer = nc.txOverTimer
      /\ NicOK(entered) /\ entered.radioState = done.radioState /\ entered.txOverTimer = nc.txOverTimer
  BY <1>1, SwitchedOK
<1>. HIDE DEF done, entered
<1>4. CASE n \in CsmaNode
  <2>1. MacOK(csma)
    BY <1>1, SendFrontOK, RssiPublishedOK DEF MacIdle
  <2>. HIDE DEF csma
  <2>2. Done(n, csma, entered)
    BY <1>1, <1>2, <1>3, <1>4, <2>1, PutEffect
  <2>. QED  BY <1>1, <1>4, <2>2, OthersFine, Kinds
<1>5. CASE n \notin CsmaNode
  <2>0. n \in AlohaNode /\ Fine(m, nc, q)
    BY <1>5 DEF AlohaNode, AlohaInv, m, nc, q
  <2>1. Listens(m, nc, q) \/ TurnsToSend(m, nc, q)
    BY <1>3, <2>0, Switches DEF Fine, Listens, TurnsToSend, OnTheAir, HasSent
  <2>. DEFINE s == [m EXCEPT !.cmd = "SWITCH_TO_SEND", !.macState = "TX"]
  <2>2. /\ MacOK(s) /\ s.tx = <<>> /\ s.macState = "TX" /\ s.cmd = "SWITCH_TO_SEND" /\ s.macQueue = m.macQueue
        /\ s.backoffTimer = m.backoffTimer /\ s.minorMsg = m.minorMsg
    BY <1>1 DEF MacIdle, MacOK, MacFields
  <2>. HIDE DEF s
  <2>3. CASE Listens(m, nc, q) /\ m.macQueue = <<>>
    <3>1. nc.radioState = "SWITCH_TO_RECV" /\ done.radioState = "RECV"
      BY <1>3, <2>3, Switches DEF Listens
    <3>2. aloha = m
      BY <2>3, <3>1 DEF AlohaRadioPublished, prepareSend, Listens
    <3>. HIDE DEF aloha
    <3>3. told = entered
      BY <1>1, <3>2 DEF MacIdle
    <3>4. Done(n, m, entered)
      BY <1>1, <1>2, <1>3, <1>5, <3>2, <3>3, PutEffect DEF MacIdle
    <3>5. nic'[n].radioState = "RECV" /\ nic'[n].txOverTimer = Off
      BY <1>1, <1>3, <2>3, <3>1, <3>4 DEF Done, MacIdle, Listens
    <3>6. Listens(m, nic'[n], q) /\ m.backoffTimer = Off /\ m.minorMsg = Off
      BY <2>0, <2>3, <3>5 DEF Listens, Fine
    <3>7. Fine(mac'[n], nic'[n], toMac'[n])
      BY <1>1, <3>4, <3>6, FineOfDone DEF q
    <3>. QED  BY <1>1, <3>4, <3>7, OthersFine
  <2>4. CASE Listens(m, nc, q) /\ m.macQueue # <<>>
    <3>1. nc.radioState = "SWITCH_TO_RECV" /\ done.radioState = "RECV" /\ CanSwitch(done)
      BY <1>3, <2>4, Switches DEF Listens, CanSwitch, Steady
    <3>2. aloha = s
      BY <2>4, <3>1 DEF AlohaRadioPublished, prepareSend, Listens, s
    <3>. HIDE DEF aloha
    <3>3. told = done
      BY <2>2, <3>2
    <3>4. Done(n, s, done)
      BY <1>1, <1>2, <1>3, <1>5, <2>2, <3>2, <3>3, PutEffect
    <3>5. nic'[n].radioState = "SWITCH_TO_SEND" /\ nic'[n].txOverTimer = Off
      BY <1>3, <2>2, <2>4, <3>1, <3>4 DEF Done, Listens
    <3>6. TurnsToSend(s, nic'[n], q) /\ s.backoffTimer = Off /\ s.minorMsg = Off
      BY <2>0, <2>2, <2>4, <3>5 DEF Listens, TurnsToSend, Fine
    <3>7. Fine(mac'[n], nic'[n], toMac'[n])
      BY <1>1, <3>4, <3>6, FineOfDone DEF q
    <3>. QED  BY <1>1, <3>4, <3>7, OthersFine
  <2>5. CASE TurnsToSend(m, nc, q)
    <3>. DEFINE u == SendFront(m)
    <3>1. done.radioState = "SEND" /\ m.macState = "TX" /\ m.macQueue # <<>>
      BY <1>3, <2>5, Switches DEF TurnsToSend
    <3>2. aloha = u
      BY <3>1 DEF AlohaRadioPublished
    <3>3. /\ MacOK(u) /\ u.macState = "TX" /\ u.cmd = "none" /\ u.tx # <<>>
          /\ u.backoffTimer = m.backoffTimer /\ u.minorMsg = m.minorMsg
      BY <1>1, <3>1, SendFrontOK DEF MacIdle
    <3>. HIDE DEF aloha, u
    <3>4. told = entered
      BY <3>2, <3>3
    <3>5. Done(n, u, entered)
      BY <1>1, <1>2, <1>3, <1>5, <3>2, <3>3, <3>4, PutEffect
    <3>6. nic'[n].radioState = "SEND" /\ nic'[n].txOverTimer = FrameTime
      BY <1>3, <3>1, <3>3, <3>5 DEF Done
    <3>7. FrameTime # Off
      BY CsmaAlohaAssumption DEF Off
    <3>8. OnTheAir(u, nic'[n], q) /\ u.backoffTimer = Off /\ u.minorMsg = Off
      BY <2>0, <2>5, <3>3, <3>6, <3>7 DEF TurnsToSend, OnTheAir, Fine
    <3>9. Fine(mac'[n], nic'[n], toMac'[n])
      BY <1>1, <3>5, <3>8, FineOfDone DEF q
    <3>. QED  BY <1>1, <3>5, <3>9, OthersFine
  <2>. QED  BY <2>1, <2>3, <2>4, <2>5
<1>. QED  BY <1>4, <1>5

LEMMA LeastOf ==
  ASSUME NEW T \in SUBSET Nat, T # {}
  PROVE  \E k \in T : \A j \in T : k <= j
<1>1. PICK k \in T : \A j \in T : ~(<<j, k>> \in OpToRel(<, Nat))
  BY NatLessThanWellFounded, WFMin
<1>2. OpToRel(<, Nat) = {ss \in Nat \X Nat : ss[1] < ss[2]}
  BY DEF OpToRel
<1>3. \A j \in T : ~(j < k)
  BY <1>1, <1>2
<1>. QED  BY <1>3

\* No timer of a nic or a MAC is passed over.
LEMMA StepDue ==
  ASSUME Typed
  PROVE  Step \in Nat /\ Pending \subseteq Nat
<1>1. \A n \in Node : NicTimers(nic[n]) \subseteq Nat /\ MacTimers(mac[n]) \subseteq Nat
  BY DEF Typed, MacIdle, MacOK, NicOK, Timer, NicTimers, MacTimers
<1>2. Pending \subseteq Nat
  BY <1>1 DEF Pending
<1>3. CASE handedIn < MaxPackets \/ Pending = {}
  BY <1>2, <1>3 DEF Step
<1>4. CASE ~(handedIn < MaxPackets \/ Pending = {})
  <2>1. \E t \in Pending : \A u \in Pending : t <= u
    BY <1>2, <1>4, LeastOf
  <2>. HIDE DEF Pending
  <2>2. (CHOOSE t \in Pending : \A u \in Pending : t <= u) \in Pending
    BY <2>1
  <2>. QED  BY <1>2, <1>4, <2>2 DEF Step
<1>. QED  BY <1>2, <1>3, <1>4

LEMMA LaterTimer ==
  ASSUME NEW t \in Timer, NEW d \in Nat, t # Off => d <= t
  PROVE  Later(t, d) \in Timer /\ (Later(t, d) = Off <=> t = Off)
BY DEF Timer, Later, Off

LEMMA NicAfterOK ==
  ASSUME NEW nc, NicOK(nc), NEW d \in Nat, \A t \in NicTimers(nc) : d <= t
  PROVE  /\ NicOK(NicAfter(nc, d)) /\ NicAfter(nc, d).radioState = nc.radioState
         /\ NicAfter(nc, d).txOverTimer = Off <=> nc.txOverTimer = Off
<1>. DEFINE buff == [s \in DOMAIN nc.recvBuff |-> [nc.recvBuff[s] EXCEPT !.left = @ - d]]
            list == [i \in DOMAIN nc.sList |->
                       IF nc.sList[i].made = "now" THEN [nc.sList[i] EXCEPT !.made = "earlier"] ELSE nc.sList[i]]
            sw == Later(nc.switchTimer, d)
            tx == Later(nc.txOverTimer, d)
            nd == [nc EXCEPT !.switchTimer = sw, !.txOverTimer = tx, !.recvBuff = buff, !.sList = list]
<1>1. NicAfter(nc, d) = nd
  BY DEF NicAfter
<1>2. sw \in Timer /\ (sw = Off <=> nc.switchTimer = Off) /\ tx \in Timer /\ (tx = Off <=> nc.txOverTimer = Off)
  <2>1. (nc.switchTimer # Off => d <= nc.switchTimer) /\ (nc.txOverTimer # Off => d <= nc.txOverTimer)
    BY DEF NicTimers
  <2>2. nc.switchTimer \in Timer /\ nc.txOverTimer \in Timer
    BY DEF NicOK
  <2>. QED  BY <2>1, <2>2, LaterTimer
<1>3. \A s \in DOMAIN buff : buff[s].left \in Nat /\ buff[s].frame \in Packet
  <2>. SUFFICES ASSUME NEW s \in DOMAIN nc.recvBuff
                PROVE  LET e == [nc.recvBuff[s] EXCEPT !.left = @ - d] IN e.left \in Nat /\ e.frame \in Packet
    OBVIOUS
  <2>1. nc.recvBuff[s].left \in Nat /\ nc.recvBuff[s].frame \in Packet /\ d <= nc.recvBuff[s].left
    BY DEF NicOK, NicTimers
  <2>. QED  BY <2>1
<1>. HIDE DEF buff, list, sw, tx
<1>4. NicOK(nd) /\ nd.radioState = nc.radioState /\ nd.txOverTimer = tx
  BY <1>2, <1>3 DEF NicOK, NicFields
<1>. QED  BY <1>1, <1>2, <1>4

LEMMA TickStep ==
  ASSUME AlohaInv, Tick
  PROVE  AlohaInv'
<1>. DEFINE d == Step
            after(n) == [mac[n] EXCEPT !.backoffTimer = Later(@, d), !.minorMsg = Later(@, d)]
<1>1. Typed /\ d \in Nat
  BY StepDue DEF AlohaInv
<1>2. /\ \A n \in Node : \A t \in NicTimers(nic[n]) \cup MacTimers(mac[n]) : d <= t
      /\ nic' = [n \in Node |-> NicAfter(nic[n], d)] /\ mac' = [n \in Node |-> after(n)]
      /\ arriving' = arriving /\ toMac' = toMac /\ handedIn' = handedIn
  BY DEF Tick, Pending
<1>. HIDE DEF d
<1>3. ASSUME NEW n \in Node
      PROVE  /\ MacIdle(after(n)) /\ after(n).macState = mac[n].macState /\ after(n).macQueue = mac[n].macQueue
             /\ mac[n].backoffTimer = Off => after(n).backoffTimer = Off
             /\ mac[n].minorMsg = Off => after(n).minorMsg = Off
  <2>1. MacIdle(mac[n]) /\ \A t \in MacTimers(mac[n]) : d <= t
    BY <1>1, <1>2 DEF Typed
  <2>. DEFINE b == Later(mac[n].backoffTimer, d)
              c == Later(mac[n].minorMsg, d)
  <2>2. b \in Timer /\ c \in Timer /\ (mac[n].backoffTimer = Off => b = Off) /\ (mac[n].minorMsg = Off => c = Off)
    BY <1>1, <2>1, LaterTimer DEF MacTimers, MacIdle, MacOK
  <2>. HIDE DEF b, c
  <2>3. after(n) = [mac[n] EXCEPT !.backoffTimer = b, !.minorMsg = c]
    BY DEF b, c
  <2>. QED  BY <2>1, <2>2, <2>3 DEF MacIdle, MacOK, MacFields
<1>4. ASSUME NEW n \in Node
      PROVE  LET nd == NicAfter(nic[n], d)
             IN  /\ NicOK(nd) /\ nd.radioState = nic[n].radioState
                 /\ nd.txOverTimer = Off <=> nic[n].txOverTimer = Off
  BY <1>1, <1>2, NicAfterOK DEF Typed
<1>. HIDE DEF after
<1>5. Typed'
  BY <1>1, <1>2, <1>3, <1>4 DEF Typed
<1>6. ASSUME NEW n \in AlohaNode PROVE Fine(mac'[n], nic'[n], toMac'[n])
  <2>. DEFINE m == after(n)
              nd == NicAfter(nic[n], d)
  <2>1. n \in Node /\ Fine(mac[n], nic[n], toMac[n])
    BY Kinds DEF AlohaInv
  <2>2. /\ m.macState = mac[n].macState /\ m.macQueue = mac[n].macQueue
        /\ mac[n].backoffTimer = Off => m.backoffTimer = Off
        /\ mac[n].minorMsg = Off => m.minorMsg = Off
        /\ nd.radioState = nic[n].radioState /\ (nd.txOverTimer = Off <=> nic[n].txOverTimer = Off)
    BY <1>3, <1>4, <2>1
  <2>. HIDE DEF m, nd
  <2>3. Fine(m, nd, toMac[n])
    BY <2>1, <2>2 DEF Fine, Listens, TurnsToSend, OnTheAir, HasSent
  <2>. QED  BY <1>2, <2>1, <2>3 DEF m, nd
<1>. QED  BY <1>5, <1>6 DEF AlohaInv

LEMMA AlohaStep == AlohaInv /\ [CsmaAlohaNext]_csmaAlohaVars => AlohaInv'
<1>. SUFFICES ASSUME AlohaInv, [CsmaAlohaNext]_csmaAlohaVars PROVE AlohaInv'
  OBVIOUS
<1>1. CASE \E n \in Node : \/ handleUpperMsg(n) \/ FromNic(n) \/ RadioSwitched(n) \/ TxOver(n)
                           \/ BackoffTimer(n) \/ MinorMsg(n)
                           \/ \E s \in Node : FrameStart(n, s) \/ FrameEnd(n, s)
  BY <1>1, UpperStep, FromNicStep, SwitchedStep, TxOverStep, TimerSteps, FrameStartStep, FrameEndStep
<1>2. CASE Tick
  BY <1>2, TickStep
<1>3. CASE UNCHANGED csmaAlohaVars
  BY <1>3 DEF csmaAlohaVars, nicVars, AlohaInv, Typed
<1>. QED  BY <1>1, <1>2, <1>3 DEF CsmaAlohaNext

\* AlohaNeverStrands: however long the switches of the radio and the frames take, whoever
\* else is on the air and however long the queue may get, no packet of an AlohaMacLayer
\* waits while its radio is there to send it.
THEOREM AlohaNeverStrands == CsmaAlohaSpec => []AlohaKeepsSending
<1>1. AlohaInv => AlohaKeepsSending
  BY Kinds DEF AlohaInv, AlohaKeepsSending, Fine, Listens, TurnsToSend, OnTheAir, HasSent
<1>. QED  BY <1>1, InitAloha, AlohaStep, PTL DEF CsmaAlohaSpec
=============================================================================
