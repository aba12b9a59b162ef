--------------------------- MODULE ChannelControl ---------------------------
(***************************************************************************)
(* The central module that connects the network interfaces (nics) which    *)
(* are close enough to disturb each other, the ChannelAccess of every nic, *)
(* which reports its moves and sends through its connections, and the      *)
(* unicast lookup of P2PPhyLayer.                                          *)
(*                                                                         *)
(* Nics are kept in a grid of squares, and a move checks only the squares  *)
(* around the old and the new place.  Lengths are integers: a unit is as   *)
(* small as the instance needs.  A nic may jump to any place: mobility     *)
(* modules do so when a host reaches a border or a trace skips.            *)
(***************************************************************************)
EXTENDS Integers, FiniteSetsExt

CONSTANTS
    Nic,
    Place,                      \* places of the playground a host may be at
    playgroundSizeX, playgroundSizeY,
    maxInterferenceDistance,    \* calcInterfDist
    ceilInterferenceDistance,   \* rounded up to a whole metre, and past it
    useTorus,
    P2P,                        \* the nics use P2PPhyLayer
    Nowhere                     \* of a nic that has not registered

ASSUME PlaygroundAssumption ==
    /\ playgroundSizeX \in Nat
    /\ playgroundSizeY \in Nat
    /\ maxInterferenceDistance \in Nat \ {0}
    /\ ceilInterferenceDistance \in Nat
    /\ ceilInterferenceDistance >= maxInterferenceDistance
    /\ Place \subseteq (0 .. playgroundSizeX) \X (0 .. playgroundSizeY)
    /\ useTorus \in BOOLEAN
    /\ P2P \in BOOLEAN
    /\ Nowhere \notin Place
    /\ Nowhere \notin Int \X Int

VARIABLES
    hostMove,   \* ChannelAccess: last place of the host, Nowhere before it registers
    pos,        \* NicEntry: place of the nic
    nics,       \* the matrix: the nics with an entry in a square
    outConns,   \* NicEntry: ABSENT, a gate, or a NULL pointer
    stopped     \* a null pointer or a square past the matrix was used

vars == <<hostMove, pos, nics, outConns, stopped>>

Entry == {"ABSENT", "GATE", "NULL"}
-----------------------------------------------------------------------------
(***************************************************************************)
(* The grid                                                                *)
(***************************************************************************)
numX == playgroundSizeX \div maxInterferenceDistance + 1
numY == playgroundSizeY \div maxInterferenceDistance + 1

\* the playground is too small for a grid
OneSquare == numX <= 3 /\ numY <= 3

\* the edge of a square
findDistance ==
    IF ~OneSquare THEN ceilInterferenceDistance
    ELSE IF playgroundSizeX < playgroundSizeY THEN playgroundSizeY + 1
    ELSE playgroundSizeX + 1

\* Seeded fault: a column too few is made
maxXTooFew == IF OneSquare THEN 0 ELSE numX - 2

maxX == IF OneSquare THEN 0 ELSE numX - 1
maxY == IF OneSquare THEN 0 ELSE numY - 1

Grid == (0 .. maxX) \X (0 .. maxY)

Square(p) == <<p[1] \div findDistance, p[2] \div findDistance>>

\* the row or column itself, and the ones increment and decrement lead to
Near(max, s) ==
    {s} \cup (IF s < max THEN {s + 1} ELSE IF useTorus THEN {0} ELSE {})
        \cup (IF s > 0 THEN {s - 1} ELSE IF useTorus THEN {max} ELSE {})

\* the squares whose nics a move into or out of square s can concern
Around(s) == IF maxX = 0 /\ maxY = 0 THEN {s} ELSE Near(maxX, s[1]) \X Near(maxY, s[2])

\* Seeded fault: only the surroundings of the new square are checked
gridUnionNewOnly(old, new) == Around(new)

gridUnion(old, new) == Around(old) \cup Around(new)

Close(dx, dy) == dx * dx + dy * dy < maxInterferenceDistance * maxInterferenceDistance

inRangeEuclid(a, b) == Close(a[1] - b[1], a[2] - b[2])

\* some image of a, one playground away or none, is in range
inRangeTorus(a, b) ==
    \E i, j \in {-1, 0, 1} :
        Close(a[1] + i * playgroundSizeX - b[1], a[2] + j * playgroundSizeY - b[2])

InRange(a, b) == IF useTorus THEN inRangeTorus(a, b) ELSE inRangeEuclid(a, b)
-----------------------------------------------------------------------------
(***************************************************************************)
(* Connections                                                             *)
(***************************************************************************)
Registered == {n \in Nic : hostMove[n] # Nowhere}

\* square s of a matrix exists and holds an entry of nic n
Holds(matrix, n, s) == s \in Grid /\ n \in matrix[s]

\* ChannelControl finds the nic where ChannelAccess says that it is
Found(n) == Holds(nics, n, Square(hostMove[n]))

\* the other nics in some squares
Others(n, squares) == {m \in Nic \ {n} : \E s \in squares : Holds(nics, m, s)}

\* Seeded fault: only the nic that moves gets or loses its connection
BetweenOneWay(n, others) == {n} \X others

\* both directions between n and the nics of a set
Between(n, others) == ({n} \X others) \cup (others \X {n})

\* nics of a set that n at place p gets a connection with: its own entry decides
Joined(n, p, others) ==
    {m \in others : InRange(p, pos[m]) /\ outConns[<<n, m>>] = "ABSENT"}

Parted(n, p, others) ==
    {m \in others : ~InRange(p, pos[m]) /\ outConns[<<n, m>>] # "ABSENT"}

updateConnections(n, p, others) ==
    outConns' = [e \in Nic \X Nic |->
                    IF e \in Between(n, Joined(n, p, others)) THEN "GATE"
                    ELSE IF e \in Between(n, Parted(n, p, others)) THEN "ABSENT"
                    ELSE outConns[e]]

\* disconnectFrom follows the gate of the entry
DropsVoid(n, p, others) == \E e \in Between(n, Parted(n, p, others)) : outConns[e] # "GATE"

Inserted(matrix, n, s) == [t \in Grid |-> IF t = s THEN matrix[t] \cup {n} ELSE matrix[t]]

\* Seeded fault: the entry is not erased from the square it leaves
ErasedNot(matrix, n, s) == matrix

Erased(matrix, n, s) == [t \in Grid |-> IF t = s THEN matrix[t] \ {n} ELSE matrix[t]]

\* nic n moves from square old of a matrix to place p
checkGrid(matrix, n, old, p) ==
    LET others == Others(n, gridUnion(old, Square(p)))
    IN  /\ nics' = IF Square(p) = old THEN matrix
                   ELSE Inserted(Erased(matrix, n, old), n, Square(p))
        /\ pos' = [pos EXCEPT ![n] = p]
        /\ updateConnections(n, p, others)
        /\ stopped' = \/ ~Holds(matrix, n, old)
                      \/ Square(p) \notin Grid
                      \/ DropsVoid(n, p, others)
-----------------------------------------------------------------------------
Init ==
    /\ hostMove = [n \in Nic |-> Nowhere]
    /\ pos = [n \in Nic |-> Nowhere]
    /\ nics = [s \in Grid |-> {}]
    /\ outConns = [e \in Nic \X Nic |-> "ABSENT"]
    /\ stopped = FALSE

\* the first position on the blackboard registers the nic
registerNic(n, p) ==
    /\ hostMove[n] = Nowhere
    /\ checkGrid(Inserted(nics, n, Square(p)), n, Square(p), p)
    /\ hostMove' = [hostMove EXCEPT ![n] = p]

\* ChannelAccess reports where it believes the nic was and where it is
updateNicPos(n, p) ==
    /\ hostMove[n] # Nowhere
    /\ checkGrid(nics, n, Square(hostMove[n]), p)
    /\ hostMove' = [hostMove EXCEPT ![n] = p]

\* a broadcast goes through every entry of the list
sendToChannel(n) ==
    /\ n \in Registered
    /\ stopped' = (~Found(n) \/ \E m \in Nic : outConns[<<n, m>>] = "NULL")
    /\ UNCHANGED <<hostMove, pos, nics, outConns>>

\* a unicast looks its gate up, which makes an entry where there is none
sendDelayedP2P(n, m) ==
    /\ P2P
    /\ n \in Registered
    /\ m # n
    /\ stopped' = ~Found(n)
    /\ outConns' = [outConns EXCEPT ![<<n, m>>] = IF @ = "ABSENT" THEN "NULL" ELSE @]
    /\ UNCHANGED <<hostMove, pos, nics>>

Next ==
    /\ ~stopped
    /\ \E n \in Nic :
        \/ \E p \in Place : registerNic(n, p) \/ updateNicPos(n, p)
        \/ sendToChannel(n)
        \/ \E m \in Nic : sendDelayedP2P(n, m)

Spec == Init /\ [][Next]_vars
-----------------------------------------------------------------------------
TypeOK ==
    /\ hostMove \in [Nic -> Place \cup {Nowhere}]
    /\ pos \in [Nic -> Place \cup {Nowhere}]
    /\ nics \in [Grid -> SUBSET Nic]
    /\ outConns \in [Nic \X Nic -> Entry]
    /\ stopped \in BOOLEAN

\* However often and far the hosts move, a registered nic has one entry in the
\* matrix, and it is in the square of the place that its ChannelAccess remembers,
\* which the matrix has at the far borders of the playground too: updateNicPos,
\* getGateList and getOutGateTo look the nic up with a position that only the other
\* module keeps, with an operator that makes a null entry where there is none.
MatrixFollowsHosts ==
    \A n \in Nic :
        {s \in Grid : n \in nics[s]} = IF n \in Registered THEN {Square(hostMove[n])} ELSE {}

\* ChannelControl knows the place that the host is at.
PosFollowsHost == pos = hostMove

\* Neither nic has an entry for the other that lacks its gate
NoVoid(n, m) == outConns[<<n, m>>] # "NULL" /\ outConns[<<m, n>>] # "NULL"

\* Two nics are connected exactly when they are in range, whichever of them moved
\* and however far: looking at the squares around the old and the new place is
\* enough.  Pairs with an entry that a unicast left behind are excepted.
ConnectedIffInRange ==
    \A n, m \in Registered :
        n # m /\ NoVoid(n, m) => (outConns[<<n, m>>] = "GATE" <=> InRange(pos[n], pos[m]))

\* A connection has both directions and no connection outlives the range, even
\* when unicasts leave entries without a gate behind.
NoStrayGate ==
    \A n, m \in Nic :
        outConns[<<n, m>>] = "GATE" =>
            /\ {n, m} \subseteq Registered
            /\ InRange(pos[n], pos[m])
            /\ outConns[<<m, n>>] = "GATE"

\* An entry of the matrix or of the list of connections is valid when it is used:
\* nobody checks the nic that a look-up returns, and disconnectFrom relies on the
\* check of ChannelControl.
EntriesAreValid == ~stopped
=============================================================================
