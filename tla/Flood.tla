-------------------------------- MODULE Flood --------------------------------
(***************************************************************************)
(* Flooding of class Flood: every node forwards a broadcast message once,  *)
(* as far as it remembers, and as long as the message has hops left.       *)
(*                                                                         *)
(* The network below is external: a packet given to the MAC makes a copy   *)
(* for every addressed neighbour, each of which takes between 0 and        *)
(* MaxDelay ticks of the clock, or is lost.  Times are kept as the time    *)
(* that is left: an entry is outdated when its time is below 0.            *)
(***************************************************************************)
EXTENDS Integers, Sequences

CONSTANTS
    Node,
    Nbr,             \* Nbr[n]: the nodes in range of n
    L3BROADCAST,
    Flow,            \* Flow[n]: the addresses the application of n sends to
    MaxMsgs,         \* bound: messages of the application of each node
    MaxDelay,        \* bound: ticks a copy takes from one node to the next
    defaultTtl,
    plainFlooding,
    bcMaxEntries,
    bcDelTime

ASSUME NetworkAssumption ==
    /\ Nbr \in [Node -> SUBSET Node]
    /\ L3BROADCAST \notin Node
    /\ Flow \in [Node -> SUBSET (Node \cup {L3BROADCAST})]

\* pop_front of an empty list is undefined, hence bcMaxEntries > 0
ASSUME ParameterAssumption ==
    /\ MaxMsgs \in [Node -> Nat] /\ MaxDelay \in Nat
    /\ defaultTtl \in Nat \ {0}
    /\ plainFlooding \in BOOLEAN
    /\ bcMaxEntries \in Nat \ {0}
    /\ bcDelTime \in Nat

VARIABLES
    seqNum,      \* number of the next message of each node
    bcMsgs,      \* list of the messages a node has seen
    air,         \* copies on their way
    stopped      \* the run ended in undefined behaviour

VARIABLES        \* history, read by properties only
    sent,        \* messages of the applications
    got,         \* got[n][m]: how often m was passed to the application of n
    damaged,     \* messages that lost a copy
    evicted      \* per node, messages it forgot because its list was full

histVars == <<sent, got, damaged, evicted>>
vars == <<seqNum, bcMsgs, air, stopped, histVars>>

Init ==
    /\ seqNum = [n \in Node |-> 0]
    /\ bcMsgs = [n \in Node |-> <<>>]
    /\ air = {}
    /\ stopped = FALSE
    /\ sent = {}
    /\ got = [n \in Node |-> <<>>]
    /\ damaged = {}
    /\ evicted = [n \in Node |-> {}]

-----------------------------------------------------------------------------
(* The list of messages seen                                                *)

Id(e) == <<e.src, e.seq>>

\* Seeded fault: an entry is outdated at its last moment
OutdatedAtOnce(e) == e.left <= 0

\* delTime < simTime()
Outdated(e) == e.left < 0

Fresh(e) == ~Outdated(e)

\* The list without its outdated entries
FreshEntries(q) ==
    LET kept[i \in 0..Len(q)] ==
            IF i = 0 THEN <<>>
            ELSE IF Fresh(q[i]) THEN Append(kept[i - 1], q[i]) ELSE kept[i - 1]
    IN  kept[Len(q)]

\* if the list is full, pop_front
MakeRoom(q) == IF Len(q) >= bcMaxEntries THEN Tail(q) ELSE q

Remember(q, m) ==
    Append(MakeRoom(q), [src |-> m.src, seq |-> m.seq, left |-> bcDelTime])

\* What pop_front removes
Forgotten(q) == IF Len(q) >= bcMaxEntries THEN {Id(Head(q))} ELSE {}

\* Before a message of its own is entered in a full list, the first outdated
\* entry is erased
EraseFirst(q) ==
    LET old == {i \in DOMAIN q : Outdated(q[i])}
    IN  IF Len(q) < bcMaxEntries \/ old = {} THEN q
        ELSE LET i == CHOOSE i \in old : \A j \in old : i <= j
             IN  SubSeq(q, 1, i - 1) \o SubSeq(q, i + 1, Len(q))

\* The entries notBroadcasted finds for m: at most one
Known(q, m) == {i \in DOMAIN q : Id(q[i]) = Id(m) /\ Fresh(q[i])}

notBroadcasted(q, m) == ~plainFlooding \/ Known(q, m) = {}

\* The list notBroadcasted leaves: outdated entries are erased up to the entry of
\* m, which is renewed, or all of them, before m is entered
Searched(q, m) ==
    IF ~plainFlooding THEN q
    ELSE IF Known(q, m) = {} THEN FreshEntries(q)
    ELSE LET i == CHOOSE i \in Known(q, m) : TRUE
         IN  FreshEntries(SubSeq(q, 1, i - 1))
                \o <<[q[i] EXCEPT !.left = bcDelTime]>> \o SubSeq(q, i + 1, Len(q))

\* Erasing steps the iterator back from the entry it has just freed
Erases(q, m) == Len(Searched(q, m)) < Len(q)

-----------------------------------------------------------------------------
\* sendDown with the MAC address hop: the neighbours it addresses
Copies(n, m, ttl, hop) ==
    {[msg |-> m, ttl |-> ttl, from |-> n, to |-> k, left |-> MaxDelay] :
        k \in IF hop = L3BROADCAST THEN Nbr[n] ELSE Nbr[n] \cap {hop}}

\* encapsMsg asks arp for the MAC address of the destination; a node stands for both
\* of its addresses, and both broadcast addresses are -1
NextHop(d) == d

\* handleUpperMsg: a message of the application of n for d
handleUpperMsg(n, d) ==
    LET m == [src |-> n, seq |-> seqNum[n], dest |-> d]
        q == EraseFirst(bcMsgs[n])
    IN  /\ ~stopped
        /\ d \in Flow[n]
        /\ seqNum[n] < MaxMsgs[n]
        /\ seqNum' = [seqNum EXCEPT ![n] = @ + 1]
        /\ bcMsgs' = [bcMsgs EXCEPT ![n] = IF plainFlooding THEN Remember(q, m) ELSE @]
        /\ evicted' = [evicted EXCEPT ![n] =
                          IF plainFlooding THEN @ \cup Forgotten(q) ELSE @]
        /\ air' = air \cup Copies(n, m, defaultTtl, NextHop(d))
        /\ sent' = sent \cup {m}
        /\ got' = [k \in Node |-> [x \in sent' |-> IF x = m THEN 0 ELSE got[k][x]]]
        /\ UNCHANGED <<stopped, damaged>>

\* Seeded fault: the last hop is not made
HopsLeftMore(ttl) == ttl > 2

HopsLeft(ttl) == ttl > 1

\* The copies that n makes of copy c, new to it.  A message for another node goes
\* out with the control information it came with: the address of the last hop.
Forwarded(n, c) ==
    IF c.msg.dest = n \/ ~HopsLeft(c.ttl) THEN {}
    ELSE Copies(n, c.msg, c.ttl - 1,
                IF c.msg.dest = L3BROADCAST THEN L3BROADCAST ELSE c.from)

\* handleLowerMsg of copy c
handleLowerMsg(c) ==
    LET n == c.to
        new == notBroadcasted(bcMsgs[n], c.msg)
        q == Searched(bcMsgs[n], c.msg)
    IN  /\ ~stopped
        /\ bcMsgs' = [bcMsgs EXCEPT ![n] =
                         IF plainFlooding /\ new THEN Remember(q, c.msg) ELSE q]
        /\ evicted' = [evicted EXCEPT ![n] =
                          IF plainFlooding /\ new THEN @ \cup Forgotten(q) ELSE @]
        /\ stopped' \in IF Erases(bcMsgs[n], c.msg) THEN BOOLEAN ELSE {FALSE}
        /\ air' = (air \ {c}) \cup IF new THEN Forwarded(n, c) ELSE {}
        /\ got' = [got EXCEPT ![n][c.msg] =
                      IF new /\ c.msg.dest \in {n, L3BROADCAST} THEN @ + 1 ELSE @]
        /\ UNCHANGED <<seqNum, sent, damaged>>

\* The medium or a MAC loses copy c
Lose(c) ==
    /\ ~stopped
    /\ air' = air \ {c}
    /\ damaged' = damaged \cup {c.msg}
    /\ UNCHANGED <<seqNum, bcMsgs, stopped, sent, got, evicted>>

\* The clock; no copy takes longer than MaxDelay
Tick ==
    /\ ~stopped
    /\ \A c \in air : c.left > 0
    /\ air' = {[c EXCEPT !.left = @ - 1] : c \in air}
    /\ bcMsgs' = [n \in Node |-> [i \in DOMAIN bcMsgs[n] |->
                     [bcMsgs[n][i] EXCEPT !.left = IF @ < 0 THEN @ ELSE @ - 1]]]
    /\ UNCHANGED <<seqNum, stopped, histVars>>

Next ==
    \/ \E n \in Node : \E d \in Flow[n] : handleUpperMsg(n, d)
    \/ \E c \in air : handleLowerMsg(c) \/ Lose(c)
    \/ Tick

Spec == Init /\ [][Next]_vars

-----------------------------------------------------------------------------
(* Properties                                                               *)

\* An application gets a message once, and never its own, unless the node forgot
\* it to make room.  That an entry is outdated does no harm when bcDelTime is at
\* least the time a message can travel, defaultTtl * MaxDelay.
NoDuplicateUp == \A n \in Node, m \in sent :
    got[n][m] > (IF m.src = n THEN 0 ELSE 1) => <<m.src, m.seq>> \in evicted[n]

\* Nodes within k hops of n
Within[k \in 0..defaultTtl] == [n \in Node |->
    IF k = 0 THEN {n} ELSE Within[k - 1][n] \cup UNION {Nbr[x] : x \in Within[k - 1][n]}]

\* A message that lost no copy has reached all addressees within defaultTtl hops
\* when its last copy is gone, whichever of its copies came first: Flood.cc:69,
\* "message is flooded (i.e. has to be send to all neighbors)".
FloodReaches == \A m \in sent \ damaged, n \in Node :
    /\ ~stopped
    /\ n # m.src /\ m.dest \in {n, L3BROADCAST}
    /\ n \in Within[defaultTtl][m.src]
    /\ \A c \in air : c.msg # m
    => got[n][m] > 0
=============================================================================
