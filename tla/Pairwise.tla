------------------------------- MODULE Pairwise -------------------------------
(***************************************************************************)
(* pairwise: a tree of routes to the sink is built in iterations.  In each *)
(* every node says whether it is in the tree, and decides after a while:   *)
(* one in the tree asks its cheapest isolated neighbour to join, and an    *)
(* isolated one waits for the request of its cheapest neighbour in the     *)
(* tree.                                                                   *)
(*                                                                         *)
(* The MAC is external: what is sent makes a copy for every addressed      *)
(* neighbour, which arrives in any order, or is lost.  The timers are      *)
(* abstract: one that is scheduled fires at any moment that the delays of  *)
(* pairwise.ned leave it.                                                  *)
(***************************************************************************)
EXTENDS Integers

CONSTANTS
    Node,
    sinkAddress,     \* 0: also what the map of a C++ program holds by default
    NoNode,          \* -1
    Link,            \* Link[s][r]: qualities of the link from s to r, {} if out of range
    maxNoUpdates,
    MaxMetric,       \* bound: the largest double
    Dest,            \* Dest[n]: where the application of n sends to
    MaxData,         \* bound: packets of the applications
    MaxLosses        \* bound: copies that are lost

Quality == {"good", "bad"}   \* is ber below metricThreshold?

ASSUME PairwiseAssumption ==
    /\ sinkAddress \in Node /\ NoNode \notin Node
    /\ Link \in [Node -> [Node -> SUBSET Quality]] /\ \A n \in Node : Link[n][n] = {}
    /\ maxNoUpdates \in Nat /\ MaxMetric \in Nat /\ MaxData \in Nat /\ MaxLosses \in Nat
    /\ Dest \in [Node -> SUBSET Node]

VARIABLES
    node,            \* node[n]: the module of n
    iterationTimer,  \* is it scheduled?  the sink's
    air              \* copies on their way

VARIABLES            \* history, read by properties only
    sent,            \* number of packets of the applications
    got,             \* got[n]: the packets passed up at n
    damaged,         \* packets that have lost a copy, or started outside the tree
    lost,            \* number of copies that were lost
    disturbed        \* a request or an answer was lost, or came at the wrong time

vars == <<node, iterationTimer, air, sent, got, damaged, lost, disturbed>>

Status == {"SINK", "IN_TREE", "ISOLATED"}
FSMState == {"IDLE", "WAITDECISION", "WAITREPLY", "WAITREQUEST"}

Module ==
    [currNodeState : Status, currFSMState : FSMState, iterationStep : Nat,
     neighbours : [Node \cup {NoNode} -> 0..MaxMetric],
     inTree : SUBSET Node, notInTree : SUBSET Node,
     myParentInTree : Node, favoriteParent : Node \cup {NoNode},
     subTree : [Node -> Node \cup {NoNode}],   \* NoNode: no entry
     treeUpdated : BOOLEAN, nbNoUpdates : 0..maxNoUpdates,
     decisionTimer : BOOLEAN, ackTimer : BOOLEAN, assocTimer : BOOLEAN]

\* The cost of a node that was never heard is 0, as a map of C++ has it when it is asked.
\* favoriteParent is not initialised; it is read when a node waits for a request only.
InitModule(n) ==
    [currNodeState |-> IF n = sinkAddress THEN "SINK" ELSE "ISOLATED",
     currFSMState |-> "IDLE", iterationStep |-> 0,
     neighbours |-> [x \in Node \cup {NoNode} |-> 0],
     inTree |-> {}, notInTree |-> {}, myParentInTree |-> sinkAddress,
     favoriteParent |-> NoNode, subTree |-> [x \in Node |-> NoNode],
     treeUpdated |-> n = sinkAddress, nbNoUpdates |-> 0,
     decisionTimer |-> FALSE, ackTimer |-> FALSE, assocTimer |-> FALSE]

Init ==
    /\ node = [n \in Node |-> InitModule(n)]
    /\ iterationTimer = TRUE
    /\ air = {}
    /\ sent = 0 /\ got = [n \in Node |-> {}]
    /\ damaged = {} /\ lost = 0 /\ disturbed = FALSE

-----------------------------------------------------------------------------
(* Messages *)

Nbr(n) == {r \in Node : Link[n][r] # {}}

ToAll(n, m) == {[m EXCEPT !.to = r] : r \in Nbr(n)}
ToOne(n, d, m) == {[m EXCEPT !.to = r] : r \in Nbr(n) \cap {d}}

Packet(kind, n) == [kind |-> kind, src |-> n, to |-> n, initialSrc |-> n,
                    status |-> "ISOLATED", metric |-> 0, iteration |-> node[n].iterationStep, id |-> 0]

Message == [kind : {"ITERATION_START", "JOIN_REQUEST", "ACK_JOIN", "PROPAGATE", "DATA"},
            src : Node, to : Node, initialSrc : Node, status : Status,
            metric : 0..MaxMetric, iteration : Nat, id : 0..MaxData]

Data(m) == m.kind = "DATA"
Control == {m \in air : ~Data(m)}

-----------------------------------------------------------------------------
(* The metric *)

Cheapest(m, S) == {x \in S : \A y \in S : m.neighbours[x] <= m.neighbours[y]}

OneHopMore(metric) == IF metric = MaxMetric THEN MaxMetric ELSE metric + 1

Metric(m) == CASE m.currNodeState = "ISOLATED" -> MaxMetric
               [] m.currNodeState = "SINK"     -> 0
               [] m.currNodeState = "IN_TREE"  -> m.neighbours[m.myParentInTree]

-----------------------------------------------------------------------------
(* Timers *)

\* The timers of an iteration are over before the next: iterationDelay is longer than
\* decisionDelay and the two other delays together.  What was sent may still be on its way.
TimersOver ==
    \A n \in Node : ~(node[n].decisionTimer \/ node[n].ackTimer \/ node[n].assocTimer)

\* Another iteration is started if the last one has changed the tree, or a few times more.
TriesAgain(m) == ~m.treeUpdated /\ m.nbNoUpdates < maxNoUpdates

IterationTimer ==
    LET root == sinkAddress
        m == node[root]
        more == m.treeUpdated \/ TriesAgain(m)
        start == [Packet("ITERATION_START", root)
                    EXCEPT !.iteration = @ + 1, !.status = "SINK"]
    IN  /\ iterationTimer /\ TimersOver
        /\ iterationTimer' = more
        /\ IF more
           THEN /\ node' = [node EXCEPT ![root] =
                     [m EXCEPT !.iterationStep = @ + 1, !.inTree = {}, !.notInTree = {},
                               !.nbNoUpdates = IF TriesAgain(m) THEN @ + 1 ELSE @,
                               !.treeUpdated = FALSE, !.decisionTimer = TRUE,
                               !.currFSMState = "WAITDECISION"]]
                /\ air' = air \cup ToAll(root, start)
           ELSE UNCHANGED <<node, air>>
        /\ disturbed' = (disturbed \/ Control # {})
        /\ UNCHANGED <<sent, got, damaged, lost>>

\* decisionDelay is "large enough so that all nodes have received the iteration message".
Decides(n) == node[n].decisionTimer /\ \A m \in air : m.kind # "ITERATION_START"

\* An isolated node takes its favorite parent, or NoNode.
ChooseParent(n) ==
    /\ Decides(n) /\ node[n].currNodeState = "ISOLATED"
    /\ \E p \in IF node[n].inTree = {} THEN {NoNode} ELSE Cheapest(node[n], node[n].inTree) :
         node' = [node EXCEPT ![n].favoriteParent = p, ![n].decisionTimer = FALSE,
                              ![n].currFSMState = "WAITREQUEST",
                              ![n].assocTimer = (p # NoNode)]
    /\ UNCHANGED <<iterationTimer, air, sent, got, damaged, disturbed, lost>>

ChooseChild(n) ==
    /\ Decides(n) /\ node[n].currNodeState # "ISOLATED" /\ node[n].notInTree # {}
    /\ \E c \in Cheapest(node[n], node[n].notInTree) :
         air' = air \cup ToOne(n, c, Packet("JOIN_REQUEST", n))
    /\ node' = [node EXCEPT ![n].decisionTimer = FALSE, ![n].ackTimer = TRUE,
                            ![n].currFSMState = "WAITREPLY"]
    /\ UNCHANGED <<iterationTimer, sent, got, damaged, disturbed, lost>>

NothingToDecide(n) ==
    /\ Decides(n) /\ node[n].currNodeState # "ISOLATED" /\ node[n].notInTree = {}
    /\ node' = [node EXCEPT ![n].decisionTimer = FALSE]
    /\ UNCHANGED <<iterationTimer, air, sent, got, damaged, disturbed, lost>>

\* May what n waits for still come?
Outstanding == Control # {} \/ \E n \in Node : node[n].decisionTimer

AckTimer(n) ==
    /\ node[n].ackTimer
    /\ node' = [node EXCEPT ![n].ackTimer = FALSE, ![n].currFSMState = "IDLE"]
    /\ disturbed' = (disturbed \/ Outstanding)
    /\ UNCHANGED <<iterationTimer, air, sent, got, damaged, lost>>

AssocTimer(n) ==
    /\ node[n].assocTimer
    /\ node' = [node EXCEPT ![n].assocTimer = FALSE, ![n].currFSMState = "IDLE"]
    /\ disturbed' = (disturbed \/ Outstanding)
    /\ UNCHANGED <<iterationTimer, air, sent, got, damaged, lost>>

-----------------------------------------------------------------------------
(* handleLowerMsg *)

Receive(m, kind) == m \in air /\ m.kind = kind

\* A new iteration is noted and told to the neighbours.
NewIteration(n, m) == node[n].iterationStep < m.iteration

Begin(mod, i) ==
    [mod EXCEPT !.iterationStep = i, !.inTree = {}, !.notInTree = {},
                !.decisionTimer = TRUE, !.currFSMState = "WAITDECISION"]

\* The sender of an ITERATION_START is entered in the lists, and its cost too if the
\* link is good.
Hear(mod, m, quality) ==
    [mod EXCEPT !.neighbours[m.src] = IF quality = "good" THEN OneHopMore(m.metric) ELSE @,
                !.inTree = IF m.status # "ISOLATED" THEN @ \cup {m.src} ELSE @,
                !.notInTree = IF m.status = "ISOLATED" THEN @ \cup {m.src} ELSE @]

IterationStart(m, quality) ==
    LET n == m.to
        new == NewIteration(n, m)
        repeat == [m EXCEPT !.src = n, !.status = node[n].currNodeState, !.metric = Metric(node[n])]
    IN  /\ Receive(m, "ITERATION_START") /\ quality \in Link[m.src][n]
        /\ node' = [node EXCEPT ![n] = Hear(IF new THEN Begin(@, m.iteration) ELSE @, m, quality)]
        /\ air' = (air \ {m}) \cup IF new THEN ToAll(n, repeat) ELSE {}
        /\ UNCHANGED <<iterationTimer, sent, got, damaged, disturbed, lost>>

\* Seeded fault: a node that has joined in this iteration joins again
WaitsForRequestAgain(n) == node[n].currNodeState # "SINK" /\ node[n].currFSMState # "WAITDECISION"

WaitsForRequest(n) == node[n].currFSMState = "WAITREQUEST"

\* The favorite parent, or one that costs no more
Accepts(mod, p) == p = mod.favoriteParent \/ mod.neighbours[p] <= mod.neighbours[mod.favoriteParent]

JoinRequest(m) ==
    LET n == m.to IN
    /\ Receive(m, "JOIN_REQUEST")
    /\ IF WaitsForRequest(n) /\ Accepts(node[n], m.src)
       THEN /\ node' = [node EXCEPT ![n].favoriteParent = m.src, ![n].myParentInTree = m.src,
                                    ![n].currNodeState = "IN_TREE", ![n].currFSMState = "IDLE",
                                    ![n].assocTimer = FALSE]
            /\ air' = (air \ {m}) \cup ToOne(n, m.src, Packet("ACK_JOIN", n))
       ELSE /\ air' = air \ {m}
            /\ UNCHANGED node
    /\ disturbed' = (disturbed \/ node[n].currFSMState = "WAITDECISION")
    /\ UNCHANGED <<iterationTimer, sent, got, damaged, lost>>

\* Seeded fault: the parent of a node that has got a child does not hear of it
TellsNobody(n, child) == {}

\* A new child is told to the parent, on the way to the sink.
TellsParent(n, child) ==
    IF node[n].currNodeState = "SINK" THEN {}
    ELSE ToOne(n, node[n].myParentInTree, [Packet("PROPAGATE", n) EXCEPT !.initialSrc = child])

AckJoin(m) ==
    LET n == m.to IN
    /\ Receive(m, "ACK_JOIN")
    /\ IF node[n].currFSMState = "WAITREPLY"
       THEN /\ node' = [node EXCEPT ![n].subTree[m.src] = m.src, ![n].treeUpdated = TRUE,
                                    ![n].ackTimer = FALSE, ![n].currFSMState = "IDLE"]
            /\ air' = (air \ {m}) \cup TellsParent(n, m.src)
       ELSE /\ air' = air \ {m}
            /\ UNCHANGED node
    /\ UNCHANGED <<iterationTimer, sent, got, damaged, disturbed, lost>>

\* subTree[a, b] is subTree[b]: an entry for the sender is made, and 0, if there is none.
Propagate(m) ==
    LET n == m.to IN
    /\ Receive(m, "PROPAGATE")
    /\ node' = [node EXCEPT ![n].treeUpdated = TRUE,
                            ![n].subTree[m.src] = IF @ = NoNode THEN sinkAddress ELSE @]
    /\ air' = (air \ {m}) \cup IF node[n].currNodeState = "SINK" THEN {}
                               ELSE ToOne(n, node[n].myParentInTree, m)
    /\ UNCHANGED <<iterationTimer, sent, got, damaged, disturbed, lost>>

-----------------------------------------------------------------------------
(* Data *)

\* Seeded fault: the test is the wrong way round, and a missing entry is 0
getRouteSwapped(mod, d) == IF mod.subTree[d] # NoNode THEN mod.myParentInTree ELSE sinkAddress

getRoute(mod, d) == IF mod.subTree[d] # NoNode THEN mod.subTree[d] ELSE mod.myParentInTree

\* handleUpperMsg.  The final destination is used here only: encapsMsg does not write it
\* into the packet, where it is 0.
handleUpperMsg(n, d) ==
    /\ d \in Dest[n]
    /\ sent < MaxData
    /\ sent' = sent + 1
    /\ air' = air \cup ToOne(n, getRoute(node[n], d), [Packet("DATA", n) EXCEPT !.id = sent + 1])
    /\ damaged' = IF node[n].currNodeState = "ISOLATED" \/ d # sinkAddress
                  THEN damaged \cup {sent + 1} ELSE damaged
    /\ UNCHANGED <<node, iterationTimer, got, disturbed, lost>>

routeDataPacket(m) ==
    LET n == m.to IN
    /\ Receive(m, "DATA")
    /\ IF n = sinkAddress
       THEN /\ got' = [got EXCEPT ![n] = @ \cup {m.id}]
            /\ air' = air \ {m}
       ELSE /\ air' = (air \ {m}) \cup ToOne(n, getRoute(node[n], sinkAddress), [m EXCEPT !.src = n])
            /\ UNCHANGED got
    /\ UNCHANGED <<node, iterationTimer, sent, damaged, disturbed, lost>>

\* The MAC or the medium loses a copy.
Lose(m) ==
    /\ m \in air /\ lost < MaxLosses
    /\ lost' = lost + 1
    /\ air' = air \ {m}
    /\ damaged' = IF Data(m) THEN damaged \cup {m.id} ELSE damaged
    /\ disturbed' = (disturbed \/ ~Data(m))
    /\ UNCHANGED <<node, iterationTimer, sent, got>>

-----------------------------------------------------------------------------

Next ==
    \/ IterationTimer
    \/ \E n \in Node : \/ ChooseParent(n) \/ ChooseChild(n) \/ NothingToDecide(n)
                       \/ AckTimer(n) \/ AssocTimer(n)
                       \/ \E d \in Dest[n] : handleUpperMsg(n, d)
    \/ \E m \in air : \/ JoinRequest(m) \/ AckJoin(m) \/ Propagate(m)
                      \/ routeDataPacket(m) \/ Lose(m)
                      \/ \E quality \in Link[m.src][m.to] : IterationStart(m, quality)

Spec == Init /\ [][Next]_vars

-----------------------------------------------------------------------------
(* Properties *)

TypeOK ==
    /\ node \in [Node -> Module] /\ air \subseteq Message
    /\ iterationTimer \in BOOLEAN /\ disturbed \in BOOLEAN
    /\ sent \in 0..MaxData /\ got \in [Node -> SUBSET (0..MaxData)] /\ damaged \subseteq 0..MaxData
    /\ lost \in 0..MaxLosses

Tree == INSTANCE SpanningTree
            WITH Root <- sinkAddress, NoParent <- NoNode,
                 parent <- [n \in Node |-> IF node[n].currNodeState = "IN_TREE"
                                           THEN node[n].myParentInTree ELSE NoNode]

\* The parents grow as a tree does, whatever is lost and whichever timer is early: a
\* node joins once, and its parent has joined before.
ParentsGrowTree == Tree!Spec

\* The sink stops when "Tree is complete !": if no request, no answer and no news of a
\* new node was lost or late, every node is in the tree then.
StopsWhenComplete ==
    ~iterationTimer /\ ~disturbed => \A n \in Node : node[n].currNodeState # "ISOLATED"

OnItsWay(i) == \E m \in air : Data(m) /\ m.id = i

\* Data of a node in the tree for the sink comes to the sink if no copy of it is lost,
\* even while nodes join and requests go astray.
DataReachesSink == \A i \in 1..sent : i \in damaged \/ OnItsWay(i) \/ i \in got[sinkAddress]
=============================================================================
