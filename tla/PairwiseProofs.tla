---------------------------- MODULE PairwiseProofs ----------------------------
(**************************************************************************)
(* The parents of pairwise grow as a tree, for any network, any quality   *)
(* of its links, any loss and any timer that is early.  Data comes to the *)
(* sink along them.  Where the links are good, the sink stops when the    *)
(* tree is complete, unless a request or an answer was lost or late.      *)
(**************************************************************************)
EXTENDS Pairwise, WellFoundedInduction, TLAPS

\* What a module never stops to be: the sink or not, and isolated while it waits to be asked
ModuleOK(n, mod) ==
    /\ mod \in Module
    /\ mod.currNodeState = "SINK" <=> n = sinkAddress
    /\ mod.currFSMState = "WAITREQUEST" => mod.currNodeState = "ISOLATED"

Isolated(n) == node[n].currNodeState = "ISOLATED"

\* Who asks another node to join is in the tree.
AskersJoined == \A m \in air : m.kind = "JOIN_REQUEST" => ~Isolated(m.src)

IInv ==
    /\ TypeOK
    /\ \A n \in Node : ModuleOK(n, node[n])
    /\ AskersJoined

\* Nobody leaves the tree, and only copies made by members ask.
Grows ==
    /\ \A n \in Node : ModuleOK(n, node'[n])
    /\ \A n \in Node : ~Isolated(n) => node'[n].currNodeState # "ISOLATED"
    /\ node' \in [Node -> Module]

LEMMA InitModuleOK == ASSUME NEW n \in Node PROVE ModuleOK(n, InitModule(n))
<1>1. InitModule(n) \in Module
  BY PairwiseAssumption DEF InitModule, Module, Status, FSMState
<1>. QED  BY <1>1 DEF ModuleOK, InitModule

LEMMA InitIInv == Init => IInv
<1>. SUFFICES ASSUME Init PROVE IInv
  OBVIOUS
<1>1. \A n \in Node : ModuleOK(n, node[n])
  BY InitModuleOK DEF Init
<1>2. node \in [Node -> Module]
  BY InitModuleOK DEF Init, ModuleOK
<1>3. air \subseteq Message /\ AskersJoined
  BY DEF Init, AskersJoined
<1>4. iterationTimer \in BOOLEAN /\ disturbed \in BOOLEAN
  BY DEF Init
<1>5. /\ sent \in 0..MaxData /\ damaged \subseteq 0..MaxData /\ lost \in 0..MaxLosses
      /\ got \in [Node -> SUBSET (0..MaxData)]
  BY PairwiseAssumption DEF Init
<1>. QED  BY <1>1, <1>2, <1>3, <1>4, <1>5 DEF IInv, TypeOK

\* A step changes one module at most.
LEMMA OneModule ==
  ASSUME IInv, NEW n \in Node, NEW mod, ModuleOK(n, mod),
         mod.currNodeState = "ISOLATED" => Isolated(n),
         node' = [node EXCEPT ![n] = mod]
  PROVE  Grows
BY DEF Grows, IInv, TypeOK, ModuleOK, Isolated

LEMMA NoModule == ASSUME IInv, node' = node PROVE Grows
BY DEF Grows, IInv, TypeOK, Isolated

LEMMA Keeps ==
  ASSUME IInv, Grows, NEW New, New \subseteq Message, air' \subseteq air \cup New,
         \A m \in New : m.kind = "JOIN_REQUEST" => node'[m.src].currNodeState # "ISOLATED",
         iterationTimer' \in BOOLEAN, disturbed' \in BOOLEAN, sent' \in 0..MaxData,
         got' \in [Node -> SUBSET (0..MaxData)], damaged' \subseteq 0..MaxData, lost' \in 0..MaxLosses
  PROVE  IInv'
<1>1. TypeOK'
  BY DEF IInv, TypeOK, Grows
<1>2. ASSUME NEW m \in air', m.kind = "JOIN_REQUEST" PROVE ~Isolated(m.src)'
  <2>1. CASE m \in air
    <3>1. ~Isolated(m.src) /\ m.src \in Node
      BY <1>2, <2>1 DEF IInv, AskersJoined, TypeOK, Message
    <3>. QED  BY <3>1 DEF Grows, Isolated
  <2>2. CASE m \in New
    BY <1>2, <2>2 DEF Isolated
  <2>. QED  BY <2>1, <2>2
<1>. QED  BY <1>1, <1>2 DEF IInv, Grows, AskersJoined, ModuleOK, Isolated

\* The copies of a message differ from it in the addressee only.
LEMMA CopyType ==
  ASSUME NEW n \in Node, NEW d, NEW m \in Message, NEW c \in ToAll(n, m) \cup ToOne(n, d, m)
  PROVE  c \in Message /\ c.kind = m.kind /\ c.src = m.src
<1>1. PICK r \in Node : c = [m EXCEPT !.to = r]
  BY DEF ToAll, ToOne, Nbr
<1>. QED  BY <1>1 DEF Message

LEMMA PacketType ==
  ASSUME IInv, NEW n \in Node,
         NEW kind \in {"ITERATION_START", "JOIN_REQUEST", "ACK_JOIN", "PROPAGATE", "DATA"}
  PROVE  Packet(kind, n) \in Message /\ Packet(kind, n).kind = kind /\ Packet(kind, n).src = n
<1>1. node[n].iterationStep \in Nat
  BY DEF IInv, TypeOK, Module
<1>2. 0 \in 0..MaxMetric /\ 0 \in 0..MaxData
  BY PairwiseAssumption
<1>. QED  BY <1>1, <1>2 DEF Packet, Message, Status

\* What the other variables may be in a step of the protocol that sends New
LEMMA ControlStep ==
  ASSUME IInv, Grows, NEW New, New \subseteq Message, air' \subseteq air \cup New,
         \A m \in New : m.kind = "JOIN_REQUEST" => node'[m.src].currNodeState # "ISOLATED",
         iterationTimer' \in BOOLEAN, disturbed' \in BOOLEAN,
         UNCHANGED <<sent, got, damaged, lost>>
  PROVE  IInv'
BY Keeps DEF IInv, TypeOK

LEMMA QuietStep ==
  ASSUME IInv, Grows, air' \subseteq air, iterationTimer' \in BOOLEAN, disturbed' \in BOOLEAN,
         UNCHANGED <<sent, got, damaged, lost>>
  PROVE  IInv'
<1>. DEFINE New == {}
<1>1. New \subseteq Message /\ air' \subseteq air \cup New /\ \A m \in New : m.kind # "JOIN_REQUEST"
  OBVIOUS
<1>. HIDE DEF New
<1>. QED  BY <1>1, ControlStep

LEMMA IterationTimerStep == ASSUME IInv, IterationTimer PROVE IInv'
<1>. DEFINE s == sinkAddress
            start == [Packet("ITERATION_START", s) EXCEPT !.iteration = @ + 1, !.status = "SINK"]
            mod == [node[s] EXCEPT !.iterationStep = @ + 1, !.inTree = {}, !.notInTree = {},
                       !.nbNoUpdates = IF TriesAgain(node[s]) THEN @ + 1 ELSE @,
                       !.treeUpdated = FALSE, !.decisionTimer = TRUE,
                       !.currFSMState = "WAITDECISION"]
<1>0. s \in Node /\ node[s] \in Module /\ ModuleOK(s, node[s])
  BY PairwiseAssumption DEF IInv, TypeOK
<1>a. iterationTimer' \in BOOLEAN
  BY DEF IterationTimer, IInv, TypeOK, Module, TriesAgain
<1>b. disturbed' \in BOOLEAN
  <2>1. disturbed \in BOOLEAN /\ (Control # {}) \in BOOLEAN
    BY DEF IInv, TypeOK
  <2>2. disturbed' = (disturbed \/ Control # {})
    BY DEF IterationTimer
  <2>. QED  BY <2>1, <2>2
<1>1. start \in Message /\ start.kind = "ITERATION_START"
  <2>. DEFINE pkt == Packet("ITERATION_START", s)
  <2>1. pkt \in Message /\ pkt.kind = "ITERATION_START"
    BY <1>0, PacketType
  <2>. HIDE DEF pkt
  <2>2. pkt.iteration + 1 \in Nat
    BY <2>1 DEF Message
  <2>3. start = [pkt EXCEPT !.iteration = @ + 1, !.status = "SINK"]
    BY DEF pkt
  <2>. HIDE DEF start
  <2>. QED  BY <2>1, <2>2, <2>3 DEF Message, Status
<1>2. ModuleOK(s, mod) /\ mod.currNodeState = "SINK"
  <2>. DEFINE k == IF TriesAgain(node[s]) THEN node[s].nbNoUpdates + 1 ELSE node[s].nbNoUpdates
              j == node[s].iterationStep + 1
  <2>1. k \in 0..maxNoUpdates /\ j \in Nat
    BY <1>0, PairwiseAssumption DEF Module, TriesAgain
  <2>2. mod = [node[s] EXCEPT !.iterationStep = j, !.inTree = {}, !.notInTree = {},
                 !.nbNoUpdates = k, !.treeUpdated = FALSE, !.decisionTimer = TRUE,
                 !.currFSMState = "WAITDECISION"]
    BY <1>0 DEF Module
  <2>. HIDE DEF mod, k, j
  <2>. QED  BY <1>0, <2>1, <2>2 DEF ModuleOK, Module, FSMState
<1>3. CASE node' = [node EXCEPT ![s] = mod] /\ air' = air \cup ToAll(s, start)
  <2>. HIDE DEF mod, start
  <2>1. Grows
    BY <1>0, <1>2, <1>3, OneModule DEF Isolated
  <2>2. \A c \in ToAll(s, start) : c \in Message /\ c.kind = "ITERATION_START"
    BY <1>0, <1>1, CopyType
  <2>. QED  BY <1>a, <1>b, <2>1, <2>2, <1>3, ControlStep DEF IterationTimer
<1>4. CASE UNCHANGED <<node, air>>
  BY <1>4, <1>a, <1>b, NoModule, QuietStep DEF IterationTimer
<1>. QED  BY <1>3, <1>4 DEF IterationTimer

LEMMA DecisionStep ==
  ASSUME IInv, NEW n \in Node, ChooseParent(n) \/ ChooseChild(n) \/ NothingToDecide(n)
  PROVE  IInv'
<1>0. node[n] \in Module /\ ModuleOK(n, node[n])
  BY DEF IInv, TypeOK
<1>1. CASE ChooseParent(n)
  <2>1. PICK p \in IF node[n].inTree = {} THEN {NoNode} ELSE Cheapest(node[n], node[n].inTree) :
           node' = [node EXCEPT ![n].favoriteParent = p, ![n].decisionTimer = FALSE,
                                ![n].currFSMState = "WAITREQUEST",
                                ![n].assocTimer = (p # NoNode)]
    BY <1>1 DEF ChooseParent
  <2>. DEFINE mod == [node[n] EXCEPT !.favoriteParent = p, !.decisionTimer = FALSE,
                                     !.currFSMState = "WAITREQUEST", !.assocTimer = (p # NoNode)]
  <2>2. p \in Node \cup {NoNode}
    BY <1>0 DEF Cheapest, Module
  <2>3. ModuleOK(n, mod) /\ mod.currNodeState = "ISOLATED"
    BY <1>0, <1>1, <2>2 DEF ModuleOK, Module, FSMState, ChooseParent
  <2>4. node' = [node EXCEPT ![n] = mod]
    BY <2>1
  <2>. HIDE DEF mod
  <2>5. Grows
    BY <1>1, <2>3, <2>4, OneModule DEF ChooseParent, Isolated
  <2>. QED  BY <1>1, <2>5, QuietStep DEF ChooseParent, IInv, TypeOK
<1>2. CASE ChooseChild(n)
  <2>1. PICK c : air' = air \cup ToOne(n, c, Packet("JOIN_REQUEST", n))
    BY <1>2 DEF ChooseChild
  <2>. DEFINE mod == [node[n] EXCEPT !.decisionTimer = FALSE, !.ackTimer = TRUE,
                                     !.currFSMState = "WAITREPLY"]
  <2>2. ModuleOK(n, mod) /\ mod.currNodeState # "ISOLATED" /\ node' = [node EXCEPT ![n] = mod]
    BY <1>0, <1>2 DEF ModuleOK, Module, FSMState, ChooseChild
  <2>. HIDE DEF mod
  <2>3. Grows
    BY <1>2, <2>2, OneModule
  <2>4. \A k \in ToOne(n, c, Packet("JOIN_REQUEST", n)) : k \in Message /\ k.src = n
    BY PacketType, CopyType
  <2>5. node'[n].currNodeState # "ISOLATED"
    BY <2>2 DEF IInv, TypeOK
  <2>. QED  BY <1>2, <2>1, <2>3, <2>4, <2>5, ControlStep DEF ChooseChild, IInv, TypeOK
<1>3. CASE NothingToDecide(n)
  <2>. DEFINE mod == [node[n] EXCEPT !.decisionTimer = FALSE]
  <2>1. ModuleOK(n, mod) /\ mod.currNodeState # "ISOLATED" /\ node' = [node EXCEPT ![n] = mod]
    BY <1>0, <1>3 DEF ModuleOK, Module, NothingToDecide
  <2>. HIDE DEF mod
  <2>. QED  BY <1>3, <2>1, OneModule, QuietStep DEF NothingToDecide, IInv, TypeOK
<1>. QED  BY <1>1, <1>2, <1>3

LEMMA TimeoutStep ==
  ASSUME IInv, NEW n \in Node, AckTimer(n) \/ AssocTimer(n)
  PROVE  IInv'
<1>0. node[n] \in Module /\ ModuleOK(n, node[n])
  BY DEF IInv, TypeOK
<1>1. CASE AckTimer(n)
  <2>. DEFINE mod == [node[n] EXCEPT !.ackTimer = FALSE, !.currFSMState = "IDLE"]
  <2>1. /\ ModuleOK(n, mod) /\ node' = [node EXCEPT ![n] = mod]
        /\ mod.currNodeState = "ISOLATED" => Isolated(n)
    BY <1>0, <1>1 DEF ModuleOK, Module, FSMState, AckTimer, Isolated
  <2>2. disturbed' \in BOOLEAN
    BY <1>1 DEF AckTimer, IInv, TypeOK, Outstanding, Control
  <2>. HIDE DEF mod
  <2>. QED  BY <1>1, <2>1, <2>2, OneModule, QuietStep DEF AckTimer, IInv, TypeOK
<1>2. CASE AssocTimer(n)
  <2>. DEFINE mod == [node[n] EXCEPT !.assocTimer = FALSE, !.currFSMState = "IDLE"]
  <2>1. /\ ModuleOK(n, mod) /\ node' = [node EXCEPT ![n] = mod]
        /\ mod.currNodeState = "ISOLATED" => Isolated(n)
    BY <1>0, <1>2 DEF ModuleOK, Module, FSMState, AssocTimer, Isolated
  <2>2. disturbed' \in BOOLEAN
    BY <1>2 DEF AssocTimer, IInv, TypeOK, Outstanding, Control
  <2>. HIDE DEF mod
  <2>. QED  BY <1>2, <2>1, <2>2, OneModule, QuietStep DEF AssocTimer, IInv, TypeOK
<1>. QED  BY <1>1, <1>2

-----------------------------------------------------------------------------
(* handleLowerMsg *)

LEMMA CopyOnAir ==
  ASSUME IInv, NEW m \in air
  PROVE  /\ m \in Message /\ m.to \in Node /\ m.src \in Node
         /\ node[m.to] \in Module /\ ModuleOK(m.to, node[m.to])
BY DEF IInv, TypeOK, Message

LEMMA MetricType == ASSUME NEW mod \in Module PROVE Metric(mod) \in 0..MaxMetric
<1>1. mod.currNodeState \in Status /\ mod.neighbours[mod.myParentInTree] \in 0..MaxMetric
  BY DEF Module
<1>. QED  BY <1>1, PairwiseAssumption DEF Metric, Status

\* Hearing of an iteration neither joins nor isolates.
LEMMA HearOK ==
  ASSUME IInv, NEW m \in air, NEW quality, NEW mod, ModuleOK(m.to, mod)
  PROVE  /\ ModuleOK(m.to, Hear(mod, m, quality))
         /\ Hear(mod, m, quality).currNodeState = mod.currNodeState
<1>1. m \in Message
  BY CopyOnAir
<1>. DEFINE cost == IF quality = "good" THEN OneHopMore(m.metric) ELSE mod.neighbours[m.src]
            yes == IF m.status # "ISOLATED" THEN mod.inTree \cup {m.src} ELSE mod.inTree
            no == IF m.status = "ISOLATED" THEN mod.notInTree \cup {m.src} ELSE mod.notInTree
<1>2. OneHopMore(m.metric) \in 0..MaxMetric
  <2>1. m.metric \in 0..MaxMetric
    BY <1>1 DEF Message
  <2>2. MaxMetric \in Nat
    BY PairwiseAssumption
  <2>3. m.metric # MaxMetric => m.metric + 1 \in 0..MaxMetric
    BY <2>1, <2>2
  <2>4. MaxMetric \in 0..MaxMetric
    BY <2>2
  <2>. QED  BY <2>3, <2>4 DEF OneHopMore
<1>3. cost \in 0..MaxMetric /\ yes \in SUBSET Node /\ no \in SUBSET Node
  <2>1. m.src \in Node /\ mod.neighbours \in [Node \cup {NoNode} -> 0..MaxMetric]
    BY <1>1 DEF Message, ModuleOK, Module
  <2>2. mod.inTree \in SUBSET Node /\ mod.notInTree \in SUBSET Node
    BY DEF ModuleOK, Module
  <2>. QED  BY <1>2, <2>1, <2>2
<1>4. Hear(mod, m, quality) = [mod EXCEPT !.neighbours[m.src] = cost, !.inTree = yes, !.notInTree = no]
  BY DEF Hear, ModuleOK, Module
<1>. DEFINE costs == [mod.neighbours EXCEPT ![m.src] = cost]
<1>. HIDE DEF cost, yes, no
<1>5. costs \in [Node \cup {NoNode} -> 0..MaxMetric]
  BY <1>1, <1>3 DEF Message, ModuleOK, Module
<1>6. Hear(mod, m, quality) = [mod EXCEPT !.neighbours = costs, !.inTree = yes, !.notInTree = no]
  BY <1>4
<1>. HIDE DEF costs
<1>. DEFINE res == [mod EXCEPT !.neighbours = costs, !.inTree = yes, !.notInTree = no]
<1>7. mod \in Module
  BY DEF ModuleOK
<1>8. res \in Module
  BY <1>3, <1>5, <1>7 DEF Module
<1>9. res.currNodeState = mod.currNodeState /\ res.currFSMState = mod.currFSMState
  BY <1>7 DEF Module
<1>. HIDE DEF res
<1>10. Hear(mod, m, quality) = res
  BY <1>6 DEF res
<1>. QED  BY <1>8, <1>9, <1>10 DEF ModuleOK

LEMMA BeginOK ==
  ASSUME NEW n, NEW mod, ModuleOK(n, mod), NEW i \in Nat
  PROVE  ModuleOK(n, Begin(mod, i)) /\ Begin(mod, i).currNodeState = mod.currNodeState
BY DEF ModuleOK, Begin, Module, FSMState

LEMMA IterationStartStep ==
  ASSUME IInv, NEW m \in air, NEW quality, IterationStart(m, quality)
  PROVE  IInv'
<1>. DEFINE n == m.to
            old == IF NewIteration(n, m) THEN Begin(node[n], m.iteration) ELSE node[n]
            repeat == [m EXCEPT !.src = n, !.status = node[n].currNodeState, !.metric = Metric(node[n])]
            New == IF NewIteration(n, m) THEN ToAll(n, repeat) ELSE {}
<1>0. m \in Message /\ n \in Node /\ node[n] \in Module /\ ModuleOK(n, node[n])
  BY CopyOnAir
<1>1. ModuleOK(n, old) /\ old.currNodeState = node[n].currNodeState
  <2>1. m.iteration \in Nat
    BY <1>0 DEF Message
  <2>. QED  BY <1>0, <2>1, BeginOK
<1>2. node' = [node EXCEPT ![n] = Hear(old, m, quality)]
  BY DEF IterationStart
<1>3. repeat \in Message /\ repeat.kind = "ITERATION_START"
  <2>1. Metric(node[n]) \in 0..MaxMetric /\ node[n].currNodeState \in Status
    BY <1>0, MetricType DEF Module
  <2>2. m.kind = "ITERATION_START"
    BY DEF IterationStart, Receive
  <2>. QED  BY <1>0, <2>1, <2>2 DEF Message
<1>4. air' \subseteq air \cup New
  BY DEF IterationStart
<1>. HIDE DEF old, repeat
<1>5. Grows
  BY <1>0, <1>1, <1>2, HearOK, OneModule DEF Isolated
<1>6. \A c \in New : c \in Message /\ c.kind # "JOIN_REQUEST"
  BY <1>0, <1>3, CopyType
<1>. HIDE DEF New
<1>. QED  BY <1>4, <1>5, <1>6, ControlStep DEF IterationStart, IInv, TypeOK

\* Who joins was isolated, and its parent had joined before.
LEMMA JoinRequestStep ==
  ASSUME IInv, NEW m \in air, JoinRequest(m)
  PROVE  /\ IInv'
         /\ \/ node' = node
            \/ /\ Isolated(m.to) /\ ~Isolated(m.src)
               /\ node'[m.to].currNodeState = "IN_TREE" /\ node'[m.to].myParentInTree = m.src
               /\ node'[m.to].subTree = node[m.to].subTree
               /\ \A k \in Node \ {m.to} : node'[k] = node[k]
<1>. DEFINE n == m.to
            mod == [node[n] EXCEPT !.favoriteParent = m.src, !.myParentInTree = m.src,
                                   !.currNodeState = "IN_TREE", !.currFSMState = "IDLE",
                                   !.assocTimer = FALSE]
            New == ToOne(n, m.src, Packet("ACK_JOIN", n))
<1>0. m \in Message /\ n \in Node /\ m.src \in Node /\ node[n] \in Module /\ ModuleOK(n, node[n])
  BY CopyOnAir
<1>1. disturbed' \in BOOLEAN
  BY DEF JoinRequest, IInv, TypeOK
<1>2. CASE WaitsForRequest(n) /\ Accepts(node[n], m.src)
  <2>1. node' = [node EXCEPT ![n] = mod] /\ air' \subseteq air \cup New
    BY <1>2 DEF JoinRequest
  <2>2. Isolated(n) /\ n # sinkAddress
    BY <1>0, <1>2 DEF WaitsForRequest, ModuleOK, Isolated
  <2>3. ~Isolated(m.src)
    BY DEF JoinRequest, Receive, IInv, AskersJoined
  <2>4. ModuleOK(n, mod)
    BY <1>0, <2>2 DEF ModuleOK, Module, Status, FSMState
  <2>5. /\ mod.currNodeState = "IN_TREE" /\ mod.myParentInTree = m.src
        /\ mod.subTree = node[n].subTree
    BY <1>0 DEF Module
  <2>. HIDE DEF mod
  <2>6. \A c \in New : c \in Message /\ c.kind # "JOIN_REQUEST"
    BY <1>0, PacketType, CopyType
  <2>7. Grows
    BY <1>0, <2>1, <2>2, <2>4, <2>5, OneModule
  <2>. HIDE DEF New
  <2>8. IInv'
    BY <1>1, <2>1, <2>6, <2>7, ControlStep DEF JoinRequest, IInv, TypeOK
  <2>. QED  BY <1>0, <2>1, <2>2, <2>3, <2>5, <2>8 DEF IInv, TypeOK
<1>3. CASE ~(WaitsForRequest(n) /\ Accepts(node[n], m.src))
  <2>1. node' = node /\ air' \subseteq air
    BY <1>3 DEF JoinRequest
  <2>. QED  BY <1>1, <2>1, NoModule, QuietStep DEF JoinRequest, IInv, TypeOK
<1>. QED  BY <1>2, <1>3

LEMMA AckJoinStep == ASSUME IInv, NEW m \in air, AckJoin(m) PROVE IInv'
<1>. DEFINE n == m.to
            mod == [node[n] EXCEPT !.subTree[m.src] = m.src, !.treeUpdated = TRUE,
                                   !.ackTimer = FALSE, !.currFSMState = "IDLE"]
            New == TellsParent(n, m.src)
<1>0. m \in Message /\ n \in Node /\ m.src \in Node /\ node[n] \in Module /\ ModuleOK(n, node[n])
  BY CopyOnAir
<1>1. CASE node[n].currFSMState = "WAITREPLY"
  <2>1. node' = [node EXCEPT ![n] = mod] /\ air' \subseteq air \cup New
    BY <1>1 DEF AckJoin
  <2>2. [node[n].subTree EXCEPT ![m.src] = m.src] \in [Node -> Node \cup {NoNode}]
    BY <1>0 DEF Module
  <2>3. ModuleOK(n, mod) /\ mod.currNodeState = node[n].currNodeState
    BY <1>0, <2>2 DEF ModuleOK, Module, FSMState
  <2>4. \A c \in New : c \in Message /\ c.kind # "JOIN_REQUEST"
    <3>. DEFINE pkt == [Packet("PROPAGATE", n) EXCEPT !.initialSrc = m.src]
    <3>1. pkt \in Message /\ pkt.kind = "PROPAGATE"
      BY <1>0, PacketType DEF Message
    <3>. HIDE DEF pkt
    <3>2. \A c \in ToOne(n, node[n].myParentInTree, pkt) : c \in Message /\ c.kind # "JOIN_REQUEST"
      BY <1>0, <3>1, CopyType
    <3>. QED  BY <3>2 DEF TellsParent, pkt
  <2>. HIDE DEF mod, New
  <2>5. Grows
    BY <1>0, <2>1, <2>3, OneModule DEF Isolated
  <2>. QED  BY <2>1, <2>4, <2>5, ControlStep DEF AckJoin, IInv, TypeOK
<1>2. CASE node[n].currFSMState # "WAITREPLY"
  <2>1. node' = node /\ air' \subseteq air
    BY <1>2 DEF AckJoin
  <2>. QED  BY <2>1, NoModule, QuietStep DEF AckJoin, IInv, TypeOK
<1>. QED  BY <1>1, <1>2

LEMMA PropagateStep == ASSUME IInv, NEW m \in air, Propagate(m) PROVE IInv'
<1>. DEFINE n == m.to
            entry == IF node[n].subTree[m.src] = NoNode THEN sinkAddress ELSE node[n].subTree[m.src]
            mod == [node[n] EXCEPT !.treeUpdated = TRUE, !.subTree[m.src] = entry]
            New == IF node[n].currNodeState = "SINK" THEN {}
                   ELSE ToOne(n, node[n].myParentInTree, m)
<1>0. m \in Message /\ n \in Node /\ m.src \in Node /\ node[n] \in Module /\ ModuleOK(n, node[n])
  BY CopyOnAir
<1>1. node' = [node EXCEPT ![n] = mod] /\ air' \subseteq air \cup New
  BY <1>0 DEF Propagate, Module
<1>2. [node[n].subTree EXCEPT ![m.src] = entry] \in [Node -> Node \cup {NoNode}]
  BY <1>0, PairwiseAssumption DEF Module
<1>3. ModuleOK(n, mod) /\ mod.currNodeState = node[n].currNodeState
  BY <1>0, <1>2 DEF ModuleOK, Module
<1>4. \A c \in New : c \in Message /\ c.kind # "JOIN_REQUEST"
  <2>1. m.kind = "PROPAGATE"
    BY DEF Propagate, Receive
  <2>. QED  BY <1>0, <2>1, CopyType
<1>. HIDE DEF mod, New
<1>5. Grows
  BY <1>0, <1>1, <1>3, OneModule DEF Isolated
<1>. QED  BY <1>1, <1>4, <1>5, ControlStep DEF Propagate, IInv, TypeOK

-----------------------------------------------------------------------------
(* Data and losses *)

\* A step of the data leaves the modules alone.
LEMMA DataStep ==
  ASSUME IInv, NEW n \in Node, NEW d, NEW m \in Message, m.kind = "DATA",
         air' \subseteq air \cup ToOne(n, d, m), UNCHANGED <<node, iterationTimer, disturbed, lost>>,
         sent' \in 0..MaxData, got' \in [Node -> SUBSET (0..MaxData)], damaged' \subseteq 0..MaxData
  PROVE  IInv'
<1>. DEFINE New == ToOne(n, d, m)
<1>1. \A c \in New : c \in Message /\ c.kind # "JOIN_REQUEST"
  BY CopyType
<1>. HIDE DEF New
<1>2. Grows
  BY NoModule
<1>3. iterationTimer' \in BOOLEAN /\ disturbed' \in BOOLEAN /\ lost' \in 0..MaxLosses
  BY DEF IInv, TypeOK
<1>4. New \subseteq Message
  BY <1>1
<1>5. air' \subseteq air \cup New
  BY DEF New
<1>. QED  BY <1>1, <1>2, <1>3, <1>4, <1>5, Keeps

LEMMA UpperMsgStep == ASSUME IInv, NEW n \in Node, NEW d, handleUpperMsg(n, d) PROVE IInv'
<1>. DEFINE pkt == Packet("DATA", n)
            new == [pkt EXCEPT !.id = sent + 1]
<1>1. pkt \in Message /\ pkt.kind = "DATA"
  BY PacketType
<1>. HIDE DEF pkt
<1>2. sent + 1 \in 0..MaxData
  BY PairwiseAssumption DEF handleUpperMsg, IInv, TypeOK
<1>3. new \in Message /\ new.kind = "DATA"
  BY <1>1, <1>2 DEF Message
<1>4. air' \subseteq air \cup ToOne(n, getRoute(node[n], d), new)
  BY DEF handleUpperMsg, pkt
<1>. HIDE DEF new
<1>5. damaged' \subseteq 0..MaxData
  BY <1>2 DEF handleUpperMsg, IInv, TypeOK
<1>. QED  BY <1>2, <1>3, <1>4, <1>5, DataStep DEF handleUpperMsg, IInv, TypeOK

LEMMA RouteDataStep == ASSUME IInv, NEW m \in air, routeDataPacket(m) PROVE IInv'
<1>. DEFINE n == m.to
            new == [m EXCEPT !.src = n]
            hop == getRoute(node[n], sinkAddress)
<1>1. m \in Message /\ n \in Node /\ m.id \in 0..MaxData /\ m.kind = "DATA"
  BY CopyOnAir DEF Message, routeDataPacket, Receive
<1>2. new \in Message /\ new.kind = "DATA"
  BY <1>1 DEF Message
<1>3. air' \subseteq air \cup ToOne(n, hop, new)
  BY DEF routeDataPacket
<1>4. got' \in [Node -> SUBSET (0..MaxData)]
  <2>1. got[n] \cup {m.id} \in SUBSET (0..MaxData)
    BY <1>1 DEF IInv, TypeOK
  <2>. QED  BY <2>1, <1>1 DEF IInv, TypeOK, routeDataPacket
<1>. HIDE DEF new, hop
<1>. QED  BY <1>1, <1>2, <1>3, <1>4, DataStep DEF routeDataPacket, IInv, TypeOK

LEMMA LoseStep == ASSUME IInv, NEW m \in air, Lose(m) PROVE IInv'
<1>. DEFINE New == {}
<1>1. m.id \in 0..MaxData
  BY CopyOnAir DEF Message
<1>2. lost' \in 0..MaxLosses /\ damaged' \subseteq 0..MaxData /\ disturbed' \in BOOLEAN
  <2>1. disturbed' \in BOOLEAN
    BY DEF Lose, IInv, TypeOK
  <2>2. damaged' \subseteq 0..MaxData
    BY <1>1 DEF Lose, IInv, TypeOK
  <2>3. lost' \in 0..MaxLosses
    BY PairwiseAssumption DEF Lose, IInv, TypeOK
  <2>. QED  BY <2>1, <2>2, <2>3
<1>3. Grows
  BY NoModule DEF Lose
<1>4. air' \subseteq air \cup New
  BY DEF Lose
<1>5. New \subseteq Message /\ \A c \in New : c.kind # "JOIN_REQUEST"
  OBVIOUS
<1>. HIDE DEF New
<1>. QED  BY <1>2, <1>3, <1>4, <1>5, Keeps DEF Lose, IInv, TypeOK

-----------------------------------------------------------------------------

LEMMA Step == ASSUME IInv, [Next]_vars PROVE IInv'
<1>1. CASE UNCHANGED vars
  BY <1>1 DEF vars, IInv, TypeOK, AskersJoined, Isolated
<1>2. CASE IterationTimer
  BY <1>2, IterationTimerStep
<1>3. CASE \E n \in Node : ChooseParent(n) \/ ChooseChild(n) \/ NothingToDecide(n)
  BY <1>3, DecisionStep
<1>4. CASE \E n \in Node : AckTimer(n) \/ AssocTimer(n)
  BY <1>4, TimeoutStep
<1>5. CASE \E n \in Node : \E d \in Dest[n] : handleUpperMsg(n, d)
  BY <1>5, UpperMsgStep
<1>6. CASE \E m \in air : JoinRequest(m) \/ AckJoin(m) \/ Propagate(m)
  BY <1>6, JoinRequestStep, AckJoinStep, PropagateStep
<1>7. CASE \E m \in air : routeDataPacket(m) \/ Lose(m)
  BY <1>7, RouteDataStep, LoseStep
<1>8. CASE \E m \in air : \E quality \in Link[m.src][m.to] : IterationStart(m, quality)
  BY <1>8, IterationStartStep
<1>. QED  BY <1>1, <1>2, <1>3, <1>4, <1>5, <1>6, <1>7, <1>8 DEF Next

\* In every state a node that asks another to join is in the tree itself, and a node that
\* waits to be asked is not.
THEOREM Invariance == Spec => []IInv
<1>1. IInv /\ [Next]_vars => IInv'
  BY Step
<1>. QED  BY <1>1, InitIInv, PTL DEF Spec

Parent == [n \in Node |-> IF node[n].currNodeState = "IN_TREE" THEN node[n].myParentInTree ELSE NoNode]

\* The nodes that have told of a new child, or of themselves
Tellers == {m.src : m \in {x \in air : x.kind \in {"ACK_JOIN", "PROPAGATE"}}}

SameMembership(mod, old) ==
    /\ mod.currNodeState = old.currNodeState /\ mod.myParentInTree = old.myParentInTree
    /\ \A d \in Node \ Tellers : mod.subTree[d] = old.subTree[d]

LEMMA Membership ==
  ASSUME IInv, NEW k \in Node, NEW mod, SameMembership(mod, node[k]),
         node' = [node EXCEPT ![k] = mod], NEW n \in Node
  PROVE  SameMembership(node'[n], node[n])
<1>1. node'[n] = IF n = k THEN mod ELSE node[n]
  BY DEF IInv, TypeOK
<1>. QED  BY <1>1 DEF SameMembership

\* The status and the parent of a node are written when it joins and at no other time, and
\* its routes to what is below it when it hears of it.
LEMMA OnlyJoinRequestJoins ==
  ASSUME IInv, [Next]_vars, ~\E m \in air : JoinRequest(m), NEW n \in Node
  PROVE  SameMembership(node'[n], node[n])
<1>0. \A k \in Node : node[k] \in Module
  BY DEF IInv, TypeOK
<1>1. CASE UNCHANGED node
  BY <1>1 DEF SameMembership
<1>2. CASE IterationTimer
  <2>. DEFINE s == sinkAddress
              mod == [node[s] EXCEPT !.iterationStep = @ + 1, !.inTree = {}, !.notInTree = {},
                        !.nbNoUpdates = IF TriesAgain(node[s]) THEN @ + 1 ELSE @,
                        !.treeUpdated = FALSE, !.decisionTimer = TRUE,
                        !.currFSMState = "WAITDECISION"]
  <2>1. UNCHANGED node \/ node' = [node EXCEPT ![s] = mod]
    BY <1>2 DEF IterationTimer
  <2>2. s \in Node /\ SameMembership(mod, node[s])
    BY <1>0, PairwiseAssumption DEF Module, SameMembership
  <2>. HIDE DEF mod
  <2>. QED  BY <2>1, <2>2, <1>1, Membership
<1>3. CASE \E k \in Node : ChooseParent(k) \/ ChooseChild(k) \/ NothingToDecide(k)
  <2>1. PICK k \in Node : ChooseParent(k) \/ ChooseChild(k) \/ NothingToDecide(k)
    BY <1>3
  <2>2. CASE ChooseParent(k)
    <3>1. PICK p \in IF node[k].inTree = {} THEN {NoNode} ELSE Cheapest(node[k], node[k].inTree) :
             node' = [node EXCEPT ![k].favoriteParent = p, ![k].decisionTimer = FALSE,
                                  ![k].currFSMState = "WAITREQUEST", ![k].assocTimer = (p # NoNode)]
      BY <2>2 DEF ChooseParent
    <3>. DEFINE mod == [node[k] EXCEPT !.favoriteParent = p, !.decisionTimer = FALSE,
                                       !.currFSMState = "WAITREQUEST", !.assocTimer = (p # NoNode)]
    <3>2. node' = [node EXCEPT ![k] = mod]
      BY <3>1
    <3>3. SameMembership(mod, node[k])
      BY <1>0 DEF Module, SameMembership
    <3>. HIDE DEF mod
    <3>. QED  BY <3>2, <3>3, Membership
  <2>3. CASE ChooseChild(k)
    <3>1. SameMembership([node[k] EXCEPT !.decisionTimer = FALSE, !.ackTimer = TRUE,
                                         !.currFSMState = "WAITREPLY"], node[k])
      BY <1>0 DEF Module, SameMembership
    <3>. QED  BY <2>3, <3>1, Membership DEF ChooseChild
  <2>4. CASE NothingToDecide(k)
    <3>1. SameMembership([node[k] EXCEPT !.decisionTimer = FALSE], node[k])
      BY <1>0 DEF Module, SameMembership
    <3>. QED  BY <2>4, <3>1, Membership DEF NothingToDecide
  <2>. QED  BY <2>1, <2>2, <2>3, <2>4
<1>4. CASE \E k \in Node : AckTimer(k) \/ AssocTimer(k)
  <2>1. PICK k \in Node : AckTimer(k) \/ AssocTimer(k)
    BY <1>4
  <2>2. /\ SameMembership([node[k] EXCEPT !.ackTimer = FALSE, !.currFSMState = "IDLE"], node[k])
        /\ SameMembership([node[k] EXCEPT !.assocTimer = FALSE, !.currFSMState = "IDLE"], node[k])
    BY <1>0 DEF Module, SameMembership
  <2>. QED  BY <2>1, <2>2, Membership DEF AckTimer, AssocTimer
<1>5. CASE \E m \in air : AckJoin(m) \/ Propagate(m)
  <2>1. PICK m \in air : AckJoin(m) \/ Propagate(m)
    BY <1>5
  <2>. DEFINE k == m.to
              mod1 == [node[k] EXCEPT !.subTree[m.src] = m.src, !.treeUpdated = TRUE,
                                      !.ackTimer = FALSE, !.currFSMState = "IDLE"]
              mod2 == [node[k] EXCEPT !.treeUpdated = TRUE,
                                      !.subTree[m.src] = IF @ = NoNode THEN sinkAddress ELSE @]
  <2>2. k \in Node /\ node[k] \in Module
    BY CopyOnAir
  <2>a. m.src \in Tellers
    BY <2>1 DEF AckJoin, Propagate, Receive, Tellers
  <2>3. SameMembership(mod1, node[k]) /\ SameMembership(mod2, node[k])
    BY <2>2, <2>a DEF Module, SameMembership
  <2>4. UNCHANGED node \/ node' = [node EXCEPT ![k] = mod1] \/ node' = [node EXCEPT ![k] = mod2]
    BY <2>1 DEF AckJoin, Propagate
  <2>. HIDE DEF mod1, mod2, k
  <2>. QED  BY <2>2, <2>3, <2>4, <1>1, Membership
<1>6. CASE \E m \in air : \E quality \in Link[m.src][m.to] : IterationStart(m, quality)
  <2>1. PICK m \in air : \E quality \in Link[m.src][m.to] : IterationStart(m, quality)
    BY <1>6
  <2>2. PICK quality \in Link[m.src][m.to] : IterationStart(m, quality)
    BY <2>1
  <2>3. node' = [node EXCEPT ![m.to] = Hear(IF NewIteration(m.to, m) THEN Begin(@, m.iteration) ELSE @,
                                            m, quality)]
    BY <2>2 DEF IterationStart
  <2>. DEFINE old == IF NewIteration(m.to, m) THEN Begin(node[m.to], m.iteration) ELSE node[m.to]
              mod == Hear(old, m, quality)
  <2>4. m.to \in Node /\ node[m.to] \in Module
    BY CopyOnAir
  <2>5. SameMembership(mod, node[m.to])
    BY <2>4 DEF Hear, Begin, Module, SameMembership
  <2>6. node' = [node EXCEPT ![m.to] = mod]
    BY <2>3
  <2>. HIDE DEF mod
  <2>. QED  BY <2>4, <2>5, <2>6, Membership
<1>. QED  BY <1>1, <1>2, <1>3, <1>4, <1>5, <1>6 DEF Next, vars, handleUpperMsg, routeDataPacket, Lose

\* One step of pairwise is one of the tree, or none.
LEMMA TreeStep == ASSUME IInv, [Next]_vars PROVE Tree!Next \/ UNCHANGED Parent
<1>1. CASE ~\E m \in air : JoinRequest(m)
  BY <1>1, OnlyJoinRequestJoins DEF Parent, SameMembership
<1>2. CASE \E m \in air : JoinRequest(m)
  <2>1. PICK m \in air : JoinRequest(m)
    BY <1>2
  <2>2. m.to \in Node /\ m.src \in Node
    BY CopyOnAir
  <2>3. CASE node' = node
    BY <2>3 DEF Parent
  <2>4. CASE node' # node
    <3>1. /\ Isolated(m.to) /\ ~Isolated(m.src)
          /\ node'[m.to].currNodeState = "IN_TREE" /\ node'[m.to].myParentInTree = m.src
          /\ \A k \in Node \ {m.to} : node'[k] = node[k]
      BY <2>1, <2>4, JoinRequestStep
    <3>2. Parent' = [Parent EXCEPT ![m.to] = m.src]
      BY <2>2, <3>1 DEF Parent
    <3>3. m.to \notin Tree!InTree \cup {sinkAddress}
      BY <2>2, <3>1 DEF Tree!InTree, Isolated, IInv, ModuleOK
    <3>4. m.src \in Tree!InTree \cup {sinkAddress}
      <4>1. ModuleOK(m.src, node[m.src])
        BY <2>2 DEF IInv
      <4>2. node[m.src].currNodeState \in Status /\ node[m.src].myParentInTree \in Node
        BY <4>1 DEF ModuleOK, Module
      <4>. QED  BY <2>2, <3>1, <4>1, <4>2, PairwiseAssumption
                DEF Tree!InTree, Isolated, ModuleOK, Status
    <3>5. Tree!Join(m.to, m.src)
      BY <3>2, <3>3, <3>4 DEF Tree!Join, Parent
    <3>. QED  BY <2>2, <3>5 DEF Tree!Next
  <2>. QED  BY <2>3, <2>4
<1>. QED  BY <1>1, <1>2

\* The parents grow as a tree does, whatever is lost and whichever timer is early.
THEOREM ParentsAreATree == Spec => ParentsGrowTree
<1>1. Init => Tree!Init
  BY DEF Init, InitModule, Tree!Init
<1>2. IInv /\ [Next]_vars
        => [Tree!Next]_([n \in Node |-> IF node[n].currNodeState = "IN_TREE"
                                        THEN node[n].myParentInTree ELSE NoNode])
  BY TreeStep DEF Parent
<1>. QED  BY <1>1, <1>2, Invariance, PTL DEF Spec, ParentsGrowTree, Tree!Spec

LoopFreeTree == Tree!TypeOK /\ Tree!NoOrphan /\ Tree!LoopFree

\* The new node is nobody's parent yet, so every loop would have been there before.
LEMMA JoinKeepsTree ==
    ASSUME NoNode \notin Node, LoopFreeTree, NEW m \in Node, NEW p \in Node, Tree!Join(m, p)
    PROVE  LoopFreeTree'
<1>1. /\ Parent \in [Node -> Node \cup {NoNode}] /\ Tree!InTree = {n \in Node : Parent[n] # NoNode}
      /\ Parent' = [Parent EXCEPT ![m] = p] /\ Tree!InTree' = {n \in Node : Parent'[n] # NoNode}
      /\ m \notin Tree!InTree /\ m # sinkAddress /\ p \in Tree!InTree \cup {sinkAddress}
  BY DEF LoopFreeTree, Tree!TypeOK, Tree!InTree, Tree!Join, Parent
<1>2. /\ \A n \in Tree!InTree : Parent[n] \in Tree!InTree \cup {sinkAddress}
      /\ \A S \in SUBSET Tree!InTree : S # {} => \E n \in S : Parent[n] \notin S
  BY Zenon DEF LoopFreeTree, Tree!NoOrphan, Tree!LoopFree, Parent
<1>. HIDE DEF Parent
<1>3. Tree!InTree' = Tree!InTree \cup {m} /\ p # m
  BY <1>1
<1>4. Tree!TypeOK'
  BY <1>1 DEF Tree!TypeOK, Parent
<1>5. Tree!NoOrphan'
  <2>1. \A n \in Tree!InTree' : Parent'[n] \in Tree!InTree' \cup {sinkAddress}
    BY <1>1, <1>2, <1>3
  <2>. QED  BY <2>1 DEF Tree!NoOrphan, Parent
<1>6. Tree!LoopFree'
  <2>1. ASSUME NEW S \in SUBSET Tree!InTree', S # {}
        PROVE  \E n \in S : Parent'[n] \notin S
    <3>1. CASE S = {m}
      BY <1>1, <1>3, <3>1
    <3>2. CASE S # {m}
      <4>1. S \ {m} \in SUBSET Tree!InTree /\ S \ {m} # {}
        BY <1>3, <2>1, <3>2
      <4>2. PICK n \in S \ {m} : Parent[n] \notin S \ {m}
        BY <1>2, <4>1
      <4>3. Parent[n] # m /\ Parent'[n] = Parent[n]
        BY <1>1, <1>2, <4>1, <4>2
      <4>. QED  BY <4>2, <4>3
    <3>. QED  BY <3>1, <3>2
  <2>. QED  BY <2>1 DEF Tree!LoopFree, Parent
<1>. QED  BY <1>4, <1>5, <1>6 DEF LoopFreeTree

LEMMA TreeNeverLoops == ASSUME NoNode \notin Node PROVE Tree!Spec => []Tree!LoopFree
<1>1. Tree!Init => LoopFreeTree
  <2>1. Tree!Init => Tree!InTree = {} /\ Tree!TypeOK
    <3>1. Tree!Init => Parent = [n \in Node |-> NoNode]
      BY Zenon DEF Tree!Init, Parent
    <3>2. Tree!InTree = {n \in Node : Parent[n] # NoNode}
      BY DEF Tree!InTree, Parent
    <3>3. Tree!TypeOK <=> Parent \in [Node -> Node \cup {NoNode}]
      BY DEF Tree!TypeOK, Parent
    <3>. HIDE DEF Parent
    <3>. QED  BY <3>1, <3>2, <3>3
  <2>2. Tree!InTree = {} => Tree!NoOrphan /\ Tree!LoopFree
    BY Zenon DEF Tree!NoOrphan, Tree!LoopFree
  <2>. QED  BY <2>1, <2>2 DEF LoopFreeTree
<1>2. LoopFreeTree /\ [Tree!Next]_([n \in Node |-> IF node[n].currNodeState = "IN_TREE"
                                                THEN node[n].myParentInTree ELSE NoNode])
      => LoopFreeTree'
  <2>1. ASSUME LoopFreeTree, UNCHANGED Parent PROVE LoopFreeTree'
    BY <2>1 DEF LoopFreeTree, Tree!TypeOK, Tree!NoOrphan, Tree!LoopFree, Tree!InTree, Parent
  <2>. QED  BY <2>1, JoinKeepsTree DEF Tree!Next, Parent
<1>3. LoopFreeTree => Tree!LoopFree
  BY DEF LoopFreeTree
<1>. QED  BY <1>1, <1>2, <1>3, PTL DEF Tree!Spec

\* Data that is handed from parent to parent never comes back.
THEOREM NeverALoopOfParents == Spec => []Tree!LoopFree
<1>1. NoNode \notin Node
  BY PairwiseAssumption
<1>. QED  BY <1>1, TreeNeverLoops, ParentsAreATree, PTL DEF ParentsGrowTree

-----------------------------------------------------------------------------
(* Data reaches the sink *)

\* Links go both ways
BothWays == \A n \in Node : \A r \in Nbr(n) : n \in Nbr(r)

\* The application of the sink does not send to the sink.
SinkSendsElsewhere == sinkAddress \notin Dest[sinkAddress]

\* The sink joins nobody, so that nobody tells of it as of a node below.
BelowSink == \A m \in air : m.kind \in {"ACK_JOIN", "PROPAGATE"} => m.src # sinkAddress

\* No node takes the way down for data for the sink.
NoRouteBack == \A n \in Node : node[n].subTree[sinkAddress] = NoNode

AskedNeighbours == \A m \in air : m.kind = "JOIN_REQUEST" => m.to \in Nbr(m.src)

\* The parent of a node heard it and has joined before.
ParentsJoined ==
    \A n \in Node : node[n].currNodeState = "IN_TREE" =>
        n \in Nbr(node[n].myParentInTree) /\ ~Isolated(node[n].myParentInTree)

\* Data that has not been given up is with the members of the tree.
DataInTree == \A m \in air : Data(m) /\ m.id \notin damaged => ~Isolated(m.to)

TreeInv ==
    /\ IInv
    /\ BelowSink
    /\ NoRouteBack
    /\ AskedNeighbours
    /\ ParentsJoined

RouteInv == TreeInv /\ DataInTree /\ DataReachesSink

LEMMA InitRoutes == Init => RouteInv
<1>. SUFFICES ASSUME Init PROVE RouteInv
  OBVIOUS
<1>1. NoRouteBack
  BY PairwiseAssumption DEF Init, InitModule, NoRouteBack
<1>2. ParentsJoined
  BY DEF Init, InitModule, ParentsJoined
<1>3. BelowSink /\ AskedNeighbours /\ DataInTree
  BY DEF Init, BelowSink, AskedNeighbours, DataInTree
<1>4. DataReachesSink
  BY DEF Init, DataReachesSink
<1>. QED  BY <1>1, <1>2, <1>3, <1>4, InitIInv DEF RouteInv, TreeInv

LEMMA CopyLinks ==
  ASSUME NEW n \in Node, NEW d, NEW m \in Message, NEW c \in ToAll(n, m) \cup ToOne(n, d, m)
  PROVE  /\ c \in Message /\ c.kind = m.kind /\ c.src = m.src /\ c.id = m.id /\ c.to \in Nbr(n)
         /\ c \in ToOne(n, d, m) => c.to = d
<1>1. PICK r \in Nbr(n) : c = [m EXCEPT !.to = r] /\ (c \in ToOne(n, d, m) => r = d)
  BY DEF ToAll, ToOne
<1>. QED  BY <1>1 DEF Message, Nbr

\* The new copies of the steps of the protocol
Proper(c) ==
    /\ ~Data(c)
    /\ c.kind = "JOIN_REQUEST" => c.to \in Nbr(c.src)
    /\ c.kind \in {"ACK_JOIN", "PROPAGATE"} => c.src # sinkAddress

DataMoves == \/ \E n \in Node : \E d \in Dest[n] : handleUpperMsg(n, d)
             \/ \E m \in air : routeDataPacket(m)

LEMMA ProperCopies ==
  ASSUME TreeInv, [Next]_vars, ~DataMoves, NEW c \in air', c \notin air
  PROVE  Proper(c)
<1>0. IInv /\ BelowSink
  BY DEF TreeInv
<1>1. ASSUME IterationTimer PROVE Proper(c)
  <2>. DEFINE s == sinkAddress
              pkt == Packet("ITERATION_START", s)
              start == [pkt EXCEPT !.iteration = @ + 1, !.status = "SINK"]
  <2>1. c \in ToAll(s, start)
    BY <1>1 DEF IterationTimer
  <2>2. s \in Node
    BY PairwiseAssumption
  <2>3. start \in Message /\ start.kind = "ITERATION_START"
    <3>1. pkt \in Message /\ pkt.kind = "ITERATION_START"
      BY <1>0, <2>2, PacketType
    <3>. HIDE DEF pkt
    <3>2. pkt.iteration + 1 \in Nat
      BY <3>1 DEF Message
    <3>. QED  BY <3>1, <3>2 DEF Message, Status
  <2>. HIDE DEF start
  <2>4. c.kind = "ITERATION_START"
    BY <2>1, <2>2, <2>3, CopyLinks
  <2>. QED  BY <2>4 DEF Proper, Data
<1>2. ASSUME NEW n \in Node, ChooseChild(n) PROVE Proper(c)
  <2>1. PICK d : c \in ToOne(n, d, Packet("JOIN_REQUEST", n))
    BY <1>2 DEF ChooseChild
  <2>2. c.kind = "JOIN_REQUEST" /\ c.src = n /\ c.to \in Nbr(n)
    BY <1>0, <2>1, PacketType, CopyLinks
  <2>. QED  BY <2>2 DEF Proper, Data
<1>3. ASSUME NEW m \in air, JoinRequest(m) PROVE Proper(c)
  <2>1. m.to \in Node /\ ModuleOK(m.to, node[m.to])
    BY <1>0, CopyOnAir
  <2>2. c \in ToOne(m.to, m.src, Packet("ACK_JOIN", m.to)) /\ WaitsForRequest(m.to)
    BY <1>3 DEF JoinRequest
  <2>3. c.kind = "ACK_JOIN" /\ c.src = m.to
    BY <1>0, <2>1, <2>2, PacketType, CopyLinks
  <2>4. m.to # sinkAddress
    BY <2>1, <2>2 DEF WaitsForRequest, ModuleOK
  <2>. QED  BY <2>3, <2>4 DEF Proper, Data
<1>4. ASSUME NEW m \in air, AckJoin(m) PROVE Proper(c)
  <2>. DEFINE n == m.to
              pkt == Packet("PROPAGATE", n)
              news == [pkt EXCEPT !.initialSrc = m.src]
  <2>1. n \in Node /\ m.src \in Node /\ ModuleOK(n, node[n])
    BY <1>0, CopyOnAir
  <2>2. c \in TellsParent(n, m.src)
    BY <1>4 DEF AckJoin
  <2>3. c \in ToOne(n, node[n].myParentInTree, news) /\ node[n].currNodeState # "SINK"
    BY <2>2 DEF TellsParent
  <2>4. news \in Message /\ news.kind = "PROPAGATE" /\ news.src = n
    <3>1. pkt \in Message /\ pkt.kind = "PROPAGATE" /\ pkt.src = n
      BY <1>0, <2>1, PacketType
    <3>. HIDE DEF pkt
    <3>. QED  BY <2>1, <3>1 DEF Message
  <2>. HIDE DEF news
  <2>5. c.kind = "PROPAGATE" /\ c.src = n
    BY <2>1, <2>3, <2>4, CopyLinks
  <2>. QED  BY <2>1, <2>3, <2>5 DEF Proper, Data, ModuleOK
<1>5. ASSUME NEW m \in air, Propagate(m) PROVE Proper(c)
  <2>1. m \in Message /\ m.to \in Node /\ m.kind = "PROPAGATE"
    BY <1>0, <1>5, CopyOnAir DEF Propagate, Receive
  <2>2. c \in ToOne(m.to, node[m.to].myParentInTree, m)
    BY <1>5 DEF Propagate
  <2>3. c.kind = "PROPAGATE" /\ c.src = m.src
    BY <2>1, <2>2, CopyLinks
  <2>. QED  BY <1>0, <2>1, <2>3 DEF Proper, Data, BelowSink
<1>6. ASSUME NEW m \in air, NEW quality, IterationStart(m, quality) PROVE Proper(c)
  <2>. DEFINE n == m.to
              repeat == [m EXCEPT !.src = n, !.status = node[n].currNodeState, !.metric = Metric(node[n])]
  <2>1. m \in Message /\ n \in Node /\ node[n] \in Module
    BY <1>0, CopyOnAir
  <2>2. repeat \in Message /\ repeat.kind = "ITERATION_START"
    <3>1. Metric(node[n]) \in 0..MaxMetric /\ node[n].currNodeState \in Status
      BY <2>1, MetricType DEF Module
    <3>2. m.kind = "ITERATION_START"
      BY <1>6 DEF IterationStart, Receive
    <3>. QED  BY <2>1, <3>1, <3>2 DEF Message
  <2>3. c \in ToAll(n, repeat)
    BY <1>6 DEF IterationStart
  <2>. HIDE DEF repeat
  <2>4. c.kind = "ITERATION_START"
    BY <2>1, <2>2, <2>3, CopyLinks
  <2>. QED  BY <2>4 DEF Proper, Data
<1>7. ASSUME air' \subseteq air PROVE Proper(c)
  BY <1>7
<1>8. \A n \in Node : ChooseParent(n) \/ NothingToDecide(n) \/ AckTimer(n) \/ AssocTimer(n) => air' = air
  BY DEF ChooseParent, NothingToDecide, AckTimer, AssocTimer
<1>9. (\A m \in air : Lose(m) => air' \subseteq air) /\ (UNCHANGED vars => air' = air)
  BY DEF Lose, vars
<1>. QED  BY <1>1, <1>2, <1>3, <1>4, <1>5, <1>6, <1>7, <1>8, <1>9 DEF Next, DataMoves

\* The tree and the routes to the sink after a step
LEMMA TreeKept ==
  ASSUME TreeInv, [Next]_vars
  PROVE  /\ NoRouteBack' /\ ParentsJoined'
         /\ \A n \in Node : ~Isolated(n) => ~Isolated(n)'
<1>0. IInv /\ BelowSink /\ NoRouteBack /\ AskedNeighbours /\ ParentsJoined
  BY DEF TreeInv
<1>a. sinkAddress \in Node /\ \A n \in Node : node[n].myParentInTree \in Node
  BY <1>0, PairwiseAssumption DEF IInv, TypeOK, Module
<1>1. CASE ~\E m \in air : JoinRequest(m)
  <2>1. \A n \in Node : SameMembership(node'[n], node[n])
    BY <1>0, <1>1, OnlyJoinRequestJoins
  <2>2. sinkAddress \notin Tellers
    BY <1>0 DEF BelowSink, Tellers
  <2>3. /\ \A n \in Node : node'[n].subTree[sinkAddress] = node[n].subTree[sinkAddress]
        /\ \A n \in Node : node'[n].currNodeState = node[n].currNodeState
        /\ \A n \in Node : node'[n].myParentInTree = node[n].myParentInTree
    BY <1>a, <2>1, <2>2 DEF SameMembership
  <2>4. NoRouteBack'
    BY <1>0, <2>3 DEF NoRouteBack
  <2>5. \A n \in Node : Isolated(n)' <=> Isolated(n)
    BY <2>3 DEF Isolated
  <2>6. ParentsJoined'
    BY <1>0, <1>a, <2>3 DEF ParentsJoined, Isolated
  <2>. QED  BY <2>4, <2>5, <2>6
<1>2. ASSUME NEW m \in air, JoinRequest(m)
      PROVE  /\ NoRouteBack' /\ ParentsJoined'
             /\ \A n \in Node : ~Isolated(n) => ~Isolated(n)'
  <2>1. m.to \in Node /\ m.src \in Node
    BY <1>0, CopyOnAir
  <2>2. CASE node' = node
    BY <1>0, <2>2 DEF NoRouteBack, ParentsJoined, Isolated
  <2>3. CASE node' # node
    <3>1. /\ Isolated(m.to) /\ ~Isolated(m.src)
          /\ node'[m.to].currNodeState = "IN_TREE" /\ node'[m.to].myParentInTree = m.src
          /\ node'[m.to].subTree = node[m.to].subTree
          /\ \A k \in Node \ {m.to} : node'[k] = node[k]
      BY <1>0, <1>2, <2>3, JoinRequestStep
    <3>2. m.to \in Nbr(m.src)
      BY <1>0, <1>2 DEF AskedNeighbours, JoinRequest, Receive
    <3>3. \A n \in Node : ~Isolated(n) => ~Isolated(n)'
      BY <3>1 DEF Isolated
    <3>4. NoRouteBack'
      BY <1>0, <3>1 DEF NoRouteBack
    <3>5. ASSUME NEW n \in Node, node'[n].currNodeState = "IN_TREE"
          PROVE  \E h \in Node : h = node'[n].myParentInTree /\ n \in Nbr(h) /\ ~Isolated(h)'
      <4>1. CASE n = m.to
        BY <2>1, <3>1, <3>2, <3>3, <4>1
      <4>2. CASE n # m.to
        <5>1. node'[n] = node[n]
          BY <3>1, <4>2
        <5>. QED  BY <1>0, <1>a, <3>3, <3>5, <5>1 DEF ParentsJoined
      <4>. QED  BY <4>1, <4>2
    <3>6. ParentsJoined'
      BY <3>5 DEF ParentsJoined, Isolated
    <3>. QED  BY <3>3, <3>4, <3>6
  <2>. QED  BY <2>2, <2>3
<1>. QED  BY <1>1, <1>2

\* A member, the sink apart, hands data for the sink to a member.
LEMMA HandedOn ==
  ASSUME BothWays, RouteInv, NEW n \in Node, ~Isolated(n), n # sinkAddress, NEW m \in Message
  PROVE  /\ \E c \in ToOne(n, getRoute(node[n], sinkAddress), m) : c.id = m.id /\ c.kind = m.kind
         /\ \A c \in ToOne(n, getRoute(node[n], sinkAddress), m) :
               c.id = m.id /\ c.kind = m.kind /\ ~Isolated(c.to)
<1>1. node[n].currNodeState = "IN_TREE" /\ node[n].myParentInTree \in Node
  BY DEF RouteInv, TreeInv, IInv, ModuleOK, Isolated, TypeOK, Module, Status
<1>2. getRoute(node[n], sinkAddress) = node[n].myParentInTree
  BY DEF RouteInv, TreeInv, NoRouteBack, getRoute
<1>. DEFINE p == node[n].myParentInTree
<1>3. p \in Nbr(n) /\ ~Isolated(p)
  BY <1>1 DEF RouteInv, TreeInv, ParentsJoined, BothWays
<1>4. [m EXCEPT !.to = p] \in ToOne(n, p, m)
  BY <1>3 DEF ToOne
<1>5. [m EXCEPT !.to = p].id = m.id /\ [m EXCEPT !.to = p].kind = m.kind
  BY DEF Message
<1>6. \A c \in ToOne(n, p, m) : c.id = m.id /\ c.kind = m.kind /\ c.to = p
  BY CopyLinks
<1>. QED  BY <1>2, <1>3, <1>4, <1>5, <1>6

\* The data is where it was, but for what a step moves.
LEMMA DataKept ==
  ASSUME BothWays, SinkSendsElsewhere, RouteInv, [Next]_vars
  PROVE  DataInTree' /\ DataReachesSink'
<1>0. IInv /\ DataInTree /\ DataReachesSink /\ TreeInv
  BY DEF RouteInv, TreeInv
<1>1. \A n \in Node : ~Isolated(n) => ~Isolated(n)'
  BY <1>0, TreeKept
<1>a. \A m \in air : m \in Message /\ m.to \in Node
  BY <1>0, CopyOnAir
<1>2. CASE ~DataMoves /\ ~\E m \in air : Lose(m)
  <2>1. \A c \in air' : Data(c) => c \in air
    BY <1>0, <1>2, ProperCopies DEF Proper
  <2>2. \A c \in air : Data(c) => c \in air'
    BY <1>2 DEF Next, vars, DataMoves, IterationTimer, ChooseParent, ChooseChild, NothingToDecide,
                AckTimer, AssocTimer, JoinRequest, AckJoin, Propagate, IterationStart, Receive, Data
  <2>3. UNCHANGED <<sent, got, damaged>>
    BY <1>2 DEF Next, vars, DataMoves, IterationTimer, ChooseParent, ChooseChild, NothingToDecide,
                AckTimer, AssocTimer, JoinRequest, AckJoin, Propagate, IterationStart
  <2>4. DataInTree'
    BY <1>0, <1>1, <1>a, <2>1, <2>3 DEF DataInTree, Data, Isolated
  <2>5. DataReachesSink'
    BY <1>0, <2>2, <2>3 DEF DataReachesSink, OnItsWay, Data
  <2>. QED  BY <2>4, <2>5
<1>3. ASSUME NEW m \in air, Lose(m) PROVE DataInTree' /\ DataReachesSink'
  <2>1. /\ air' = air \ {m} /\ UNCHANGED <<node, sent, got>> /\ damaged \subseteq damaged'
        /\ Data(m) => m.id \in damaged'
    BY <1>3 DEF Lose
  <2>2. DataInTree'
    BY <1>0, <2>1 DEF DataInTree, Data, Isolated
  <2>3. DataReachesSink'
    BY <1>0, <2>1 DEF DataReachesSink, OnItsWay, Data
  <2>. QED  BY <2>2, <2>3
<1>4. ASSUME NEW n \in Node, NEW d \in Dest[n], handleUpperMsg(n, d)
      PROVE  DataInTree' /\ DataReachesSink'
  <2>. DEFINE pkt == Packet("DATA", n)
              new == [pkt EXCEPT !.id = sent + 1]
              given == node[n].currNodeState = "ISOLATED" \/ d # sinkAddress
  <2>1. sent \in Nat /\ sent + 1 \in 0..MaxData /\ sent' = sent + 1
    BY <1>0, <1>4, PairwiseAssumption DEF handleUpperMsg, IInv, TypeOK
  <2>2. new \in Message /\ new.kind = "DATA" /\ new.id = sent + 1
    <3>1. pkt \in Message /\ pkt.kind = "DATA"
      BY <1>0, PacketType
    <3>. HIDE DEF pkt
    <3>. QED  BY <2>1, <3>1 DEF Message
  <2>3. /\ air' = air \cup ToOne(n, getRoute(node[n], d), new)
        /\ damaged' = IF given THEN damaged \cup {sent + 1} ELSE damaged
        /\ UNCHANGED <<node, got>>
    BY <1>4 DEF handleUpperMsg
  <2>. HIDE DEF new
  <2>4. ASSUME NEW c \in ToOne(n, getRoute(node[n], d), new), c.id \notin damaged'
        PROVE  ~Isolated(c.to)
    <3>1. c.id = sent + 1
      BY <2>2, CopyLinks
    <3>2. ~given
      BY <2>3, <2>4, <3>1
    <3>3. ~Isolated(n) /\ d = sinkAddress /\ n # sinkAddress
      BY <3>2 DEF Isolated, SinkSendsElsewhere
    <3>. QED  BY <2>2, <2>4, <3>3, HandedOn
  <2>5. DataInTree'
    BY <1>0, <2>3, <2>4 DEF DataInTree, Data, Isolated
  <2>6. ASSUME NEW i \in 1..sent + 1
        PROVE  i \in damaged' \/ (\E c \in air' : Data(c) /\ c.id = i) \/ i \in got[sinkAddress]
    <3>1. CASE i # sent + 1
      <4>1. i \in 1..sent
        BY <2>1, <3>1
      <4>. QED  BY <1>0, <2>3, <4>1 DEF DataReachesSink, OnItsWay
    <3>2. CASE i = sent + 1 /\ given
      BY <2>3, <3>2
    <3>3. CASE i = sent + 1 /\ ~given
      <4>1. ~Isolated(n) /\ d = sinkAddress /\ n # sinkAddress
        BY <3>3 DEF Isolated, SinkSendsElsewhere
      <4>2. PICK c \in ToOne(n, getRoute(node[n], d), new) : c.id = new.id /\ c.kind = new.kind
        BY <2>2, <4>1, HandedOn
      <4>. QED  BY <2>2, <2>3, <3>3, <4>2 DEF Data
    <3>. QED  BY <3>1, <3>2, <3>3
  <2>7. DataReachesSink'
    BY <2>1, <2>3, <2>6 DEF DataReachesSink, OnItsWay, Data
  <2>. QED  BY <2>5, <2>7
<1>5. ASSUME NEW m \in air, routeDataPacket(m) PROVE DataInTree' /\ DataReachesSink'
  <2>. DEFINE n == m.to
              new == [m EXCEPT !.src = n]
              copies == IF n = sinkAddress THEN {} ELSE ToOne(n, getRoute(node[n], sinkAddress), new)
  <2>1. m \in Message /\ n \in Node /\ Data(m) /\ UNCHANGED <<node, sent, damaged>>
    BY <1>5, <1>a DEF routeDataPacket, Receive, Data
  <2>2. new \in Message /\ new.kind = "DATA" /\ new.id = m.id
    BY <2>1 DEF Message, Data
  <2>3. /\ air' = (air \ {m}) \cup copies
        /\ got' = IF n = sinkAddress THEN [got EXCEPT ![n] = @ \cup {m.id}] ELSE got
    BY <1>5 DEF routeDataPacket
  <2>4. /\ got[sinkAddress] \subseteq got'[sinkAddress]
        /\ n = sinkAddress => m.id \in got'[sinkAddress]
    BY <1>0, <2>1, <2>3 DEF IInv, TypeOK
  <2>. HIDE DEF new
  <2>5. ASSUME NEW c \in copies, m.id \notin damaged PROVE c.id = m.id /\ ~Isolated(c.to)
    <3>1. n # sinkAddress /\ ~Isolated(n)
      BY <1>0, <2>1, <2>5 DEF DataInTree
    <3>. QED  BY <2>1, <2>2, <2>5, <3>1, HandedOn
  <2>6. \A c \in copies : c.id = m.id
    BY <2>1, <2>2, CopyLinks
  <2>7. m.id \notin damaged /\ n # sinkAddress => \E c \in air' : Data(c) /\ c.id = m.id
    <3>. SUFFICES ASSUME m.id \notin damaged, n # sinkAddress
                  PROVE  \E c \in air' : Data(c) /\ c.id = m.id
      OBVIOUS
    <3>1. ~Isolated(n)
      BY <1>0, <2>1 DEF DataInTree
    <3>2. PICK c \in ToOne(n, getRoute(node[n], sinkAddress), new) : c.id = new.id /\ c.kind = new.kind
      BY <2>1, <2>2, <3>1, HandedOn
    <3>. QED  BY <2>2, <2>3, <3>2 DEF Data
  <2>. HIDE DEF copies
  <2>8. DataInTree'
    BY <1>0, <2>1, <2>3, <2>5, <2>6 DEF DataInTree, Data, Isolated
  <2>9. ASSUME NEW i \in 1..sent
        PROVE  i \in damaged \/ (\E c \in air' : Data(c) /\ c.id = i) \/ i \in got'[sinkAddress]
    <3>1. CASE i = m.id
      BY <2>4, <2>7, <3>1
    <3>2. CASE i # m.id
      BY <1>0, <2>3, <2>4, <3>2 DEF DataReachesSink, OnItsWay
    <3>. QED  BY <3>1, <3>2
  <2>10. DataReachesSink'
    BY <2>1, <2>9 DEF DataReachesSink, OnItsWay, Data
  <2>. QED  BY <2>8, <2>10
<1>. QED  BY <1>2, <1>3, <1>4, <1>5 DEF DataMoves

LEMMA MembersStep == ASSUME TreeInv, [Next]_vars PROVE TreeInv'
<1>1. IInv'
  BY Step DEF TreeInv
<1>2. ASSUME NEW c \in air', c \notin air
      PROVE  /\ c.kind = "JOIN_REQUEST" => c.to \in Nbr(c.src)
             /\ c.kind \in {"ACK_JOIN", "PROPAGATE"} => c.src # sinkAddress
  <2>1. CASE ~DataMoves
    BY <1>2, <2>1, ProperCopies DEF Proper
  <2>2. CASE DataMoves
    <3>1. c.kind = "DATA"
      <4>1. ASSUME NEW n \in Node, NEW d \in Dest[n], handleUpperMsg(n, d) PROVE c.kind = "DATA"
        <5>. DEFINE pkt == Packet("DATA", n)
                    new == [pkt EXCEPT !.id = sent + 1]
        <5>1. new \in Message /\ new.kind = "DATA"
          <6>1. pkt \in Message /\ pkt.kind = "DATA"
            BY PacketType DEF TreeInv
          <6>. HIDE DEF pkt
          <6>2. sent + 1 \in 0..MaxData
            BY <4>1, PairwiseAssumption DEF handleUpperMsg, TreeInv, IInv, TypeOK
          <6>. QED  BY <6>1, <6>2 DEF Message
        <5>2. c \in ToOne(n, getRoute(node[n], d), new)
          BY <1>2, <4>1 DEF handleUpperMsg
        <5>. HIDE DEF new
        <5>. QED  BY <5>1, <5>2, CopyLinks
      <4>2. ASSUME NEW m \in air, routeDataPacket(m) PROVE c.kind = "DATA"
        <5>. DEFINE new == [m EXCEPT !.src = m.to]
        <5>1. m \in Message /\ m.to \in Node /\ m.kind = "DATA"
          BY <4>2, CopyOnAir DEF TreeInv, routeDataPacket, Receive
        <5>2. new \in Message /\ new.kind = "DATA"
          BY <5>1 DEF Message
        <5>3. c \in ToOne(m.to, getRoute(node[m.to], sinkAddress), new)
          BY <1>2, <4>2 DEF routeDataPacket
        <5>. HIDE DEF new
        <5>. QED  BY <5>1, <5>2, <5>3, CopyLinks
      <4>. QED  BY <2>2, <4>1, <4>2 DEF DataMoves
    <3>. QED  BY <3>1
  <2>. QED  BY <2>1, <2>2
<1>3. BelowSink'
  BY <1>2 DEF TreeInv, BelowSink
<1>4. AskedNeighbours'
  BY <1>2 DEF TreeInv, AskedNeighbours
<1>. QED  BY <1>1, <1>3, <1>4, TreeKept DEF TreeInv

LEMMA RouteStep ==
  ASSUME BothWays, SinkSendsElsewhere, RouteInv, [Next]_vars
  PROVE  RouteInv'
BY MembersStep, DataKept DEF RouteInv

\* On every network whose links go both ways, data of a node in the tree comes to the sink
\* if no copy of it is lost, even while nodes join and requests and answers go astray
\* (Pairwise::handleUpperMsg, routeDataPacket, and subTree, which never leads back).
THEOREM DataComesToTheSink == ASSUME BothWays, SinkSendsElsewhere PROVE Spec => []DataReachesSink
<1>1. RouteInv /\ [Next]_vars => RouteInv'
  BY RouteStep
<1>2. RouteInv => DataReachesSink
  BY DEF RouteInv
<1>. QED  BY <1>1, <1>2, InitRoutes, PTL DEF Spec

-----------------------------------------------------------------------------
(* The sink stops when the tree is complete *)

\* The links are good at all times.
GoodLinks == \A s, r \in Node : Link[s][r] \subseteq {"good"}

\* No part of the network is cut off.
Connected ==
  \A S \in SUBSET Node : S # {} /\ (\A n \in S : Nbr(n) \subseteq S) => S = Node

\* Has n begun the present iteration?
Current(n) == node[n].iterationStep = node[sinkAddress].iterationStep

Of(kind) == {m \in air : m.kind = kind}
Starts == Of("ITERATION_START")

\* The beginning of an iteration spreads before anything else is sent, and nobody
\* decides meanwhile.
Spreading ==
  /\ \A n \in Node : node[n].iterationStep <= node[sinkAddress].iterationStep
  /\ \A m \in Starts : /\ m.iteration = node[sinkAddress].iterationStep /\ Current(m.src)
                       /\ m.to \in Nbr(m.src)
                       /\ m.status = "ISOLATED" <=> Isolated(m.src)
  /\ Starts # {} => /\ Control = Starts /\ node[sinkAddress].iterationStep > 0
                    /\ \A n \in Node : Current(n) => node[n].decisionTimer
  /\ node[sinkAddress].iterationStep = 0 =>
       node[sinkAddress].treeUpdated /\ \A n \in Node : node[n].notInTree = {}

\* What a node that has begun says is on its way to every neighbour, or has come.
Heard ==
  node[sinkAddress].iterationStep > 0 =>
    \A n \in Node : Current(n) => \A r \in Nbr(n) :
       \/ \E m \in Starts : m.src = n /\ m.to = r
       \/ Current(r) /\ n \in node[r].inTree \cup node[r].notInTree

\* The lists of this iteration hold neighbours that have begun it.  Who was in the tree is
\* in the tree; who was not has joined after the beginning had spread, if at all.
ListsRight ==
  \A r \in Node : Current(r) =>
    /\ \A n \in node[r].inTree : n \in Node /\ Current(n) /\ r \in Nbr(n) /\ ~Isolated(n)
    /\ \A n \in node[r].notInTree : /\ n \in Node /\ Current(n) /\ r \in Nbr(n)
                                    /\ Starts # {} => Isolated(n)

\* A node costs the same wherever it was heard in this iteration.
CostsAgree ==
  /\ \A r, s \in Node : Current(r) /\ Current(s) =>
       \A p \in node[r].inTree \cap node[s].inTree : node[r].neighbours[p] = node[s].neighbours[p]
  /\ \A m \in Starts : \A r \in Node :
       Current(r) /\ m.src \in node[r].inTree => node[r].neighbours[m.src] = OneHopMore(m.metric)
  /\ \A m, k \in Starts : m.src = k.src => m.metric = k.metric

\* A timer belongs to a state, and none is left from the iteration before.
Fits(mod) ==
  /\ mod.decisionTimer => mod.currFSMState = "WAITDECISION"
  /\ mod.ackTimer => mod.currFSMState = "WAITREPLY"
  /\ mod.assocTimer => mod.currFSMState = "WAITREQUEST"

NoTimer(mod) == ~(mod.decisionTimer \/ mod.ackTimer \/ mod.assocTimer)

TimersFit == \A n \in Node : Fits(node[n]) /\ (Current(n) \/ NoTimer(node[n]))

\* The node that asked, of a request or an answer
Asker(m) == IF m.kind = "JOIN_REQUEST" THEN m.src ELSE m.to

\* A node asks one node in an iteration, one that it heard to be isolated, and waits for
\* the answer.  News of a new node comes to members.
Asking ==
  /\ \A m \in Of("JOIN_REQUEST") \cup Of("ACK_JOIN") :
       node[Asker(m)].currFSMState = "WAITREPLY" /\ ~Isolated(Asker(m)) /\ Current(Asker(m))
  /\ \A m, k \in Of("JOIN_REQUEST") \cup Of("ACK_JOIN") : Asker(m) = Asker(k) => m = k
  /\ \A m \in Of("JOIN_REQUEST") : m.to \in node[m.src].notInTree
  /\ \A m \in Of("PROPAGATE") : ~Isolated(m.to)

\* A node has joined in this iteration
Joined == \E p, c \in Node : Current(p) /\ c \in node[p].notInTree /\ ~Isolated(c)

\* If one has, the sink knows or will.
NewsComes ==
  Joined => node[sinkAddress].treeUpdated \/ Of("ACK_JOIN") # {} \/ Of("PROPAGATE") # {}

\* All is over in this iteration
Quiet == Control = {} /\ \A n \in Node : ~node[n].decisionTimer

\* As long as nobody has joined, an isolated node will wait for the cheapest.
IsolatedWait ==
  ~Joined => \A c \in Node : Current(c) /\ Isolated(c) =>
    \/ node[c].decisionTimer
    \/ /\ node[c].currFSMState = "WAITREQUEST"
       /\ node[c].inTree # {} => node[c].favoriteParent \in Cheapest(node[c], node[c].inTree)
    \/ Quiet

\* No isolated node knows one in the tree that costs less than p.
Best(p) ==
  \A c \in Node : Current(c) /\ Isolated(c) /\ p \in node[c].inTree
                     => p \in Cheapest(node[c], node[c].inTree)

\* As long as nobody has joined, a node in the tree that costs least will have asked.
BestAsks ==
  ~Joined => \A p \in Node : Current(p) /\ ~Isolated(p) /\ node[p].notInTree # {} /\ Best(p) =>
    node[p].decisionTimer \/ \E m \in Of("JOIN_REQUEST") : m.src = p

IterationInv ==
  /\ Spreading
  /\ Heard
  /\ ListsRight
  /\ CostsAgree
  /\ TimersFit
  /\ Asking
  /\ NewsComes
  /\ IsolatedWait
  /\ BestAsks
  /\ ~iterationTimer => \A n \in Node : ~Isolated(n)

StopInv == ~disturbed => IterationInv

-----------------------------------------------------------------------------

\* Once its beginning has spread, the lists of an iteration stay, and nobody leaves.
SameLists(mod, old) ==
  /\ mod.iterationStep = old.iterationStep /\ mod.neighbours = old.neighbours
  /\ mod.inTree = old.inTree /\ mod.notInTree = old.notInTree
  /\ old.treeUpdated => mod.treeUpdated
  /\ old.currNodeState # "ISOLATED" => mod.currNodeState # "ISOLATED"

Calm ==
  /\ Starts = {} /\ Starts' = {}
  /\ iterationTimer' = iterationTimer
  /\ \A n \in Node : SameLists(node'[n], node[n])

SameStatus == \A n \in Node : node'[n].currNodeState = node[n].currNodeState

LEMMA CalmStep ==
  ASSUME IterationInv, Calm
  PROVE  /\ Spreading' /\ Heard' /\ ListsRight' /\ CostsAgree'
         /\ (~iterationTimer => \A n \in Node : ~Isolated(n))'
         /\ \A n \in Node : Current(n)' <=> Current(n)
         /\ Joined => Joined'
         /\ SameStatus => (Joined' => Joined) /\ \A p \in Node : Best(p)' => Best(p)
<1>. sinkAddress \in Node
  BY PairwiseAssumption
<1>1. \A n \in Node : Current(n)' <=> Current(n)
  BY DEF Current, Calm, SameLists
<1>2. \A n \in Node : ~Isolated(n) => ~Isolated(n)'
  BY DEF Isolated, Calm, SameLists
<1>3. Spreading'
  BY DEF IterationInv, Spreading, Calm, SameLists
<1>4. Heard'
  <2>1. /\ node'[sinkAddress].iterationStep = node[sinkAddress].iterationStep
        /\ \A r \in Node : node'[r].inTree = node[r].inTree /\ node'[r].notInTree = node[r].notInTree
    BY DEF Calm, SameLists
  <2>2. ASSUME node[sinkAddress].iterationStep > 0, NEW n \in Node, Current(n), NEW r \in Nbr(n)
        PROVE  Current(r) /\ n \in node[r].inTree \cup node[r].notInTree
    BY <2>2 DEF IterationInv, Heard, Calm
  <2>3. \A n \in Node : Nbr(n) \subseteq Node
    BY DEF Nbr
  <2>. QED  BY <1>1, <2>1, <2>2, <2>3 DEF Heard
<1>5. ListsRight'
  BY <1>1, <1>2 DEF IterationInv, ListsRight, Calm, SameLists
<1>6. CostsAgree'
  BY <1>1 DEF IterationInv, CostsAgree, Calm, SameLists
<1>7. (~iterationTimer => \A n \in Node : ~Isolated(n))'
  BY <1>2 DEF IterationInv, Calm
<1>8. Joined => Joined'
  BY <1>1, <1>2 DEF Joined, Calm, SameLists
<1>9. ASSUME SameStatus PROVE (Joined' => Joined) /\ \A p \in Node : Best(p)' => Best(p)
  <2>1. \A n \in Node : Isolated(n)' <=> Isolated(n)
    BY <1>9 DEF SameStatus, Isolated
  <2>2. Joined' => Joined
    BY <1>1, <2>1 DEF Joined, Calm, SameLists
  <2>3. \A c \in Node : Cheapest(node'[c], node'[c].inTree) = Cheapest(node[c], node[c].inTree)
    BY DEF Cheapest, Calm, SameLists
  <2>4. \A c \in Node : node'[c].inTree = node[c].inTree
    BY DEF Calm, SameLists
  <2>. QED  BY <1>1, <2>1, <2>2, <2>3, <2>4 DEF Best
<1>. QED  BY <1>1, <1>3, <1>4, <1>5, <1>6, <1>7, <1>8, <1>9

\* The control messages of a step
Kinds == {"ITERATION_START", "JOIN_REQUEST", "ACK_JOIN", "PROPAGATE"}

\* Nothing is sent: a timer ends when all is quiet, or a decision is made for which
\* nothing is sent.
LEMMA SilentStep ==
  ASSUME IInv, IterationInv, NEW n \in Node, NEW mod,
         node' = [node EXCEPT ![n] = mod], UNCHANGED <<air, iterationTimer>>, Starts = {},
         SameLists(mod, node[n]), mod.currNodeState = node[n].currNodeState,
         Fits(mod), NoTimer(node[n]) => NoTimer(mod), mod.decisionTimer => node[n].decisionTimer,
         \/ Quiet
         \/ /\ Isolated(n) /\ mod.currFSMState = "WAITREQUEST"
            /\ mod.inTree # {} => mod.favoriteParent \in Cheapest(mod, mod.inTree)
         \/ /\ ~Isolated(n) /\ mod.notInTree = {} /\ mod.currFSMState = node[n].currFSMState
  PROVE  IterationInv'
<1>0. \A k \in Node : node'[k] = IF k = n THEN mod ELSE node[k]
  BY DEF IInv, TypeOK
<1>1. \A kind : Of(kind)' = Of(kind)
  BY DEF Of
<1>2. Starts' = Starts /\ Control' = Control
  BY DEF Starts, Of, Control, Data
<1>3. Calm /\ SameStatus
  BY <1>0, <1>2 DEF Calm, SameLists, SameStatus
<1>4. \A k \in Node : (Current(k)' <=> Current(k)) /\ (Isolated(k)' <=> Isolated(k))
  BY <1>3, CalmStep DEF SameStatus, Isolated
<1>5. (Joined' <=> Joined) /\ \A p \in Node : Best(p)' => Best(p)
  BY <1>3, CalmStep
<1>6. TimersFit'
  BY <1>0, <1>4 DEF IterationInv, TimersFit
<1>a. sinkAddress \in Node
  BY PairwiseAssumption
<1>b. \A m \in air : m.src \in Node /\ m.to \in Node
  BY CopyOnAir
<1>7. Asking'
  <2>1. ASSUME NEW m \in Of("JOIN_REQUEST") \cup Of("ACK_JOIN")
        PROVE  node'[Asker(m)].currFSMState = "WAITREPLY"
    <3>1. node[Asker(m)].currFSMState = "WAITREPLY" /\ ~Isolated(Asker(m)) /\ Asker(m) \in Node
      BY <1>b DEF IterationInv, Asking, Asker, Of
    <3>2. m \in Control
      BY DEF Of, Control, Data
    <3>. QED  BY <1>0, <3>1, <3>2 DEF Quiet
  <2>2. \A m \in Of("JOIN_REQUEST") \cup Of("ACK_JOIN") : Asker(m) \in Node
    BY <1>b DEF Asker, Of
  <2>3. \A k \in Node : node'[k].notInTree = node[k].notInTree
    BY <1>3 DEF Calm, SameLists
  <2>4. \A m \in Of("JOIN_REQUEST") \cup Of("PROPAGATE") : m.src \in Node /\ m.to \in Node
    BY <1>b DEF Of
  <2>. QED  BY <1>1, <1>4, <2>1, <2>2, <2>3, <2>4 DEF IterationInv, Asking
<1>8. NewsComes'
  BY <1>1, <1>3, <1>5, <1>a DEF IterationInv, NewsComes, Calm, SameLists
<1>9. Quiet => Quiet'
  BY <1>0, <1>2 DEF Quiet
<1>10. IsolatedWait'
  <2>. SUFFICES ASSUME ~Joined, NEW c \in Node, Current(c), Isolated(c)
                PROVE  \/ node'[c].decisionTimer
                       \/ /\ node'[c].currFSMState = "WAITREQUEST"
                          /\ node'[c].inTree # {}
                               => node'[c].favoriteParent \in Cheapest(node'[c], node'[c].inTree)
                       \/ Quiet'
    BY <1>4, <1>5 DEF IsolatedWait
  <2>. QED  BY <1>0, <1>9 DEF IterationInv, IsolatedWait
<1>11. BestAsks'
  <2>. SUFFICES ASSUME ~Joined, NEW p \in Node, Current(p), ~Isolated(p), node'[p].notInTree # {}, Best(p)
                PROVE  node'[p].decisionTimer \/ \E m \in Of("JOIN_REQUEST") : m.src = p
    BY <1>1, <1>4, <1>5 DEF BestAsks
  <2>1. node[p].notInTree # {}
    BY <1>3 DEF Calm, SameLists
  <2>2. node[p].decisionTimer \/ \E m \in Of("JOIN_REQUEST") : m.src = p
    BY <2>1 DEF IterationInv, BestAsks
  <2>3. CASE p # n
    BY <1>0, <2>2, <2>3
  <2>4. CASE p = n
    BY <1>0, <2>2, <2>4 DEF Quiet
  <2>. QED  BY <2>3, <2>4
<1>. QED  BY <1>3, <1>6, <1>7, <1>8, <1>10, <1>11, CalmStep DEF IterationInv

LEMMA SilentSteps ==
  ASSUME IInv, IterationInv, ~disturbed', NEW n \in Node,
         ChooseParent(n) \/ NothingToDecide(n) \/ AckTimer(n) \/ AssocTimer(n)
  PROVE  IterationInv'
<1>0. node[n] \in Module /\ Fits(node[n])
  BY DEF IInv, TypeOK, IterationInv, TimersFit
<1>1. CASE ChooseParent(n)
  <2>1. PICK p \in IF node[n].inTree = {} THEN {NoNode} ELSE Cheapest(node[n], node[n].inTree) :
           node' = [node EXCEPT ![n].favoriteParent = p, ![n].decisionTimer = FALSE,
                                ![n].currFSMState = "WAITREQUEST",
                                ![n].assocTimer = (p # NoNode)]
    BY <1>1 DEF ChooseParent
  <2>. DEFINE mod == [node[n] EXCEPT !.favoriteParent = p, !.decisionTimer = FALSE,
                                     !.currFSMState = "WAITREQUEST", !.assocTimer = (p # NoNode)]
  <2>2. node' = [node EXCEPT ![n] = mod]
    BY <2>1
  <2>3. /\ SameLists(mod, node[n]) /\ mod.currNodeState = node[n].currNodeState
        /\ mod.favoriteParent = p /\ ~mod.decisionTimer /\ mod.currFSMState = "WAITREQUEST"
        /\ mod.ackTimer = node[n].ackTimer
    BY <1>0 DEF Module, SameLists
  <2>4. Starts = {} /\ Isolated(n) /\ node[n].decisionTimer
    BY <1>1 DEF ChooseParent, Decides, Starts, Of, Isolated
  <2>5. ~node[n].ackTimer
    BY <1>0, <2>4 DEF Fits
  <2>6. Fits(mod) /\ ~NoTimer(node[n])
    BY <2>3, <2>4, <2>5 DEF Fits, NoTimer
  <2>7. mod.inTree # {} => mod.favoriteParent \in Cheapest(mod, mod.inTree)
    BY <2>3 DEF SameLists, Cheapest
  <2>. HIDE DEF mod
  <2>. QED  BY <1>1, <2>2, <2>3, <2>4, <2>6, <2>7, SilentStep DEF ChooseParent
<1>2. CASE NothingToDecide(n)
  <2>. DEFINE mod == [node[n] EXCEPT !.decisionTimer = FALSE]
  <2>1. /\ SameLists(mod, node[n]) /\ mod.currNodeState = node[n].currNodeState
        /\ Fits(mod) /\ ~mod.decisionTimer /\ mod.currFSMState = node[n].currFSMState
        /\ mod.ackTimer = node[n].ackTimer /\ mod.assocTimer = node[n].assocTimer
    BY <1>0 DEF Module, SameLists, Fits
  <2>2. /\ node' = [node EXCEPT ![n] = mod] /\ Starts = {} /\ ~Isolated(n) /\ node[n].notInTree = {}
    BY <1>2 DEF NothingToDecide, Decides, Starts, Of, Isolated
  <2>. HIDE DEF mod
  <2>. QED  BY <1>2, <2>1, <2>2, SilentStep DEF NothingToDecide, SameLists, NoTimer
<1>3. CASE AckTimer(n) \/ AssocTimer(n)
  <2>1. ~Outstanding /\ UNCHANGED <<air, iterationTimer>>
    BY <1>3 DEF AckTimer, AssocTimer
  <2>2. Quiet /\ Starts = {}
    BY <2>1 DEF Outstanding, Quiet, Control, Starts, Of, Data
  <2>. DEFINE mod1 == [node[n] EXCEPT !.ackTimer = FALSE, !.currFSMState = "IDLE"]
              mod2 == [node[n] EXCEPT !.assocTimer = FALSE, !.currFSMState = "IDLE"]
  <2>3. /\ SameLists(mod1, node[n]) /\ mod1.currNodeState = node[n].currNodeState
        /\ ~mod1.ackTimer /\ mod1.assocTimer = node[n].assocTimer
        /\ mod1.decisionTimer = node[n].decisionTimer /\ mod1.currFSMState = "IDLE"
    BY <1>0 DEF Module, SameLists
  <2>4. /\ SameLists(mod2, node[n]) /\ mod2.currNodeState = node[n].currNodeState
        /\ ~mod2.assocTimer /\ mod2.ackTimer = node[n].ackTimer
        /\ mod2.decisionTimer = node[n].decisionTimer /\ mod2.currFSMState = "IDLE"
    BY <1>0 DEF Module, SameLists
  <2>5. \/ node[n].ackTimer /\ node' = [node EXCEPT ![n] = mod1]
        \/ node[n].assocTimer /\ node' = [node EXCEPT ![n] = mod2]
    BY <1>3 DEF AckTimer, AssocTimer
  <2>. HIDE DEF mod1, mod2
  <2>6. CASE node[n].ackTimer /\ node' = [node EXCEPT ![n] = mod1]
    <3>1. Fits(mod1) /\ (NoTimer(node[n]) => NoTimer(mod1))
      BY <1>0, <2>3, <2>6 DEF Fits, NoTimer
    <3>. QED  BY <2>1, <2>2, <2>3, <2>6, <3>1, SilentStep
  <2>7. CASE node[n].assocTimer /\ node' = [node EXCEPT ![n] = mod2]
    <3>1. Fits(mod2) /\ (NoTimer(node[n]) => NoTimer(mod2))
      BY <1>0, <2>4, <2>7 DEF Fits, NoTimer
    <3>. QED  BY <2>1, <2>2, <2>4, <2>7, <3>1, SilentStep
  <2>. QED  BY <2>5, <2>6, <2>7
<1>. QED  BY <1>1, <1>2, <1>3

LEMMA OneCopy ==
  ASSUME NEW n \in Node, NEW d \in Nbr(n), NEW m \in Message
  PROVE  \E c : /\ ToOne(n, d, m) = {c} /\ c.kind = m.kind /\ c.src = m.src /\ c.to = d
                /\ c \in Message
<1>. DEFINE c == [m EXCEPT !.to = d]
<1>1. ToOne(n, d, m) = {c}
  BY DEF ToOne
<1>2. c.kind = m.kind /\ c.src = m.src /\ c.to = d /\ c \in Message
  BY DEF Message, Nbr
<1>. HIDE DEF c
<1>. QED  BY <1>1, <1>2

\* A step that changes one module and puts the copy c on the air
LEMMA AirKinds ==
  ASSUME NEW gone, NEW c, air' = (air \ {gone}) \cup {c}, NEW kind
  PROVE  /\ c.kind # kind => Of(kind)' = Of(kind) \ {gone}
         /\ c.kind = kind => Of(kind)' = (Of(kind) \ {gone}) \cup {c}
BY DEF Of

LEMMA ChildChosen ==
  ASSUME BothWays, IInv, IterationInv, NEW n \in Node, ChooseChild(n)
  PROVE  IterationInv'
<1>0. node[n] \in Module /\ Fits(node[n]) /\ node[n].decisionTimer /\ ~Isolated(n) /\ Starts = {}
  BY DEF IInv, TypeOK, IterationInv, TimersFit, ChooseChild, Decides, Isolated, Starts, Of
<1>1. Current(n)
  BY <1>0 DEF IterationInv, TimersFit, NoTimer
<1>2. PICK d \in Cheapest(node[n], node[n].notInTree) :
         air' = air \cup ToOne(n, d, Packet("JOIN_REQUEST", n))
  BY DEF ChooseChild
<1>3. d \in node[n].notInTree /\ d \in Nbr(n)
  <2>1. d \in node[n].notInTree
    BY DEF Cheapest
  <2>2. d \in Node /\ n \in Nbr(d)
    BY <1>1, <2>1 DEF IterationInv, ListsRight
  <2>. QED  BY <2>1, <2>2 DEF BothWays
<1>4. PICK c : /\ ToOne(n, d, Packet("JOIN_REQUEST", n)) = {c}
               /\ c.kind = "JOIN_REQUEST" /\ c.src = n /\ c.to = d
  <2>1. /\ Packet("JOIN_REQUEST", n) \in Message /\ Packet("JOIN_REQUEST", n).kind = "JOIN_REQUEST"
        /\ Packet("JOIN_REQUEST", n).src = n
    BY PacketType
  <2>. QED  BY <1>3, <2>1, OneCopy
<1>. DEFINE mod == [node[n] EXCEPT !.decisionTimer = FALSE, !.ackTimer = TRUE,
                                   !.currFSMState = "WAITREPLY"]
<1>5. /\ SameLists(mod, node[n]) /\ mod.currNodeState = node[n].currNodeState
      /\ ~mod.decisionTimer /\ mod.assocTimer = node[n].assocTimer /\ mod.currFSMState = "WAITREPLY"
  BY <1>0 DEF Module, SameLists
<1>6. node' = [node EXCEPT ![n] = mod] /\ UNCHANGED iterationTimer
  BY DEF ChooseChild
<1>. HIDE DEF mod
<1>7. \A k \in Node : node'[k] = IF k = n THEN mod ELSE node[k]
  BY <1>6 DEF IInv, TypeOK
<1>8. /\ Of("JOIN_REQUEST")' = Of("JOIN_REQUEST") \cup {c}
      /\ \A kind : kind # "JOIN_REQUEST" => Of(kind)' = Of(kind)
      /\ Starts' = {}
  BY <1>0, <1>2, <1>4 DEF Of, Starts
<1>9. Calm /\ SameStatus
  BY <1>0, <1>5, <1>6, <1>7, <1>8 DEF Calm, SameLists, SameStatus
<1>10. \A k \in Node : (Current(k)' <=> Current(k)) /\ (Isolated(k)' <=> Isolated(k))
  BY <1>9, CalmStep DEF SameStatus, Isolated
<1>11. (Joined' <=> Joined) /\ \A p \in Node : Best(p)' => Best(p)
  BY <1>9, CalmStep
<1>12. TimersFit'
  BY <1>0, <1>1, <1>5, <1>7, <1>10 DEF IterationInv, TimersFit, Fits
<1>a. sinkAddress \in Node
  BY PairwiseAssumption
<1>b. \A m \in air : m.src \in Node /\ m.to \in Node
  BY CopyOnAir
<1>13. Asking'
  <2>. DEFINE Old == Of("JOIN_REQUEST") \cup Of("ACK_JOIN")
  <2>1. (Of("JOIN_REQUEST") \cup Of("ACK_JOIN"))' = Old \cup {c} /\ Asker(c) = n
    BY <1>4, <1>8 DEF Asker
  <2>2. \A m \in Old : /\ Asker(m) \in Node /\ Asker(m) # n /\ node[Asker(m)].currFSMState = "WAITREPLY"
                       /\ ~Isolated(Asker(m)) /\ Current(Asker(m))
    BY <1>0, <1>b DEF IterationInv, Asking, Fits, Asker, Of
  <2>3. \A m \in Old : node'[Asker(m)].currFSMState = "WAITREPLY" /\ ~Isolated(Asker(m))' /\ Current(Asker(m))'
    BY <1>7, <1>10, <2>2
  <2>4. node'[n].currFSMState = "WAITREPLY" /\ ~Isolated(n)' /\ Current(n)'
    BY <1>0, <1>1, <1>5, <1>7, <1>10
  <2>5. \A m, k \in Old \cup {c} : Asker(m) = Asker(k) => m = k
    BY <2>1, <2>2 DEF IterationInv, Asking
  <2>6. \A m \in Of("JOIN_REQUEST") \cup {c} : m.to \in node'[m.src].notInTree
    <3>1. \A k \in Node : node'[k].notInTree = node[k].notInTree
      BY <1>9 DEF Calm, SameLists
    <3>. QED  BY <1>3, <1>4, <1>b, <3>1 DEF IterationInv, Asking, Of
  <2>7. \A m \in Of("PROPAGATE") : ~Isolated(m.to)'
    BY <1>10, <1>b DEF IterationInv, Asking, Of
  <2>. HIDE DEF Old
  <2>. QED  BY <1>8, <2>1, <2>3, <2>4, <2>5, <2>6, <2>7 DEF Asking, Asker
<1>14. NewsComes'
  BY <1>8, <1>9, <1>11, <1>a DEF IterationInv, NewsComes, Calm, SameLists
<1>15. IsolatedWait'
  <2>. SUFFICES ASSUME ~Joined, NEW k \in Node, Current(k), Isolated(k)
                PROVE  \/ node'[k].decisionTimer
                       \/ /\ node'[k].currFSMState = "WAITREQUEST"
                          /\ node'[k].inTree # {}
                               => node'[k].favoriteParent \in Cheapest(node'[k], node'[k].inTree)
    BY <1>10, <1>11 DEF IsolatedWait
  <2>1. node'[k] = node[k] /\ ~Quiet
    BY <1>0, <1>7 DEF Quiet
  <2>. QED  BY <2>1 DEF IterationInv, IsolatedWait
<1>16. BestAsks'
  <2>. SUFFICES ASSUME ~Joined, NEW p \in Node, Current(p), ~Isolated(p), node'[p].notInTree # {}, Best(p)
                PROVE  node'[p].decisionTimer \/ \E m \in Of("JOIN_REQUEST") \cup {c} : m.src = p
    BY <1>8, <1>10, <1>11 DEF BestAsks
  <2>1. node[p].notInTree # {}
    BY <1>9 DEF Calm, SameLists
  <2>2. node[p].decisionTimer \/ \E m \in Of("JOIN_REQUEST") : m.src = p
    BY <2>1 DEF IterationInv, BestAsks
  <2>. QED  BY <1>4, <1>7, <2>2
<1>. QED  BY <1>9, <1>12, <1>13, <1>14, <1>15, <1>16, CalmStep DEF IterationInv

\* A request comes to a node that was heard to be isolated, after the beginning has spread.
LEMMA RequestComes ==
  ASSUME TreeInv, IterationInv, NEW m \in air, m.kind \in {"JOIN_REQUEST", "ACK_JOIN", "PROPAGATE"}
  PROVE  /\ Starts = {} /\ ~Quiet
         /\ m.kind = "JOIN_REQUEST" => /\ Current(m.src) /\ Current(m.to) /\ ~Isolated(m.src)
                                       /\ m.to \in node[m.src].notInTree /\ m.src \in Nbr(m.to)
                                       /\ m.to \in Nbr(m.src)
                                       /\ node[m.src].currFSMState = "WAITREPLY"
                                       /\ node[sinkAddress].iterationStep > 0
<1>1. m \in Control /\ m \notin Starts
  BY DEF Control, Data, Starts, Of
<1>2. Starts = {} /\ ~Quiet
  BY <1>1 DEF IterationInv, Spreading, Quiet
<1>3. ASSUME m.kind = "JOIN_REQUEST"
      PROVE  /\ Current(m.src) /\ ~Isolated(m.src) /\ m.to \in node[m.src].notInTree
             /\ node[m.src].currFSMState = "WAITREPLY"
  BY <1>3 DEF IterationInv, Asking, Asker, Of
<1>4. m.src \in Node /\ node[sinkAddress].iterationStep \in Nat
  BY CopyOnAir, PairwiseAssumption DEF TreeInv, IInv, TypeOK, Module
<1>5. ASSUME m.kind = "JOIN_REQUEST" PROVE Current(m.to) /\ m.src \in Nbr(m.to) /\ m.to \in Nbr(m.src)
  BY <1>3, <1>4, <1>5 DEF IterationInv, ListsRight, TreeInv, AskedNeighbours
<1>6. ASSUME m.kind = "JOIN_REQUEST" PROVE node[sinkAddress].iterationStep > 0
  BY <1>3, <1>4, <1>6 DEF IterationInv, Spreading
<1>. QED  BY <1>2, <1>3, <1>5, <1>6

LEMMA RequestRefused ==
  ASSUME TreeInv, IterationInv, ~disturbed', NEW m \in air, JoinRequest(m),
         ~(WaitsForRequest(m.to) /\ Accepts(node[m.to], m.src))
  PROVE  IterationInv'
<1>. DEFINE n == m.to
            q == m.src
<1>0. m.kind = "JOIN_REQUEST" /\ IInv /\ n \in Node /\ q \in Node
  BY CopyOnAir DEF JoinRequest, Receive, TreeInv
<1>1. /\ Starts = {} /\ ~Quiet /\ Current(q) /\ Current(n) /\ ~Isolated(q)
      /\ n \in node[q].notInTree /\ n \in Nbr(q)
      /\ node[sinkAddress].iterationStep > 0
  BY <1>0, RequestComes
<1>2. node' = node /\ air' = air \ {m} /\ UNCHANGED iterationTimer /\ node[n].currFSMState # "WAITDECISION"
  BY DEF JoinRequest
<1>3. \A kind : Of(kind)' = Of(kind) \ {m}
  BY <1>2 DEF Of
<1>4. Starts' = {} /\ \A kind : kind # "JOIN_REQUEST" => Of(kind)' = Of(kind)
  BY <1>0, <1>1, <1>2 DEF Of, Starts
<1>5. Calm /\ SameStatus
  BY <1>1, <1>2, <1>4 DEF Calm, SameLists, SameStatus
<1>6. \A k \in Node : (Current(k)' <=> Current(k)) /\ (Isolated(k)' <=> Isolated(k))
  BY <1>2 DEF Current, Isolated
<1>7. (Joined' <=> Joined) /\ \A p \in Node : Best(p)' => Best(p)
  BY <1>5, CalmStep
<1>8. TimersFit'
  BY <1>2, <1>6 DEF IterationInv, TimersFit
<1>9. Asking'
  BY <1>2, <1>3 DEF IterationInv, Asking, Isolated, Current
<1>10. NewsComes'
  BY <1>2, <1>4, <1>7 DEF IterationInv, NewsComes
<1>11. IsolatedWait'
  <2>1. ~Joined => \A c \in Node : Current(c) /\ Isolated(c) =>
          \/ node[c].decisionTimer
          \/ /\ node[c].currFSMState = "WAITREQUEST"
             /\ node[c].inTree # {} => node[c].favoriteParent \in Cheapest(node[c], node[c].inTree)
    BY <1>1 DEF IterationInv, IsolatedWait
  <2>. QED  BY <1>2, <1>6, <1>7, <2>1 DEF IsolatedWait
<1>12. ASSUME ~Joined PROVE ~Best(q)
  <2>1. Isolated(n)
    BY <1>0, <1>1, <1>12 DEF Joined
  <2>2. Fits(node[n])
    BY <1>0 DEF IterationInv, TimersFit
  <2>3. /\ node[n].currFSMState = "WAITREQUEST"
        /\ node[n].inTree # {} => node[n].favoriteParent \in Cheapest(node[n], node[n].inTree)
    BY <1>0, <1>1, <1>2, <1>12, <2>1, <2>2 DEF IterationInv, IsolatedWait, Fits
  <2>4. q \in node[n].inTree
    <3>1. q \in node[n].inTree \cup node[n].notInTree
      BY <1>0, <1>1 DEF IterationInv, Heard
    <3>. QED  BY <1>0, <1>1, <1>12, <3>1 DEF Joined
  <2>5. ~(node[n].neighbours[q] <= node[n].neighbours[node[n].favoriteParent])
    BY <2>3 DEF WaitsForRequest, Accepts
  <2>6. node[n].favoriteParent \in node[n].inTree
    BY <2>3, <2>4 DEF Cheapest
  <2>7. q \notin Cheapest(node[n], node[n].inTree)
    BY <2>5, <2>6 DEF Cheapest
  <2>. QED  BY <1>0, <1>1, <2>1, <2>4, <2>7 DEF Best
<1>13. BestAsks'
  <2>. SUFFICES ASSUME ~Joined, NEW p \in Node, Current(p), ~Isolated(p), node[p].notInTree # {}, Best(p)
                PROVE  node[p].decisionTimer \/ \E k \in Of("JOIN_REQUEST") \ {m} : k.src = p
    BY <1>2, <1>3, <1>6, <1>7 DEF BestAsks
  <2>1. node[p].decisionTimer \/ \E k \in Of("JOIN_REQUEST") : k.src = p
    BY DEF IterationInv, BestAsks
  <2>2. p # q
    BY <1>12
  <2>. QED  BY <2>1, <2>2
<1>. QED  BY <1>5, <1>8, <1>9, <1>10, <1>11, <1>13, CalmStep DEF IterationInv

LEMMA RequestAccepted ==
  ASSUME TreeInv, IterationInv, NEW m \in air, JoinRequest(m),
         WaitsForRequest(m.to) /\ Accepts(node[m.to], m.src)
  PROVE  IterationInv'
<1>. DEFINE n == m.to
            q == m.src
            mod == [node[n] EXCEPT !.favoriteParent = q, !.myParentInTree = q,
                                   !.currNodeState = "IN_TREE", !.currFSMState = "IDLE",
                                   !.assocTimer = FALSE]
<1>0. m.kind = "JOIN_REQUEST" /\ IInv /\ n \in Node /\ q \in Node /\ node[n] \in Module
  BY CopyOnAir DEF JoinRequest, Receive, TreeInv
<1>1. /\ Starts = {} /\ Current(q) /\ Current(n) /\ ~Isolated(q)
      /\ n \in node[q].notInTree /\ q \in Nbr(n) /\ node[q].currFSMState = "WAITREPLY"
  BY <1>0, RequestComes
<1>2. PICK c : /\ ToOne(n, q, Packet("ACK_JOIN", n)) = {c}
               /\ c.kind = "ACK_JOIN" /\ c.src = n /\ c.to = q
  <2>1. Packet("ACK_JOIN", n) \in Message /\ Packet("ACK_JOIN", n).kind = "ACK_JOIN" /\ Packet("ACK_JOIN", n).src = n
    BY <1>0, PacketType
  <2>. QED  BY <1>0, <1>1, <2>1, OneCopy
<1>3. node' = [node EXCEPT ![n] = mod] /\ air' = (air \ {m}) \cup {c} /\ UNCHANGED iterationTimer
  BY <1>2 DEF JoinRequest
<1>4. /\ SameLists(mod, node[n]) /\ mod.currNodeState = "IN_TREE" /\ mod.currFSMState = "IDLE"
      /\ ~mod.assocTimer /\ mod.ackTimer = node[n].ackTimer /\ mod.decisionTimer = node[n].decisionTimer
  BY <1>0 DEF Module, SameLists
<1>. HIDE DEF mod
<1>5. \A k \in Node : node'[k] = IF k = n THEN mod ELSE node[k]
  BY <1>0, <1>3 DEF IInv, TypeOK
<1>6. /\ Of("JOIN_REQUEST")' = Of("JOIN_REQUEST") \ {m} /\ Of("ACK_JOIN")' = Of("ACK_JOIN") \cup {c}
      /\ Of("PROPAGATE")' = Of("PROPAGATE") /\ Starts' = {}
  BY <1>0, <1>1, <1>2, <1>3 DEF Of, Starts
<1>7. Calm
  BY <1>0, <1>1, <1>3, <1>4, <1>5, <1>6 DEF Calm, SameLists
<1>8. \A k \in Node : (Current(k)' <=> Current(k)) /\ (~Isolated(k) => ~Isolated(k)')
  BY <1>7, CalmStep DEF Isolated, Calm, SameLists
<1>9. Joined'
  <2>1. n \in node'[q].notInTree /\ Current(q)' /\ ~Isolated(n)'
    BY <1>0, <1>1, <1>4, <1>5, <1>7, <1>8 DEF Calm, SameLists, Isolated
  <2>. QED  BY <1>0, <2>1 DEF Joined
<1>10. NewsComes' /\ IsolatedWait' /\ BestAsks'
  BY <1>6, <1>9 DEF NewsComes, IsolatedWait, BestAsks
<1>a. node[n].currFSMState = "WAITREQUEST" /\ Fits(node[n])
  BY <1>0 DEF WaitsForRequest, IterationInv, TimersFit
<1>11. TimersFit'
  BY <1>0, <1>1, <1>4, <1>5, <1>8, <1>a DEF IterationInv, TimersFit, Fits
<1>b. \A k \in air : k.src \in Node /\ k.to \in Node
  BY <1>0, CopyOnAir
<1>12. Asking'
  <2>. DEFINE Old == (Of("JOIN_REQUEST") \cup Of("ACK_JOIN")) \ {m}
  <2>1. (Of("JOIN_REQUEST") \cup Of("ACK_JOIN"))' = Old \cup {c} /\ Asker(c) = q
    BY <1>0, <1>2, <1>6 DEF Asker, Of
  <2>2. \A k \in Old : /\ Asker(k) \in Node /\ Asker(k) # q /\ node[Asker(k)].currFSMState = "WAITREPLY"
                       /\ ~Isolated(Asker(k)) /\ Current(Asker(k))
    <3>1. m \in Of("JOIN_REQUEST") /\ Asker(m) = q
      BY <1>0 DEF Of, Asker
    <3>. QED  BY <1>b, <3>1 DEF IterationInv, Asking, Asker, Of
  <2>3. \A k \in Old : node'[Asker(k)].currFSMState = "WAITREPLY" /\ ~Isolated(Asker(k))' /\ Current(Asker(k))'
    BY <1>5, <1>8, <1>a, <2>2
  <2>4. node'[q].currFSMState = "WAITREPLY" /\ ~Isolated(q)' /\ Current(q)'
    BY <1>0, <1>1, <1>5, <1>8, <1>a
  <2>5. \A k, l \in Old \cup {c} : Asker(k) = Asker(l) => k = l
    BY <2>1, <2>2 DEF IterationInv, Asking
  <2>6. \A k \in Of("JOIN_REQUEST") : k.to \in node'[k.src].notInTree
    <3>1. \A k \in Node : node'[k].notInTree = node[k].notInTree
      BY <1>7 DEF Calm, SameLists
    <3>. QED  BY <1>b, <3>1 DEF IterationInv, Asking, Of
  <2>7. \A k \in Of("PROPAGATE") : ~Isolated(k.to)'
    BY <1>8, <1>b DEF IterationInv, Asking, Of
  <2>. HIDE DEF Old
  <2>. QED  BY <1>6, <2>1, <2>3, <2>4, <2>5, <2>6, <2>7 DEF Asking, Asker
<1>. QED  BY <1>7, <1>10, <1>11, <1>12, CalmStep DEF IterationInv

\* A member other than the sink can tell its parent, which is a member.
LEMMA ParentHears ==
  ASSUME BothWays, TreeInv, NEW n \in Node, ~Isolated(n), n # sinkAddress, NEW msg \in Message
  PROVE  \E c : /\ ToOne(n, node[n].myParentInTree, msg) = {c}
                /\ c.kind = msg.kind /\ c.src = msg.src /\ c.to \in Node /\ ~Isolated(c.to)
<1>. DEFINE p == node[n].myParentInTree
<1>1. node[n].currNodeState = "IN_TREE" /\ p \in Node
  BY DEF TreeInv, IInv, ModuleOK, Isolated, TypeOK, Module, Status
<1>2. p \in Nbr(n) /\ ~Isolated(p)
  BY <1>1 DEF TreeInv, ParentsJoined, BothWays
<1>. HIDE DEF p
<1>3. PICK c : ToOne(n, p, msg) = {c} /\ c.kind = msg.kind /\ c.src = msg.src /\ c.to = p
  BY <1>2, OneCopy
<1>. QED  BY <1>1, <1>2, <1>3 DEF p

\* An answer, or news of a new node, comes to a member, which passes it on to the sink.
LEMMA NewsPassed ==
  ASSUME TreeInv, IterationInv, NEW m \in air, m.kind \in {"ACK_JOIN", "PROPAGATE"}, ~Isolated(m.to),
         NEW mod, node' = [node EXCEPT ![m.to] = mod], UNCHANGED iterationTimer,
         SameLists(mod, node[m.to]), mod.currNodeState = node[m.to].currNodeState,
         mod.treeUpdated, mod.decisionTimer = node[m.to].decisionTimer,
         mod.assocTimer = node[m.to].assocTimer,
         \/ /\ m.kind = "ACK_JOIN" /\ ~mod.ackTimer
            /\ node[m.to].currFSMState = "WAITREPLY"
         \/ /\ m.kind = "PROPAGATE" /\ mod.ackTimer = node[m.to].ackTimer
            /\ mod.currFSMState = node[m.to].currFSMState,
         NEW New, air' = (air \ {m}) \cup New,
         \/ m.to = sinkAddress /\ New = {}
         \/ \E c : New = {c} /\ c.kind = "PROPAGATE" /\ c.to \in Node /\ ~Isolated(c.to)
  PROVE  IterationInv'
<1>. DEFINE n == m.to
<1>0. /\ IInv /\ n \in Node /\ node[n] \in Module /\ Fits(node[n]) /\ sinkAddress \in Node
      /\ \A k \in air : k.src \in Node /\ k.to \in Node
  BY CopyOnAir, PairwiseAssumption DEF TreeInv, IterationInv, TimersFit
<1>1. Starts = {} /\ ~Quiet
  BY RequestComes
<1>2. /\ Of("JOIN_REQUEST")' = Of("JOIN_REQUEST") /\ Starts' = {}
      /\ Of("ACK_JOIN")' = Of("ACK_JOIN") \ {m}
      /\ Of("PROPAGATE")' = (Of("PROPAGATE") \ {m}) \cup New
  BY <1>1 DEF Of, Starts
<1>3. \A k \in Node : node'[k] = IF k = n THEN mod ELSE node[k]
  BY <1>0 DEF IInv, TypeOK
<1>4. Calm /\ SameStatus
  BY <1>1, <1>2, <1>3 DEF Calm, SameLists, SameStatus
<1>5. \A k \in Node : (Current(k)' <=> Current(k)) /\ (Isolated(k)' <=> Isolated(k))
  BY <1>4, CalmStep DEF SameStatus, Isolated
<1>6. (Joined' <=> Joined) /\ \A p \in Node : Best(p)' => Best(p)
  BY <1>4, CalmStep
<1>7. Fits(mod) /\ (NoTimer(node[n]) => NoTimer(mod))
  BY <1>0 DEF Fits, NoTimer
<1>8. TimersFit'
  BY <1>3, <1>5, <1>7 DEF IterationInv, TimersFit
<1>9. Asking'
  <2>. DEFINE Old == Of("JOIN_REQUEST") \cup (Of("ACK_JOIN") \ {m})
  <2>1. (Of("JOIN_REQUEST") \cup Of("ACK_JOIN"))' = Old
    BY <1>2
  <2>2. \A k \in Old : /\ Asker(k) \in Node /\ node[Asker(k)].currFSMState = "WAITREPLY"
                       /\ ~Isolated(Asker(k)) /\ Current(Asker(k))
                       /\ m.kind = "ACK_JOIN" => Asker(k) # n
    <3>1. m.kind = "ACK_JOIN" => m \in Of("ACK_JOIN") /\ m \notin Old /\ Asker(m) = n
      BY DEF Of, Asker
    <3>. QED  BY <1>0, <3>1 DEF IterationInv, Asking, Asker, Of
  <2>3. \A k \in Old : node'[Asker(k)].currFSMState = "WAITREPLY" /\ ~Isolated(Asker(k))' /\ Current(Asker(k))'
    BY <1>3, <1>5, <2>2
  <2>4. \A k, l \in Old : Asker(k) = Asker(l) => k = l
    BY DEF IterationInv, Asking
  <2>5. \A k \in Of("JOIN_REQUEST") : k.to \in node'[k.src].notInTree
    <3>1. \A k \in Node : node'[k].notInTree = node[k].notInTree
      BY <1>4 DEF Calm, SameLists
    <3>. QED  BY <1>0, <3>1 DEF IterationInv, Asking, Of
  <2>6. \A k \in Of("PROPAGATE") \cup New : ~Isolated(k.to)'
    BY <1>0, <1>5 DEF IterationInv, Asking, Of
  <2>. HIDE DEF Old
  <2>. QED  BY <1>2, <2>1, <2>3, <2>4, <2>5, <2>6 DEF Asking, Asker
<1>10. NewsComes'
  BY <1>0, <1>2, <1>3 DEF NewsComes
<1>11. IsolatedWait'
  <2>. SUFFICES ASSUME ~Joined, NEW k \in Node, Current(k), Isolated(k)
                PROVE  \/ node'[k].decisionTimer
                       \/ /\ node'[k].currFSMState = "WAITREQUEST"
                          /\ node'[k].inTree # {}
                               => node'[k].favoriteParent \in Cheapest(node'[k], node'[k].inTree)
    BY <1>5, <1>6 DEF IsolatedWait
  <2>1. node'[k] = node[k]
    BY <1>3
  <2>. QED  BY <1>1, <2>1 DEF IterationInv, IsolatedWait
<1>12. BestAsks'
  <2>. SUFFICES ASSUME ~Joined, NEW p \in Node, Current(p), ~Isolated(p), node'[p].notInTree # {}, Best(p)
                PROVE  node'[p].decisionTimer \/ \E k \in Of("JOIN_REQUEST") : k.src = p
    BY <1>2, <1>5, <1>6 DEF BestAsks
  <2>1. node[p].notInTree # {}
    BY <1>4 DEF Calm, SameLists
  <2>. QED  BY <1>3, <2>1 DEF IterationInv, BestAsks
<1>. QED  BY <1>4, <1>8, <1>9, <1>10, <1>11, <1>12, CalmStep DEF IterationInv

LEMMA AnswerComes ==
  ASSUME BothWays, TreeInv, IterationInv, NEW m \in air, AckJoin(m)
  PROVE  IterationInv'
<1>. DEFINE n == m.to
            mod == [node[n] EXCEPT !.subTree[m.src] = m.src, !.treeUpdated = TRUE,
                                   !.ackTimer = FALSE, !.currFSMState = "IDLE"]
            New == TellsParent(n, m.src)
<1>0. /\ m.kind = "ACK_JOIN" /\ IInv /\ n \in Node /\ m.src \in Node /\ node[n] \in Module
      /\ ModuleOK(n, node[n])
  BY CopyOnAir DEF AckJoin, Receive, TreeInv
<1>1. node[n].currFSMState = "WAITREPLY" /\ ~Isolated(n)
  BY <1>0 DEF IterationInv, Asking, Asker, Of
<1>2. node' = [node EXCEPT ![n] = mod] /\ air' = (air \ {m}) \cup New /\ UNCHANGED iterationTimer
  BY <1>1 DEF AckJoin
<1>3. /\ SameLists(mod, node[n]) /\ mod.currNodeState = node[n].currNodeState
      /\ mod.treeUpdated /\ ~mod.ackTimer /\ mod.decisionTimer = node[n].decisionTimer
      /\ mod.assocTimer = node[n].assocTimer
  BY <1>0 DEF Module, SameLists
<1>4. \/ n = sinkAddress /\ New = {}
      \/ \E c : New = {c} /\ c.kind = "PROPAGATE" /\ c.to \in Node /\ ~Isolated(c.to)
  <2>. DEFINE pkt == Packet("PROPAGATE", n)
              news == [pkt EXCEPT !.initialSrc = m.src]
  <2>1. news \in Message /\ news.kind = "PROPAGATE"
    <3>1. pkt \in Message /\ pkt.kind = "PROPAGATE"
      BY <1>0, PacketType
    <3>. HIDE DEF pkt
    <3>. QED  BY <1>0, <3>1 DEF Message
  <2>2. New = IF n = sinkAddress THEN {} ELSE ToOne(n, node[n].myParentInTree, news)
    BY <1>0 DEF TellsParent, ModuleOK
  <2>. HIDE DEF news, New
  <2>. QED  BY <1>0, <1>1, <2>1, <2>2, ParentHears
<1>. HIDE DEF mod, New
<1>. QED  BY <1>0, <1>1, <1>2, <1>3, <1>4, NewsPassed

LEMMA NewsOfNode ==
  ASSUME BothWays, TreeInv, IterationInv, NEW m \in air, Propagate(m)
  PROVE  IterationInv'
<1>. DEFINE n == m.to
            mod == [node[n] EXCEPT !.treeUpdated = TRUE,
                                   !.subTree[m.src] = IF @ = NoNode THEN sinkAddress ELSE @]
            New == IF node[n].currNodeState = "SINK" THEN {} ELSE ToOne(n, node[n].myParentInTree, m)
<1>0. /\ m.kind = "PROPAGATE" /\ m \in Message /\ IInv /\ n \in Node /\ node[n] \in Module
      /\ ModuleOK(n, node[n])
  BY CopyOnAir DEF Propagate, Receive, TreeInv
<1>1. ~Isolated(n)
  BY <1>0 DEF IterationInv, Asking, Of
<1>2. node' = [node EXCEPT ![n] = mod] /\ air' = (air \ {m}) \cup New /\ UNCHANGED iterationTimer
  BY DEF Propagate
<1>3. /\ SameLists(mod, node[n]) /\ mod.currNodeState = node[n].currNodeState
      /\ mod.treeUpdated /\ mod.ackTimer = node[n].ackTimer /\ mod.decisionTimer = node[n].decisionTimer
      /\ mod.assocTimer = node[n].assocTimer /\ mod.currFSMState = node[n].currFSMState
  BY <1>0 DEF Module, SameLists
<1>4. \/ n = sinkAddress /\ New = {}
      \/ \E c : New = {c} /\ c.kind = "PROPAGATE" /\ c.to \in Node /\ ~Isolated(c.to)
  <2>1. New = IF n = sinkAddress THEN {} ELSE ToOne(n, node[n].myParentInTree, m)
    BY <1>0 DEF ModuleOK
  <2>. HIDE DEF New
  <2>. QED  BY <1>0, <1>1, <2>1, ParentHears
<1>. HIDE DEF mod, New
<1>. QED  BY <1>0, <1>1, <1>2, <1>3, <1>4, NewsPassed

-----------------------------------------------------------------------------
(* The beginning of an iteration *)

LEMMA Readdressed ==
  ASSUME NEW msg \in Message, NEW r
  PROVE  /\ [msg EXCEPT !.to = r].kind = msg.kind /\ [msg EXCEPT !.to = r].src = msg.src
         /\ [msg EXCEPT !.to = r].to = r /\ [msg EXCEPT !.to = r].status = msg.status
         /\ [msg EXCEPT !.to = r].metric = msg.metric
         /\ [msg EXCEPT !.to = r].iteration = msg.iteration
BY DEF Message

\* A copy of the beginning comes to a node, which notes its sender and, if the iteration
\* is new to it, tells its neighbours.
LEMMA BeginningComes ==
  ASSUME GoodLinks, TreeInv, IterationInv, NEW m \in air, NEW quality \in Link[m.src][m.to],
         IterationStart(m, quality)
  PROVE  IterationInv'
<1>. DEFINE n == m.to
            p == m.src
            new == ~Current(n)
            root == sinkAddress
            old == IF NewIteration(n, m) THEN Begin(node[n], m.iteration) ELSE node[n]
            mod == Hear(old, m, quality)
            repeat == [m EXCEPT !.src = n, !.status = node[n].currNodeState, !.metric = Metric(node[n])]
            New == IF new THEN ToAll(n, repeat) ELSE {}
<1>0. /\ IInv /\ m \in Message /\ n \in Node /\ p \in Node /\ node[n] \in Module /\ root \in Node
      /\ \A k \in Node : node[k].iterationStep \in Nat
      /\ \A k \in air : k.src \in Node /\ k.to \in Node
  BY CopyOnAir, PairwiseAssumption DEF TreeInv, IInv, TypeOK, Module
<1>1. m \in Starts /\ quality = "good"
  BY <1>0 DEF IterationStart, Receive, Starts, Of, GoodLinks
<1>2. /\ m.iteration = node[root].iterationStep /\ Current(p) /\ n \in Nbr(p)
      /\ m.status = "ISOLATED" <=> Isolated(p)
      /\ Control = Starts /\ node[root].iterationStep > 0
      /\ \A k \in Node : Current(k) => node[k].decisionTimer
      /\ \A k \in Node : node[k].iterationStep <= node[root].iterationStep
  BY <1>1 DEF IterationInv, Spreading
<1>3. NewIteration(n, m) <=> new
  BY <1>0, <1>2 DEF NewIteration, Current
<1>4. /\ node' = [node EXCEPT ![n] = mod] /\ UNCHANGED iterationTimer
      /\ air' = (air \ {m}) \cup New
  BY <1>3 DEF IterationStart
<1>5. /\ old \in Module /\ old.currNodeState = node[n].currNodeState
      /\ old.treeUpdated = node[n].treeUpdated /\ old.neighbours = node[n].neighbours
      /\ old.iterationStep = node[root].iterationStep /\ old.decisionTimer
      /\ old.inTree = (IF new THEN {} ELSE node[n].inTree)
      /\ old.notInTree = (IF new THEN {} ELSE node[n].notInTree)
      /\ Fits(old) /\ ~old.ackTimer /\ ~old.assocTimer
  <2>1. Fits(node[n]) /\ (new => NoTimer(node[n]))
    BY <1>0 DEF IterationInv, TimersFit
  <2>2. CASE new
    <3>1. old = Begin(node[n], m.iteration) /\ m.iteration \in Nat
      BY <1>0, <1>3, <2>2 DEF Message
    <3>. HIDE DEF old
    <3>. QED  BY <1>0, <1>2, <2>1, <2>2, <3>1 DEF Begin, Module, FSMState, Fits, NoTimer
  <2>3. CASE ~new
    <3>1. old = node[n]
      BY <1>3, <2>3
    <3>. HIDE DEF old
    <3>. QED  BY <1>0, <1>2, <2>1, <2>3, <3>1 DEF Current, Fits
  <2>. QED  BY <2>2, <2>3
<1>. HIDE DEF old
<1>6. /\ mod.currNodeState = node[n].currNodeState /\ mod.treeUpdated = node[n].treeUpdated
      /\ mod.iterationStep = node[root].iterationStep /\ mod.decisionTimer
      /\ Fits(mod) /\ ~mod.ackTimer /\ ~mod.assocTimer
      /\ mod.inTree = old.inTree \cup (IF m.status # "ISOLATED" THEN {p} ELSE {})
      /\ mod.notInTree = old.notInTree \cup (IF m.status = "ISOLATED" THEN {p} ELSE {})
  BY <1>5 DEF Hear, Module, Fits
<1>7. /\ mod.neighbours[p] = OneHopMore(m.metric)
      /\ \A x \in Node \ {p} : mod.neighbours[x] = node[n].neighbours[x]
  BY <1>0, <1>1, <1>5 DEF Hear, Module
<1>. HIDE DEF mod
<1>8. /\ \A c \in New : /\ c.kind = "ITERATION_START" /\ c.src = n /\ c.to \in Nbr(n)
                        /\ c.status = node[n].currNodeState /\ c.metric = Metric(node[n])
                        /\ c.iteration = m.iteration
      /\ new => \A r \in Nbr(n) : \E c \in New : c.to = r
  <2>1. repeat \in Message /\ repeat.kind = "ITERATION_START" /\ repeat.src = n
        /\ repeat.status = node[n].currNodeState /\ repeat.metric = Metric(node[n])
        /\ repeat.iteration = m.iteration
    BY <1>0, <1>1, MetricType DEF Message, Module, Starts, Of
  <2>. HIDE DEF repeat
  <2>3. \A c \in New : new /\ \E r \in Nbr(n) : c = [repeat EXCEPT !.to = r]
    BY DEF ToAll
  <2>4. new => \A r \in Nbr(n) : [repeat EXCEPT !.to = r] \in New
    BY DEF ToAll
  <2>. HIDE DEF New
  <2>5. ASSUME NEW c \in New
        PROVE  /\ c.kind = "ITERATION_START" /\ c.src = n /\ c.to \in Nbr(n)
               /\ c.status = node[n].currNodeState /\ c.metric = Metric(node[n])
               /\ c.iteration = m.iteration
    <3>1. PICK r \in Nbr(n) : c = [repeat EXCEPT !.to = r]
      BY <2>3
    <3>. QED  BY <2>1, <3>1, Readdressed
  <2>6. ASSUME new, NEW r \in Nbr(n) PROVE \E c \in New : c.to = r
    BY <2>1, <2>4, <2>6, Readdressed
  <2>. QED  BY <2>5, <2>6
<1>. HIDE DEF New
<1>9. New # {} => new
  BY DEF New
<1>10. /\ Starts' = (Starts \ {m}) \cup New /\ Control' = Starts'
       /\ Of("JOIN_REQUEST")' = {} /\ Of("ACK_JOIN")' = {} /\ Of("PROPAGATE")' = {}
  <2>1. \A k \in air : k \in Starts \/ k.kind = "DATA"
    BY <1>2 DEF Control, Data
  <2>. QED  BY <1>4, <1>8, <2>1 DEF Starts, Of, Control, Data
<1>11. \A k \in Node : node'[k] = IF k = n THEN mod ELSE node[k]
  BY <1>0, <1>4 DEF IInv, TypeOK
<1>12. \A k \in Node : Isolated(k)' <=> Isolated(k)
  BY <1>6, <1>11 DEF Isolated
<1>13. /\ node'[root].iterationStep = node[root].iterationStep
       /\ node'[root].treeUpdated = node[root].treeUpdated
       /\ \A k \in Node : Current(k)' <=> k = n \/ Current(k)
  <2>1. node'[root].iterationStep = node[root].iterationStep /\ node'[root].treeUpdated = node[root].treeUpdated
    BY <1>0, <1>6, <1>11
  <2>. QED  BY <1>0, <1>6, <1>11, <2>1 DEF Current
<1>14. \A k \in Node : Current(k)' => node'[k].decisionTimer
  BY <1>2, <1>6, <1>11, <1>13
<1>15. Spreading'
  <2>1. \A k \in Node : node'[k].iterationStep <= node'[root].iterationStep
    BY <1>0, <1>2, <1>6, <1>11, <1>13
  <2>2. \A k \in Starts : /\ k.iteration = node[root].iterationStep /\ Current(k.src)
                          /\ k.to \in Nbr(k.src) /\ k.src \in Node
                          /\ k.status = "ISOLATED" <=> Isolated(k.src)
    BY <1>0 DEF IterationInv, Spreading, Starts, Of
  <2>3. \A k \in Starts' : /\ k.iteration = node'[root].iterationStep /\ Current(k.src)'
                           /\ k.to \in Nbr(k.src)
                           /\ k.status = "ISOLATED" <=> Isolated(k.src)'
    BY <1>0, <1>2, <1>8, <1>10, <1>12, <1>13, <2>2 DEF Isolated
  <2>. QED  BY <1>2, <1>10, <1>13, <1>14, <2>1, <2>3 DEF Spreading
<1>16. Heard'
  <2>. SUFFICES ASSUME NEW k \in Node, Current(k)', NEW r \in Nbr(k)
                PROVE  \/ \E x \in Starts' : x.src = k /\ x.to = r
                       \/ Current(r)' /\ k \in node'[r].inTree \cup node'[r].notInTree
    BY DEF Heard
  <2>1. CASE k = n /\ new
    BY <1>8, <1>10, <2>1
  <2>2. CASE Current(k)
    <3>0. r \in Node
      BY DEF Nbr
    <3>1. CASE \E x \in Starts \ {m} : x.src = k /\ x.to = r
      BY <1>10, <3>1
    <3>2. CASE k = p /\ r = n
      BY <1>6, <1>11, <1>13, <3>0, <3>2
    <3>3. CASE Current(r) /\ k \in node[r].inTree \cup node[r].notInTree
      BY <1>5, <1>6, <1>11, <1>13, <3>0, <3>3
    <3>4. \/ \E x \in Starts : x.src = k /\ x.to = r
          \/ Current(r) /\ k \in node[r].inTree \cup node[r].notInTree
      BY <1>2, <2>2 DEF IterationInv, Heard
    <3>. QED  BY <3>1, <3>2, <3>3, <3>4
  <2>. QED  BY <1>13, <2>1, <2>2
<1>17. \A r \in Node : Current(r)' =>
         /\ \A x \in node'[r].inTree : x \in Node /\ Current(x) /\ r \in Nbr(x) /\ ~Isolated(x)
         /\ \A x \in node'[r].notInTree : x \in Node /\ Current(x) /\ r \in Nbr(x) /\ Isolated(x)
  <2>1. \A r \in Node : Current(r) =>
          /\ \A x \in node[r].inTree : x \in Node /\ Current(x) /\ r \in Nbr(x) /\ ~Isolated(x)
          /\ \A x \in node[r].notInTree : x \in Node /\ Current(x) /\ r \in Nbr(x) /\ Isolated(x)
    BY <1>1 DEF IterationInv, ListsRight
  <2>2. \A x \in mod.inTree : x \in Node /\ Current(x) /\ n \in Nbr(x) /\ ~Isolated(x)
    BY <1>0, <1>2, <1>5, <1>6, <2>1
  <2>3. \A x \in mod.notInTree : x \in Node /\ Current(x) /\ n \in Nbr(x) /\ Isolated(x)
    BY <1>0, <1>2, <1>5, <1>6, <2>1
  <2>. QED  BY <1>11, <1>13, <2>1, <2>2, <2>3
<1>18. ListsRight'
  BY <1>12, <1>13, <1>17 DEF ListsRight
<1>19. CostsAgree'
  <2>1. \A r, s \in Node : Current(r) /\ Current(s) =>
          \A x \in node[r].inTree \cap node[s].inTree : node[r].neighbours[x] = node[s].neighbours[x]
    BY DEF IterationInv, CostsAgree
  <2>2. \A k \in Starts : \A r \in Node :
          Current(r) /\ k.src \in node[r].inTree => node[r].neighbours[k.src] = OneHopMore(k.metric)
    BY DEF IterationInv, CostsAgree
  <2>3. \A k, l \in Starts : k.src = l.src => k.metric = l.metric
    BY DEF IterationInv, CostsAgree
  <2>4. ASSUME NEW r \in Node, Current(r)', NEW x \in node'[r].inTree
        PROVE  \/ r = n /\ x = p /\ node'[r].neighbours[x] = OneHopMore(m.metric)
               \/ Current(r) /\ x \in node[r].inTree /\ node'[r].neighbours[x] = node[r].neighbours[x]
    <3>1. x \in Node
      BY <1>17, <2>4
    <3>2. CASE r # n
      BY <1>11, <1>13, <2>4, <3>2
    <3>3. CASE r = n /\ x = p
      BY <1>7, <1>11, <3>3
    <3>4. CASE r = n /\ x # p
      BY <1>5, <1>6, <1>7, <1>11, <2>4, <3>1, <3>4
    <3>. QED  BY <3>2, <3>3, <3>4
  <2>5. ASSUME NEW r \in Node, NEW s \in Node, Current(r)', Current(s)',
               NEW x \in node'[r].inTree \cap node'[s].inTree
        PROVE  node'[r].neighbours[x] = node'[s].neighbours[x]
    BY <1>1, <2>1, <2>2, <2>4, <2>5
  <2>6. \A k \in Starts : Current(k.src) /\ k.src \in Node
    BY <1>0 DEF IterationInv, Spreading, Starts, Of
  <2>7. ASSUME NEW k \in Starts', NEW r \in Node, Current(r)', k.src \in node'[r].inTree
        PROVE  node'[r].neighbours[k.src] = OneHopMore(k.metric)
    <3>1. Current(k.src)
      BY <1>17, <2>7
    <3>2. k \in Starts
      BY <1>8, <1>9, <1>10, <3>1
    <3>. QED  BY <1>1, <2>2, <2>3, <2>4, <2>7, <3>2
  <2>8. ASSUME NEW k \in Starts', NEW l \in Starts', k.src = l.src PROVE k.metric = l.metric
    BY <1>8, <1>9, <1>10, <2>3, <2>6, <2>8
  <2>. QED  BY <2>5, <2>7, <2>8 DEF CostsAgree
<1>20. TimersFit'
  BY <1>6, <1>11, <1>13 DEF IterationInv, TimersFit
<1>21. Asking'
  BY <1>10 DEF Asking
<1>22. ~Joined'
  BY <1>12, <1>17 DEF Joined
<1>23. NewsComes' /\ IsolatedWait' /\ BestAsks'
  BY <1>14, <1>22 DEF NewsComes, IsolatedWait, BestAsks
<1>24. (~iterationTimer => \A k \in Node : ~Isolated(k))'
  BY <1>4, <1>12 DEF IterationInv
<1>. QED  BY <1>15, <1>16, <1>18, <1>19, <1>20, <1>21, <1>23, <1>24 DEF IterationInv

\* The sink begins an iteration when all of the last one is over, its messages included.
LEMMA IterationBegins ==
  ASSUME TreeInv, IterationInv, IterationTimer, iterationTimer', ~disturbed'
  PROVE  IterationInv'
<1>. DEFINE root == sinkAddress
            k0 == node[root].iterationStep
            mod == [node[root] EXCEPT !.iterationStep = @ + 1, !.inTree = {}, !.notInTree = {},
                       !.nbNoUpdates = IF TriesAgain(node[root]) THEN @ + 1 ELSE @,
                       !.treeUpdated = FALSE, !.decisionTimer = TRUE,
                       !.currFSMState = "WAITDECISION"]
            pkt == Packet("ITERATION_START", root)
            start == [pkt EXCEPT !.iteration = @ + 1, !.status = "SINK"]
            New == ToAll(root, start)
<1>0. /\ IInv /\ root \in Node /\ node[root] \in Module /\ k0 \in Nat /\ ~Isolated(root)
      /\ \A k \in Node : node[k].iterationStep \in Nat
  BY PairwiseAssumption DEF TreeInv, IInv, TypeOK, Module, ModuleOK, Isolated
<1>1. node' = [node EXCEPT ![root] = mod] /\ air' = air \cup New
  BY DEF IterationTimer
<1>2. Control = {} /\ \A n \in Node : NoTimer(node[n])
  BY DEF IterationTimer, TimersOver, NoTimer
<1>3. /\ mod.currNodeState = node[root].currNodeState /\ mod.iterationStep = k0 + 1
      /\ mod.inTree = {} /\ mod.notInTree = {} /\ mod.decisionTimer /\ mod.currFSMState = "WAITDECISION"
      /\ mod.ackTimer = node[root].ackTimer /\ mod.assocTimer = node[root].assocTimer
  BY <1>0 DEF Module
<1>. HIDE DEF mod
<1>4. /\ \A c \in New : /\ c.kind = "ITERATION_START" /\ c.src = root /\ c.to \in Nbr(root)
                        /\ c.status = "SINK" /\ c.metric = start.metric /\ c.iteration = k0 + 1
      /\ \A r \in Nbr(root) : \E c \in New : c.to = r
  <2>1. pkt \in Message /\ pkt.kind = "ITERATION_START" /\ pkt.src = root
    BY <1>0, PacketType
  <2>2. pkt.iteration = k0
    BY DEF Packet
  <2>. HIDE DEF pkt
  <2>a. pkt.iteration + 1 = k0 + 1 /\ k0 + 1 \in Nat
    BY <1>0, <2>2
  <2>. HIDE DEF k0
  <2>b. start = [pkt EXCEPT !.iteration = k0 + 1, !.status = "SINK"]
    BY <2>1, <2>a DEF Message
  <2>3. start \in Message /\ start.kind = "ITERATION_START" /\ start.src = root
        /\ start.status = "SINK" /\ start.iteration = k0 + 1
    <3>. HIDE DEF start
    <3>. QED  BY <2>1, <2>a, <2>b DEF Message, Status
  <2>. HIDE DEF start
  <2>5. \A c \in New : \E r \in Nbr(root) : c = [start EXCEPT !.to = r]
    BY DEF ToAll
  <2>6. \A r \in Nbr(root) : [start EXCEPT !.to = r] \in New
    BY DEF ToAll
  <2>. HIDE DEF New
  <2>7. ASSUME NEW c \in New
        PROVE  /\ c.kind = "ITERATION_START" /\ c.src = root /\ c.to \in Nbr(root)
               /\ c.status = "SINK" /\ c.metric = start.metric /\ c.iteration = k0 + 1
    <3>1. PICK r \in Nbr(root) : c = [start EXCEPT !.to = r]
      BY <2>5
    <3>. QED  BY <2>3, <3>1, Readdressed
  <2>. QED  BY <2>3, <2>6, <2>7, Readdressed
<1>. HIDE DEF New, start, pkt
<1>5. /\ Starts' = New /\ Control' = New
      /\ Of("JOIN_REQUEST")' = {} /\ Of("ACK_JOIN")' = {} /\ Of("PROPAGATE")' = {}
  <2>1. \A k \in air : k.kind = "DATA"
    BY <1>2 DEF Control, Data
  <2>. QED  BY <1>1, <1>4, <2>1 DEF Starts, Of, Control, Data
<1>6. \A k \in Node : node'[k] = IF k = root THEN mod ELSE node[k]
  BY <1>0, <1>1 DEF IInv, TypeOK
<1>7. /\ node'[root].iterationStep = k0 + 1
      /\ \A k \in Node : node'[k].iterationStep <= k0 + 1
      /\ \A k \in Node : Current(k)' <=> k = root
  <2>1. \A k \in Node : node[k].iterationStep <= k0
    BY DEF IterationInv, Spreading
  <2>2. node'[root].iterationStep = k0 + 1 /\ \A k \in Node \ {root} : node'[k].iterationStep <= k0
    BY <1>0, <1>3, <1>6, <2>1
  <2>3. \A k \in Node \ {root} : node'[k].iterationStep \in Nat
    BY <1>0, <1>6
  <2>. QED  BY <1>0, <2>2, <2>3 DEF Current
<1>8. \A k \in Node : Isolated(k)' <=> Isolated(k)
  BY <1>3, <1>6 DEF Isolated
<1>9. Spreading'
  <2>1. \A k \in Starts' : /\ k.iteration = node'[root].iterationStep /\ Current(k.src)'
                           /\ k.to \in Nbr(k.src)
                           /\ k.status = "ISOLATED" <=> Isolated(k.src)'
    BY <1>0, <1>4, <1>5, <1>7, <1>8
  <2>2. node'[root].iterationStep > 0 /\ node'[root].decisionTimer
    BY <1>0, <1>3, <1>6, <1>7
  <2>. QED  BY <1>5, <1>7, <2>1, <2>2 DEF Spreading
<1>10. Heard'
  BY <1>4, <1>5, <1>7 DEF Heard
<1>11. node'[root].inTree = {} /\ node'[root].notInTree = {}
  BY <1>0, <1>3, <1>6
<1>12. ListsRight' /\ CostsAgree'
  BY <1>4, <1>5, <1>7, <1>11 DEF ListsRight, CostsAgree
<1>13. TimersFit'
  BY <1>0, <1>2, <1>3, <1>6, <1>7 DEF IterationInv, TimersFit, Fits, NoTimer
<1>14. Asking'
  BY <1>5 DEF Asking
<1>15. ~Joined'
  BY <1>7, <1>11 DEF Joined
<1>16. NewsComes' /\ IsolatedWait' /\ BestAsks'
  BY <1>0, <1>7, <1>8, <1>11, <1>15 DEF NewsComes, IsolatedWait, BestAsks
<1>. QED  BY <1>9, <1>10, <1>12, <1>13, <1>14, <1>16 DEF IterationInv

\* Once its beginning has spread, every node has begun the iteration and heard its neighbours.
LEMMA AllHeard ==
  ASSUME Connected, TreeInv, IterationInv, Starts = {}, node[sinkAddress].iterationStep > 0
  PROVE  \A n \in Node : /\ Current(n)
                         /\ \A r \in Nbr(n) : n \in node[r].inTree \cup node[r].notInTree
<1>1. \A n \in Node : Current(n) => \A r \in Nbr(n) : Current(r) /\ n \in node[r].inTree \cup node[r].notInTree
  BY DEF IterationInv, Heard
<1>. DEFINE S == {n \in Node : Current(n)}
<1>2. sinkAddress \in S
  BY PairwiseAssumption DEF Current
<1>3. \A n \in S : Nbr(n) \subseteq S
  BY <1>1 DEF Nbr
<1>4. S = Node
  BY <1>2, <1>3 DEF Connected
<1>. QED  BY <1>1, <1>4

\* When an iteration is over in which nobody has joined, nobody could have.
LEMMA NobodyLeft ==
  ASSUME BothWays, Connected, TreeInv, IterationInv, TimersOver, Control = {},
         ~node[sinkAddress].treeUpdated
  PROVE  \A n \in Node : ~Isolated(n)
<1>. SUFFICES ASSUME NEW x \in Node, Isolated(x) PROVE FALSE
  OBVIOUS
<1>0. /\ IInv /\ sinkAddress \in Node /\ ~Isolated(sinkAddress) /\ node[sinkAddress].iterationStep \in Nat
      /\ \A n \in Node : node[n] \in Module
  BY PairwiseAssumption DEF TreeInv, IInv, TypeOK, Module, ModuleOK, Isolated
<1>1. Control = {} /\ \A n \in Node : ~node[n].decisionTimer
  BY DEF TimersOver
<1>2. /\ Starts = {} /\ Of("JOIN_REQUEST") = {} /\ Of("ACK_JOIN") = {} /\ Of("PROPAGATE") = {}
  BY <1>1 DEF Control, Data, Starts, Of
<1>3. node[sinkAddress].iterationStep > 0
  BY <1>0 DEF IterationInv, Spreading
<1>4. ~Joined
  BY <1>2 DEF IterationInv, NewsComes
<1>5. \A n \in Node : Current(n) /\ \A r \in Nbr(n) : n \in node[r].inTree \cup node[r].notInTree
  BY <1>2, <1>3, AllHeard
<1>6. \A n, r \in Node : r \in Nbr(n) =>
        IF Isolated(n) THEN n \in node[r].notInTree ELSE n \in node[r].inTree
  BY <1>4, <1>5 DEF Joined, IterationInv, ListsRight
<1>7. \A r \in Node : /\ \A n \in node[r].inTree : n \in Node /\ r \in Nbr(n) /\ ~Isolated(n)
                      /\ \A n \in node[r].notInTree : n \in Node /\ r \in Nbr(n)
  BY <1>5 DEF IterationInv, ListsRight
<1>8. \E p, c \in Node : ~Isolated(p) /\ Isolated(c) /\ c \in Nbr(p)
  <2>. DEFINE S == {n \in Node : ~Isolated(n)}
  <2>1. sinkAddress \in S /\ S # Node
    BY <1>0
  <2>2. \E n \in S : ~(Nbr(n) \subseteq S)
    BY <2>1 DEF Connected
  <2>. QED  BY <2>2 DEF Nbr
<1>9. PICK p \in Node, c \in Node :
        /\ ~Isolated(p) /\ Isolated(c) /\ c \in Nbr(p)
        /\ \A q, d \in Node : ~Isolated(q) /\ Isolated(d) /\ d \in Nbr(q)
                                 => node[c].neighbours[p] <= node[d].neighbours[q]
  <2>. DEFINE E == {e \in Node \X Node : ~Isolated(e[1]) /\ Isolated(e[2]) /\ e[2] \in Nbr(e[1])}
              T == {node[e[2]].neighbours[e[1]] : e \in E}
  <2>1. T \subseteq Nat /\ T # {}
    <3>1. \A e \in E : node[e[2]].neighbours[e[1]] \in 0..MaxMetric
      BY <1>0 DEF Module
    <3>2. T \subseteq Nat
      BY <3>1, PairwiseAssumption
    <3>3. PICK q, d \in Node : ~Isolated(q) /\ Isolated(d) /\ d \in Nbr(q)
      BY <1>8
    <3>4. <<q, d>> \in E
      BY <3>3
    <3>. QED  BY <3>2, <3>4
  <2>2. PICK v \in T : \A w \in T : ~(<<w, v>> \in OpToRel(<, Nat))
    <3>. HIDE DEF T
    <3>. QED  BY <2>1, NatLessThanWellFounded, WFMin
  <2>3. \A w \in T : v <= w
    <3>. HIDE DEF T
    <3>. SUFFICES ASSUME NEW w \in T PROVE v <= w
      OBVIOUS
    <3>1. v \in Nat /\ w \in Nat
      BY <2>1
    <3>2. OpToRel(<, Nat) = {ss \in Nat \X Nat : ss[1] < ss[2]}
      BY DEF OpToRel
    <3>3. w < v => <<w, v>> \in {ss \in Nat \X Nat : ss[1] < ss[2]}
      BY <3>1
    <3>4. ~(w < v)
      BY <2>2, <3>2, <3>3
    <3>. QED  BY <3>1, <3>4
  <2>4. PICK e \in E : v = node[e[2]].neighbours[e[1]]
    OBVIOUS
  <2>5. ASSUME NEW q \in Node, NEW d \in Node, ~Isolated(q), Isolated(d), d \in Nbr(q)
        PROVE  v <= node[d].neighbours[q]
    <3>1. <<q, d>> \in E
      BY <2>5
    <3>. QED  BY <2>3, <3>1
  <2>. QED  BY <2>4, <2>5
<1>10. Best(p)
  <2>. SUFFICES ASSUME NEW d \in Node, Isolated(d), p \in node[d].inTree
                PROVE  p \in Cheapest(node[d], node[d].inTree)
    BY DEF Best
  <2>1. p \in node[c].inTree
    BY <1>6, <1>9
  <2>2. node[c].neighbours[p] = node[d].neighbours[p]
    BY <1>5, <2>1 DEF IterationInv, CostsAgree
  <2>3. ASSUME NEW q \in node[d].inTree PROVE node[d].neighbours[p] <= node[d].neighbours[q]
    <3>1. q \in Node /\ ~Isolated(q) /\ d \in Nbr(q)
      BY <1>7
    <3>. QED  BY <1>9, <2>2, <3>1
  <2>. QED  BY <2>3 DEF Cheapest
<1>11. c \in node[p].notInTree
  BY <1>6, <1>9 DEF BothWays
<1>. QED  BY <1>1, <1>2, <1>4, <1>5, <1>9, <1>10, <1>11 DEF IterationInv, BestAsks

\* Nothing of the tree changes
LEMMA Untouched ==
  ASSUME IterationInv, UNCHANGED node, Control' = Control,
         iterationTimer' = iterationTimer \/ \A n \in Node : ~Isolated(n)
  PROVE  IterationInv'
<1>1. \A kind \in Kinds : Of(kind)' = Of(kind)
  <2>1. \A kind \in Kinds : Of(kind) = {k \in Control : k.kind = kind}
    BY DEF Of, Control, Data, Kinds
  <2>2. \A kind \in Kinds : Of(kind)' = {k \in Control' : k.kind = kind}
    BY DEF Of, Control, Data, Kinds
  <2>. QED  BY <2>1, <2>2
<1>2. /\ Starts' = Starts /\ Of("JOIN_REQUEST")' = Of("JOIN_REQUEST")
      /\ Of("ACK_JOIN")' = Of("ACK_JOIN") /\ Of("PROPAGATE")' = Of("PROPAGATE")
  BY <1>1 DEF Kinds, Starts
<1>3. Spreading' /\ Heard' /\ ListsRight' /\ CostsAgree'
  BY <1>2 DEF IterationInv, Spreading, Heard, ListsRight, CostsAgree, Current, Isolated
<1>4. TimersFit' /\ Asking' /\ NewsComes'
  BY <1>2 DEF IterationInv, TimersFit, Asking, NewsComes, Joined, Current, Isolated
<1>5. IsolatedWait' /\ BestAsks'
  BY <1>2 DEF IterationInv, IsolatedWait, BestAsks, Quiet, Best, Joined, Current, Isolated
<1>6. (~iterationTimer => \A n \in Node : ~Isolated(n))'
  BY DEF IterationInv, Isolated
<1>. QED  BY <1>3, <1>4, <1>5, <1>6 DEF IterationInv

LEMMA InitIteration == Init => IterationInv
<1>. SUFFICES ASSUME Init PROVE IterationInv
  OBVIOUS
<1>1. /\ \A n \in Node : node[n] = InitModule(n)
      /\ sinkAddress \in Node /\ \A kind : Of(kind) = {}
  BY PairwiseAssumption DEF Init, Of
<1>2. /\ \A n \in Node : /\ node[n].iterationStep = 0 /\ node[n].inTree = {} /\ node[n].notInTree = {}
                         /\ NoTimer(node[n]) /\ Fits(node[n])
      /\ node[sinkAddress].treeUpdated
  <2>1. ASSUME NEW n \in Node
        PROVE  /\ node[n].iterationStep = 0 /\ node[n].inTree = {} /\ node[n].notInTree = {}
               /\ NoTimer(node[n]) /\ Fits(node[n])
    <3>1. node[n] = InitModule(n)
      BY <1>1
    <3>2. /\ InitModule(n).iterationStep = 0 /\ InitModule(n).inTree = {}
          /\ InitModule(n).notInTree = {}
      BY DEF InitModule
    <3>3. InitModule(n).decisionTimer = FALSE
      BY Zenon DEF InitModule
    <3>4. InitModule(n).ackTimer = FALSE
      BY Zenon DEF InitModule
    <3>5. InitModule(n).assocTimer = FALSE
      BY Zenon DEF InitModule
    <3>. QED  BY <3>1, <3>2, <3>3, <3>4, <3>5 DEF NoTimer, Fits
  <2>2. InitModule(sinkAddress).treeUpdated = (sinkAddress = sinkAddress)
    BY Zenon DEF InitModule
  <2>3. node[sinkAddress].treeUpdated = InitModule(sinkAddress).treeUpdated
    BY <1>1
  <2>. QED  BY <2>1, <2>2, <2>3
<1>3. Spreading /\ Heard /\ ListsRight /\ CostsAgree
  BY <1>1, <1>2 DEF Spreading, Heard, ListsRight, CostsAgree, Starts
<1>4. TimersFit /\ Asking /\ ~Joined
  BY <1>1, <1>2 DEF TimersFit, Asking, Joined
<1>5. NewsComes /\ IsolatedWait /\ BestAsks
  <2>1. Quiet
    BY <1>2 DEF Init, Quiet, Control, NoTimer
  <2>. QED  BY <1>2, <1>4, <2>1 DEF NewsComes, IsolatedWait, BestAsks
<1>. QED  BY <1>3, <1>4, <1>5 DEF Init, IterationInv

LEMMA IterationStep ==
  ASSUME BothWays, Connected, GoodLinks, TreeInv, IterationInv, [Next]_vars, ~disturbed'
  PROVE  IterationInv'
<1>0. IInv
  BY DEF TreeInv
<1>1. CASE UNCHANGED vars
  BY <1>1, Untouched DEF vars, Control, Data
<1>2. CASE IterationTimer /\ iterationTimer'
  BY <1>2, IterationBegins
<1>3. CASE IterationTimer /\ ~iterationTimer'
  <2>1. /\ TimersOver /\ Control = {}
        /\ ~node[sinkAddress].treeUpdated /\ UNCHANGED <<node, air>>
    BY <1>3 DEF IterationTimer
  <2>. QED  BY <2>1, NobodyLeft, Untouched DEF Control, Data
<1>4. CASE \E n \in Node : ChooseParent(n) \/ NothingToDecide(n) \/ AckTimer(n) \/ AssocTimer(n)
  BY <1>0, <1>4, SilentSteps
<1>5. CASE \E n \in Node : ChooseChild(n)
  BY <1>0, <1>5, ChildChosen
<1>6. CASE \E m \in air : JoinRequest(m) \/ AckJoin(m) \/ Propagate(m)
  BY <1>6, RequestRefused, RequestAccepted, AnswerComes, NewsOfNode
<1>7. CASE \E m \in air : \E quality \in Link[m.src][m.to] : IterationStart(m, quality)
  BY <1>7, BeginningComes
<1>8. ASSUME NEW n \in Node, NEW d, handleUpperMsg(n, d) PROVE IterationInv'
  <2>. DEFINE pkt == Packet("DATA", n)
              new == [pkt EXCEPT !.id = sent + 1]
  <2>1. pkt \in Message /\ pkt.kind = "DATA"
    BY <1>0, PacketType
  <2>. HIDE DEF pkt
  <2>2. sent + 1 \in 0..MaxData
    BY <1>0, <1>8, PairwiseAssumption DEF handleUpperMsg, IInv, TypeOK
  <2>3. new \in Message /\ new.kind = "DATA"
    BY <2>1, <2>2 DEF Message
  <2>4. air' = air \cup ToOne(n, getRoute(node[n], d), new) /\ UNCHANGED <<node, iterationTimer>>
    BY <1>8 DEF handleUpperMsg, pkt
  <2>. HIDE DEF new
  <2>5. \A c \in ToOne(n, getRoute(node[n], d), new) : Data(c)
    BY <2>3, CopyLinks DEF Data
  <2>6. Control' = Control
    BY <2>4, <2>5 DEF Control, Data
  <2>. QED  BY <2>4, <2>6, Untouched
<1>9. ASSUME NEW m \in air, routeDataPacket(m) PROVE IterationInv'
  <2>. DEFINE n == m.to
              new == [m EXCEPT !.src = n]
              copies == IF n = sinkAddress THEN {} ELSE ToOne(n, getRoute(node[n], sinkAddress), new)
  <2>1. m \in Message /\ n \in Node /\ Data(m)
    BY <1>0, <1>9, CopyOnAir DEF routeDataPacket, Receive, Data
  <2>2. new \in Message /\ new.kind = "DATA"
    BY <2>1 DEF Message, Data
  <2>3. air' = (air \ {m}) \cup copies /\ UNCHANGED <<node, iterationTimer>>
    BY <1>9 DEF routeDataPacket
  <2>. HIDE DEF new
  <2>4. \A c \in copies : Data(c)
    BY <2>1, <2>2, CopyLinks DEF Data
  <2>. HIDE DEF copies
  <2>5. Control' = Control
    BY <2>1, <2>3, <2>4 DEF Control, Data
  <2>. QED  BY <2>3, <2>5, Untouched
<1>10. ASSUME NEW m \in air, Lose(m) PROVE IterationInv'
  <2>1. Data(m) /\ air' = air \ {m} /\ UNCHANGED <<node, iterationTimer>>
    BY <1>10 DEF Lose
  <2>2. Control' = Control
    BY <2>1 DEF Control, Data
  <2>. QED  BY <2>1, <2>2, Untouched
<1>. QED  BY <1>1, <1>2, <1>3, <1>4, <1>5, <1>6, <1>7, <1>8, <1>9, <1>10 DEF Next

\* What was disturbed stays so.
LEMMA DisturbedStays == ASSUME IInv, [Next]_vars, disturbed PROVE disturbed'
BY DEF Next, vars, IterationTimer, ChooseParent, ChooseChild, NothingToDecide, AckTimer, AssocTimer,
       handleUpperMsg, JoinRequest, AckJoin, Propagate, routeDataPacket, Lose, IterationStart

\* On every network that is connected by good links which go both ways, the sink has
\* every node in its tree when it stops, unless a request, an answer or the news of a new
\* node was lost or late (pairwise::handleSelfMsg, "Tree is complete !"): an iteration in
\* which no node joins is one in which none was left.
THEOREM CompleteWhenStopped ==
  ASSUME BothWays, Connected, GoodLinks
  PROVE  Spec => []StopsWhenComplete
<1>1. Init => TreeInv /\ StopInv
  BY InitRoutes, InitIteration DEF RouteInv, StopInv
<1>2. TreeInv /\ StopInv /\ [Next]_vars => (TreeInv /\ StopInv)'
  <2>. SUFFICES ASSUME TreeInv, StopInv, [Next]_vars PROVE TreeInv' /\ StopInv'
    OBVIOUS
  <2>1. IInv
    BY DEF TreeInv
  <2>2. ASSUME ~disturbed' PROVE IterationInv'
    <3>1. ~disturbed
      BY <2>1, <2>2, DisturbedStays
    <3>. QED  BY <2>2, <3>1, IterationStep DEF StopInv
  <2>. QED  BY <2>2, MembersStep DEF StopInv
<1>3. StopInv => StopsWhenComplete
  BY DEF StopInv, IterationInv, StopsWhenComplete, Isolated
<1>. QED  BY <1>1, <1>2, <1>3, PTL DEF Spec
=============================================================================
