# A verification project for the Mobility Framework (mf-opp4)

mf-opp4 is a framework for OMNeT++ simulations of wireless and mobile networks.
Its modules are C++ classes that react to messages, timers and blackboard
publications inside a single-threaded event kernel. There are no threads and
nothing is persisted; what makes the code hard is that each module is a state
machine whose events — receptions, timers, commands, radio switches — arrive in
orders nobody wrote down, and that modules share state through synchronous
callbacks, cached copies and pointers.

The project contains TLA+ models of the parts that carry this logic, instances
of them for TLC, and proofs checked by TLAPS. `PROJECT.json` lists the
components, the runs, the line of code behind every definition (`map`), the
hazards of the code with the properties that cover them, and the theorems.

## Inventory

A host is a compound module: application, network layer, network interface
(nic), mobility, ARP and one **Blackboard**. A nic is a MAC, a radio, a physical
layer ("SnrEval", the receiver) and a decider. All nics meet in one global
**ChannelControl**. Layers call each other by messages with zero delay; radio,
physical layer and MAC inform each other by publishing on the blackboard, which
calls subscribers at once, in the middle of the publisher's handler.

| Component | State it keeps | Operations | Hard behaviour | What makes it correct |
|---|---|---|---|---|
| csma MAC (`contrib/nic/macLayer/csma`) | state of the machine, four timers, queue, backoff and retry counters, acknowledgement to send, sequence numbers per peer | packet from above, four timers, end of a transmission, data, broadcast or acknowledgement received | a reception suspends a backoff or an assessment and the cycle is resumed later; lost acknowledgements, retries, duplicates | one timer per state, one verdict per packet, order kept, the queue drains |
| SingleChannelRadioAccNoise3 | detailed and coarse state, switch timer | command, end of a switch | commands during a switch | the radio ends where it was told to |
| SnrEvalRadioAccNoise3 and its decider | frames on the air, noise, RSSI, the frame being decoded with its SNR list, medium indication | start and end of a frame, radio enters or leaves reception | overlapping frames, a radio that leaves while a frame is decoded | the power accounting is exact, what is published is current, the worst moment of a frame is seen |
| SingleChannelRadio, SnrEval family, deciders | the same in an older form: one frame received at a time, the others noise | as above | re-entrant switches inside a publication | shown under three MACs |
| Mac80211 | state, NAV, backoff, timers, queue, retry counters, table of neighbours | RTS, CTS, DATA, ACK, broadcast, their timers, busy and idle medium | timeouts against late answers, frames in a SIFS, a table with eviction | no timer error, no duplicate, an acknowledged packet was delivered |
| CSMAMacLayer, AlohaMacLayer | state, backoff and minor timers, queue | packet from above, two timers, RSSI and radio state published | RSSI callbacks that cancel timers, switches from inside a callback | no stranded packet, no timer error |
| BMAC | state, wakeup and check timers, slot of preambles, queue | wakeup, channel check, preambles, data, timeouts | wakeups at any offset, timers left running | preambles wake the neighbours, the queue drains |
| LMAC (`contrib/lmac`) | own slot, table of slots heard, channel check, queue, timeouts, radio state | wakeup, check, control and data packets, setup phase, search for a slot | hidden nodes, stale tables, simultaneous starts | a correct assignment lasts, data comes as announced |
| Blackboard | categories, their classes and parents, subscribers per category | subscribe, unsubscribe, getCategory, publish | publications nested in callbacks, categories created in any order, inheritance | whoever subscribed has seen the present value |
| ChannelControl, ChannelAccess, NicEntry, P2PPhyLayer | place of each nic, grid of squares, connections, pools of gates | register, move, send, unicast lookup | local checks of a global relation, jumps, gates reused | connected exactly when in range, every connection a wire of its own |
| WiseRoute | route and flood tables, flood numbers | route flood, data along routes or flooded | floods that overlap, lost copies, weak links | routes are a tree, data arrives, once |
| pairwise | parent, children, subtree, lists of an iteration, timers | iteration, join request, acknowledgement, propagation, data | late answers and timers, lost requests | parents are a tree, the sink stops when all have joined |
| Flood, SimpleNetwLayer, ARP | sequence number, list of messages seen | message from above, message from the MAC | copies over several ways, expiry, a full list | once to each application, everyone in reach |
| Mobility | position, step, target, border messages, script | step, border, turn, statement of a script | steps over two borders, borders against steps and turns, times that add up | the host stays inside, a step ends where it should |
| Applications, battery, BasicModule, utilities, templates | counters, charge | timers | — | not modelled |

## The modules

Every state machine is modelled with one action per case of its handlers; the
action contains everything the handler does up to its return, including what the
handler calls. The names of variables and actions are those of the source where
TLA+ allows it. In Csma, RadioAccNoise3, LMAC, WiseRoute and Pairwise delays are
abstracted: a scheduled event may come at any time the code does not exclude, so
these models cover every timing and some that particular parameters exclude.
SnrNic with its MACs, Flood and Mobility count time in ticks.

Operators under the comment *Seeded fault* are not part of the model. Each is a
plausible error (a dropped guard, an off-by-one, a missing reset) in the
definition that follows it; putting it in the place of that definition makes the
property named in `PROJECT.json` fail, which shows that the property can fail.

### Csma — the 802.15.4 MAC
A set of nodes over a medium that may lose any frame at any receiver. `SendRequest*`
is `handleUpperMsg`, `Timer*` and `AckTimeout*` are `handleSelfMsg`,
`*Transmitted` is the TRANSMISSION_OVER control, `Receive*` is `handleLowerMsg`.
`manageQueue` is an operator used by all actions that end a cycle, as in the code.
A frame passes `lower` (given to the physical layer, on the air) and `inbound`
(decoded by a receiver, on its way to the MAC); between the two the receiver's MAC
may act, so a frame can meet a MAC that has just left reception. `sentUp`,
`reports` and `txCount` are history.

### RadioAccNoise3 — radio, receiver and decider of one nic
`execute` and `enterState` are the radio; `NewFrame*` and `EndFrame*` are the
events of the receiver in each of its states; `RadioEntersRx` and `RadioLeavesRx`
are its reaction to the radio and part of `enterState`'s action, because a
publication is a call. Powers are integers; a bit error draw may go either way.

### SnrNic — the lower half of the other nics
SingleChannelRadio, BasicSnrEval with SnrEval, SnrDecider, and the medium between
the nics. It has no Next of its own: a nic is a record, each handler an operator
from records to records, and the modules of the MACs build their actions from
them. Timers are the time left and a tick happens when nothing is due; events of
the same instant come in any order, except that messages from one module to
another keep theirs.

### Mac80211, CsmaAloha, BMAC — three MACs over SnrNic
A MAC is a record too. A handler returns the record with what it wants done — a
command for the radio, a frame to send, packets to pass up — in fields that `Run`
(or `Put`) carries out in the order of the code, the callbacks of the blackboard
included. *Mac80211* has the 802.11 decider (recognised, collision, or bit error)
and counts bit errors up to a bound. *CsmaAloha* puts both simple MACs into one
air. *BMAC* has a clock that is fair. An error() of the code is a field `error`,
after which the simulation stops; the properties say which errors never come.

### LMAC and LMACData — slots by control packets, and what they are for
LMAC is the slot assignment: all nodes wake up together (`Wakeup`), the owners of
the slot check the channel (`CheckChannel`, `MediumBusy`) and receivers take in
control packets (`handleLowerMsg` with `Heard`, `MustMove`, `findNewSlot`). Two
nodes may start within the switching time of the radio. LMACData EXTENDS it with
the setup phase, queue, data packets, timeouts and the state of the MAC; each of
its actions is a conjunction with an action of LMAC or leaves LMAC's variables
alone, and `DataSpec => Spec` is a theorem. `expecting` is history: who decoded an
announcement for itself. A slot is assumed long enough for its check, both packets
and the timeouts (see the observations).

### Blackboard — publish and subscribe with inheritance
The calls in progress are a stack `calls`: `Change` starts a publication, `Notify`
calls the next subscriber, `PublishToParent` goes on with the base class. A
subscriber may start a publication of its own from inside its callback.

### ChannelControl and NicGates — who can hear whom, and over which gate
`registerNic`, `updateNicPos` with `checkGrid` and `updateConnections`,
`sendToChannel` and `sendDelayedP2P`. `nics` is the matrix, a set of entries for each square,
and `Found` the lookup by the position that ChannelAccess keeps. An entry of `outConns` is absent, a gate, or
the null gate which a lookup with `operator[]` leaves behind. NicGates EXTENDS it
with the pools of NicEntryDebug: `connectTo` and `disconnectFrom` take gates from
stacks of free ones and return them; `GatesSpec => Spec` is a theorem.

### SpanningTree, WiseRoute, Pairwise — trees of routes
SpanningTree is the abstract specification: a node joins once, under a parent that
is the root or has joined; that there is never a loop is proved of this tree in the
proof modules of both protocols. WiseRoute and
Pairwise implement it under the refinement mappings `RoutesGrowTree` (the parent is
the next hop towards one sink) and `ParentsGrowTree` (the parent of a node in the
state IN_TREE). The MAC below is external: any copy may be late, overtake or be lost. In Pairwise an
iteration begins when all timers of the last one are over (`TimersOver`: the values
noted at pairwise.cc:57 are 120 s against 60 s, 15 s and 15 s), but its messages may still be on
their way and arrive in a later one, where the code expects and counts them.

### Flood — flooding with a memory
`handleUpperMsg` and `handleLowerMsg` over copies that take up to `MaxDelay` ticks
or are lost. Times are kept as time left. Erasing an entry in `notBroadcasted`
steps an iterator back from freed memory: the model lets the run end there
(`stopped`) or go on. `getNextHop` is SimpleNetwLayer's.

### Mobility — a host and its borders
One host of one kind, chosen at the start, above BasicMobility: `fixIfHostGetsOutside`
finds the border a step crosses first, `handleBorderMsg` passes it, each kind of host
has its own next step. `ideal` (where a mirror or torus has the step end), `due` (the script's own
clock) and `backlog` (what statements shorter than an interval have cost the host, and longer
ones not made up) are history. Sides are even and coordinates odd, so
no step ends exactly on a border.

### Composition
Csma, LMAC and Flood compose their nodes with the medium themselves. RadioAccNoise3
composes three classes; Mac80211, CsmaAloha and BMAC compose MAC, radio, receiver and
decider of several nics with the air; NicGates composes ChannelControl with
NicEntryDebug, as ChannelControl does with ChannelAccess and P2PPhyLayer.

## The runs

| Run | Bounds | What it shows |
|---|---|---|
| `csma` | two nodes, two packets one way and one (unicast or broadcast) the other, queue limit 0, no retransmission beyond the first, one backoff | `TimerOfState`, `NoFrameDuringSifs`, `OneVerdict`, `UpInOrderOnce`, `ResumeAsSuspended`; under fairness `QueueDrains` |
| `radio_receive` | three frames of powers 1, 2, 4, four receptions | exact accounting of power (`SignalAndNoise`, `RssiIsTotal`), `PublishedRssiCurrent`, `ReportedIsWorst`, `LastCommandObeyed` |
| `blackboard_publish` | three classes in one line, two clients, two changes, calls nested twice | `EveryoneTold` |
| `channel_grid` | three nics on seven places of a grid of 4 by 2 squares, with unicasts and the pools of gates | `MatrixFollowsHosts`, `ConnectedIffInRange`, `NoStrayGate`, `GatesUnshared` |
| `lmac_slots` | chain of four nodes, four slots, one reserved, one packet to a neighbour or to all | `OneEntryPerNeighbour`, `DataAsAnnounced`, `SettledStays` |
| `flood_kite` | triangle with a tail, one flood and one unicast, list of one entry, bcDelTime = 3 hops | `NoDuplicateUp`, `FloodReaches` |
| `mac80211` | two hidden senders and the node between, two packets large or small, one bit error, tables and limits of one or two | `NoTimerError`, `NoDuplicateUp`, `AckedWasDelivered` |
| `csma_aloha` | two CSMA nodes and an Aloha node in a chain, four packets, one attempt | `NoTimerError`, `AlohaKeepsSending`, `SendsOverNoReception` |
| `bmac` | chain of three in the proportions of the code (in units of 20 ms: slot, wait for data and delay of a wakeup 5, check and preamble 1, data 2, switches at once), two packets, wakeups at any offset | `OnlySleepersFail`, `PreamblesWakeNeighbours`; with a fair clock `QueueDrains` |
| `wiseroute` | triangle of strong links, two floods of the sink, one packet to or from it | `RoutesGrowTree`, `DataArrives`, `DeliveredOnce` |
| `pairwise` | sink, a node below it and a triangle of which one link varies about the threshold, two lost copies, one packet | `ParentsGrowTree`, `StopsWhenComplete`, `DataReachesSink` |
| `mobility` | a host of each of eight kinds on 6 by 8, steps of 4, segments of 2, 4 and 6, a backlog of 4, two rectangles | `InPlayground`, `StepsAsMirrored`, `BordersFirst`, `KeepsSchedule` |

**Why the bounds are enough.** Two csma nodes with traffic in both directions are
the smallest system in which receptions suspend cycles on both sides; two packets
in a row are needed for order, late acknowledgements and the reuse of the
counters; with one retransmission and one backoff every limit is passed from both
sides, and a queue limit of 0, which holds one packet, is full in most states.
Three frames are a decoded one and two interferers; with powers 1, 2 and 4 every
set of frames has a sum of its own, so no two accounts can agree by accident. The
places of the grid lie on both sides of every kind of border between squares, and
three nics are the fewest that return and take gates in different orders. A chain of
four is the smallest network with two overlapping pairs of hidden nodes; three
slots to choose from is the fewest that can serve it, so nodes do run out of slots;
the sender of data is in the middle, where both neighbours must tell its announcements
apart. In the kite a message takes two ways of different length, comes back, and
needs all its hops when the long way wins; bcDelTime is the least value for which
`NoDuplicateUp` holds. A list of one entry overflows as soon as two messages meet.
A chain of three is the smallest network with hidden senders for the MACs over
SnrNic; their durations are small numbers chosen so that every timer can meet every
other at the same instant and in both orders where the real ones can; the middle of
the chain is in reach of both ends, so that frames overlap there. Two
packets per MAC are enough for a retransmission to meet another packet, four in
csma_aloha let a queue of one overflow. The durations of `bmac` are those of BMACLayer.cc
(0.1 s for the wait for data and the delay of a wakeup) and of its network (a preamble of
11 ms, data of about 20 ms), with a slot as short as its default, 0.1 s; the check
and the preamble are rounded up to one unit, and the radio switches at once, as there.
With units of 10 ms (10, 10, 10, 1, 1, 2) the properties hold as well (2,107,875 states), but
it takes five minutes. With three packets and the wait, the delay and the slot 4 they hold too
(4,828,031 states), and there a wakeup comes exactly as late as `DataFindsReceiver` allows,
which two packets do not reach. Two floods overlap in a triangle, which has
loops to close. In pairwise the triangle offers a node two parents, two losses
separate the two ends of a link (request and answer), and a request that arrives an
iteration late meets all states of parent and child. On the playground a step of 4
can cross both borders of a corner and leave in every direction; segments of half a
step, a step and one and a half make a script fall behind and catch up, and the
bound on the backlog is two short segments in a row.

**Deadlock** is checked where the modelled part never stops (`radio_receive`,
`lmac_slots`, `mac80211`). It is off where the bound on messages is used
up or the simulation itself ends (`error()` of the code or the kernel, a null pointer, an
empty queue).

**Fairness.** `csma`: weak fairness of each node's timers, of the end of its
transmissions and of the delivery of what its receiver decoded. The OMNeT++ kernel
executes every event that is scheduled, and all three are scheduled events. Nothing
is assumed of the medium, which may lose every frame, or of the application.
`QueueDrains` holds because retries and backoffs are counted. `bmac`: weak fairness
of the next-state relation, that is, the kernel goes on as long as events are
scheduled, and wakeups always are; a tick happens only when nothing is due, so no
event is passed over. What the application hands in is bounded and never forced.

## Observations

Met while modelling, with the line; the models contain them unless it says
otherwise, and the properties are stated so as to hold besides them.

**csma**
- A duplicate that arrives in CCA_3 is passed up again (csma.cc:333), against the
  comment at csma.cc:677 and the other states. `UpInOrderOnce` excepts CCA_3.
- `manageQueue` starts the backoff of the next packet before it resets the exponent
  it is drawn from (csma.cc:545 and 555).
- The queue holds `queueLength + 1` packets (`<=`); csma.ned:46 calls it the maximum.
  A packet is retransmitted `macMaxFrameRetries + 1` times (csma.cc:427); csma.h:198
  calls it the maximum number.

**Radio and receiver**
- The coarse state of the radio is RECV in SLEEP and TX, for want of a `break`
  (SingleChannelRadioAccNoise3.cc:191). In compatibility mode the radio starts
  asleep: line 87 overwrites line 36.
- A reception that the radio interrupts leaves the medium published as BUSY until a
  later frame has been received (SnrEvalRadioAccNoise3.cc:316).
- P2PPhyLayer.cc:338 schedules its one transmission timer again if a second packet
  comes during a transmission (not modelled; no MAC shown here does that).

**Blackboard, ChannelControl**
- Only the first subscriber of a category can unsubscribe: the `break` is outside
  the `if` (Blackboard.cc:199).
- With `useTorus` the square across the border is taken to be the last one, which may
  be one that no place belongs to, because squares are larger than the distance they
  were counted with (ChannelControl.cc:243). The theorems have the assumption `NoWrap`.
- Looking up a gate for a unicast makes an entry with a null gate, which later counts
  as a connection (NicEntry.h:111). `ConnectedIffInRange` excepts those entries.

**LMAC**
- The first slots are reserved for mobile nodes by name, but all others draw from
  exactly these as well (LMACLayer.cc:112 and 479); the last slots stay unused.
- Two nodes that do not hear each other keep a common slot for as long as no third
  one decodes either of them (LMACLayer.cc:473).
- In the setup phase a check near the longest delay, plus the switch of the radio, can
  make the control packet outlast a slot of twice its duration; the next wakeup then
  ends the simulation (LMACLayer.cc:241), and a timeout may come in the next slot. The
  model assumes slots that are long enough.

**Flood, SimpleNetwLayer**
- A message for one node gets that node's MAC address and is flooded by nobody
  (SimpleNetwLayer.cc:90 with Flood.cc:69 and 82).
- The first copy to arrive decides how many hops a node passes on, so with
  `defaultTtl` below the number of nodes a fast long way can leave nodes in reach
  without the message. Erasing an outdated entry steps back from freed memory.

**Mac80211**
- A medium that turns busy in IDLE does not suspend a contention that is running; the
  remaining backoff may get negative (Mac80211.cc:1003).
- `nextIsBroadcast` is not initialised (Mac80211.h:269). The table of neighbours has
  room for none by default (Mac80211.cc:97), and then every DATA frame is an error; a
  duplicate of a neighbour that was displaced from a full table is taken for new. The
  run has room for all.
- A frame that was decoded when the own transmission began meets the state BUSY and an
  error ("node is currently transmitting, can not receive"): `NoTimerError` allows it.

**CSMAMacLayer**
- An RSSI that turns busy cancels both timers and starts none (CSMAMacLayer.cc:305),
  although CSMAMacLayer.h:47 says that the channel is sensed again: the packet waits
  until the next one is handed in.
- The last packet may be dropped in `scheduleBackoff` while `minorMsg` still runs; the
  transmission that follows reads the front of an empty queue (CSMAMacLayer.cc:242).
  The run ends there (`EmptyQueue`).
- `NoTimerError` rests on thresholds that fit: with a `busyRSSI` above the power of a
  frame that is decoded, a reception need not make the channel busy. Its end and the end of
  `minorMsg`, which sends the MAC to TX, then fall on one instant; the frame that is passed
  up lets `handleLowerMsg` schedule a backoff in TX, and that ends with "backoffTimer
  expired, MAC in wrong state". TLC finds this with `busyRSSI` = 8 in the network of the run.
- The end of a frame that is noise sets the RSSI to the noise level (SnrEval.cc:224),
  without the power of the frame that is being decoded. A radio that enters RECV after it
  publishes a channel that looks clear, and CSMAMacLayer sends before that frame is over.
  So `SendsOverNoReception` depends on who hears whom: in the chain of the run it holds;
  TLC finds it violated for a CSMA node in the middle of three Aloha nodes that do not hear
  each other (five packets, `initialCW` 2, `maxTxAttempts` 0, `swRecv` 1, and the rest as
  in the run).

**BMAC**
- The radio is not put to sleep at the start (BMACLayer.cc:70 is commented out), and packets
  from above put the first wakeup off (line 134), as often as they come. Data that a neighbour
  sends meanwhile is passed up to a MAC in SLEEP, although "RX -- MAC accepts packets from
  PHY layer" (BMACLayer.h:69), and the wakeup that lines 279 and 284 schedule then is
  scheduled already: an error of the kernel, which ends the run. It happens with the durations
  of the code, and in the run; that it is the only way to such an error is `OnlySleepersFail`.
- A sleeping node that is given a packet is to "force wakeup now" (line 130), but puts its
  wakeup to a random moment of the next 0.1 s, which may be later than the one it had: it can
  sleep through the data of a neighbour whose preambles it would have met, against "Every
  slotDuration it wakes up and checks what's up" (BMACLayer.h:107). So
  `PreamblesWakeNeighbours` is about neighbours with an empty queue; without that condition TLC
  finds it violated in the network of the run.
- "A timeout for receiving a big packet (256 bytes)" (line 198) is 0.1 s, and such a packet
  takes 0.107 s at the 19200 bps of networks/bmac/omnetpp.ini: with a `DataTime` of 6, TLC finds
  `timeoutData` come while data is being received, and the radio is put to sleep.
- A node that waits for data when a neighbour begins may give up just before the first
  preamble is over and sleep for a slot; it then checks the channel up to a preamble
  after the data has begun. `DataFindsReceiver` allows that delay, whatever data may last.
- A timeout and the end of the data it waits for may fall on one instant when data takes as
  long as the wait; the timeout then puts the MAC to sleep, and the data is passed up in
  SLEEP: one more way to the error that `OnlySleepersFail` allows.

**WiseRoute and pairwise**
- Where the power of a link varies about the threshold, the next hops of WiseRoute can
  make a loop, against WiseRoute.h:48: a node forwards the flood it received weakly
  and later takes a route from a descendant. The run and the theorems have strong links.
- In pairwise a link above the threshold gets no cost (pairwise.cc:419), but the
  neighbour enters the lists all the same, with the cost it had before, or none. So two
  nodes can disagree about what a third one costs, one in the tree and the other
  isolated, each asks or waits for somebody else, and the sink says "Tree is complete !"
  with isolated nodes left although nothing was lost or late. TLC finds it where a link
  is good one way and bad the other; in the run's network it does not arise, and the
  theorem has good links.
- In pairwise `subTree[a, b]` is a comma expression and enters nothing but `b` (line
  550); a forwarded PROPAGATE keeps its `srcAddr`; the final destination of a packet is
  never set; the metric is never stored; `favoriteParent` -1 is looked up in the ARP.

**Mobility**
- A turn of MassMobility does not touch a border message that is pending, whose
  direction and place were computed for the way before the turn: the host can end
  outside (`strayed`).
- LineSegmentsMobilityBase puts the host to the end of the segment, early or late and
  without a check of the border (LineSegmentsMobilityBase.cc:28); a segment that ends
  outside leaves the host there.
- The statements of TurtleMobility and the lines of traces may be of any length, and are:
  `uniform(0.1,1)` in the example of TurtleMobility.ned:50, movements of 0.9 to 4.9 s with an interval
  of 10 s in `bonnmotion_scenario.movements` of config14, whose hosts get up to about 18 s late until
  a pause makes it up. So "the given node gets to (xk,yk) at tk" (BonnMotionMobility.ned:33) is
  not true to an interval or so; `KeepsSchedule` gives what is: a host is late by what its short
  statements have cost and its longer ones have not made up.
- A segment shorter than an interval, or one that is begun early, is walked for longer than
  it lasts, so a step can end behind the place it leads to (LineSegmentsMobilityBase.cc:77, 104).
  If that is outside, BonnMotion and ANSim end the simulation with "node moved outside the
  playground" for a trace that is inside; TLC reaches this `error` with segments of 6.
- ConstSpeedMobility: a target nearer than half a step has `numSteps` 0, a division
  by zero and then the error "step cannot be bigger than numSteps", with which the run
  ends. A step that ends exactly on a border divides by zero as well
  (BasicMobility.cc:500); the model keeps off the borders.
- LinearMobility changes its speed at a step while a border message keeps the time of
  the former speed; `handleBorderMsg` does not renew `move.startTime`. An empty
  `<repeat>` leaves its count on the stack (TurtleMobility.cc:116). Not modelled.

## The proofs

| Module | Theorems | Holds for |
|---|---|---|
| CsmaProofs | `Invariance`, `TypeCorrect`, `TimersMatch`, `TransmissionsMatch`, `HeadAlwaysPresent`, `SifsUndisturbed`, `EffortBounded`, `EachPacketAnswered`, `CycleResumes`, `PassedUpInOrder` | any nodes, traffic and parameters with macMinBE >= 1 |
| ChannelControlProofs | `Invariance`, `HostsAreFound`, `GatesAreInRange`, `ConnectionsAreExact`, `NeverStops`; with the pools of gates `GatesImplementConnections`, `GatedConnectionsAreExact`, `EveryConnectionAWire`; of AlohaMacLayer, which sends through the medium, `AlohaNeverStrands` | any playground and range, `NoWrap`; `NeverStops` without unicasts; `EveryConnectionAWire` any finite set of nics, wrapping or not; `AlohaNeverStrands` any network, mix of the two MACs, powers and durations |
| RadioLMACProofs | of RadioAccNoise3 `RadioNicInvariance`, `ReceiverInStep`, `PowerAccounted`, `RssiTotal`, `RssiNeverStale`, `SnrIsWorst`, `CommandsObeyed`; of the Blackboard it publishes on `EveryoneIsTold`; of LMAC `Invariance`, `SendersOwnTheirSlot`, `SlotsStable`, `TablesHoldNeighboursOnce`, `DataInvariance`, `DataImplementsSlots`, `DataComesAsAnnounced` | any frames with positive powers; any items with single inheritance (`Hierarchy`); any network, slots, traffic and loss |
| FloodProofs | `OncePerApplication`, `FloodReachesAll` | any network, traffic, delays and loss, with `LongMemory`; the second with `FarEnough` and while no list was full |
| WiseRouteMobilityProofs | of WiseRoute `TypeCorrect`, `ArrivesOnce`; `Invariance`, `RoutesAreATree`, `NeverARoutingLoop`; `DataAlwaysArrives`; of Mobility `HostInvariance`, `StaysInside`, `StepsMirrored`, `BordersComeFirst`, `ScheduleKept` | any network, sinks, traffic and loss; the second group with `StrongLinks`; the third also with `BothWays`, `Connected`, `NotToOneself`; any kind of host, playground with even sides, interval no longer than a side, script and lengths of its statements, shorter than the interval or longer |
| PairwiseProofs | `Invariance`, `ParentsAreATree`, `NeverALoopOfParents`, `DataComesToTheSink`, `CompleteWhenStopped` | any network, link qualities, traffic and loss; `DataComesToTheSink` with `BothWays`, `SinkSendsElsewhere`, the last with `BothWays`, `Connected`, `GoodLinks` |
| Mac80211Proofs | `NoPacketTwice`, `TimersFit` | any network, powers, durations, windows, retry limits, traffic, loss and bit errors, with `OneSize`, `LongFrames`, `CacheRoom` |
| BMACProofs | `PreamblesReady`, `NeighboursWoken`, `OnlySleepersStop` | any network, traffic, lengths of data and queue, and moments of wakeup, with `StrongLinks`, `QuickSwitches`, `LongTimeout` |

**Assumptions** are the named ASSUMEs of the models: types of the parameters, and what
the code itself demands (positive received power, at least one slot to choose, finitely
many nics, a rectangle given by its top left and bottom right corner, lengths that are
not negative). Some theorems have a hypothesis of their own, which some networks meet and
some do not. `StrongLinks` and `GoodLinks` are needed for the reasons given in the observations.
`LongMemory` is plain flooding with a bcDelTime that is not less than the longest time a
message can travel; `FarEnough` is a network of at most `defaultTtl` + 1 nodes in which a message
for one node goes to a neighbour, the only place it can get to.
`BothWays` — who hears a node is heard by it — holds of the unit discs of ChannelControl,
whose criterion is a distance. A message cannot reach a part that is cut off
(`Connected`), and the network layer does not give a node what it sends to itself
(`NotToOneself`, `SinkSendsElsewhere`).
For Mac80211: all packets are on one side of the RTS threshold (`OneSize`), a SIFS is
shorter than any frame (`LongFrames`; in 802.11 a SIFS takes less than the header alone), and a
node has room in its table for all it can hear (`CacheRoom`). Without `OneSize` a
DATA frame that answers no CTS leaves the timeout of the CTS running, a contention may begin
within a SIFS, and with a stale `nextIsBroadcast` a broadcast may go out as DATA and
be repeated; without `CacheRoom` a forgotten neighbour's repetition is taken for new.
For BMAC: whoever hears a node decodes it if nothing else is on the air (`StrongLinks`), the
radio falls asleep within a slot and turns to RECV within a check (`QuickSwitches`),
and the wait for data lasts longer than a preamble and a switch (`LongTimeout`). The literals
of BMACLayer.cc (0.01 s for a check, 0.1 s for the wait) and its network meet those about time; of the
length of data and of the delay of a wakeup nothing is assumed.

The strengthened invariants of Flood, WiseRoute, Pairwise, Mobility, Mac80211 and BMAC were checked by TLC on
the instances of the runs, or smaller ones, before they were proved; that is where the
strengthenings come from.

**Csma.** `TimerOfState`, `OneTransmission` and the rest support each other: that
the end of a transmission finds a head needs `HeadPresent`, which in WAITSIFS_6
needs to know that an interrupted cycle has a packet; that no frame arrives during
the SIFS needs `NeverDeaf`. `IInv` is their conjunction, strengthened by
`AttemptsCounted` (the history counter against the counter of the code) and
`CycleBounded` (counters while in use or suspended), from which `BoundedEffort`
follows. One lemma per action. *One verdict per packet* is an account of
numbers (`Accounted`): below the next number each is in the queue or has a
report, never both, never two, and the queue is in order (`NumbersUsed`,
`QueueInOrder`, `AnsweredOnce`, `NoneForgotten`). Order on the way up is the same
about frames: whatever is on the way to a receiver is not older than what it
passed up (`Past`), as a sender puts no older packet on the air after a newer one.

**Radio.** `RadioNicInv` adds to the properties that the radio's copy in the receiver is
equal to its state; the difference between RSSI and noise is then preserved by
each of the nine receiver events. `Total` adds up the powers on the air with a fold over
a finite set: that one more frame adds its power is proved by a minimal
counterexample over subsets (`WFMin`). `Commanded` follows a command through a switch
that was pending when it came.

**ChannelControl and its gates.** The heart is geometry over integers: a range never
exceeds the edge of a square, so nics in range are in the same or in adjacent squares
(`AdjacentSquares`, `InRangeIsAround`), and a move that checks the union of the
squares around both places looks at every nic whose relation can have changed
(`CheckedNics`). A range divides a side at most as often as the matrix counted, so the
square of every place is one of the matrix; that a move erases the entry it has found, in the square
where it was made, keeps one entry for each nic (`OneEntry`), and no lookup makes another
(`HostsAreFound`). `NoWrap` excludes the wrapping grid, where it is false. With the
pools of gates every step is a step of ChannelControl, so exactness carries over. That
no two connections share a wire (`PoolsServe`) needs an order in which a move connects
and disconnects several nics, one after the other: the invariant is about the pools
after each of them, that the gates of a nic are wired or free, once.

**Aloha.** An Aloha node is in one of four phases (`Fine`): it listens, turns its radio
to send, is on the air, or has sent and not heard of it yet. What tells them apart is
spread over four places: the state of the MAC, the state of the radio, `txOverTimer` and
the messages from the nic. The timers of the air (frames that come and go, others' switches) leave
them alone, and a tick passes over no timer that is due (`StepDue`), so a
transmission that has begun is still to end. CSMA nodes share the air and may do what
they like; that their handlers keep the types is all that the proof needs of them.

**Mac80211.** A packet is filtered as a duplicate if it is marked as a repetition and has the
number last seen from its sender, so `NoPacketTwice` relates the queue of the sender, the
frames on the way and the table of the receiver (`Link`). `Settled` is the queue as it will be
when the exchange under way has failed, its first packet then marked; every
handler lets it become only a queue of the same or later packets, or of the same first
packet marked (`Becomes`). What is on the way is then in order, and older than what
waits, or is repeated by a marked first packet; and the receiver still has the last number of
every sender (`addNeighborOK`). That a handler keeps this depends on which timers run in which
state (`Phase`): nothing may end a contention within a SIFS, and no frame may be decoded
within one, as what begins in a SIFS outlasts it (`TimingOK`). So the same invariant excludes the
errors about timers, `TimersFit`: all but those that need times of several nodes to be
ruled out (`Tolerated`).

**BMAC.** A node that sends alone and a neighbour are related by time that is still to pass
(`Pair`). While preambles last, a sleeping neighbour wakes up before they are over, or at
the latest `slack`, a preamble and a switch, after them (`Fits`), unless it has packets
itself. One that has heard a preamble waits, and as long as it waits another preamble
reaches it first (`NextEnd`, `Renewed`); one that waits
since before the preambles began may give up, when a slot of sleep still fits. A check of
the channel finds it busy, unless the sender has not turned its radio yet and the whole
slot is to come: between two preambles the sender has an event due, and a check waits
until nothing is due.
For that, the frame on the air at the neighbour must end with the transmission at the sender
(`LinkOK`), the receiver must have begun with this frame and not with noise of another
(`Receiver`, `Silent`), and the state of each node must tell which of its timers run and
where its radio is (`NodeOK`): packets that come while the radio is falling asleep let the MAC
wake up while the radio refuses to. Where an error has ended the run nothing is claimed;
`OnlySleepersStop` goes through the timers that each event schedules and finds them free
by `NodeOK`, but for the wakeup of a MAC that is asleep when data reaches it.

**LMAC.** `IInv` says that who sends does not listen and owns the slot, so the
packet on the air equals the state of its sender. In a settled network a sender
knows only neighbours in its table, which are within two hops of any receiver, so
nothing it says makes a receiver move (`SettledNeedsNoMove`). The data phase is
shown to implement the slots, step by step, from `DataIInv`. Its heart is `Awaited`:
a node that decoded an announcement for itself listens, or another sender it hears is
in this slot — nothing else puts it to sleep, neither a timeout, which its control
packet cancelled, nor a check, which is over. A settled assignment excludes the other
sender; `DataComesAsAnnounced` follows.

**Flood.** A node forgets a message when its entry is outdated or was popped off a full
list. The invariant relates every entry to every copy on the air (`Alive`): it has
more time left than the copy and its descendants have, `(ttl - 1) * MaxDelay` and what
is left of this hop. A new copy never lives longer than the one it comes from, a new or
renewed entry lives `bcDelTime`, and `LongMemory` is what makes that enough. So a copy that
is new at a node was not seen there or was popped (`Remembered`). `FloodReachesAll`
counts: each hop of a flood was to a node that had not seen it, so hops run out at the last
node only (`HopsSpent`), and until then the copies leave the set of those that have seen
the message (`Leaving`).

**Trees.** In a tree that grows, every parent has a parent or is the root; that a set
of nodes has a way out then survives a new leaf (`JoinKeepsTree`, once for each of the
two protocols). WiseRoute implements SpanningTree
because whoever forwards a route flood of a sink has a next hop to it, as every link
is strong (`StrongLinks`): the invariant is about the senders of the copies on the air
(`RouteInv`). In pairwise it is about the senders of requests and the nodes that wait
for them: a request comes from a node in the tree, a node joins in the state ISOLATED
only and stays.

**Messages on their way.** `ArrivesOnce` needs to know where the copies of a message can
be: a flood that a node forwarded is in its flood table, a unicast has one copy
(`OnceInv`). `DataAlwaysArrives` is a frontier argument: while a message has not arrived
and nothing was lost, either a copy travels along the routes, or the nodes that have
seen its flood are a set which some copy on the air still leaves (`ArriveInv`); when
no copy is left that set is closed, hence everybody. `DataComesToTheSink` says the same of
the one way up the parents (`RouteInv`): no node takes data for the sink for data for
a node below it, and the parent hears its child.

**When the sink stops.** `CompleteWhenStopped` follows one iteration from its flood to
its end (`IterationInv`). The flood spreads before anybody decides, so every node that
began was heard by its neighbours, as isolated or in the tree as it was, and costs the
same wherever it was heard (`Spreading`, `Heard`, `ListsRight`, `CostsAgree`). Then each
member asks one isolated neighbour, and the member that costs least of all is refused
by none: whoever it asks waits for it or for one that costs as much (`BestAsks`,
`IsolatedWait`). News of who joins reaches the sink (`NewsComes`). An iteration without
news therefore had nobody left to ask (`NobodyLeft`, a minimum over the costs), and
in a connected network that is everybody.

**Blackboard.** Every category has one class and, if that has a base class, a link to its
category, in whichever order they came (`TablesOf`). Who is due has seen the present
value, or some call in progress still comes to him: further down its list, or in the list
of a base class (`Underway`, `Ahead`). A publication from inside a callback puts a call on
top that comes to everyone who must hear of it, and the calls below stay ahead of
everyone else. Lineage and Missing, which are recursive, are reasoned about by a class of
least depth that would be a counterexample (`Inherited`); the theorem is also what justifies
that in RadioAccNoise3 a publication is part of the action which publishes.

**Mobility.** The invariant is about what is left of a step behind a border. From the
present place it goes straight on to the end of the step as the code knows it, the
message at the border is for the border that comes first on it (`FirstBorder`,
`PendingBorder`), and folding the end into the playground gives the end that a mirror or
a torus has (`Followed`, `Steady`); one reflection or wrap changes none of this
(`FoldedAgain`). Coordinates stay odd and borders even, so nothing ends on a border. The
clock of a script is never further behind the statements than the `backlog` and ends one
at most an interval early (`OnSchedule`), because `targetTime` is what a statement ends with and
what the next one starts from, and only a segment shorter than an interval takes longer than it
lasts; a rectangle's corner is reached by steps along its perimeter
(`AlongPerimeter`).

**Model-checked only.**
- Liveness under fairness is out of the prover's reach: `QueueDrains` of Csma and BMAC.
- `NoTimerError` of CsmaAloha is not true for all parameters (see the
  observations), and which of them it holds for is a matter of single durations; it stays with
  the run. Neither is `SendsOverNoReception` true of every network.
- `NoTimerError` of Mac80211 is proved but for three errors (`TimersFit`): that a CTS or an ACK
  comes when none is awaited, and that a transmission begins before the last is over. These,
  like `AckedWasDelivered` (an acknowledgement carries no number), are about durations of
  several nodes added up, and depend on switching times that the parameters leave open.

## Not modelled

Received powers (path loss, fading), bit error rates and random draws, which decide
nothing but which branch is taken; durations where a model abstracts them; logging,
statistics, display; packet lengths but for the two sizes of Mac80211.
- *csma*: that a verdict is *true* depends on `macAckWaitDuration`: an acknowledgement
  carries no number.
- *SnrEval family*: GilbertElliotSnr (a random on-off loss), ErrAndCollDecider; the
  transmission timer and random bit error of P2PPhyLayer.
- *ChannelControl*: NicEntryDirect, whose sending code is commented out.
- *Mobility*: acceleration, and the reading of traces and scripts.
- *SimpleNetwLayer and ARP*: ARP is a bijection; DijkstraRoutes is used by no layer.
- *Application layers*: traffic generators with one timer each; in all models the upper
  layer may send at any time. *Battery*: accounting of charge in one variable.
  *BasicModule and BasicLayer*: dispatch by gate, part of every action. *Utilities and
  messages*, *templates and tests*: nothing that has behaviour of its own.

## Plan

Done: Csma, RadioAccNoise3, Blackboard, ChannelControl with its gates, LMAC with its data
phase, Flood, SnrNic with Mac80211, CSMAMacLayer, AlohaMacLayer and BMAC, SpanningTree
with WiseRoute and Pairwise, Mobility. What would come next:

1. Proofs: `AckedWasDelivered` of Mac80211, for a radio that switches at once: an exchange of
   two nodes as one account of the time left on either side.
2. `CsmaNic`: csma over radio and receiver with a clock, for what depends on
   durations (true verdicts, stale assessments).
3. `LinkService`: a csma link as *one verdict per packet*, which Csma implements.
4. `PollClient` (requests and replies of PollApplLayer and ClientApplLayer), `Battery`.
