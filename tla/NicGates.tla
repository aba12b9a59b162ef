------------------------------- MODULE NicGates -------------------------------
(***************************************************************************)
(* The gates behind the connections of ChannelControl (NicEntryDebug).  A  *)
(* connection in one direction takes a gate out of one host and a gate     *)
(* into another and wires them.  Gates are never removed: those of dropped *)
(* connections wait on a stack of their nic until they are taken again.    *)
(* The gates of nic, host and physical layer with one name count as one.   *)
(***************************************************************************)
EXTENDS ChannelControl, SequencesExt

\* those of a simulation, so that the connections of one can be gone through
ASSUME NicAssumption == IsFiniteSet(Nic)

VARIABLES
    gates    \* of all nics

gateVars == <<vars, gates>>

NoGate == 0

Pools == [inCnt       : [Nic -> Nat],        \* gates made so far
          outCnt      : [Nic -> Nat],
          freeInGates : [Nic -> Seq(Nat)],
          freeOutGates: [Nic -> Seq(Nat)],
          gateTo      : [Nic \X Nic -> Nat], \* what outConns points to
          wires       : SUBSET ((Nic \X Nat) \X (Nic \X Nat))]

GatesInit ==
    /\ Init
    /\ gates = [inCnt |-> [n \in Nic |-> 0], outCnt |-> [n \in Nic |-> 0],
                freeInGates |-> [n \in Nic |-> <<>>], freeOutGates |-> [n \in Nic |-> <<>>],
                gateTo |-> [e \in Nic \X Nic |-> NoGate], wires |-> {}]

\* the gate that is taken: the last one freed, or a new one
requestGate(free, cnt) == IF free # <<>> THEN Last(free) ELSE cnt + 1

\* Seeded fault: the gate that is taken stays on the stack
PoppedNot(free) == free

Popped(free) == IF free # <<>> THEN Front(free) ELSE free

\* nic e[1] connects to nic e[2]
connectTo(g, e) ==
    LET out == requestGate(g.freeOutGates[e[1]], g.outCnt[e[1]])
        in  == requestGate(g.freeInGates[e[2]], g.inCnt[e[2]])
    IN  [g EXCEPT !.outCnt[e[1]] = IF out > @ THEN out ELSE @,
                  !.inCnt[e[2]]  = IF in > @ THEN in ELSE @,
                  !.freeOutGates[e[1]] = Popped(@),
                  !.freeInGates[e[2]]  = Popped(@),
                  !.gateTo[e] = out,
                  !.wires = @ \cup {<<<<e[1], out>>, <<e[2], in>>>>}]

\* the gates are found along the wire, and the one into the other host goes
\* to the stack of the nic that is disconnected from
disconnectFrom(g, e) ==
    LET out  == <<e[1], g.gateTo[e]>>
        wire == CHOOSE w \in g.wires : w[1] = out
    IN  [g EXCEPT !.freeOutGates[e[1]] = Append(@, out[2]),
                  !.freeInGates[e[2]]  = Append(@, wire[2][2]),
                  !.gateTo[e] = NoGate,
                  !.wires = @ \ {wire}]

\* both directions between nic n and the nics that came into or left its range,
\* in the order in which the matrix lists them, which may be any
Rewire(n) ==
    LET changed == {m \in Nic : (outConns[<<n, m>>] = "GATE") # (outConns'[<<n, m>>] = "GATE")}
        Both(g, m) ==
            IF outConns'[<<n, m>>] = "GATE"
            THEN connectTo(connectTo(g, <<n, m>>), <<m, n>>)
            ELSE disconnectFrom(disconnectFrom(g, <<n, m>>), <<m, n>>)
    IN  IF stopped' THEN UNCHANGED gates
        ELSE \E order \in SetToSeqs(changed) : gates' = FoldLeft(Both, gates, order)

GatesNext ==
    /\ ~stopped
    /\ \E n \in Nic :
        \/ \E p \in Place : (registerNic(n, p) \/ updateNicPos(n, p)) /\ Rewire(n)
        \/ sendToChannel(n) /\ UNCHANGED gates
        \/ \E m \in Nic : sendDelayedP2P(n, m) /\ UNCHANGED gates

GatesSpec == GatesInit /\ [][GatesNext]_gateVars
-----------------------------------------------------------------------------
Wired(side) == {w[side] : w \in gates.wires}

\* The gates of nic n that are free or wired, and how often
Accounted(cnt, free, wired) ==
    /\ Len(free) + Cardinality(wired) = cnt
    /\ ToSet(free) \cup wired = 1 .. cnt

GatesOf(n, side) == {w[2] : w \in {v \in Wired(side) : v[1] = n}}

\* A frame sent along a connection reaches the nic it is for, and no other: a wire
\* leads from the gate of the connection to that nic, no gate has two wires, and each
\* gate ever made is either wired or waits on the stack, once.  Hence a nic never has
\* more gates than it had connections at one time.
GatesUnshared ==
    \/ stopped
    \/ /\ \A e \in Nic \X Nic :
            outConns[e] = "GATE" <=>
               \E w \in gates.wires : w[1] = <<e[1], gates.gateTo[e]>> /\ w[2][1] = e[2]
       /\ Cardinality(gates.wires) = Cardinality(Wired(1))
       /\ Cardinality(gates.wires) = Cardinality(Wired(2))
       /\ \A n \in Nic :
            /\ Accounted(gates.outCnt[n], gates.freeOutGates[n], GatesOf(n, 1))
            /\ Accounted(gates.inCnt[n], gates.freeInGates[n], GatesOf(n, 2))
=============================================================================
