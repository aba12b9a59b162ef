------------------------------- MODULE MCFlood -------------------------------
(***************************************************************************)
(* Instances of Flood for TLC.                                             *)
(***************************************************************************)
EXTENDS Flood, TLC

CONSTANTS a, b, c, d

\* a triangle with a tail: messages come back, and by two ways
Kite == (a :> {b, c}) @@ (b :> {a, c}) @@ (c :> {a, b, d}) @@ (d :> {c})

\* a floods, d sends to its neighbour
FlowFlood == (a :> {L3BROADCAST}) @@ (b :> {}) @@ (c :> {}) @@ (d :> {c})

One == [n \in Node |-> 1]
=============================================================================
