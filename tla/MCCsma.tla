------------------------------- MODULE MCCsma -------------------------------
(***************************************************************************)
(* Instances of Csma for TLC.                                              *)
(***************************************************************************)
EXTENDS Csma, TLC

CONSTANTS a, b

\* a sends to b; b answers, or broadcasts
Flows == (a :> {b}) @@ (b :> {a, Broadcast})

TwoOne == [n \in Node |-> IF n = a THEN 2 ELSE 1]
=============================================================================
