------------------------------- MODULE MCLMAC -------------------------------
(***************************************************************************)
(* Instances of LMAC for TLC.                                              *)
(***************************************************************************)
EXTENDS LMACData, TLC

CONSTANTS a, b, c, d

\* a chain: the ends of every three nodes in a row do not hear each other
Chain == (a :> {b}) @@ (b :> {a, c}) @@ (c :> {b, d}) @@ (d :> {c})

\* a is the node with the reserved slot
Ids == (a :> 0)

\* b sends to one of its two neighbours, or to both
Unicasts == (a :> {}) @@ (b :> {a, Broadcast}) @@ (c :> {}) @@ (d :> {})
=============================================================================
