---------------------------- MODULE MCBlackboard ----------------------------
(***************************************************************************)
(* Instances of Blackboard for TLC.                                        *)
(***************************************************************************)
EXTENDS Blackboard

CONSTANTS c1, c2, base, derived, leaf, here, there, state, param

\* leaf derives from derived, which derives from base
Chain == (base :> BBItem) @@ (derived :> base) @@ (leaf :> derived)

\* an item of the most derived class, and one of the base class
Classes == (state :> leaf) @@ (param :> base)
Scopes == (state :> here) @@ (param :> there)

Symmetric == Permutations({c1, c2})
=============================================================================
