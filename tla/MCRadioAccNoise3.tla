-------------------------- MODULE MCRadioAccNoise3 --------------------------
(***************************************************************************)
(* Instances of RadioAccNoise3 for TLC.                                    *)
(***************************************************************************)
EXTENDS RadioAccNoise3, TLC

CONSTANTS f1, f2, f3

\* a weak, a middle and a strong frame: every set of them has a power of its own
Powers == (f1 :> 1) @@ (f2 :> 2) @@ (f3 :> 4)
=============================================================================
