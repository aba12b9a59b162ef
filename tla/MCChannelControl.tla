-------------------------- MODULE MCChannelControl --------------------------
(***************************************************************************)
(* Instances of ChannelControl for TLC.  The unit of length is half a      *)
(* metre: a range of 2.5 m gives squares of 3 m.                           *)
(***************************************************************************)
EXTENDS NicGates, TLC

CONSTANTS n1, n2, n3

\* both sides of the borders between squares beside, above and across each
\* other, out of range of them, and the far borders
Field == {0, 5, 6, 18} \X {5, 8} \ {<<0, 8>>}

Symmetric == Permutations({n1, n2, n3})
=============================================================================
