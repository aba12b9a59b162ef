------------------------------ MODULE MCPairwise ------------------------------
EXTENDS Pairwise
CONSTANTS s, a, b, c, none

\* The sink, a below it, and a triangle of a, b and c
Links == {{s, a}, {a, b}, {b, c}, {a, c}}

\* The noise of the link of a and c varies about the threshold.
Qualities == [x \in Node |-> [y \in Node |-> CASE {x, y} = {a, c} -> {"good", "bad"}
                                              [] {x, y} \in Links \ {{a, c}} -> {"good"}
                                              [] OTHER -> {}]]

ToSink == [n \in Node |-> IF n = c THEN {s} ELSE {}]
=============================================================================
