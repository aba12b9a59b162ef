----------------------------- MODULE MCWiseRoute -----------------------------
EXTENDS WiseRoute
CONSTANTS o, x, z, all

\* A triangle in which all links are strong.
StrongRssi == [s \in Node |-> [r \in Node |-> IF s = r THEN {} ELSE {3}]]

\* z sends to the sink o, and o to z, for which there are no routes.
Flows == [n \in Node |-> CASE n = z -> {o} [] n = o -> {z} [] OTHER -> {}]
=============================================================================
