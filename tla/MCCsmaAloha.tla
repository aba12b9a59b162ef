---------------------------- MODULE MCCsmaAloha ----------------------------
EXTENDS CsmaAloha
CONSTANTS a, b, c, all
ChainPower == [s \in Node |-> [r \in Node |-> IF s = r \/ {s, r} = {a, c} THEN 0 ELSE 4]]
ToMiddle == [n \in Node |-> IF n = b THEN {a} ELSE {b}]
=============================================================================
