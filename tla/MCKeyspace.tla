----------------------------- MODULE MCKeyspace -----------------------------
(* Keyspace with two keys, a counter of two values and a clock of three    *)
(* readings: a deadline can lie in the past, pass during a command, pass   *)
(* between commands, or never pass.                                        *)
EXTENDS Keyspace

CONSTANTS k1, k2, list

MCKey == {k1, k2}
MCNumber == 0 .. 1
MCValue == MCNumber \cup {Text, TooBig, list}
MCDeadline == {11, 12}
MCSeconds == {0, 1}
=============================================================================
