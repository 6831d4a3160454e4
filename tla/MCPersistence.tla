---------------------------- MODULE MCPersistence ----------------------------
(* Persistence with one or two keys. *)
EXTENDS Persistence

CONSTANTS k1, k2

MCKey == {k1}
MCTwoKeys == {k1, k2}
MCNoDeadline == {NoTTL}
MCDue == {NoTTL, 2}
MCValue == [era: 0 .. MaxEra, due: Due]
=============================================================================
