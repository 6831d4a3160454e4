--------------------------- MODULE MCTransactions ---------------------------
(* Two connections, two keys holding one of two values: one connection     *)
(* watches and queues while the other writes, deletes, flushes, rewrites   *)
(* the value it deleted, or time expires the keys.                         *)
EXTENDS Transactions, TLC

CONSTANTS k1, k2, c1, c2, s1, s2

MCKey == {k1, k2}
MCContent == {c1, c2}
MCSession == {s1, s2}

Symmetry == Permutations(MCKey) \cup Permutations(MCContent) \cup Permutations(MCSession)
=============================================================================
