------------------------------ MODULE MCHashes ------------------------------
(* Every hash command works on one key, so one key is enough; two fields   *)
(* of which one, both or none is expired, and times on both sides of every *)
(* deadline.                                                               *)
EXTENDS Hashes, TLC

CONSTANTS k1, f1, f2

MCKey == {k1}
MCField == {f1, f2}
MCNumber == {0, 1}
MCWhen == {0, 1, 11, 12}
MCValue == Hash \cup {Other}

(* No command looks at the generations or at the events of the command     *)
(* before it: states that differ in them alone have the same future.       *)
WithoutHistory == <<d.storage, clock>>

Symmetry == Permutations(MCField)
=============================================================================
