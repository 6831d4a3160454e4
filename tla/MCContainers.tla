---------------------------- MODULE MCContainers ----------------------------
(* Two keys, two members, two scores and two bits: every command meets a   *)
(* missing key, an expired one, the right kind and each wrong kind, and    *)
(* every pair of keys that are the same or differ.                         *)
EXTENDS Containers, TLC

CONSTANTS k1, k2

MCKey == {k1, k2}
MCMember == {1, 2}
MCScore == {0, 1}
MCBit == {0, 1}

(* Generations only grow, and no command looks at them: states that differ *)
(* in them alone have the same future, and every step is still checked.    *)
WithoutGenerations == <<d.storage, clock>>

Symmetry == Permutations(MCKey)
=============================================================================
