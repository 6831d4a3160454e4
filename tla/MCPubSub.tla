------------------------------ MODULE MCPubSub ------------------------------
(* Three connections, the two channels of keyspace events, which clients   *)
(* may publish on as well, and a pattern that matches both.                *)
EXTENDS PubSub, TLC

CONSTANTS s1, s2, s3, key, event, star

MCSession == {s1, s2, s3}
MCChannel == {key, event}
MCPattern == {star}
MCMatch == {<<star, key>>, <<star, event>>}
MCFlag == {"K", "E"}
MCEventChannel == [f \in MCFlag |-> IF f = "K" THEN key ELSE event]

Symmetry == Permutations(MCSession)
=============================================================================
