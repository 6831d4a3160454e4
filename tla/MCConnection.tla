---------------------------- MODULE MCConnection ----------------------------
(* A socket and marks of one frame, and chunks of up to three requests: a  *)
(* client that stalls fills every buffer of either backend, and a chunk    *)
(* can answer, subscribe and answer again.                                 *)
EXTENDS Connection
=============================================================================
