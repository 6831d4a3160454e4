------------------------------ MODULE Versioned ------------------------------
(***************************************************************************)
(* What the store promises to optimistic transactions: a key's observable  *)
(* content and its write generation.  Content may only appear or change    *)
(* together with a larger generation; it may vanish silently (expiry, and  *)
(* the deletions that do not touch).  Unnoticed is the content that a key  *)
(* without any may be given silently as well.  A flush empties everything  *)
(* and starts the generations over, in a new epoch.                        *)
(***************************************************************************)
EXTENDS Integers

CONSTANTS Key, Absent, Unnoticed

VARIABLES content, generation, epoch

vvars == <<content, generation, epoch>>

Init ==
    /\ generation = [k \in Key |-> 0]
    /\ epoch = 0

(* Any number of keys are written, any number vanish. *)
Proceed ==
    /\ \A k \in Key :
         \/ generation'[k] > generation[k]
         \/ /\ generation'[k] = generation[k]
            /\ \/ content'[k] \in {content[k], Absent}
               \/ content[k] = Absent /\ content'[k] \in Unnoticed
    /\ epoch' = epoch

Flush ==
    /\ content' = [k \in Key |-> Absent]
    /\ generation' = [k \in Key |-> 0]
    /\ epoch' = epoch + 1

Next == Proceed \/ Flush

Spec == Init /\ [][Next]_vvars
=============================================================================
