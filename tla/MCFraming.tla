----------------------------- MODULE MCFraming -----------------------------
(* Streams of up to four messages of every kind, in chunks of one to three *)
(* units: chunks end inside, at the end of, and beyond a message.  A       *)
(* simple string is counted for one unit more than it took, so that the    *)
(* account can match in the middle of the message after it.                *)
EXTENDS Framing

MCSize == [framed |-> 2, null |-> 1, simple |-> 2, inline |-> 2, malformed |-> 2, huge |-> 6]
=============================================================================
