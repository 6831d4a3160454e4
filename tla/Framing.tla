------------------------------ MODULE Framing ------------------------------
(***************************************************************************)
(* RESPReader of kagni/resp.py: the bytes a client sends arrive cut into   *)
(* chunks at any place, and feed() answers the messages each chunk         *)
(* completes.  The python engine parses everything itself; the hiredis     *)
(* engine parses inline command lines and hands the rest to hiredis.       *)
(*                                                                         *)
(* A message is a kind and a number of units, which stand for its bytes:   *)
(* only where messages begin and end matters here.  The bytes of a message *)
(* that hiredis parsed are counted by encoding it again (_wire_length): a  *)
(* request as an array of bulk strings gives the bytes it came in, a null  *)
(* or an error has no encoding, and a simple string comes back as a bulk   *)
(* string, of another length: with it the account drifts.                  *)
(***************************************************************************)
EXTENDS Integers, Sequences

CONSTANTS
    Size,       \* the units of a message of each kind
    Recoded,    \* the units a message with a simple string is counted for
    MaxStream,  \* bound on the messages a client sends
    MaxChunk,   \* units in one chunk
    MaxBuffer   \* RESPReader.MAX_BUFFER

(* A request as an array, a null or error, a message with a simple string  *)
(* in it, a command line, bytes that are no message, and a message larger  *)
(* than the buffer may become.                                             *)
Kind == {"framed", "null", "simple", "inline", "malformed", "huge"}

(* What feed() answers: a message, or bytes out of the middle of one that  *)
(* were taken for a command line.                                          *)
Output == Kind \cup {"stray"}

ASSUME FramingAssumption ==
    /\ Size \in [Kind -> Nat \ {0}] /\ Recoded \in Nat
    /\ MaxStream \in Nat /\ MaxChunk \in Nat \ {0} /\ MaxBuffer \in Nat
    /\ \A k \in Kind : IF k = "huge" THEN Size[k] > MaxBuffer
                       ELSE Size[k] - 1 + MaxChunk <= MaxBuffer

VARIABLES
    engine,   \* "python" or "hiredis"
    stream,   \* the messages the client sends
    pos,      \* how many of their units have arrived
    before,   \* history: how many had arrived before the last chunk
    out,      \* history: the messages feed() answered
    failed,   \* feed() raised ProtocolError, and the connection is closed
    buffer,   \* _buffer
    pending,  \* what hiredis holds of an incomplete message
    engaged,  \* _engaged
    unknown,  \* _boundary_unknown
    fed,      \* _fed
    consumed  \* _consumed

vars == <<engine, stream, pos, before, out, failed, buffer, pending, engaged, unknown, fed, consumed>>

-----------------------------------------------------------------------------
(* Units and messages *)

Encoded(kind) ==
    [i \in 1 .. Size[kind] |-> [kind |-> kind, first |-> i = 1, last |-> i = Size[kind]]]

(* The running totals of a sequence of lengths. *)
Totals(lengths) ==
    LET sum[n \in 0 .. Len(lengths)] == IF n = 0 THEN 0 ELSE sum[n - 1] + lengths[n]
    IN sum

(* End[m]: the units of the stream up to the end of its m-th message. *)
End == Totals([m \in DOMAIN stream |-> Size[stream[m]]])

Units ==
    LET end == End
        holder(u) == CHOOSE m \in DOMAIN stream : end[m - 1] < u /\ u <= end[m]
    IN [u \in 1 .. end[Len(stream)] |->
          Encoded(stream[holder(u)])[u - end[holder(u) - 1]]]

(* A unit that _RESP_MARKERS tells for the start of a framed message. *)
Marker(u) == u.first /\ u.kind # "inline"

Ends(b) == {i \in DOMAIN b : b[i].last}
Starts(b) == ({1} \cup {i + 1 : i \in Ends(b)}) \cap DOMAIN b

(* A round of the loop of feed(), at how far into b it got and what it     *)
(* answered: the next message, if all of it is there.  Its first unit says *)
(* how long it is.                                                         *)
Round(b, r) ==
    LET kind == b[r.at + 1].kind
    IN IF r.at < Len(b) /\ r.at + Size[kind] <= Len(b)
       THEN [at |-> r.at + Size[kind], got |-> Append(r.got, kind)]
       ELSE r

Rounds(b) ==
    LET after[n \in 0 .. Len(b)] ==
          IF n = 0 THEN [at |-> 0, got |-> <<>>] ELSE Round(b, after[n - 1])
    IN after

(* The messages complete in b, and the units after them. *)
Messages(b) == Rounds(b)[Len(b)].got
Rest(b) == SubSeq(b, Rounds(b)[Len(b)].at + 1, Len(b))

Bad(b) == \E i \in Ends(b) : b[i].kind = "malformed"

(* Mutant: command lines are left to hiredis. *)
InlineNever(b) == 0

(* The command lines at the front of b, up to the first framed message. *)
InlineEnd(b) ==
    LET framed == {i \in Starts(b) : Marker(b[i])}
    IN IF framed = {} THEN Len(b) ELSE (CHOOSE i \in framed : \A j \in framed : i <= j) - 1

(* Mutant: a message without an encoding counts as minus one. *)
WireLengthSentinel(messages) ==
    Totals([m \in DOMAIN messages |->
              CASE messages[m] = "null" -> -1
                [] messages[m] = "simple" -> Recoded
                [] OTHER -> Size[messages[m]]])[Len(messages)]

(* The canonical length of what hiredis answered; nulls have none.         *)
WireLength(messages) ==
    Totals([m \in DOMAIN messages |->
              CASE messages[m] = "null" -> 0
                [] messages[m] = "simple" -> Recoded
                [] OTHER -> Size[messages[m]]])[Len(messages)]

-----------------------------------------------------------------------------
Init ==
    /\ engine \in {"python", "hiredis"}
    /\ stream \in UNION {[1 .. n -> Kind] : n \in 0 .. MaxStream}
    /\ pos = 0 /\ before = 0 /\ out = <<>> /\ failed = FALSE
    /\ buffer = <<>> /\ pending = <<>>
    /\ engaged = FALSE /\ unknown = FALSE /\ fed = 0 /\ consumed = 0

Arrives(n) ==
    /\ ~failed /\ pos + n <= Len(Units)
    /\ pos' = pos + n /\ before' = pos
    /\ UNCHANGED <<engine, stream>>

Chunk(n) == SubSeq(Units, pos + 1, pos + n)

(* feed() raises: what the chunk completed so far is not answered. *)
Raise == failed' = TRUE /\ UNCHANGED <<out, buffer, pending, engaged, unknown, fed, consumed>>

(* Mutant: the start of an incomplete message is dropped. *)
FeedPythonForgets(n) ==
    LET b == buffer \o Chunk(n)
    IN /\ engine = "python"
       /\ Arrives(n)
       /\ IF Len(b) > MaxBuffer \/ Bad(b) THEN Raise
          ELSE /\ out' = out \o Messages(b)
               /\ buffer' = <<>>
               /\ UNCHANGED <<failed, pending, engaged, unknown, fed, consumed>>

(* _feed_python *)
FeedPython(n) ==
    LET b == buffer \o Chunk(n)
    IN /\ engine = "python"
       /\ Arrives(n)
       /\ IF Len(b) > MaxBuffer \/ Bad(b) THEN Raise
          ELSE /\ out' = out \o Messages(b)
               /\ buffer' = Rest(b)
               /\ UNCHANGED <<failed, pending, engaged, unknown, fed, consumed>>

(* Mutant: hiredis is left as soon as it was fed. *)
BoundaryFed(f, c) == f # 0

(* By the account, everything hiredis was fed has been parsed. *)
Boundary(f, c) == f # 0 /\ f = c

(* hiredis gets the units given; lines are the command lines parsed before *)
(* them from the same chunk.                                               *)
Hiredis(given, lines) ==
    LET h == pending \o given
        messages == Messages(h)
        lost == unknown \/ \E i \in DOMAIN messages : messages[i] = "null"
        f == fed + Len(given)
        c == consumed + WireLength(messages)
        home == ~lost /\ Boundary(f, c)
    IN IF \/ ~unknown /\ f - consumed > MaxBuffer
          \/ Bad(h)
          \/ \E i \in Starts(h) : ~Marker(h[i])
       THEN Raise
       ELSE /\ out' = out \o lines \o messages
            /\ pending' = Rest(h)
            /\ unknown' = lost
            /\ engaged' = ~home
            /\ fed' = (IF home THEN 0 ELSE f) /\ consumed' = (IF home THEN 0 ELSE c)
            /\ buffer' = <<>>
            /\ UNCHANGED failed

(* hiredis was left while it still held a part of a message, so that b     *)
(* begins in the middle of one.  Whatever byte stands there decides: it    *)
(* may pass for the start of a framed message, and hiredis gets the rest   *)
(* after all; else it is taken for a command line, which waits for its end *)
(* or is answered.  The model ends with such an answer.                    *)
Misplaced(b) ==
    \/ buffer = <<>> /\ Hiredis(b, <<>>)
    \/ /\ buffer' = b
       /\ UNCHANGED <<out, failed, pending, engaged, unknown, fed, consumed>>
    \/ /\ out' = Append(out, "stray")
       /\ UNCHANGED <<failed, buffer, pending, engaged, unknown, fed, consumed>>

Strayed == \E i \in DOMAIN out : out[i] = "stray"

(* _feed_hiredis: command lines are parsed here while the stream is at a   *)
(* message boundary; from the first framed message on, all that arrived    *)
(* goes to hiredis.                                                        *)
FeedHiredis(n) ==
    LET b == buffer \o Chunk(n)
        e == InlineEnd(b)
        lines == SubSeq(b, 1, e)
    IN /\ engine = "hiredis" /\ ~Strayed
       /\ Arrives(n)
       /\ IF engaged \/ unknown THEN Hiredis(Chunk(n), <<>>)
          ELSE IF Len(b) > MaxBuffer THEN Raise
          ELSE IF pending # <<>> THEN Misplaced(b)
          ELSE IF e < Len(b) THEN Hiredis(SubSeq(b, e + 1, Len(b)), Messages(lines))
          ELSE /\ out' = out \o Messages(lines)
               /\ buffer' = Rest(lines)
               /\ UNCHANGED <<failed, pending, engaged, unknown, fed, consumed>>

Next == \E n \in 1 .. MaxChunk : FeedPython(n) \/ FeedHiredis(n)

Spec == Init /\ [][Next]_vars

-----------------------------------------------------------------------------
Unit == [kind: Kind, first: BOOLEAN, last: BOOLEAN]

(* The reader's buffers and counters are well formed. *)
TypeOK ==
    /\ engine \in {"python", "hiredis"} /\ stream \in Seq(Kind)
    /\ pos \in 0 .. Len(Units) /\ before \in 0 .. Len(Units)
    /\ out \in Seq(Output) /\ buffer \in Seq(Unit) /\ pending \in Seq(Unit)
    /\ failed \in BOOLEAN /\ engaged \in BOOLEAN /\ unknown \in BOOLEAN
    /\ fed \in Nat /\ consumed \in Nat

(* hiredis has not parsed a simple string yet. *)
Straight == engine = "hiredis" => \A i \in DOMAIN out : out[i] # "simple"

(* Bytes that belong to a message hiredis holds the start of were taken    *)
(* for a command line, answered or waiting for its end.                    *)
Misread == Strayed \/ (buffer # <<>> /\ pending # <<>>)

(* feed() answers "every complete command/value": whatever the chunks, the *)
(* messages answered are the first ones of the stream, each once and in    *)
(* order; all of them have arrived, and the next one has not, so that none *)
(* is held back.  A protocol error takes with it what the same chunk       *)
(* completed, and no more.  The one exception: once a simple string has    *)
(* made the account of hiredis drift, bytes of a message can be misread.   *)
AnswersExact ==
    LET arrived == IF failed THEN before ELSE pos
        end == End
        n == Len(out)
    IN /\ Straight => ~Misread
       /\ ~Misread =>
            /\ n <= Len(stream) /\ out = SubSeq(stream, 1, n)
            /\ end[n] <= arrived
            /\ n < Len(stream) => arrived < end[n + 1]

(* "boundary tracking is exact": hiredis holds nothing while command lines *)
(* are looked for, and the other way round, so that no byte of a message   *)
(* is taken for a command or lost between the two buffers; and the lines   *)
(* are looked for again after each run of framed messages.  It is exact    *)
(* until a null switches it off or a simple string is counted wrong.       *)
BoundaryExact ==
    (engine = "hiredis" /\ ~failed /\ ~unknown /\ Straight) => (engaged <=> pending # <<>>)

Sent(kinds) == \E i \in DOMAIN stream : stream[i] \in kinds

(* A protocol error has a cause: malformed or oversized input or, on       *)
(* hiredis only, a command line that reached it because a framed message   *)
(* came before it in its chunk, one was incomplete, or a null had switched *)
(* the tracking off; or the drift that follows a simple string.  A client  *)
(* that waits for each reply and frames its requests meets none.           *)
ErrorsJustified ==
    failed =>
        \/ Sent({"malformed", "huge"})
        \/ ~Straight
        \/ /\ engine = "hiredis"
           /\ \E u \in before + 1 .. pos :
                /\ Units[u].first /\ Units[u].kind = "inline"
                /\ pending # <<>> \/ unknown \/ \E v \in before + 1 .. u - 1 : Marker(Units[v])

(* "a peer that announces a giant payload and never delivers it" cannot    *)
(* make the reader hold more than MAX_BUFFER, unless a null has switched   *)
(* hiredis' accounting off or a simple string has set it wrong.            *)
BufferCapped == (~failed /\ ~unknown /\ Straight) => Len(buffer) + Len(pending) <= MaxBuffer

(* What waits in the two buffers: no more than the cap, and on the right   *)
(* side of the hand-over.                                                  *)
BuffersExact == BoundaryExact /\ BufferCapped
=============================================================================
