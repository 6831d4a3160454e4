----------------------------- MODULE Connection -----------------------------
(***************************************************************************)
(* One client connection, from the requests that arrive on its socket to   *)
(* the frames that leave on it, on either backend: RedisServerProtocol of  *)
(* kagni/server_asyncio.py, or protocol_handler, its writer task and its   *)
(* push channel of kagni/server_trio.py.  Other connections publish to it  *)
(* while it is subscribed.                                                 *)
(*                                                                         *)
(* A frame is either the reply to a request, or pushed through the         *)
(* session's sender (a message, or the confirmation of a SUBSCRIBE or      *)
(* UNSUBSCRIBE); it carries its number in the order of production.  Sizes  *)
(* count frames.  The loop of the backend is one thread: while it works    *)
(* through a chunk of requests no other task runs.                         *)
(***************************************************************************)
EXTENDS Integers, Sequences, FiniteSets

CONSTANTS
    Window,       \* frames the socket takes before the client reads
    HighWater,    \* RedisServerProtocol.HIGH_WATER
    LowWater,     \* RedisServerProtocol.LOW_WATER
    PubSubLimit,  \* RedisServerProtocol.PUBSUB_LIMIT
    QueueLimit,   \* _PUBSUB_QUEUE
    MaxChunk,     \* requests in one chunk
    MaxRequests,  \* bound on the requests a client sends
    MaxFrames     \* bound on the frames after which nobody publishes

ASSUME ConnectionAssumption ==
    /\ Window \in Nat \ {0} /\ MaxChunk \in Nat \ {0} /\ QueueLimit \in Nat
    /\ LowWater \in Nat \ {0} /\ LowWater <= HighWater /\ HighWater \in Nat
    /\ PubSubLimit \in Nat /\ MaxRequests \in Nat /\ MaxFrames \in Nat

(* A data command, the subscribe family, and input that is no request. *)
Request == {"command", "subscribe", "unsubscribe", "malformed"}

VARIABLES
    engine,      \* the backend
    client,      \* is it connected, is that known to whoever sends to it, does
                 \* it still read, what may it still send
    wrote,       \* history: how many frames were put on the socket, and the
                 \* number of the last reply and of the last push among them
    unread,      \* how many of them the client has not read
    made,        \* history: frames produced so far
    subscribed,  \* the session has a subscription, in the hub and on its own
    state,       \* how far the connection has come
    reader,      \* the chunk being worked through, trio's direct replies, and
                 \* the reply that subscribed mode holds while they are flushed
    queue,       \* asyncio: the transport's write buffer; trio: the push channel
    paused,      \* asyncio: _write_paused
    writer,      \* trio: the writer task and the frame it holds
    lock         \* trio: send_lock

vars == <<engine, client, wrote, unread, made, subscribed, state, reader, queue, paused,
          writer, lock>>

(* What one part of the system leaves of another alone. *)
peer == <<engine, client>>
socket == <<wrote, unread>>
tasks == <<writer, lock>>
server == <<made, subscribed, state, reader, queue, paused, tasks>>

Frame(kind) == [n |-> made + 1, kind |-> kind]
NoFrame == [n |-> 0, kind |-> "none"]

Open == state = "open"
Alive == state \in {"open", "closing"}
Asyncio == engine = "asyncio"
Trio == engine = "trio"

(* No task runs while the loop is inside a chunk. *)
LoopFree == reader.pc # "run"

(* A send fails. *)
Gone == ~client.open /\ client.reset

(* Mutant: a full socket takes more. *)
RoomAlways == ~Gone

(* A send succeeds: what a client that closed its end has not answered     *)
(* with a reset yet is taken by the network, and lost.                     *)
Room == IF client.open THEN unread < Window ELSE ~Gone

Put(f) ==
    /\ wrote' = [wrote EXCEPT !.count = @ + 1, ![f.kind] = f.n]
    /\ unread' = IF client.open THEN unread + 1 ELSE unread

(* idle_event: set when it is made, set again by the writer, and cleared   *)
(* by nobody.                                                              *)
IdleEvent == TRUE

Init ==
    /\ engine \in {"asyncio", "trio"}
    /\ client = [open |-> TRUE, reset |-> FALSE, reads |-> TRUE, left |-> MaxRequests]
    /\ wrote = [count |-> 0, reply |-> 0, push |-> 0] /\ unread = 0 /\ made = 0
    /\ subscribed = FALSE /\ state = "open"
    /\ reader = [pc |-> "recv", chunk |-> <<>>, direct |-> <<>>, held |-> NoFrame]
    /\ queue = <<>> /\ paused = FALSE
    /\ writer = [pc |-> "wait", item |-> NoFrame]
    /\ lock = "free"

-----------------------------------------------------------------------------
(* The client, until the server closes the socket. *)

Connected == client.open /\ state # "done"

ClientRead ==
    /\ Connected /\ client.reads /\ unread > 0
    /\ unread' = unread - 1
    /\ UNCHANGED <<peer, wrote, server>>

(* It stops reading for good, or goes away. *)
ClientStalls ==
    /\ Connected /\ client.reads
    /\ client' = [client EXCEPT !.reads = FALSE]
    /\ UNCHANGED <<engine, socket, server>>

(* Over a unix socket a send fails from then on.                           *)
ClientCloses ==
    /\ Connected
    /\ \E reset \in BOOLEAN : client' = [client EXCEPT !.open = FALSE, !.reset = reset]
    /\ unread' = 0
    /\ UNCHANGED <<engine, wrote, server>>

(* Over TCP it does when a reset has come, as the answer to a frame sent   *)
(* after the close, or on its own.                                         *)
ClientResets ==
    /\ ~client.open /\ ~client.reset /\ state # "done"
    /\ client' = [client EXCEPT !.reset = TRUE]
    /\ UNCHANGED <<engine, socket, server>>

-----------------------------------------------------------------------------
(* The end of a connection: connection_lost, or the finally clause of      *)
(* protocol_handler.  The hub forgets the session.                         *)
Finish ==
    /\ state' = "done" /\ subscribed' = FALSE
    /\ reader' = [pc |-> "exit", chunk |-> <<>>, direct |-> <<>>, held |-> NoFrame]
    /\ queue' = <<>> /\ paused' = FALSE
    /\ writer' = [pc |-> "done", item |-> NoFrame]
    /\ lock' = "free"
    /\ UNCHANGED <<peer, socket, made>>

-----------------------------------------------------------------------------
(* asyncio.  transport.write sends what the socket takes at once and       *)
(* buffers the rest; transport.close stops reading, but lets the buffer    *)
(* drain first, and until then write still adds to it.                     *)

(* Mutant: a frame that fits the socket goes out ahead of the buffer. *)
WriteThrough(f) ==
    IF Room THEN Put(f) /\ UNCHANGED queue
    ELSE queue' = Append(queue, f) /\ UNCHANGED socket

Write(f) ==
    IF state = "closing" /\ queue = <<>> THEN UNCHANGED <<socket, queue>>
    ELSE IF queue = <<>> /\ Room THEN Put(f) /\ UNCHANGED queue
    ELSE queue' = Append(queue, f) /\ UNCHANGED socket

(* _push_frame *)
AsyncioPush(f) ==
    /\ Asyncio
    /\ Write(f)
    /\ state' = IF Len(queue') > PubSubLimit THEN "closing" ELSE state
    /\ UNCHANGED tasks

(* Mutant: the backlog is not looked at after a chunk. *)
AsyncioChunkUnpaused ==
    /\ reader' = [reader EXCEPT !.pc = "recv"]
    /\ UNCHANGED <<peer, socket, made, subscribed, state, queue, writer, paused, lock>>

(* The end of data_received: _maybe_pause_reading. *)
AsyncioChunkDone ==
    /\ reader' = [reader EXCEPT !.pc = "recv"]
    /\ paused' = (paused \/ Len(queue) > HighWater)
    /\ UNCHANGED <<peer, socket, made, subscribed, state, queue, tasks>>

(* Mutant: the poll waits for a backlog below half the low-water mark. *)
PollStuck ==
    /\ Asyncio /\ LoopFree /\ state # "done"
    /\ paused /\ Len(queue) < LowWater \div 2
    /\ paused' = FALSE
    /\ UNCHANGED <<peer, socket, made, subscribed, state, reader, queue, tasks>>

(* _maybe_resume_reading, run every tenth of a second while paused. *)
Poll ==
    /\ Asyncio /\ LoopFree /\ state # "done"
    /\ paused /\ Len(queue) < LowWater
    /\ paused' = FALSE
    /\ UNCHANGED <<peer, socket, made, subscribed, state, reader, queue, tasks>>

(* The transport drains its buffer when the socket is writable. *)
Drain ==
    /\ Asyncio /\ LoopFree /\ Alive
    /\ queue # <<>> /\ Room
    /\ Put(Head(queue)) /\ queue' = Tail(queue)
    /\ UNCHANGED <<peer, made, subscribed, state, reader, paused, tasks>>

(* connection_lost: closed and drained, or the peer reset a write. *)
Lost ==
    /\ Asyncio /\ LoopFree /\ Alive
    /\ \/ state = "closing" /\ queue = <<>>
       \/ Gone /\ queue # <<>>
    /\ Finish

-----------------------------------------------------------------------------
(* trio.  send_nowait hands a frame to the waiting writer, or puts it in   *)
(* the channel; a full channel cancels the connection.  Once the channel   *)
(* is closed it raises, in the task of whoever published.                  *)

Waiting(who) == IF who = "reader" THEN reader.pc = "acquire" ELSE writer.pc = "acquire"

(* trio.Lock is handed to the task that waits for it. *)
Released(waiter) == IF Waiting(waiter) THEN waiter ELSE "free"

(* Mutant: a full channel drops the frame and the connection lives on. *)
TrioPushDrops(f) ==
    /\ Trio
    /\ IF Open /\ writer.pc = "wait"
       THEN writer' = [pc |-> "acquire", item |-> f] /\ UNCHANGED <<queue, state>>
       ELSE IF Open /\ Len(queue) < QueueLimit
       THEN queue' = Append(queue, f) /\ UNCHANGED <<writer, state>>
       ELSE UNCHANGED <<queue, writer, state>>
    /\ UNCHANGED <<socket, lock>>

TrioPush(f) ==
    /\ Trio
    /\ IF Open /\ writer.pc = "wait"
       THEN writer' = [pc |-> "acquire", item |-> f] /\ UNCHANGED <<queue, state>>
       ELSE IF Open /\ Len(queue) < QueueLimit
       THEN queue' = Append(queue, f) /\ UNCHANGED <<writer, state>>
       ELSE state' = (IF Open THEN "cancelled" ELSE state) /\ UNCHANGED <<queue, writer>>
    /\ UNCHANGED <<socket, lock>>

(* _direct_send: nothing ever clears idle_event, so it never waits there;  *)
(* an uncontended lock is taken at once.                                   *)
DirectSend(chunk, direct, held) ==
    /\ reader' = [pc |-> IF IdleEvent /\ lock = "free" THEN "send" ELSE "acquire",
                  chunk |-> chunk, direct |-> direct, held |-> held]
    /\ lock' = IF IdleEvent /\ lock = "free" THEN "reader" ELSE lock

(* The reply to a request.  In subscribed mode the direct replies are      *)
(* flushed first, while the reply waits in the handler; then               *)
(* idle_event.clear() is called, which trio.Event does not have: the       *)
(* handler fails.                                                          *)
TrioReply(f) ==
    /\ Trio
    /\ IF ~subscribed
       THEN /\ reader' = [reader EXCEPT !.chunk = Tail(@), !.direct = Append(@, f)]
            /\ UNCHANGED <<lock, state>>
       ELSE IF reader.direct # <<>> /\ Open
       THEN DirectSend(reader.chunk, reader.direct, f) /\ UNCHANGED state
       ELSE /\ state' = IF Open THEN "failed" ELSE state
            /\ reader' = [reader EXCEPT !.pc = "exit", !.chunk = <<>>]
            /\ UNCHANGED lock
    /\ UNCHANGED <<socket, queue, writer>>

TrioChunkDone ==
    /\ IF reader.direct = <<>> THEN reader' = [reader EXCEPT !.pc = "recv"] /\ UNCHANGED lock
       ELSE DirectSend(<<>>, reader.direct, NoFrame)
    /\ UNCHANGED <<peer, socket, made, subscribed, state, queue, paused, writer>>

(* The read task gets the lock it waited for. *)
ReaderLocks ==
    /\ Trio /\ Alive /\ LoopFree
    /\ reader.pc = "acquire" /\ IdleEvent /\ lock \in {"free", "reader"}
    /\ lock' = "reader" /\ reader' = [reader EXCEPT !.pc = "send"]
    /\ UNCHANGED <<peer, socket, made, subscribed, state, queue, paused, writer>>

(* send_all, frame by frame, and the release of the lock.  A flush in the  *)
(* middle of a chunk goes on to idle_event.clear().                        *)
ReaderSends ==
    /\ Trio /\ Alive /\ LoopFree
    /\ reader.pc = "send" /\ Room
    /\ Put(Head(reader.direct))
    /\ LET rest == Tail(reader.direct)
       IN IF rest # <<>>
          THEN reader' = [reader EXCEPT !.direct = rest] /\ UNCHANGED <<lock, state>>
          ELSE /\ lock' = Released("writer")
               /\ reader' = [pc |-> IF reader.chunk = <<>> THEN "recv" ELSE "exit",
                             chunk |-> <<>>, direct |-> <<>>, held |-> NoFrame]
               /\ state' = IF reader.chunk = <<>> THEN state ELSE "failed"
    /\ UNCHANGED <<peer, made, subscribed, queue, paused, writer>>

(* The send fails: the read task returns, and the nursery now waits for    *)
(* the writer.                                                             *)
ReaderBroken ==
    /\ Trio /\ Alive /\ LoopFree
    /\ reader.pc = "send" /\ Gone
    /\ lock' = Released("writer")
    /\ reader' = [pc |-> "exit", chunk |-> <<>>, direct |-> <<>>, held |-> NoFrame]
    /\ UNCHANGED <<peer, socket, made, subscribed, state, queue, paused, writer>>

WriterLocks ==
    /\ Trio /\ Alive /\ LoopFree
    /\ writer.pc = "acquire" /\ lock \in {"free", "writer"}
    /\ lock' = "writer" /\ writer' = [writer EXCEPT !.pc = "send"]
    /\ UNCHANGED <<peer, socket, made, subscribed, state, reader, queue, paused>>

(* The frame goes out, the lock goes to the read task if it waits, and the *)
(* next frame is taken, or the end of a closed channel met.                *)
WriterSends ==
    /\ Trio /\ Alive /\ LoopFree
    /\ writer.pc = "send" /\ Room
    /\ Put(writer.item)
    /\ IF queue # <<>>
       THEN /\ writer' = [pc |-> IF Waiting("reader") THEN "acquire" ELSE "send",
                          item |-> Head(queue)]
            /\ lock' = IF Waiting("reader") THEN "reader" ELSE "writer"
            /\ queue' = Tail(queue)
       ELSE /\ writer' = [pc |-> IF state = "closing" THEN "done" ELSE "wait", item |-> NoFrame]
            /\ lock' = Released("reader")
            /\ UNCHANGED queue
    /\ UNCHANGED <<peer, made, subscribed, state, reader, paused>>

(* Mutant: the end of a closed channel goes unnoticed. *)
WriterEndsBroken ==
    /\ Trio /\ Alive /\ LoopFree
    /\ writer.pc = "send" /\ Gone
    /\ writer' = [pc |-> "done", item |-> NoFrame]
    /\ lock' = IF lock = "writer" THEN Released("reader") ELSE lock
    /\ UNCHANGED <<peer, socket, made, subscribed, state, reader, queue, paused>>

(* The closed channel is empty, or the send fails. *)
WriterEnds ==
    /\ Trio /\ Alive /\ LoopFree
    /\ \/ writer.pc = "wait" /\ state = "closing"
       \/ writer.pc = "send" /\ Gone
    /\ writer' = [pc |-> "done", item |-> NoFrame]
    /\ lock' = IF lock = "writer" THEN Released("reader") ELSE lock
    /\ UNCHANGED <<peer, socket, made, subscribed, state, reader, queue, paused>>

(* The nursery ends when both tasks have; the line for a protocol error is *)
(* sent after that.                                                        *)
NurseryEnds ==
    /\ Trio /\ Alive /\ reader.pc = "exit" /\ writer.pc = "done"
    /\ IF state = "closing"
       THEN /\ state' = "farewell" /\ subscribed' = FALSE
            /\ UNCHANGED <<peer, socket, made, reader, queue, paused, tasks>>
       ELSE Finish

Farewell ==
    /\ state = "farewell"
    /\ state' = "done" /\ made' = made + 1
    /\ IF Gone THEN UNCHANGED socket ELSE Room /\ Put(Frame("reply"))
    /\ UNCHANGED <<peer, subscribed, reader, queue, paused, tasks>>

(* Cancelled or failed: both tasks end at their next checkpoint. *)
Unwind == Trio /\ LoopFree /\ state \in {"cancelled", "failed"} /\ Finish

-----------------------------------------------------------------------------
(* Both backends *)

Malformed(chunk) == \E i \in DOMAIN chunk : chunk[i] = "malformed"

(* feed() raises before a request of the chunk is dispatched. *)
ProtocolError ==
    /\ state' = "closing"
    /\ IF Asyncio
       THEN /\ made' = made + 1 /\ Write(Frame("reply"))
            /\ paused' = (paused \/ Len(queue') > HighWater)
            /\ UNCHANGED reader
       ELSE /\ reader' = [reader EXCEPT !.pc = "exit"]
            /\ UNCHANGED <<made, socket, queue, paused>>
    /\ UNCHANGED <<subscribed, tasks>>

(* A chunk arrives, of what the client sent even if it has left by now:    *)
(* data_received, or receive_some.                                         *)
Receive(chunk) ==
    /\ Open /\ reader.pc = "recv" /\ ~paused
    /\ Len(chunk) <= client.left
    /\ client' = [client EXCEPT !.left = @ - Len(chunk)]
    /\ IF Malformed(chunk) THEN ProtocolError
       ELSE /\ reader' = [reader EXCEPT !.pc = "run", !.chunk = chunk]
            /\ UNCHANGED <<socket, made, subscribed, state, queue, paused, tasks>>
    /\ UNCHANGED engine

(* The peer closed: asyncio closes the transport, trio's read task returns *)
(* into the nursery.                                                       *)
EndOfFile ==
    /\ Open /\ reader.pc = "recv" /\ ~paused
    /\ ~client.open
    /\ IF Asyncio THEN state' = "closing" /\ UNCHANGED reader
       ELSE reader' = [reader EXCEPT !.pc = "exit"] /\ UNCHANGED state
    /\ UNCHANGED <<peer, socket, made, subscribed, queue, paused, tasks>>

(* dispatch: a command answers, the subscribe family pushes.  The gate     *)
(* refuses a command in subscribed mode, with a reply all the same.        *)
Dispatch ==
    /\ reader.pc = "run" /\ reader.chunk # <<>>
    /\ made' = made + 1
    /\ LET r == Head(reader.chunk)
           next == reader' = [reader EXCEPT !.chunk = Tail(@)]
       IN IF r = "command"
          THEN /\ \/ Asyncio /\ Write(Frame("reply")) /\ next /\ UNCHANGED <<state, tasks>>
                  \/ TrioReply(Frame("reply"))
               /\ UNCHANGED subscribed
          ELSE /\ subscribed' = (r = "subscribe")
               /\ AsyncioPush(Frame("push")) \/ TrioPush(Frame("push"))
               /\ next
    /\ UNCHANGED <<peer, paused>>

ChunkDone ==
    /\ reader.pc = "run" /\ reader.chunk = <<>>
    /\ \/ Asyncio /\ AsyncioChunkDone
       \/ Trio /\ TrioChunkDone

(* Another connection publishes to a subscriber.  A closed push channel    *)
(* refuses the frame: PUBLISH answers an error to the publisher.           *)
Publish ==
    /\ subscribed /\ LoopFree /\ made < MaxFrames
    /\ IF Trio /\ state = "closing"
       THEN UNCHANGED <<made, socket, state, queue, tasks>>
       ELSE made' = made + 1 /\ (AsyncioPush(Frame("push")) \/ TrioPush(Frame("push")))
    /\ UNCHANGED <<peer, subscribed, reader, paused>>

-----------------------------------------------------------------------------
Chunks == UNION {[1 .. n -> Request] : n \in 1 .. MaxChunk}

Client ==
    \/ ClientRead \/ ClientStalls \/ ClientCloses \/ ClientResets
    \/ \E chunk \in Chunks : Receive(chunk)
Chunk == EndOfFile \/ Dispatch \/ ChunkDone

Reading == ReaderLocks \/ ReaderSends \/ ReaderBroken
Writing == WriterLocks \/ WriterSends \/ WriterEnds
Ending == NurseryEnds \/ Farewell \/ Unwind \/ Lost

Next == Client \/ Publish \/ Chunk \/ Poll \/ Drain \/ Reading \/ Writing \/ Ending

(* The loop runs every task that can run, the poll timer fires, and a      *)
(* client reads until it stalls.                                           *)
Fairness ==
    /\ WF_vars(Chunk) /\ WF_vars(Poll) /\ WF_vars(Drain)
    /\ WF_vars(Reading) /\ WF_vars(Writing) /\ WF_vars(Ending)
    /\ WF_vars(ClientRead)

Spec == Init /\ [][Next]_vars /\ Fairness

-----------------------------------------------------------------------------
FrameType == [n: Nat, kind: {"reply", "push", "none"}]

(* The connection's tasks, buffers and socket are well formed. *)
TypeOK ==
    /\ engine \in {"asyncio", "trio"}
    /\ client \in [open: BOOLEAN, reset: BOOLEAN, reads: BOOLEAN, left: 0 .. MaxRequests]
    /\ wrote \in [count: Nat, reply: Nat, push: Nat] /\ unread \in 0 .. Window /\ made \in Nat
    /\ subscribed \in BOOLEAN /\ paused \in BOOLEAN
    /\ state \in {"open", "closing", "cancelled", "failed", "farewell", "done"}
    /\ reader \in [pc: {"recv", "run", "acquire", "send", "exit"},
                   chunk: Seq(Request), direct: Seq(FrameType), held: FrameType]
    /\ queue \in Seq(FrameType)
    /\ writer \in [pc: {"wait", "acquire", "send", "done"}, item: FrameType]
    /\ lock \in {"free", "reader", "writer"}

(* A push, or a reply, goes out. *)
PushSent == wrote'.push # wrote.push
ReplySent == wrote'.reply # wrote.reply

(* The order of the frames on the socket is the order of their production, *)
(* whoever wrote them, but for one case: on trio a reply can go out before *)
(* a push that was queued earlier, since idle_event does not hold it back  *)
(* (an UNSUBSCRIBE and a GET in one chunk), although a reply should        *)
(* "never overtake an earlier push on the wire" (server_trio.py:60).       *)
(* Replies stay in order, pushes stay in order, and no push overtakes a    *)
(* reply, also when direct replies and the writer contend for the lock.    *)
FramesInOrder ==
    [][/\ ReplySent => wrote'.reply > wrote.reply /\ wrote'.reply > wrote.push
       /\ PushSent => wrote'.push > wrote.push
       /\ PushSent /\ Asyncio => wrote'.push > wrote.reply]_vars

Pending ==
    {queue[i].n : i \in DOMAIN queue} \cup {reader.direct[i].n : i \in DOMAIN reader.direct}
    \cup ({writer.item.n, reader.held.n} \ {0})

(* While a connection is open, every frame produced for it is on the       *)
(* socket or waits in exactly one place: a slow client, a full socket, a   *)
(* flush in the middle of a chunk and the hand-over between channel,       *)
(* writer and lock lose and duplicate none.                                *)
NothingLost ==
    (Open /\ client.open) =>
        /\ wrote.count + Cardinality(Pending) = made
        /\ \A n \in Pending : n <= made /\ n \notin {wrote.reply, wrote.push}

(* Backpressure: "Without this a client that stops reading would make the  *)
(* server buffer every later reply without bound".  Replies waiting in the *)
(* transport stay below the high-water mark plus one chunk, pushes or not. *)
BacklogBounded ==
    Asyncio => Cardinality({i \in DOMAIN queue : queue[i].kind = "reply"}) <= HighWater + MaxChunk

(* A frame produced for a client that reads reaches it, unless its         *)
(* connection ends: no pause, lock or channel holds it back for good.      *)
FramesArrive ==
    (wrote.count < made) ~> (wrote.count = made \/ state = "done" \/ ~client.reads \/ ~client.open)

(* A paused connection is read again, or ends, once its client reads.      *)
PausesEnd == paused ~> (~paused \/ ~client.reads)

(* Nothing waits for good while a client reads: no frame for its turn on   *)
(* the socket, no paused connection for its poll.                          *)
WaitsEnd == FramesArrive /\ PausesEnd

(* A connection that is being closed ends and leaves the hub, so that no   *)
(* publisher meets its closed channel for good: at once when the push      *)
(* channel of trio overflowed or the handler failed, else when its client  *)
(* has read what was written before.  A client that stays and never reads  *)
(* is held aside: its connection stays.                                    *)
ClosingEnds ==
    /\ (state \in {"cancelled", "failed"}) ~> (state = "done")
    /\ (state = "closing") ~> (~subscribed \/ (client.open /\ ~client.reads))

(* A client that went away leaves the hub: on asyncio always, on trio when *)
(* the writer has a frame whose sending fails.  The first frame sent over  *)
(* TCP after the client's end is closed does not fail.                     *)
GoneClientsForgotten ==
    /\ (Asyncio /\ ~client.open) ~> (state = "done")
    /\ (Trio /\ Gone /\ writer.pc \in {"acquire", "send"}) ~> (state = "done")

(* Connections come to their end, whether the server closes them or the    *)
(* client leaves.                                                          *)
ConnectionsEnd == ClosingEnds /\ GoneClientsForgotten

(* A closed connection ends: "a disconnected session disappears from the   *)
(* hub" (tests/test_pubsub.py), "a quiet exit" (server_trio.py:156).       *)
ClosedConnectionsEnd == ~client.open ~> (state = "done")
=============================================================================
