-------------------------- MODULE ConnectionProofs --------------------------
(***************************************************************************)
(* Proofs about a connection on either backend, for every size of window,  *)
(* marks, channel and chunk: its types, the order of the frames on the     *)
(* wire (FramesInOrder), that none is lost or duplicated (NothingLost) and *)
(* backpressure (BacklogBounded).                                          *)
(*                                                                         *)
(* The invariants, each preserved with the help of those before it:        *)
(*   Sound         the types, and the shape of each backend's tasks: who   *)
(*                 may hold send_lock, who waits, what each task holds;    *)
(*   Order         the frames that wait in each place are sorted, younger  *)
(*                 than those of their kind on the socket, and in one      *)
(*                 place only; what the writer holds while it has the lock *)
(*                 is older than the replies that wait for the lock;       *)
(*   HeldMidChunk  a reply is held only while its request is in the chunk; *)
(*   Counted       what is on the socket and what waits add up;            *)
(*   Backlog       the replies waiting on asyncio, together with the       *)
(*                 requests that are still to be answered.                 *)
(***************************************************************************)
EXTENDS Connection, FiniteSetTheorems, TLAPS

USE ConnectionAssumption

-----------------------------------------------------------------------------
(* Types, and what each task holds. *)

ClientType == [open: BOOLEAN, reset: BOOLEAN, reads: BOOLEAN, left: 0 .. MaxRequests]
WroteType == [count: Nat, reply: Nat, push: Nat]
States == {"open", "closing", "cancelled", "failed", "farewell", "done"}
ReaderType == [pc: {"recv", "run", "acquire", "send", "exit"},
               chunk: Seq(Request), direct: Seq(FrameType), held: FrameType]
WriterType == [pc: {"wait", "acquire", "send", "done"}, item: FrameType]

(* TypeOK with its records named. *)
Typed ==
    /\ engine \in {"asyncio", "trio"}
    /\ client \in ClientType
    /\ wrote \in WroteType
    /\ unread \in 0 .. Window
    /\ made \in Nat
    /\ subscribed \in BOOLEAN
    /\ paused \in BOOLEAN
    /\ state \in States
    /\ reader \in ReaderType
    /\ queue \in Seq(FrameType)
    /\ writer \in WriterType
    /\ lock \in {"free", "reader", "writer"}

LEMMA TypedIsTypeOK == TypeOK <=> Typed
BY DEF TypeOK, Typed, ClientType, WroteType, States, ReaderType, WriterType

AsyncioShape ==
    Asyncio =>
      /\ state \in {"open", "closing", "done"}
      /\ reader.pc \in {"recv", "run", "exit"}
      /\ reader.direct = <<>> /\ reader.held = NoFrame
      /\ writer.pc \in {"wait", "done"}
      /\ lock = "free"

(* While trio's tasks run, send_lock is held by the task that sends, or    *)
(* handed to one that waits for it; direct replies exist only while a      *)
(* chunk is worked through and sent; the writer waits at an empty channel. *)
TrioShape ==
    (Trio /\ Alive) =>
      /\ reader.pc = "send" => lock = "reader"
      /\ reader.pc = "acquire" => lock \in {"reader", "writer"}
      /\ lock = "reader" => reader.pc \in {"acquire", "send"}
      /\ writer.pc = "send" => lock = "writer"
      /\ lock = "writer" => writer.pc \in {"acquire", "send"}
      /\ reader.pc \in {"recv", "exit"} => reader.direct = <<>>
      /\ reader.pc \in {"acquire", "send"} => reader.direct # <<>>
      /\ writer.pc = "wait" => queue = <<>>
      /\ reader.pc = "run" => state = "open"

Shape ==
    /\ AsyncioShape /\ TrioShape
    /\ writer.pc \in {"wait", "done"} <=> writer.item = NoFrame
    /\ reader.pc \notin {"acquire", "send"} => reader.held = NoFrame

Sound == Typed /\ Shape

LEMMA FrameTypes ==
    ASSUME made \in Nat
    PROVE  /\ NoFrame \in FrameType /\ NoFrame.n = 0
           /\ \A kind \in {"reply", "push"} :
                 /\ Frame(kind) \in FrameType
                 /\ Frame(kind).n = made + 1 /\ Frame(kind).kind = kind
                 /\ Frame(kind) # NoFrame
           /\ \A f \in FrameType : f.n \in Nat /\ f.kind \in {"reply", "push", "none"}
BY DEF NoFrame, Frame, FrameType

LEMMA HeadTail ==
    ASSUME NEW S, NEW q \in Seq(S), q # <<>>
    PROVE  Head(q) \in S /\ Tail(q) \in Seq(S) /\ Len(q) >= 1
OBVIOUS

(* What is put on the socket fits its types, and is the last of its kind.  *)
LEMMA PutWrote ==
    ASSUME wrote \in WroteType, NEW f \in FrameType, f.kind # "none", Put(f)
    PROVE  /\ wrote' \in WroteType
           /\ wrote'.count = wrote.count + 1
           /\ f.kind = "reply" => wrote'.reply = f.n /\ wrote'.push = wrote.push
           /\ f.kind = "push" => wrote'.push = f.n /\ wrote'.reply = wrote.reply
<1> DEFINE w == [wrote EXCEPT !.count = @ + 1]
<1>1. f.n \in Nat /\ f.kind \in {"reply", "push"}
  BY DEF FrameType
<1>2. /\ w \in WroteType /\ w.count = wrote.count + 1
      /\ w.reply = wrote.reply /\ w.push = wrote.push
  BY DEF WroteType
<1>3. wrote' = [w EXCEPT ![f.kind] = f.n]
  BY DEF Put
<1> HIDE DEF w
<1>4. CASE f.kind = "reply"
  <2>1. wrote' = [w EXCEPT !.reply = f.n]
    BY <1>3, <1>4
  <2> QED BY <1>1, <1>2, <1>4, <2>1 DEF WroteType
<1>5. CASE f.kind = "push"
  <2>1. wrote' = [w EXCEPT !.push = f.n]
    BY <1>3, <1>5
  <2> QED BY <1>1, <1>2, <1>5, <2>1 DEF WroteType
<1> QED BY <1>1, <1>4, <1>5

LEMMA PutUnread ==
    ASSUME unread \in 0 .. Window, Room, NEW f, Put(f)
    PROVE  unread' \in 0 .. Window
BY DEF Put, Room

(* What transport.write does to the buffer and the socket. *)
LEMMA WriteType ==
    ASSUME Typed, NEW f \in FrameType, f.kind # "none", Write(f)
    PROVE  wrote' \in WroteType /\ unread' \in 0 .. Window /\ queue' \in Seq(FrameType)
<1>1. CASE Room /\ Put(f) /\ UNCHANGED queue
  BY <1>1, PutWrote, PutUnread DEF Typed
<1>2. CASE UNCHANGED <<socket, queue>> \/ (queue' = Append(queue, f) /\ UNCHANGED socket)
  BY <1>2 DEF Typed, socket
<1> QED BY <1>1, <1>2 DEF Write

LEMMA InitSound == Init => Sound
<1> SUFFICES ASSUME Init PROVE Sound
  OBVIOUS
<1>1. NoFrame \in FrameType
  BY DEF NoFrame, FrameType
<1>2. client \in ClientType /\ wrote \in WroteType
  BY DEF Init, ClientType, WroteType
<1>3. writer \in WriterType
  BY <1>1 DEF Init, WriterType
<1>4. reader \in ReaderType
  BY <1>1 DEF Init, ReaderType
<1>0. queue \in Seq(FrameType)
  BY DEF Init
<1>a. /\ engine \in {"asyncio", "trio"} /\ unread = 0 /\ made = 0 /\ subscribed = FALSE
      /\ state = "open" /\ paused = FALSE /\ lock = "free"
  BY DEF Init
<1>b. unread \in 0 .. Window /\ made \in Nat
  BY <1>a
<1>c. subscribed \in BOOLEAN /\ paused \in BOOLEAN
  BY <1>a
<1>5. Typed
  BY <1>0, <1>a, <1>b, <1>c, <1>2, <1>3, <1>4 DEF Typed, States
<1>6. Shape
  BY DEF Init, Shape, AsyncioShape, TrioShape, Asyncio, Trio
<1> QED BY <1>5, <1>6 DEF Sound

LEMMA FinishSound ==
    ASSUME Sound, Finish
    PROVE  Sound'
<1>1. NoFrame \in FrameType
  BY FrameTypes DEF Sound, Typed
<1>2. writer' \in WriterType
  BY <1>1 DEF Finish, WriterType
<1>3. reader' \in ReaderType
  BY <1>1 DEF Finish, ReaderType
<1>0. queue' \in Seq(FrameType)
  BY DEF Finish
<1>4. Typed'
  BY <1>0, <1>2, <1>3 DEF Finish, Sound, Typed, States, peer, socket
<1>5. Shape'
  BY DEF Finish, Shape, AsyncioShape, TrioShape, Asyncio, Trio, Alive
<1> QED BY <1>4, <1>5 DEF Sound

-----------------------------------------------------------------------------
(* Every step keeps the connection sound. *)

LEMMA ClientSound ==
    ASSUME Sound, ClientRead \/ ClientStalls \/ ClientCloses \/ ClientResets
    PROVE  Sound'
<1>1. UNCHANGED <<engine, wrote, made, subscribed, paused, reader, writer, lock, state, queue>>
  BY DEF ClientRead, ClientStalls, ClientCloses, ClientResets, peer, socket, server, tasks
<1>2. client' \in ClientType
  BY DEF ClientRead, ClientStalls, ClientCloses, ClientResets, peer, Sound, Typed, ClientType
<1>3. unread' \in 0 .. Window
  <2>0. unread \in 0 .. Window /\ Window \in Nat
    BY ConnectionAssumption DEF Sound, Typed
  <2>1. CASE ClientRead
    <3>1. unread > 0 /\ unread' = unread - 1
      BY <2>1 DEF ClientRead
    <3> QED BY <2>0, <3>1
  <2>2. CASE ClientStalls \/ ClientResets
    <3>1. unread' = unread
      BY <2>2 DEF ClientStalls, ClientResets, socket
    <3> QED BY <2>0, <3>1
  <2>3. CASE ClientCloses
    <3>1. unread' = 0
      BY <2>3 DEF ClientCloses
    <3> QED BY <2>0, <3>1
  <2> QED BY <2>1, <2>2, <2>3
<1>4. Typed'
  BY <1>1, <1>2, <1>3 DEF Sound, Typed
<1>5. Shape'
  BY <1>1 DEF Sound, Shape, AsyncioShape, TrioShape, Asyncio, Trio, Alive
<1> QED BY <1>4, <1>5 DEF Sound

LEMMA ReceiveSound ==
    ASSUME Sound, NEW chunk \in Chunks, Receive(chunk)
    PROVE  Sound'
<1> USE DEF Sound
<1>1. chunk \in Seq(Request) /\ Len(chunk) \in Nat
  BY DEF Chunks
<1>2. Frame("reply") \in FrameType /\ Frame("reply").kind # "none"
  BY FrameTypes DEF Typed
<1>3. client' \in ClientType
  <2>1. client' = [client EXCEPT !.left = client.left - Len(chunk)] /\ Len(chunk) <= client.left
    BY DEF Receive
  <2>2. client \in ClientType /\ client.left \in 0 .. MaxRequests
    BY DEF Typed, ClientType
  <2>3. client.left - Len(chunk) \in 0 .. MaxRequests
    BY <1>1, <2>1, <2>2
  <2> QED BY <2>1, <2>2, <2>3 DEF ClientType
<1>4. engine' = engine /\ Open /\ reader.pc = "recv"
  BY DEF Receive
<1>5. CASE ~Malformed(chunk)
  <2>1. /\ reader' = [reader EXCEPT !.pc = "run", !.chunk = chunk]
        /\ UNCHANGED <<wrote, unread, made, subscribed, state, queue, paused, writer, lock>>
    BY <1>5 DEF Receive, socket, tasks
  <2>2. reader' = [pc |-> "run", chunk |-> chunk, direct |-> reader.direct, held |-> reader.held]
    BY <2>1 DEF Typed, ReaderType
  <2>3. /\ reader' \in ReaderType
        /\ reader'.pc = "run" /\ reader'.direct = reader.direct /\ reader'.held = reader.held
    BY <1>1, <2>2 DEF Typed, ReaderType
  <2>4. Typed'
    BY <1>3, <1>4, <2>1, <2>3 DEF Typed
  <2>5. Shape'
    BY <1>4, <2>1, <2>3 DEF Shape, AsyncioShape, TrioShape, Asyncio, Trio, Alive, Open
  <2> QED BY <2>4, <2>5
<1>6. CASE Malformed(chunk) /\ Asyncio
  <2>1. /\ Write(Frame("reply")) /\ made' = made + 1 /\ state' = "closing"
        /\ paused' = (paused \/ Len(queue') > HighWater)
        /\ UNCHANGED <<reader, subscribed, writer, lock>>
    BY <1>6 DEF Receive, ProtocolError, tasks
  <2>2. Typed'
    BY <1>2, <1>3, <1>4, <2>1, WriteType DEF Typed, States
  <2>3. Shape'
    BY <1>4, <1>6, <2>1 DEF Shape, AsyncioShape, TrioShape, Asyncio, Trio
  <2> QED BY <2>2, <2>3
<1>7. CASE Malformed(chunk) /\ ~Asyncio
  <2>1. /\ reader' = [reader EXCEPT !.pc = "exit"] /\ state' = "closing"
        /\ UNCHANGED <<wrote, unread, made, subscribed, queue, paused, writer, lock>>
    BY <1>7 DEF Receive, ProtocolError, socket, tasks
  <2>2. /\ reader' \in ReaderType
        /\ reader'.pc = "exit" /\ reader'.direct = reader.direct /\ reader'.held = reader.held
    BY <2>1 DEF Typed, ReaderType
  <2>3. Typed'
    BY <1>3, <1>4, <2>1, <2>2 DEF Typed, States
  <2>4. Shape'
    BY <1>4, <1>7, <2>1, <2>2 DEF Shape, AsyncioShape, TrioShape, Asyncio, Trio, Alive, Open
  <2> QED BY <2>3, <2>4
<1> QED BY <1>5, <1>6, <1>7

(* A frame pushed through the session's sender. *)
LEMMA PushSound ==
    ASSUME Sound, NEW f \in FrameType, f.kind = "push", UNCHANGED <<client, paused>>,
           engine' = engine, subscribed' \in BOOLEAN, made' \in Nat, reader' \in ReaderType,
           reader'.direct = reader.direct, reader'.held = reader.held, reader'.pc = reader.pc,
           AsyncioPush(f) \/ TrioPush(f)
    PROVE  Sound'
<1> USE DEF Sound
<1>1. f # NoFrame /\ f.kind # "none"
  BY DEF NoFrame
<1>2. CASE AsyncioPush(f)
  <2>1. /\ Asyncio /\ Write(f) /\ UNCHANGED <<writer, lock>>
        /\ state' = IF Len(queue') > PubSubLimit THEN "closing" ELSE state
    BY <1>2 DEF AsyncioPush, tasks
  <2>2. Typed'
    BY <1>1, <2>1, WriteType DEF Typed, States
  <2>3. Shape'
    BY <2>1 DEF Shape, AsyncioShape, TrioShape, Asyncio, Trio
  <2> QED BY <2>2, <2>3
<1>3. CASE TrioPush(f)
  <2>1. Trio /\ UNCHANGED <<wrote, unread, lock>> /\ state' \in {state, "cancelled"}
        /\ (~Open => state' = state)
    BY <1>3 DEF TrioPush, socket
  <2>2. queue' \in {queue, Append(queue, f)} /\ queue' \in Seq(FrameType)
    BY <1>3 DEF TrioPush, Typed
  <2>3. CASE writer.pc = "wait" /\ Open
    <3>1. writer' = [pc |-> "acquire", item |-> f] /\ UNCHANGED <<queue, state>>
      BY <1>3, <2>3 DEF TrioPush
    <3>2. writer' \in WriterType /\ writer'.pc = "acquire" /\ writer'.item = f
      BY <3>1 DEF WriterType
    <3>3. Typed'
      BY <2>1, <2>2, <3>1, <3>2 DEF Typed, States
    <3>4. Shape'
      BY <1>1, <2>1, <2>3, <3>1, <3>2 DEF Shape, AsyncioShape, TrioShape, Asyncio, Trio, Alive, Open
    <3> QED BY <3>3, <3>4
  <2>4. CASE ~(writer.pc = "wait" /\ Open)
    <3>1. writer' = writer /\ (state' = state => (Open \/ queue' = queue))
      BY <1>3, <2>4 DEF TrioPush
    <3>2. Typed'
      BY <2>1, <2>2, <3>1 DEF Typed, States
    <3>3. Shape'
      BY <2>1, <2>2, <2>4, <3>1 DEF Shape, AsyncioShape, TrioShape, Asyncio, Trio, Alive, Open
    <3> QED BY <3>2, <3>3
  <2> QED BY <2>3, <2>4
<1> QED BY <1>2, <1>3

LEMMA PublishSound ==
    ASSUME Sound, Publish
    PROVE  Sound'
<1> USE DEF Sound
<1>1. UNCHANGED <<engine, client, subscribed, reader, paused>>
  BY DEF Publish, peer
<1>2. CASE Trio /\ state = "closing"
  <2>1. UNCHANGED <<made, wrote, unread, state, queue, writer, lock>>
    BY <1>2 DEF Publish, socket, tasks
  <2>2. Typed'
    BY <1>1, <2>1 DEF Typed
  <2>3. Shape'
    BY <1>1, <2>1 DEF Shape, AsyncioShape, TrioShape, Asyncio, Trio, Alive
  <2> QED BY <2>2, <2>3
<1>3. CASE ~(Trio /\ state = "closing")
  <2>1. made' = made + 1 /\ (AsyncioPush(Frame("push")) \/ TrioPush(Frame("push")))
    BY <1>3 DEF Publish
  <2>2. made' \in Nat /\ Frame("push") \in FrameType /\ Frame("push").kind = "push"
        /\ reader' \in ReaderType /\ subscribed' \in BOOLEAN
    BY <1>1, <2>1, FrameTypes DEF Typed
  <2> QED BY <1>1, <2>1, <2>2, PushSound
<1> QED BY <1>2, <1>3

(* The reader's record, field by field. *)
LEMMA ReaderRecord ==
    ASSUME reader \in ReaderType
    PROVE  /\ reader.pc \in {"recv", "run", "acquire", "send", "exit"}
           /\ reader.chunk \in Seq(Request)
           /\ reader.direct \in Seq(FrameType)
           /\ reader.held \in FrameType
           /\ reader = [pc |-> reader.pc, chunk |-> reader.chunk, direct |-> reader.direct,
                        held |-> reader.held]
BY DEF ReaderType

LEMMA NewReader ==
    ASSUME NEW p \in {"recv", "run", "acquire", "send", "exit"}, NEW c \in Seq(Request),
           NEW q \in Seq(FrameType), NEW h \in FrameType,
           reader' = [pc |-> p, chunk |-> c, direct |-> q, held |-> h]
    PROVE  /\ reader' \in ReaderType
           /\ reader'.pc = p /\ reader'.chunk = c /\ reader'.direct = q /\ reader'.held = h
BY DEF ReaderType

LEMMA WriterRecord ==
    ASSUME writer \in WriterType
    PROVE  writer.pc \in {"wait", "acquire", "send", "done"} /\ writer.item \in FrameType
BY DEF WriterType

LEMMA NewWriter ==
    ASSUME NEW p \in {"wait", "acquire", "send", "done"}, NEW f \in FrameType,
           writer' = [pc |-> p, item |-> f]
    PROVE  writer' \in WriterType /\ writer'.pc = p /\ writer'.item = f
BY DEF WriterType

(* The reader starts to send what it gathered, or waits for the lock. *)
LEMMA DirectSendSound ==
    ASSUME Sound, Trio, NEW held \in FrameType, NEW chunk \in Seq(Request),
           reader.pc = "run", reader.direct # <<>>,
           DirectSend(chunk, reader.direct, held), made' \in Nat,
           UNCHANGED <<engine, client, wrote, unread, subscribed, state, queue, paused, writer>>
    PROVE  Sound'
<1> USE DEF Sound
<1>1. reader.direct \in Seq(FrameType)
  BY ReaderRecord DEF Typed
<1>2. PICK p \in {"send", "acquire"} :
        /\ p = "send" <=> lock = "free"
        /\ reader' = [pc |-> p, chunk |-> chunk, direct |-> reader.direct, held |-> held]
        /\ lock' = IF p = "send" THEN "reader" ELSE lock
  BY DEF DirectSend, IdleEvent
<1>3. /\ reader' \in ReaderType /\ reader'.pc = p
      /\ reader'.direct = reader.direct /\ reader'.held = held
  BY <1>1, <1>2, NewReader
<1>4. Typed'
  BY <1>2, <1>3 DEF Typed
<1>5. Shape'
  BY <1>2, <1>3 DEF Shape, AsyncioShape, TrioShape, Asyncio, Trio, Alive, Typed
<1> QED BY <1>4, <1>5

LEMMA DispatchSound ==
    ASSUME Sound, Dispatch
    PROVE  Sound'
<1> USE DEF Sound
<1> DEFINE r == Head(reader.chunk)
           rest == Tail(reader.chunk)
<1>0. reader.chunk \in Seq(Request) /\ reader.chunk # <<>> /\ reader.pc = "run"
      /\ reader.direct \in Seq(FrameType) /\ reader.held \in FrameType
  BY ReaderRecord DEF Dispatch, Typed
<1>1. rest \in Seq(Request)
  BY <1>0, HeadTail
<1>2. /\ UNCHANGED <<engine, client, paused>> /\ made' = made + 1 /\ made' \in Nat
  BY DEF Dispatch, peer, Typed
<1>3. \A kind \in {"reply", "push"} : Frame(kind) \in FrameType /\ Frame(kind).kind = kind
  BY FrameTypes DEF Typed
<1>4. ASSUME reader' = [reader EXCEPT !.chunk = Tail(@)]
      PROVE  /\ reader' \in ReaderType /\ reader'.pc = "run" /\ reader'.chunk = rest
             /\ reader'.direct = reader.direct /\ reader'.held = reader.held
  <2>1. reader' = [pc |-> "run", chunk |-> rest, direct |-> reader.direct, held |-> reader.held]
    BY <1>0, <1>4, ReaderRecord DEF Typed, ReaderType
  <2> QED BY <1>0, <1>1, <2>1, NewReader
<1>5. CASE r = "command" /\ Asyncio
  <2>1. /\ Write(Frame("reply")) /\ reader' = [reader EXCEPT !.chunk = Tail(@)]
        /\ UNCHANGED <<subscribed, state, writer, lock>>
    BY <1>5 DEF Dispatch, TrioReply, Trio, Asyncio, tasks
  <2>2. Typed'
    BY <1>2, <1>3, <1>4, <2>1, WriteType DEF Typed
  <2>3. Shape'
    BY <1>0, <1>2, <1>4, <1>5, <2>1 DEF Shape, AsyncioShape, TrioShape, Asyncio, Trio
  <2> QED BY <2>2, <2>3
<1>6. CASE r = "command" /\ ~Asyncio
  <2>1. /\ TrioReply(Frame("reply")) /\ UNCHANGED subscribed
    BY <1>6 DEF Dispatch
  <2>2. Trio /\ UNCHANGED <<wrote, unread, queue, writer>>
    BY <2>1 DEF TrioReply, socket
  <2>3. CASE ~subscribed
    <3>1. /\ reader' = [reader EXCEPT !.chunk = Tail(@), !.direct = Append(@, Frame("reply"))]
          /\ UNCHANGED <<lock, state>>
      BY <2>1, <2>3 DEF TrioReply
    <3>2. reader' = [pc |-> "run", chunk |-> rest,
                     direct |-> Append(reader.direct, Frame("reply")), held |-> reader.held]
      BY <1>0, <3>1, ReaderRecord DEF Typed, ReaderType
    <3>3. Append(reader.direct, Frame("reply")) \in Seq(FrameType)
      BY <1>0, <1>3
    <3>4. /\ reader' \in ReaderType /\ reader'.pc = "run" /\ reader'.held = reader.held
      BY <1>0, <1>1, <3>2, <3>3, NewReader
    <3>5. Typed'
      BY <1>2, <2>1, <2>2, <3>1, <3>4 DEF Typed
    <3>6. Shape'
      BY <1>0, <1>2, <2>2, <3>1, <3>4 DEF Shape, AsyncioShape, TrioShape, Asyncio, Trio, Alive
    <3> QED BY <3>5, <3>6
  <2>4. CASE subscribed /\ reader.direct # <<>> /\ Open
    <3>1. DirectSend(reader.chunk, reader.direct, Frame("reply")) /\ UNCHANGED state
      BY <2>1, <2>4 DEF TrioReply
    <3> QED BY <1>0, <1>2, <1>3, <2>1, <2>2, <2>4, <3>1, DirectSendSound
  <2>5. CASE subscribed /\ ~(reader.direct # <<>> /\ Open)
    <3>1. /\ reader' = [reader EXCEPT !.pc = "exit", !.chunk = <<>>]
          /\ state' = (IF Open THEN "failed" ELSE state) /\ UNCHANGED lock
      BY <2>1, <2>5 DEF TrioReply
    <3>2. reader' = [pc |-> "exit", chunk |-> <<>>, direct |-> reader.direct, held |-> reader.held]
      BY <1>0, <3>1, ReaderRecord DEF Typed, ReaderType
    <3>3. <<>> \in Seq(Request)
      OBVIOUS
    <3>4. reader' \in ReaderType /\ reader'.pc = "exit" /\ reader'.held = reader.held
          /\ reader'.direct = reader.direct
      BY <1>0, <3>2, <3>3, NewReader
    <3>5. Typed'
      BY <1>2, <2>1, <2>2, <3>1, <3>4 DEF Typed, States
    <3>6. Shape'
      BY <1>0, <1>2, <2>2, <3>1, <3>4 DEF Shape, AsyncioShape, TrioShape, Asyncio, Trio, Alive, Open
    <3> QED BY <3>5, <3>6
  <2> QED BY <2>3, <2>4, <2>5
<1>7. CASE r # "command"
  <2>1. /\ subscribed' = (r = "subscribe")
        /\ AsyncioPush(Frame("push")) \/ TrioPush(Frame("push"))
        /\ reader' = [reader EXCEPT !.chunk = Tail(@)]
    BY <1>7 DEF Dispatch
  <2> QED BY <1>0, <1>2, <1>3, <1>4, <2>1, PushSound
<1> QED BY <1>5, <1>6, <1>7

(* Steps of the asyncio transport and of the two trio tasks. *)

LEMMA ChunkSound ==
    ASSUME Sound, EndOfFile \/ ChunkDone \/ Poll
    PROVE  Sound'
<1> USE DEF Sound
<1>0. reader.direct \in Seq(FrameType) /\ NoFrame \in FrameType /\ <<>> \in Seq(Request)
  BY ReaderRecord, FrameTypes DEF Typed
<1>1. ASSUME NEW p \in {"recv", "exit"}, reader' = [reader EXCEPT !.pc = p]
      PROVE  /\ reader' \in ReaderType /\ reader'.pc = p
             /\ reader'.direct = reader.direct /\ reader'.held = reader.held
  BY <1>1 DEF Typed, ReaderType
<1>2. CASE EndOfFile
  <2>1. /\ UNCHANGED <<engine, client, wrote, unread, made, subscribed, queue, paused, writer, lock>>
        /\ reader.pc = "recv" /\ Open
    BY <1>2 DEF EndOfFile, peer, socket, tasks
  <2>2. CASE Asyncio
    <3>1. state' = "closing" /\ UNCHANGED reader
      BY <1>2, <2>2 DEF EndOfFile
    <3>2. Typed'
      BY <2>1, <3>1 DEF Typed, States
    <3>3. Shape'
      BY <2>1, <2>2, <3>1 DEF Shape, AsyncioShape, TrioShape, Asyncio, Trio
    <3> QED BY <3>2, <3>3
  <2>3. CASE ~Asyncio
    <3>1. reader' = [reader EXCEPT !.pc = "exit"] /\ UNCHANGED state
      BY <1>2, <2>3 DEF EndOfFile
    <3>2. Typed'
      BY <1>1, <2>1, <3>1 DEF Typed
    <3>3. Shape'
      BY <1>1, <2>1, <2>3, <3>1 DEF Shape, AsyncioShape, TrioShape, Asyncio, Trio, Alive
    <3> QED BY <3>2, <3>3
  <2> QED BY <2>2, <2>3
<1>3. CASE Poll
  <2>1. /\ UNCHANGED <<engine, client, wrote, unread, made, subscribed, state, reader, queue,
                       writer, lock>>
        /\ paused' = FALSE
    BY <1>3 DEF Poll, peer, socket, tasks
  <2>2. Typed'
    BY <2>1 DEF Typed
  <2>3. Shape'
    BY <2>1 DEF Shape, AsyncioShape, TrioShape, Asyncio, Trio, Alive
  <2> QED BY <2>2, <2>3
<1>4. CASE ChunkDone /\ Asyncio
  <2>1. /\ UNCHANGED <<engine, client, wrote, unread, made, subscribed, state, queue, writer, lock>>
        /\ reader' = [reader EXCEPT !.pc = "recv"]
        /\ paused' = (paused \/ Len(queue) > HighWater)
    BY <1>4 DEF ChunkDone, AsyncioChunkDone, peer, socket, tasks, Asyncio, Trio
  <2>2. Typed'
    BY <1>1, <2>1 DEF Typed
  <2>3. Shape'
    BY <1>1, <1>4, <2>1 DEF Shape, AsyncioShape, TrioShape, Asyncio, Trio, Typed
  <2> QED BY <2>2, <2>3
<1>5. CASE ChunkDone /\ ~Asyncio
  <2>1. /\ UNCHANGED <<engine, client, wrote, unread, made, subscribed, state, queue, paused, writer>>
        /\ reader.pc = "run" /\ Trio
    BY <1>5 DEF ChunkDone, TrioChunkDone, peer, socket
  <2>2. CASE reader.direct = <<>>
    <3>1. reader' = [reader EXCEPT !.pc = "recv"] /\ UNCHANGED lock
      BY <1>5, <2>2 DEF ChunkDone, TrioChunkDone
    <3>2. Typed'
      BY <1>1, <2>1, <3>1 DEF Typed
    <3>3. Shape'
      BY <1>1, <2>1, <2>2, <3>1 DEF Shape, AsyncioShape, TrioShape, Asyncio, Trio, Alive
    <3> QED BY <3>2, <3>3
  <2>3. CASE reader.direct # <<>>
    <3>1. DirectSend(<<>>, reader.direct, NoFrame)
      BY <1>5, <2>3 DEF ChunkDone, TrioChunkDone
    <3>2. made' \in Nat
      BY <2>1 DEF Typed
    <3> QED BY <1>0, <2>1, <2>3, <3>1, <3>2, DirectSendSound
  <2> QED BY <2>2, <2>3
<1> QED BY <1>2, <1>3, <1>4, <1>5

(* Frames wait under their own kind: replies for the reader, pushes for    *)
(* the writer, both in the transport of asyncio. *)
KindsOf(q) == {q[i].kind : i \in DOMAIN q}

Kinds ==
    /\ KindsOf(queue) \subseteq (IF Trio THEN {"push"} ELSE {"reply", "push"})
    /\ KindsOf(reader.direct) \subseteq {"reply"}
    /\ writer.item # NoFrame => writer.item.kind = "push"

LEMMA AppendEntries ==
    ASSUME NEW q \in Seq(FrameType), NEW f \in FrameType
    PROVE  /\ Append(q, f) \in Seq(FrameType)
           /\ Len(Append(q, f)) = Len(q) + 1
           /\ DOMAIN Append(q, f) = DOMAIN q \cup {Len(q) + 1}
           /\ \A i \in DOMAIN q : Append(q, f)[i] = q[i]
           /\ Append(q, f)[Len(q) + 1] = f
OBVIOUS

LEMMA TailEntries ==
    ASSUME NEW q \in Seq(FrameType), q # <<>>
    PROVE  /\ Len(q) \in Nat \ {0} /\ Len(Tail(q)) = Len(q) - 1
           /\ Head(q) = q[1] /\ 1 \in DOMAIN q
           /\ \A i \in DOMAIN Tail(q) : Tail(q)[i] = q[i + 1] /\ i + 1 \in DOMAIN q /\ i \in DOMAIN q
           /\ \A i \in DOMAIN q : i # 1 => i - 1 \in DOMAIN Tail(q) /\ q[i] = Tail(q)[i - 1]
OBVIOUS

LEMMA KindsAppend ==
    ASSUME NEW q \in Seq(FrameType), NEW f \in FrameType
    PROVE  KindsOf(Append(q, f)) = KindsOf(q) \cup {f.kind}
BY AppendEntries DEF KindsOf

LEMMA KindsTail ==
    ASSUME NEW q \in Seq(FrameType), q # <<>>
    PROVE  KindsOf(q) = KindsOf(Tail(q)) \cup {Head(q).kind}
<1>1. \A i \in DOMAIN q : q[i].kind \in KindsOf(Tail(q)) \cup {Head(q).kind}
  <2> TAKE i \in DOMAIN q
  <2>1. CASE i = 1
    BY <2>1, TailEntries
  <2>2. CASE i # 1
    <3>1. i - 1 \in DOMAIN Tail(q) /\ q[i] = Tail(q)[i - 1]
      BY <2>2, TailEntries
    <3> QED BY <3>1 DEF KindsOf
  <2> QED BY <2>1, <2>2
<1>2. Head(q).kind \in KindsOf(q)
  BY TailEntries DEF KindsOf
<1>3. \A i \in DOMAIN Tail(q) : Tail(q)[i].kind \in KindsOf(q)
  BY TailEntries DEF KindsOf
<1> QED BY <1>1, <1>2, <1>3 DEF KindsOf

LEMMA DrainSound ==
    ASSUME Sound, Kinds, Drain
    PROVE  Sound'
<1> USE DEF Sound
<1>1. /\ Put(Head(queue)) /\ queue' = Tail(queue) /\ queue # <<>> /\ Room /\ Asyncio
      /\ UNCHANGED <<engine, client, made, subscribed, state, reader, paused, writer, lock>>
  BY DEF Drain, peer, tasks
<1>2. Head(queue) \in FrameType /\ Tail(queue) \in Seq(FrameType) /\ Head(queue).kind # "none"
  <2>1. queue \in Seq(FrameType)
    BY DEF Typed
  <2>2. Head(queue).kind \in {"reply", "push"}
    BY <1>1, <2>1, KindsTail DEF Kinds
  <2> QED BY <1>1, <2>1, <2>2, HeadTail
<1>3. Typed'
  BY <1>1, <1>2, PutWrote, PutUnread DEF Typed
<1>4. Shape'
  BY <1>1 DEF Shape, AsyncioShape, TrioShape, Asyncio, Trio
<1> QED BY <1>3, <1>4

LEMMA LocksSound ==
    ASSUME Sound, ReaderLocks \/ WriterLocks
    PROVE  Sound'
<1> USE DEF Sound
<1>1. UNCHANGED <<engine, client, wrote, unread, made, subscribed, state, queue, paused>>
      /\ Trio /\ Alive /\ reader.pc # "run"
  BY DEF ReaderLocks, WriterLocks, peer, socket, LoopFree
<1>2. CASE ReaderLocks
  <2>1. /\ lock' = "reader" /\ reader' = [reader EXCEPT !.pc = "send"] /\ writer' = writer
        /\ lock \in {"free", "reader"} /\ reader.pc = "acquire"
    BY <1>2 DEF ReaderLocks
  <2>2. /\ reader' \in ReaderType /\ reader'.pc = "send"
        /\ reader'.direct = reader.direct /\ reader'.held = reader.held
    BY <2>1 DEF Typed, ReaderType
  <2>3. Typed'
    BY <1>1, <2>1, <2>2 DEF Typed
  <2>4. Shape'
    BY <1>1, <2>1, <2>2 DEF Shape, AsyncioShape, TrioShape, Asyncio, Trio, Alive
  <2> QED BY <2>3, <2>4
<1>3. CASE WriterLocks
  <2>1. /\ lock' = "writer" /\ writer' = [writer EXCEPT !.pc = "send"] /\ reader' = reader
        /\ lock \in {"free", "writer"} /\ writer.pc = "acquire"
    BY <1>3 DEF WriterLocks
  <2>2. /\ writer' \in WriterType /\ writer'.pc = "send" /\ writer'.item = writer.item
    BY <2>1 DEF Typed, WriterType
  <2>3. Typed'
    BY <1>1, <2>1, <2>2 DEF Typed
  <2>4. Shape'
    BY <1>1, <2>1, <2>2 DEF Shape, AsyncioShape, TrioShape, Asyncio, Trio, Alive
  <2> QED BY <2>3, <2>4
<1> QED BY <1>2, <1>3

LEMMA ReaderSendsSound ==
    ASSUME Sound, Kinds, ReaderSends
    PROVE  Sound'
<1> USE DEF Sound
<1>0. reader.direct \in Seq(FrameType) /\ NoFrame \in FrameType /\ <<>> \in Seq(Request)
      /\ <<>> \in Seq(FrameType)
  BY ReaderRecord, FrameTypes DEF Typed
<1>1. /\ Trio /\ Alive /\ Room /\ Put(Head(reader.direct)) /\ reader.pc = "send"
      /\ UNCHANGED <<engine, client, made, subscribed, queue, paused, writer>>
  BY DEF ReaderSends, peer
<1>2. reader.direct # <<>> /\ lock = "reader"
  BY <1>1 DEF Shape, TrioShape
<1>3. Head(reader.direct) \in FrameType /\ Tail(reader.direct) \in Seq(FrameType)
      /\ Head(reader.direct).kind # "none"
  <2>1. Head(reader.direct).kind \in {"reply"}
    BY <1>0, <1>2, KindsTail DEF Kinds
  <2> QED BY <1>0, <1>2, <2>1, HeadTail
<1>4. wrote' \in WroteType /\ unread' \in 0 .. Window
  BY <1>1, <1>3, PutWrote, PutUnread DEF Typed
<1> DEFINE rest == Tail(reader.direct)
<1>5. CASE rest # <<>>
  <2>1. reader' = [reader EXCEPT !.direct = rest] /\ UNCHANGED <<lock, state>>
    BY <1>5 DEF ReaderSends
  <2>2. /\ reader' \in ReaderType /\ reader'.pc = "send" /\ reader'.direct = rest
        /\ reader'.held = reader.held
    BY <1>1, <1>3, <2>1 DEF Typed, ReaderType
  <2>3. Typed'
    BY <1>1, <1>4, <2>1, <2>2 DEF Typed
  <2>4. Shape'
    BY <1>1, <1>2, <1>5, <2>1, <2>2 DEF Shape, AsyncioShape, TrioShape, Asyncio, Trio, Alive
  <2> QED BY <2>3, <2>4
<1>6. CASE rest = <<>>
  <2>1. PICK p \in {"recv", "exit"} :
          reader' = [pc |-> p, chunk |-> <<>>, direct |-> <<>>, held |-> NoFrame]
    BY <1>6 DEF ReaderSends
  <2>2. /\ lock' = (IF writer.pc = "acquire" THEN "writer" ELSE "free")
        /\ state' \in {state, "failed"}
    BY <1>6 DEF ReaderSends, Released, Waiting
  <2>3. /\ reader' \in ReaderType /\ reader'.pc = p /\ reader'.direct = <<>>
        /\ reader'.held = NoFrame
    BY <1>0, <2>1, NewReader
  <2>4. Typed'
    BY <1>1, <1>4, <2>2, <2>3 DEF Typed, States
  <2>5. Shape'
    BY <1>1, <1>2, <2>2, <2>3 DEF Shape, AsyncioShape, TrioShape, Asyncio, Trio, Alive
  <2> QED BY <2>4, <2>5
<1> QED BY <1>5, <1>6

LEMMA ReaderBrokenSound ==
    ASSUME Sound, ReaderBroken
    PROVE  Sound'
<1> USE DEF Sound
<1>0. NoFrame \in FrameType /\ <<>> \in Seq(Request) /\ <<>> \in Seq(FrameType)
  BY FrameTypes DEF Typed
<1>1. /\ Trio /\ Alive /\ reader.pc = "send"
      /\ UNCHANGED <<engine, client, wrote, unread, made, subscribed, state, queue, paused, writer>>
      /\ lock' = (IF writer.pc = "acquire" THEN "writer" ELSE "free")
      /\ reader' = [pc |-> "exit", chunk |-> <<>>, direct |-> <<>>, held |-> NoFrame]
  BY DEF ReaderBroken, peer, socket, Released, Waiting
<1>2. /\ reader' \in ReaderType /\ reader'.pc = "exit" /\ reader'.direct = <<>>
      /\ reader'.held = NoFrame
  BY <1>0, <1>1, NewReader
<1>3. Typed'
  BY <1>1, <1>2 DEF Typed
<1>4. Shape'
  BY <1>1, <1>2 DEF Shape, AsyncioShape, TrioShape, Asyncio, Trio, Alive
<1> QED BY <1>3, <1>4

LEMMA WriterSendsSound ==
    ASSUME Sound, Kinds, WriterSends
    PROVE  Sound'
<1> USE DEF Sound
<1>0. NoFrame \in FrameType /\ writer.item \in FrameType /\ queue \in Seq(FrameType)
  BY FrameTypes, WriterRecord DEF Typed
<1>1. /\ Trio /\ Alive /\ Room /\ Put(writer.item) /\ writer.pc = "send" /\ reader.pc # "run"
      /\ UNCHANGED <<engine, client, made, subscribed, state, reader, paused>>
  BY DEF WriterSends, peer, LoopFree
<1>2. lock = "writer" /\ writer.item.kind = "push"
  BY <1>1 DEF Shape, TrioShape, Kinds
<1>3. wrote' \in WroteType /\ unread' \in 0 .. Window
  BY <1>0, <1>1, <1>2, PutWrote, PutUnread DEF Typed
<1>4. CASE queue # <<>>
  <2>1. PICK p \in {"acquire", "send"} :
          /\ p = "acquire" <=> reader.pc = "acquire"
          /\ writer' = [pc |-> p, item |-> Head(queue)]
          /\ lock' = (IF reader.pc = "acquire" THEN "reader" ELSE "writer")
          /\ queue' = Tail(queue)
    BY <1>4 DEF WriterSends, Waiting
  <2>2. Head(queue) \in FrameType /\ Tail(queue) \in Seq(FrameType)
    BY <1>0, <1>4, HeadTail
  <2>3. writer' \in WriterType /\ writer'.pc = p /\ writer'.item = Head(queue)
    BY <2>1, <2>2, NewWriter
  <2>4. Head(queue) # NoFrame
    <3>1. Head(queue).kind \in {"push"}
      BY <1>0, <1>1, <1>4, KindsTail DEF Kinds
    <3> QED BY <3>1 DEF NoFrame
  <2>5. Typed'
    BY <1>1, <1>3, <2>1, <2>2, <2>3 DEF Typed
  <2>6. Shape'
    BY <1>1, <1>2, <2>1, <2>3, <2>4 DEF Shape, AsyncioShape, TrioShape, Asyncio, Trio, Alive
  <2> QED BY <2>5, <2>6
<1>5. CASE queue = <<>>
  <2>1. PICK p \in {"done", "wait"} : writer' = [pc |-> p, item |-> NoFrame]
    BY <1>5 DEF WriterSends
  <2>2. lock' = (IF reader.pc = "acquire" THEN "reader" ELSE "free") /\ UNCHANGED queue
    BY <1>5 DEF WriterSends, Released, Waiting
  <2>3. writer' \in WriterType /\ writer'.pc = p /\ writer'.item = NoFrame
    BY <1>0, <2>1, NewWriter
  <2>4. Typed'
    BY <1>1, <1>3, <2>2, <2>3 DEF Typed
  <2>5. Shape'
    BY <1>1, <1>2, <1>5, <2>2, <2>3 DEF Shape, AsyncioShape, TrioShape, Asyncio, Trio, Alive
  <2> QED BY <2>4, <2>5
<1> QED BY <1>4, <1>5

LEMMA WriterEndsSound ==
    ASSUME Sound, WriterEnds
    PROVE  Sound'
<1> USE DEF Sound
<1>0. NoFrame \in FrameType
  BY FrameTypes DEF Typed
<1>1. /\ Trio /\ Alive /\ reader.pc # "run"
      /\ UNCHANGED <<engine, client, wrote, unread, made, subscribed, state, reader, queue, paused>>
      /\ writer' = [pc |-> "done", item |-> NoFrame]
      /\ lock' = (IF lock = "writer" THEN IF reader.pc = "acquire" THEN "reader" ELSE "free" ELSE lock)
      /\ writer.pc \in {"wait", "send"}
  BY DEF WriterEnds, peer, socket, Released, Waiting, LoopFree
<1>2. writer' \in WriterType /\ writer'.pc = "done" /\ writer'.item = NoFrame
  BY <1>0, <1>1, NewWriter
<1>3. Typed'
  BY <1>1, <1>2 DEF Typed
<1>4. Shape'
  BY <1>1, <1>2 DEF Shape, AsyncioShape, TrioShape, Asyncio, Trio, Alive
<1> QED BY <1>3, <1>4

LEMMA EndingSound ==
    ASSUME Sound, NurseryEnds \/ Farewell
    PROVE  Sound' \/ Finish
<1> USE DEF Sound
<1>1. CASE NurseryEnds /\ ~Finish
  <2>1. /\ state' = "farewell" /\ subscribed' = FALSE /\ Trio
        /\ UNCHANGED <<engine, client, wrote, unread, made, reader, queue, paused, writer, lock>>
    BY <1>1 DEF NurseryEnds, peer, socket, tasks
  <2>2. Typed'
    BY <2>1 DEF Typed, States
  <2>3. Shape'
    BY <2>1 DEF Shape, AsyncioShape, TrioShape, Asyncio, Trio, Alive
  <2> QED BY <2>2, <2>3
<1>2. CASE Farewell
  <2>1. /\ state = "farewell" /\ state' = "done" /\ made' = made + 1
        /\ UNCHANGED <<engine, client, subscribed, reader, queue, paused, writer, lock>>
        /\ (Room /\ Put(Frame("reply"))) \/ UNCHANGED <<wrote, unread>>
    BY <1>2 DEF Farewell, peer, socket, tasks
  <2>2. wrote' \in WroteType /\ unread' \in 0 .. Window
    <3>1. Frame("reply") \in FrameType /\ Frame("reply").kind # "none"
      BY FrameTypes DEF Typed
    <3> QED BY <2>1, <3>1, PutWrote, PutUnread DEF Typed
  <2>3. Typed'
    BY <2>1, <2>2 DEF Typed, States
  <2>4. Shape'
    BY <2>1 DEF Shape, AsyncioShape, TrioShape, Asyncio, Trio, Alive
  <2> QED BY <2>3, <2>4
<1> QED BY <1>1, <1>2

LEMMA StepSound ==
    ASSUME Sound, Kinds, [Next]_vars
    PROVE  Sound'
<1>1. CASE Client
  BY <1>1, ClientSound, ReceiveSound DEF Client
<1>2. CASE Publish
  BY <1>2, PublishSound
<1>3. CASE Chunk \/ Poll
  BY <1>3, ChunkSound, DispatchSound DEF Chunk
<1>4. CASE Drain
  BY <1>4, DrainSound
<1>5. CASE Reading
  BY <1>5, LocksSound, ReaderSendsSound, ReaderBrokenSound DEF Reading
<1>6. CASE Writing
  BY <1>6, LocksSound, WriterSendsSound, WriterEndsSound DEF Writing
<1>7. CASE Ending
  BY <1>7, EndingSound, FinishSound DEF Ending, Unwind, Lost
<1>8. CASE UNCHANGED vars
  <2>1. UNCHANGED <<engine, client, wrote, unread, made, subscribed, state, reader, queue, paused,
                    writer, lock>>
    BY <1>8 DEF vars
  <2> QED BY <2>1 DEF Sound, Typed, Shape, AsyncioShape, TrioShape, Asyncio, Trio, Alive
<1> QED BY <1>1, <1>2, <1>3, <1>4, <1>5, <1>6, <1>7, <1>8 DEF Next

-----------------------------------------------------------------------------
(* The numbers of the frames that wait. *)

Nums(q) == {q[i].n : i \in DOMAIN q}

Sorted(q) == \A i, j \in DOMAIN q : i < j => q[i].n < q[j].n

Ordered(q, lo, hi) == Sorted(q) /\ \A n \in Nums(q) : lo < n /\ n <= hi

LEMMA NumsAppend ==
    ASSUME NEW q \in Seq(FrameType), NEW f \in FrameType
    PROVE  Nums(Append(q, f)) = Nums(q) \cup {f.n}
BY AppendEntries DEF Nums

LEMMA NumsTail ==
    ASSUME NEW q \in Seq(FrameType), q # <<>>
    PROVE  Nums(q) = Nums(Tail(q)) \cup {Head(q).n}
<1>1. \A i \in DOMAIN q : q[i].n \in Nums(Tail(q)) \cup {Head(q).n}
  <2> TAKE i \in DOMAIN q
  <2>1. CASE i = 1
    BY <2>1, TailEntries
  <2>2. CASE i # 1
    <3>1. i - 1 \in DOMAIN Tail(q) /\ q[i] = Tail(q)[i - 1]
      BY <2>2, TailEntries
    <3> QED BY <3>1 DEF Nums
  <2> QED BY <2>1, <2>2
<1>2. Head(q).n \in Nums(q)
  BY TailEntries DEF Nums
<1>3. \A i \in DOMAIN Tail(q) : Tail(q)[i].n \in Nums(q)
  BY TailEntries DEF Nums
<1> QED BY <1>1, <1>2, <1>3 DEF Nums

LEMMA NumsNat ==
    ASSUME NEW q \in Seq(FrameType)
    PROVE  Nums(q) \subseteq Nat /\ \A i \in DOMAIN q : q[i].n \in Nums(q) /\ q[i].n \in Nat
<1>1. \A i \in DOMAIN q : q[i] \in FrameType
  OBVIOUS
<1> QED BY <1>1 DEF Nums, FrameType

LEMMA OrderedEmpty == \A lo, hi : Ordered(<<>>, lo, hi) /\ Nums(<<>>) = {}
BY DEF Ordered, Sorted, Nums

LEMMA OrderedWiden ==
    ASSUME NEW q \in Seq(FrameType), NEW lo \in Int, NEW hi \in Int, Ordered(q, lo, hi),
           NEW low \in Int, NEW high \in Int, low <= lo, hi <= high
    PROVE  Ordered(q, low, high)
BY NumsNat DEF Ordered

LEMMA OrderedAppend ==
    ASSUME NEW q \in Seq(FrameType), NEW lo \in Int, NEW hi \in Int, Ordered(q, lo, hi),
           NEW f \in FrameType, NEW high \in Int, lo < f.n, hi < f.n, f.n <= high
    PROVE  Ordered(Append(q, f), lo, high)
<1> DEFINE p == Append(q, f)
<1>0. f.n \in Nat /\ Len(q) \in Nat /\ DOMAIN q = 1 .. Len(q)
  BY DEF FrameType
<1>1. \A n \in Nums(p) : lo < n /\ n <= high
  BY <1>0, NumsAppend, NumsNat DEF Ordered
<1>2. ASSUME NEW i \in DOMAIN p, NEW j \in DOMAIN p, i < j
      PROVE  p[i].n < p[j].n
  <2>1. i \in DOMAIN q /\ p[i] = q[i]
    BY <1>0, <1>2, AppendEntries
  <2>2. CASE j \in DOMAIN q
    BY <1>2, <2>1, <2>2, AppendEntries DEF Ordered, Sorted
  <2>3. CASE j = Len(q) + 1
    <3>1. p[j] = f
      BY <2>3, AppendEntries
    <3>2. q[i].n \in Nat /\ q[i].n <= hi
      BY <2>1, NumsNat DEF Ordered
    <3> QED BY <1>0, <2>1, <3>1, <3>2
  <2> QED BY <2>2, <2>3, AppendEntries
<1> QED BY <1>1, <1>2 DEF Ordered, Sorted

LEMMA OrderedTail ==
    ASSUME NEW q \in Seq(FrameType), NEW lo \in Int, NEW hi \in Int, Ordered(q, lo, hi), q # <<>>
    PROVE  /\ Head(q) \in FrameType /\ Tail(q) \in Seq(FrameType)
           /\ Head(q).n \in Nat /\ lo < Head(q).n /\ Head(q).n <= hi
           /\ Ordered(Tail(q), Head(q).n, hi)
           /\ Nums(q) = Nums(Tail(q)) \cup {Head(q).n} /\ Head(q).n \notin Nums(Tail(q))
<1>0. Head(q) \in FrameType /\ Tail(q) \in Seq(FrameType)
  BY HeadTail
<1>1. Head(q).n \in Nat /\ Head(q).n \in Nums(q)
  <2>1. Head(q).n \in Nat
    BY <1>0 DEF FrameType
  <2> QED BY <2>1, NumsTail
<1>2. Nums(q) = Nums(Tail(q)) \cup {Head(q).n}
  BY NumsTail
<1>3. ASSUME NEW i \in DOMAIN Tail(q)
      PROVE  Head(q).n < Tail(q)[i].n
  <2>1. Tail(q)[i] = q[i + 1] /\ i + 1 \in DOMAIN q /\ 1 \in DOMAIN q /\ Head(q) = q[1] /\ 1 < i + 1
    BY TailEntries
  <2> QED BY <2>1 DEF Ordered, Sorted
<1>4. \A n \in Nums(Tail(q)) : Head(q).n < n
  BY <1>3 DEF Nums
<1>5. Sorted(Tail(q))
  <2>1. ASSUME NEW i \in DOMAIN Tail(q), NEW j \in DOMAIN Tail(q), i < j
        PROVE  Tail(q)[i].n < Tail(q)[j].n
    <3>1. Tail(q)[i] = q[i + 1] /\ i + 1 \in DOMAIN q /\ Tail(q)[j] = q[j + 1] /\ j + 1 \in DOMAIN q
      BY TailEntries
    <3>2. i + 1 < j + 1
      BY <2>1
    <3> QED BY <3>1, <3>2 DEF Ordered, Sorted
  <2> QED BY <2>1 DEF Sorted
<1>6. Head(q).n \notin Nums(Tail(q))
  BY <1>1, <1>4
<1> QED BY <1>0, <1>1, <1>2, <1>4, <1>5, <1>6 DEF Ordered

(* The item of trio's writer is older than what its channel holds, and     *)
(* older than the replies that wait for a lock it holds.                   *)
ItemOrder ==
    writer.item # NoFrame =>
      /\ wrote.push < writer.item.n /\ writer.item.n <= made
      /\ writer.item.n # wrote.reply
      /\ Ordered(queue, writer.item.n, made)
      /\ writer.item.n \notin Nums(reader.direct)
      /\ (lock = "writer" /\ Alive) => Ordered(reader.direct, writer.item.n, made)

(* The reply that subscribed mode holds is younger than those flushed.     *)
HeldOrder ==
    reader.held # NoFrame =>
      /\ wrote.reply < reader.held.n /\ reader.held.n <= made
      /\ reader.held.n # wrote.push
      /\ reader.held.n \notin Nums(queue)
      /\ writer.item # NoFrame => writer.item.n # reader.held.n
      /\ \A n \in Nums(reader.direct) : n < reader.held.n

DirectOrder ==
    /\ Ordered(reader.direct, wrote.push, made) /\ Ordered(reader.direct, wrote.reply, made)
    /\ Nums(queue) \cap Nums(reader.direct) = {}

(* Every frame that waits is younger than the frames of its kind that went *)
(* out before, and waits in one place.                                     *)
Order ==
    /\ Kinds
    /\ wrote.reply <= made /\ wrote.push <= made
    /\ Ordered(queue, wrote.push, made)
    /\ Asyncio => Ordered(queue, wrote.reply, made)
    /\ wrote.reply \notin Nums(queue)
    /\ DirectOrder /\ ItemOrder /\ HeldOrder
    /\ state = "farewell" => /\ reader.pc = "exit" /\ reader.direct = <<>>
                             /\ reader.held = NoFrame /\ writer.item = NoFrame

LEMMA Numbers ==
    ASSUME Typed
    PROVE  /\ wrote.reply \in Nat /\ wrote.push \in Nat /\ made \in Nat /\ wrote.count \in Nat
           /\ writer.item \in FrameType /\ writer.item.n \in Nat
           /\ reader.held \in FrameType /\ reader.held.n \in Nat
           /\ queue \in Seq(FrameType) /\ reader.direct \in Seq(FrameType)
           /\ Nums(queue) \subseteq Nat /\ Nums(reader.direct) \subseteq Nat
<1>1. wrote.reply \in Nat /\ wrote.push \in Nat /\ wrote.count \in Nat
  BY DEF Typed, WroteType
<1>2. made \in Nat /\ queue \in Seq(FrameType)
  BY DEF Typed
<1>3. reader.direct \in Seq(FrameType) /\ reader.held \in FrameType
  BY ReaderRecord DEF Typed
<1>4. writer.item \in FrameType
  BY WriterRecord DEF Typed
<1>5. \A f \in FrameType : f.n \in Nat
  BY DEF FrameType
<1> QED BY <1>1, <1>2, <1>3, <1>4, <1>5, NumsNat

LEMMA InitOrder == Init => Order
<1> SUFFICES ASSUME Init PROVE Order
  OBVIOUS
<1>1. /\ queue = <<>> /\ reader.direct = <<>> /\ reader.held = NoFrame
      /\ writer.item = NoFrame /\ wrote.reply = 0 /\ wrote.push = 0 /\ made = 0 /\ state = "open"
  BY DEF Init
<1>2. KindsOf(<<>>) = {}
  BY DEF KindsOf
<1> QED BY <1>1, <1>2, OrderedEmpty DEF Order, Kinds, DirectOrder, ItemOrder, HeldOrder

(* Nothing goes out; what waits may be forgotten. *)
LEMMA QuietOrder ==
    ASSUME Sound, Sound', Order, UNCHANGED <<engine, wrote>>, made' >= made,
           queue' \in {queue, <<>>}, reader'.direct \in {reader.direct, <<>>},
           reader'.held \in {reader.held, NoFrame}, writer'.item \in {writer.item, NoFrame},
           (lock' = "writer" /\ Alive') => (lock = "writer" /\ Alive) \/ reader'.direct = <<>>,
           state' = "farewell" => /\ reader'.pc = "exit" /\ reader'.direct = <<>>
                                  /\ reader'.held = NoFrame /\ writer'.item = NoFrame
    PROVE  Order'
<1> USE DEF Sound
<1>0. made \in Nat /\ made' \in Nat
  BY DEF Typed
<1>1. KindsOf(<<>>) = {}
  BY DEF KindsOf
<1>2. Kinds'
  BY <1>1 DEF Order, Kinds, Trio
<1>3. ASSUME NEW lo \in Nat, NEW q \in Seq(FrameType), Ordered(q, lo, made)
      PROVE  Ordered(q, lo, made')
  BY <1>0, <1>3, OrderedWiden
<1>4. /\ Ordered(queue', wrote'.push, made')
      /\ Asyncio' => Ordered(queue', wrote'.reply, made')
      /\ wrote'.reply \notin Nums(queue')
      /\ wrote'.reply <= made' /\ wrote'.push <= made'
  BY <1>0, <1>3, Numbers, OrderedEmpty DEF Order, Asyncio
<1>5. DirectOrder'
  BY <1>3, Numbers, OrderedEmpty DEF Order, DirectOrder
<1>6. ItemOrder'
  <2>1. SUFFICES ASSUME writer'.item # NoFrame
                 PROVE  ItemOrder'
    BY DEF ItemOrder
  <2>2. writer'.item = writer.item /\ writer.item # NoFrame
    BY <2>1
  <2>3. /\ wrote.push < writer.item.n /\ writer.item.n <= made'
        /\ writer.item.n # wrote.reply
        /\ writer.item.n \notin Nums(reader'.direct)
    BY <1>0, <2>2, Numbers, OrderedEmpty DEF Order, ItemOrder
  <2>4. Ordered(queue', writer.item.n, made')
    BY <1>3, <2>2, Numbers, OrderedEmpty DEF Order, ItemOrder
  <2>5. (lock' = "writer" /\ Alive') => Ordered(reader'.direct, writer.item.n, made')
    BY <1>3, <2>2, Numbers, OrderedEmpty DEF Order, ItemOrder
  <2> QED BY <2>2, <2>3, <2>4, <2>5 DEF ItemOrder
<1>7. HeldOrder'
  BY <1>0, Numbers, OrderedEmpty DEF Order, HeldOrder
<1> QED BY <1>2, <1>4, <1>5, <1>6, <1>7 DEF Order

(* What is buffered on asyncio is all that waits there. *)
LEMMA AsyncioOrder ==
    ASSUME Sound', Asyncio', KindsOf(queue') \subseteq {"reply", "push"},
           wrote'.reply <= made', wrote'.push <= made',
           Ordered(queue', wrote'.push, made'), Ordered(queue', wrote'.reply, made')
    PROVE  Order'
<1>1. reader'.direct = <<>> /\ reader'.held = NoFrame /\ writer'.item = NoFrame /\ ~Trio'
      /\ state' # "farewell"
  BY DEF Sound, Shape, AsyncioShape, Asyncio, Trio
<1>2. KindsOf(<<>>) = {}
  BY DEF KindsOf
<1>3. wrote'.reply \notin Nums(queue')
  <2>1. wrote'.reply \in Nat
    BY DEF Sound, Typed, WroteType
  <2> QED BY <2>1 DEF Ordered
<1> QED BY <1>1, <1>2, <1>3, OrderedEmpty DEF Order, Kinds, DirectOrder, ItemOrder, HeldOrder

LEMMA WriteOrder ==
    ASSUME Sound, Sound', Order, Asyncio, UNCHANGED engine, made' = made + 1,
           NEW kind \in {"reply", "push"}, Write(Frame(kind))
    PROVE  Order'
<1> DEFINE f == Frame(kind)
<1> USE DEF Sound
<1>1. /\ f \in FrameType /\ f.n = made + 1 /\ f.kind = kind /\ f.kind # "none"
  BY FrameTypes DEF Typed
<1>2. /\ wrote.reply \in Nat /\ wrote.push \in Nat /\ made \in Nat /\ queue \in Seq(FrameType)
      /\ wrote.reply <= made /\ wrote.push <= made
      /\ Ordered(queue, wrote.push, made) /\ Ordered(queue, wrote.reply, made)
      /\ KindsOf(queue) \subseteq {"reply", "push"}
  BY Numbers DEF Order, Kinds, Asyncio, Trio
<1>3. Asyncio' /\ KindsOf(<<>>) = {}
  BY DEF Asyncio, KindsOf
<1> HIDE DEF f
<1>4. CASE UNCHANGED <<socket, queue>>
  <2>1. Ordered(queue', wrote'.push, made') /\ Ordered(queue', wrote'.reply, made')
    BY <1>2, <1>4, OrderedWiden DEF socket
  <2> QED BY <1>2, <1>3, <1>4, <2>1, AsyncioOrder DEF socket
<1>5. CASE queue = <<>> /\ Put(f) /\ UNCHANGED queue
  <2>1. wrote'.reply \in {wrote.reply, made + 1} /\ wrote'.push \in {wrote.push, made + 1}
    BY <1>1, <1>5, PutWrote DEF Typed
  <2>2. wrote'.reply <= made' /\ wrote'.push <= made'
    BY <1>2, <2>1
  <2>3. Ordered(queue', wrote'.push, made') /\ Ordered(queue', wrote'.reply, made')
    BY <1>5, OrderedEmpty
  <2> QED BY <1>3, <1>5, <2>2, <2>3, AsyncioOrder
<1>6. CASE queue' = Append(queue, f) /\ UNCHANGED socket
  <2>1. KindsOf(queue') \subseteq {"reply", "push"}
    BY <1>1, <1>2, <1>6, KindsAppend
  <2>2. Ordered(queue', wrote'.push, made') /\ Ordered(queue', wrote'.reply, made')
    BY <1>1, <1>2, <1>6, OrderedAppend DEF socket
  <2>3. wrote'.reply <= made' /\ wrote'.push <= made'
    BY <1>2, <1>6 DEF socket
  <2> QED BY <1>3, <2>1, <2>2, <2>3, AsyncioOrder
<1> QED BY <1>4, <1>5, <1>6 DEF Write, f

LEMMA DrainOrder ==
    ASSUME Sound, Sound', Order, Drain
    PROVE  Order'
<1> USE DEF Sound
<1>1. /\ Put(Head(queue)) /\ queue' = Tail(queue) /\ queue # <<>> /\ Asyncio
      /\ UNCHANGED <<engine, made>>
  BY DEF Drain, peer
<1>2. /\ wrote.reply \in Nat /\ wrote.push \in Nat /\ made \in Nat /\ queue \in Seq(FrameType)
      /\ wrote.reply <= made /\ wrote.push <= made
      /\ Ordered(queue, wrote.push, made) /\ Ordered(queue, wrote.reply, made)
      /\ KindsOf(queue) \subseteq {"reply", "push"}
  BY <1>1, Numbers DEF Order, Kinds, Asyncio, Trio
<1> DEFINE f == Head(queue)
           rest == Tail(queue)
<1>3. /\ f \in FrameType /\ rest \in Seq(FrameType) /\ f.n \in Nat
      /\ wrote.push < f.n /\ wrote.reply < f.n /\ f.n <= made /\ Ordered(rest, f.n, made)
  BY <1>1, <1>2, OrderedTail
<1>4. KindsOf(rest) \subseteq {"reply", "push"} /\ f.kind \in {"reply", "push"}
  BY <1>1, <1>2, KindsTail
<1>5. wrote'.reply \in {wrote.reply, f.n} /\ wrote'.push \in {wrote.push, f.n}
  BY <1>1, <1>3, <1>4, PutWrote DEF Typed
<1> HIDE DEF f, rest
<1>6. Ordered(rest, wrote'.push, made) /\ Ordered(rest, wrote'.reply, made)
  BY <1>2, <1>3, <1>5, OrderedWiden
<1>7. wrote'.reply <= made /\ wrote'.push <= made
  BY <1>2, <1>3, <1>5
<1>8. queue' = rest /\ made' = made /\ Asyncio'
  BY <1>1 DEF rest, Asyncio
<1> QED BY <1>4, <1>6, <1>7, <1>8, AsyncioOrder

LEMMA TrioPushOrder ==
    ASSUME Sound, Sound', Order, TrioPush(Frame("push")), made' = made + 1, UNCHANGED engine,
           reader'.direct = reader.direct, reader'.held = reader.held, reader'.pc = reader.pc
    PROVE  Order'
<1> DEFINE f == Frame("push")
<1> USE DEF Sound
<1>1. f \in FrameType /\ f.n = made + 1 /\ f.kind = "push" /\ f # NoFrame
  BY FrameTypes DEF Typed
<1>2. /\ wrote.reply \in Nat /\ wrote.push \in Nat /\ made \in Nat
      /\ queue \in Seq(FrameType) /\ reader.direct \in Seq(FrameType)
      /\ writer.item.n \in Nat /\ reader.held.n \in Nat
      /\ Nums(queue) \subseteq Nat /\ Nums(reader.direct) \subseteq Nat
  BY Numbers
<1>3. /\ wrote.reply <= made /\ wrote.push <= made
      /\ Ordered(queue, wrote.push, made) /\ wrote.reply \notin Nums(queue)
      /\ Ordered(reader.direct, wrote.push, made) /\ Ordered(reader.direct, wrote.reply, made)
      /\ Nums(queue) \cap Nums(reader.direct) = {}
  BY DEF Order, DirectOrder
<1>4. /\ Trio /\ ~Asyncio' /\ UNCHANGED <<wrote, lock>> /\ Trio'
  BY DEF TrioPush, socket, Trio, Asyncio
<1>5. \A n \in Nums(queue) \cup Nums(reader.direct) : n <= made
  BY <1>3 DEF Ordered
<1>6. ASSUME NEW lo \in Nat, Ordered(reader.direct, lo, made)
      PROVE  Ordered(reader.direct, lo, made')
  <2>1. made \in Int /\ made' \in Int /\ made <= made' /\ lo \in Int /\ lo <= lo
    BY <1>2
  <2> QED BY <1>2, <1>6, <2>1, OrderedWiden
<1>7. DirectOrder' \/ queue' # queue
  BY <1>2, <1>3, <1>4, <1>6 DEF DirectOrder
<1> HIDE DEF f
<1>8. CASE UNCHANGED <<queue, writer>> /\ state' \in {state, "cancelled"}
  BY <1>1, <1>2, <1>4, <1>8, QuietOrder DEF Alive, Order
<1>9. CASE Open /\ writer.pc = "wait" /\ writer' = [pc |-> "acquire", item |-> f]
           /\ UNCHANGED <<queue, state>>
  <2>1. queue = <<>> /\ lock # "writer" /\ writer'.item = f
    BY <1>4, <1>9 DEF Shape, TrioShape, Alive, Open
  <2>2. Kinds'
    BY <1>1, <1>4, <1>9, <2>1 DEF Order, Kinds
  <2>3. ItemOrder'
    BY <1>1, <1>2, <1>3, <1>4, <1>5, <1>9, <2>1, OrderedEmpty DEF ItemOrder
  <2>4. HeldOrder'
    BY <1>1, <1>2, <1>4, <1>9, <2>1 DEF Order, HeldOrder
  <2>5. Ordered(queue', wrote'.push, made') /\ wrote'.reply \notin Nums(queue')
    BY <1>9, <2>1, OrderedEmpty
  <2>6. state' # "farewell" /\ wrote'.reply <= made' /\ wrote'.push <= made'
    BY <1>2, <1>3, <1>4, <1>9 DEF Open
  <2> QED BY <1>4, <1>7, <1>9, <2>2, <2>3, <2>4, <2>5, <2>6 DEF Order
<1>10. CASE Open /\ queue' = Append(queue, f) /\ UNCHANGED <<writer, state>>
  <2>1. Nums(queue') = Nums(queue) \cup {made + 1} /\ KindsOf(queue') = KindsOf(queue) \cup {"push"}
    BY <1>1, <1>2, <1>10, NumsAppend, KindsAppend
  <2>2. Kinds'
    BY <1>4, <1>10, <2>1 DEF Order, Kinds
  <2>3. Ordered(queue', wrote'.push, made') /\ wrote'.reply \notin Nums(queue')
    BY <1>1, <1>2, <1>3, <1>4, <1>10, <2>1, OrderedAppend
  <2>4. DirectOrder'
    BY <1>2, <1>3, <1>4, <1>5, <1>6, <2>1 DEF DirectOrder
  <2>5. ASSUME writer.item # NoFrame
        PROVE  Ordered(queue', writer.item.n, made')
    <3>1. Ordered(queue, writer.item.n, made) /\ writer.item.n <= made
      BY <2>5 DEF Order, ItemOrder
    <3>2. /\ writer.item.n < f.n /\ made < f.n /\ f.n <= made' /\ made' \in Int
          /\ writer.item.n \in Int /\ made \in Int
      BY <1>1, <1>2, <3>1
    <3>3. Ordered(Append(queue, f), writer.item.n, made')
      BY <1>1, <1>2, <3>1, <3>2, OrderedAppend
    <3> QED BY <1>10, <3>3
  <2>6. ItemOrder'
    BY <1>2, <1>4, <1>6, <1>10, <2>5 DEF Order, ItemOrder, Alive
  <2>7. HeldOrder'
    BY <1>2, <1>4, <1>10, <2>1 DEF Order, HeldOrder
  <2>8. state' # "farewell" /\ wrote'.reply <= made' /\ wrote'.push <= made'
    BY <1>2, <1>3, <1>4, <1>10 DEF Open
  <2> QED BY <1>4, <2>2, <2>3, <2>4, <2>6, <2>7, <2>8 DEF Order
<1> QED BY <1>8, <1>9, <1>10 DEF TrioPush, f

LEMMA TrioReplyOrder ==
    ASSUME Sound, Sound', Order, TrioReply(Frame("reply")), reader.pc = "run",
           made' = made + 1, UNCHANGED engine
    PROVE  Order'
<1> DEFINE f == Frame("reply")
<1> USE DEF Sound
<1>1. f \in FrameType /\ f.n = made + 1 /\ f.kind = "reply" /\ f # NoFrame
  BY FrameTypes DEF Typed
<1>2. /\ wrote.reply \in Nat /\ wrote.push \in Nat /\ made \in Nat
      /\ queue \in Seq(FrameType) /\ reader.direct \in Seq(FrameType)
      /\ writer.item.n \in Nat /\ reader.held.n \in Nat
      /\ Nums(queue) \subseteq Nat /\ Nums(reader.direct) \subseteq Nat
  BY Numbers
<1>3. /\ wrote.reply <= made /\ wrote.push <= made
      /\ Ordered(queue, wrote.push, made) /\ wrote.reply \notin Nums(queue)
      /\ Ordered(reader.direct, wrote.push, made) /\ Ordered(reader.direct, wrote.reply, made)
      /\ Nums(queue) \cap Nums(reader.direct) = {}
  BY DEF Order, DirectOrder
<1>4. /\ Trio /\ ~Asyncio' /\ UNCHANGED <<wrote, queue, writer>> /\ Trio'
  BY DEF TrioReply, socket, Trio, Asyncio
<1>5. /\ \A n \in Nums(queue) \cup Nums(reader.direct) : n <= made
      /\ writer.item # NoFrame => writer.item.n <= made
  BY <1>3 DEF Ordered, Order, ItemOrder
<1>6. ASSUME NEW lo \in Nat, Ordered(reader.direct, lo, made)
      PROVE  Ordered(reader.direct, lo, made')
  <2>1. made \in Int /\ made' \in Int /\ made <= made' /\ lo \in Int /\ lo <= lo
    BY <1>2
  <2> QED BY <1>2, <1>6, <2>1, OrderedWiden
<1>b. ASSUME NEW lo \in Nat, Ordered(queue, lo, made)
      PROVE  Ordered(queue, lo, made')
  <2>1. made \in Int /\ made' \in Int /\ made <= made' /\ lo \in Int /\ lo <= lo
    BY <1>2
  <2> QED BY <1>2, <1>b, <2>1, OrderedWiden
<1>7. /\ wrote'.reply <= made' /\ wrote'.push <= made'
      /\ Ordered(queue', wrote'.push, made') /\ wrote'.reply \notin Nums(queue')
  BY <1>2, <1>3, <1>4, <1>b
<1>a. reader.held = NoFrame /\ state # "farewell"
  BY DEF Shape, Order
<1> HIDE DEF f
<1>8. CASE /\ reader' = [reader EXCEPT !.chunk = Tail(@), !.direct = Append(@, f)]
           /\ UNCHANGED <<lock, state>>
  <2> DEFINE d == Append(reader.direct, f)
  <2>1. reader'.direct = d /\ reader'.held = NoFrame
    <3>1. reader' = [pc |-> reader.pc, chunk |-> Tail(reader.chunk), direct |-> d,
                     held |-> reader.held]
      BY <1>8, ReaderRecord DEF Typed, ReaderType
    <3> QED BY <3>1, <1>a
  <2>2. Nums(d) = Nums(reader.direct) \cup {made + 1} /\ KindsOf(d) = KindsOf(reader.direct) \cup {"reply"}
    BY <1>1, <1>2, NumsAppend, KindsAppend
  <2>3. /\ Ordered(d, wrote.push, made') /\ Ordered(d, wrote.reply, made')
        /\ ItemOrder /\ writer.item # NoFrame /\ lock = "writer" /\ Alive =>
             Ordered(d, writer.item.n, made')
    BY <1>1, <1>2, <1>3, <1>5, OrderedAppend DEF ItemOrder
  <2> HIDE DEF d
  <2>4. Kinds'
    BY <1>4, <2>1, <2>2 DEF Order, Kinds
  <2>5. DirectOrder'
    BY <1>2, <1>3, <1>4, <1>5, <2>1, <2>2, <2>3 DEF DirectOrder
  <2>6. ItemOrder'
    <3>1. ASSUME writer.item # NoFrame
          PROVE  /\ wrote.push < writer.item.n /\ writer.item.n <= made'
                 /\ writer.item.n # wrote.reply
                 /\ Ordered(queue, writer.item.n, made')
                 /\ writer.item.n \notin Nums(d)
                 /\ (lock = "writer" /\ Alive) => Ordered(d, writer.item.n, made')
      BY <1>2, <1>5, <1>b, <2>2, <2>3, <3>1 DEF Order, ItemOrder
    <3> QED BY <1>4, <1>8, <2>1, <3>1 DEF ItemOrder, Alive
  <2>7. HeldOrder'
    BY <2>1 DEF HeldOrder
  <2> QED BY <1>4, <1>7, <1>8, <1>a, <2>4, <2>5, <2>6, <2>7 DEF Order
<1>9. CASE DirectSend(reader.chunk, reader.direct, f) /\ UNCHANGED state
  <2>1. /\ reader'.direct = reader.direct /\ reader'.held = f
        /\ lock' = "writer" => lock = "writer"
    BY <1>9 DEF DirectSend
  <2>2. Kinds'
    BY <1>4, <2>1 DEF Order, Kinds
  <2>3. DirectOrder'
    BY <1>2, <1>3, <1>4, <1>6, <2>1 DEF DirectOrder
  <2>4. ItemOrder'
    BY <1>2, <1>4, <1>5, <1>6, <1>b, <1>9, <2>1 DEF Order, ItemOrder, Alive
  <2>5. HeldOrder'
    BY <1>1, <1>2, <1>3, <1>4, <1>5, <2>1 DEF HeldOrder
  <2> QED BY <1>4, <1>7, <1>9, <1>a, <2>2, <2>3, <2>4, <2>5 DEF Order
<1>10. CASE /\ reader' = [reader EXCEPT !.pc = "exit", !.chunk = <<>>]
            /\ state' = (IF Open THEN "failed" ELSE state) /\ UNCHANGED lock
  <2>1. reader'.direct = reader.direct /\ reader'.held = reader.held
    BY <1>10, ReaderRecord DEF Typed, ReaderType
  <2>2. state' # "farewell" /\ (Alive' => Alive)
    BY <1>10, <1>a DEF Open, Alive
  <2> QED BY <1>2, <1>4, <1>10, <2>1, <2>2, QuietOrder
<1> QED BY <1>8, <1>9, <1>10 DEF TrioReply, f

(* Where the frames that wait stand, on either task of trio. *)
LEMMA Standing ==
    ASSUME Sound, Order
    PROVE  /\ wrote.reply \in Nat /\ wrote.push \in Nat /\ made \in Nat
           /\ queue \in Seq(FrameType) /\ reader.direct \in Seq(FrameType)
           /\ writer.item \in FrameType /\ writer.item.n \in Nat /\ reader.held.n \in Nat
           /\ wrote.reply <= made /\ wrote.push <= made
           /\ Ordered(queue, wrote.push, made) /\ wrote.reply \notin Nums(queue)
           /\ Ordered(reader.direct, wrote.push, made)
           /\ Ordered(reader.direct, wrote.reply, made)
           /\ Nums(queue) \cap Nums(reader.direct) = {}
BY Numbers DEF Sound, Order, DirectOrder

LEMMA ReaderSendsOrder ==
    ASSUME Sound, Sound', Order, ReaderSends
    PROVE  Order'
<1> USE DEF Sound
<1> DEFINE f == Head(reader.direct)
           rest == Tail(reader.direct)
<1>1. /\ Trio /\ Alive /\ Put(f) /\ reader.pc = "send"
      /\ UNCHANGED <<engine, made, queue, writer>> /\ Trio' /\ ~Asyncio'
  BY DEF ReaderSends, peer, Trio, Asyncio
<1>2. reader.direct # <<>> /\ reader.direct \in Seq(FrameType)
  BY <1>1, Standing DEF Shape, TrioShape
<1>3. /\ f \in FrameType /\ rest \in Seq(FrameType) /\ f.n \in Nat
      /\ wrote.push < f.n /\ wrote.reply < f.n /\ f.n <= made /\ Ordered(rest, f.n, made)
      /\ Nums(reader.direct) = Nums(rest) \cup {f.n} /\ f.n \notin Nums(rest)
  BY <1>2, Standing, OrderedTail
<1>4. f.kind = "reply" /\ KindsOf(rest) \subseteq {"reply"}
  BY <1>2, KindsTail DEF Order, Kinds
<1>5. wrote'.reply = f.n /\ wrote'.push = wrote.push
  BY <1>1, <1>3, <1>4, PutWrote DEF Typed
<1>6. \/ /\ rest # <<>> /\ reader' = [reader EXCEPT !.direct = rest] /\ UNCHANGED <<lock, state>>
      \/ /\ rest = <<>> /\ reader'.direct = rest /\ reader'.held = NoFrame
         /\ state' \in {state, "failed"}
  <2>1. CASE rest # <<>>
    BY <2>1 DEF ReaderSends
  <2>2. CASE rest = <<>>
    <3>1. PICK p \in {"recv", "exit"} :
            reader' = [pc |-> p, chunk |-> <<>>, direct |-> <<>>, held |-> NoFrame]
      BY <2>2 DEF ReaderSends
    <3>2. state' \in {state, "failed"}
      BY <2>2 DEF ReaderSends
    <3> QED BY <2>2, <3>1, <3>2
  <2> QED BY <2>1, <2>2
<1>7. reader'.direct = rest /\ reader'.held \in {reader.held, NoFrame}
  BY <1>6 DEF Typed, ReaderType
<1>8. (lock' = "writer" /\ Alive') => rest = <<>>
  BY <1>1, <1>6 DEF Shape, TrioShape
<1>a. state' # "farewell"
  BY <1>1, <1>6 DEF Alive
<1> HIDE DEF f, rest
<1>9. Kinds'
  BY <1>1, <1>4, <1>7 DEF Order, Kinds
<1>10. /\ wrote'.reply <= made' /\ wrote'.push <= made'
       /\ Ordered(queue', wrote'.push, made') /\ wrote'.reply \notin Nums(queue')
  BY <1>1, <1>3, <1>5, Standing
<1>11. DirectOrder'
  <2>1. Ordered(rest, wrote.push, made)
    BY <1>3, Standing, OrderedWiden
  <2> QED BY <1>1, <1>3, <1>5, <1>7, <2>1, Standing DEF DirectOrder
<1>12. ItemOrder'
  <2>1. ASSUME writer.item # NoFrame
        PROVE  /\ wrote.push < writer.item.n /\ writer.item.n <= made
               /\ Ordered(queue, writer.item.n, made) /\ writer.item.n \notin Nums(rest)
               /\ writer.item.n # f.n
    BY <1>3, <2>1 DEF Order, ItemOrder
  <2>2. (lock' = "writer" /\ Alive') => Ordered(rest, writer.item.n, made)
    BY <1>8, OrderedEmpty
  <2> QED BY <1>1, <1>5, <1>7, <2>1, <2>2 DEF ItemOrder
<1>13. HeldOrder'
  BY <1>1, <1>3, <1>5, <1>7 DEF Order, HeldOrder
<1> QED BY <1>1, <1>9, <1>a, <1>10, <1>11, <1>12, <1>13 DEF Order

LEMMA WriterSendsOrder ==
    ASSUME Sound, Sound', Order, WriterSends
    PROVE  Order'
<1> USE DEF Sound
<1>1. /\ Trio /\ Alive /\ Put(writer.item) /\ writer.pc = "send" /\ LoopFree
      /\ UNCHANGED <<engine, made, state, reader>> /\ Trio' /\ ~Asyncio'
  BY DEF WriterSends, peer, Trio, Asyncio
<1> DEFINE n == writer.item.n
<1>2. /\ writer.item # NoFrame /\ lock = "writer" /\ writer.item.kind = "push"
  BY <1>1 DEF Shape, TrioShape, Order, Kinds
<1>3. /\ n \in Nat /\ wrote.push < n /\ n <= made /\ n # wrote.reply
      /\ Ordered(queue, n, made) /\ n \notin Nums(reader.direct)
      /\ Ordered(reader.direct, n, made)
  BY <1>1, <1>2, Standing DEF Order, ItemOrder
<1>4. wrote'.push = n /\ wrote'.reply = wrote.reply
  BY <1>1, <1>2, Standing, PutWrote DEF Typed
<1>5. state' # "farewell" /\ wrote'.reply <= made' /\ wrote'.push <= made'
  BY <1>1, <1>3, <1>4, Standing DEF Alive
<1>6. reader.held # NoFrame => reader.held.n # n
  BY <1>2 DEF Order, HeldOrder
<1> HIDE DEF n
<1>7. CASE queue # <<>>
  <2> DEFINE f == Head(queue)
             rest == Tail(queue)
  <2>1. /\ writer'.item = f /\ queue' = rest
        /\ lock' = IF Waiting("reader") THEN "reader" ELSE "writer"
    BY <1>7 DEF WriterSends
  <2>2. /\ f \in FrameType /\ rest \in Seq(FrameType) /\ f.n \in Nat
        /\ n < f.n /\ f.n <= made /\ Ordered(rest, f.n, made)
        /\ Nums(queue) = Nums(rest) \cup {f.n} /\ f.n \notin Nums(rest)
    BY <1>3, <1>7, Standing, OrderedTail
  <2>3. f.kind = "push" /\ KindsOf(rest) \subseteq {"push"}
    BY <1>1, <1>7, Standing, KindsTail DEF Order, Kinds
  <2>4. lock' = "writer" => reader.direct = <<>>
    BY <1>1, <1>2, <2>1 DEF Waiting, LoopFree, Shape, TrioShape, Typed, ReaderType
  <2> HIDE DEF f, rest
  <2>5. Ordered(rest, n, made)
    BY <1>3, <2>2, Standing, OrderedWiden
  <2>6. Kinds'
    BY <1>1, <2>1, <2>3 DEF Order, Kinds
  <2>7. Ordered(queue', wrote'.push, made') /\ wrote'.reply \notin Nums(queue')
    BY <1>1, <1>4, <2>1, <2>2, <2>5, Standing
  <2>8. DirectOrder'
    BY <1>1, <1>3, <1>4, <2>1, <2>2, Standing DEF DirectOrder
  <2>9. ItemOrder'
    <3>1. f.n # wrote.reply /\ f.n \notin Nums(reader.direct)
      BY <2>2, Standing
    <3> QED BY <1>1, <1>4, <2>1, <2>2, <2>4, <3>1, OrderedEmpty DEF ItemOrder
  <2>10. HeldOrder'
    BY <1>1, <1>4, <1>6, <2>1, <2>2 DEF Order, HeldOrder
  <2> QED BY <1>1, <1>5, <2>6, <2>7, <2>8, <2>9, <2>10 DEF Order
<1>8. CASE queue = <<>>
  <2>1. writer'.item = NoFrame /\ queue' = queue
    BY <1>8 DEF WriterSends
  <2>2. Kinds'
    BY <1>1, <2>1 DEF Order, Kinds
  <2>3. Ordered(queue', wrote'.push, made') /\ wrote'.reply \notin Nums(queue')
    BY <1>8, <2>1, OrderedEmpty
  <2>4. DirectOrder'
    BY <1>1, <1>3, <1>4, <2>1, Standing DEF DirectOrder
  <2>5. ItemOrder' /\ HeldOrder'
    BY <1>1, <1>4, <1>6, <2>1 DEF Order, ItemOrder, HeldOrder
  <2> QED BY <1>1, <1>5, <2>2, <2>3, <2>4, <2>5 DEF Order
<1> QED BY <1>7, <1>8

LEMMA FarewellOrder ==
    ASSUME Sound, Sound', Order, Farewell
    PROVE  Order'
<1> USE DEF Sound
<1>1. /\ state' = "done" /\ made' = made + 1
      /\ UNCHANGED <<engine, reader, queue, writer, lock>>
      /\ reader.direct = <<>> /\ reader.held = NoFrame /\ writer.item = NoFrame
  BY DEF Farewell, peer, tasks, Order
<1>2. wrote'.reply \in {wrote.reply, made + 1} /\ wrote'.push = wrote.push
  <2>1. CASE Put(Frame("reply"))
    BY <2>1, FrameTypes, PutWrote DEF Typed
  <2>2. CASE UNCHANGED wrote
    BY <2>2
  <2> QED BY <2>1, <2>2 DEF Farewell, socket
<1>3. Trio /\ Trio' /\ ~Asyncio'
  BY <1>1 DEF Farewell, Shape, AsyncioShape, Trio, Asyncio, Typed
<1>4. wrote'.reply <= made' /\ wrote'.push <= made'
  BY <1>1, <1>2, Standing
<1>5. Ordered(queue', wrote'.push, made')
  BY <1>1, <1>2, Standing, OrderedWiden
<1>6. wrote'.reply \notin Nums(queue')
  BY <1>1, <1>2, Standing DEF Ordered
<1>7. Kinds' /\ DirectOrder' /\ ItemOrder' /\ HeldOrder'
  BY <1>1, <1>3, OrderedEmpty DEF Order, Kinds, DirectOrder, ItemOrder, HeldOrder
<1> QED BY <1>1, <1>3, <1>4, <1>5, <1>6, <1>7 DEF Order

(* Steps that put no frame out and produce none. *)
LEMMA QuietSteps ==
    ASSUME Sound, Sound', Order,
           \/ ClientRead \/ ClientStalls \/ ClientCloses \/ ClientResets \/ EndOfFile \/ ChunkDone \/ Poll
           \/ ReaderLocks \/ ReaderBroken \/ WriterLocks \/ WriterEnds \/ Finish \/ UNCHANGED vars
    PROVE  Order'
<1> USE DEF Sound
<1>1. UNCHANGED <<engine, wrote, made>> /\ made' >= made
  <2>1. UNCHANGED <<engine, wrote, made>>
    <3>1. CASE ClientRead \/ ClientStalls \/ ClientCloses \/ ClientResets
      BY <3>1 DEF ClientRead, ClientStalls, ClientCloses, ClientResets, peer, socket, server
    <3>2. CASE EndOfFile \/ ChunkDone \/ Poll
      BY <3>2 DEF EndOfFile, ChunkDone, AsyncioChunkDone, TrioChunkDone, Poll, peer, socket
    <3>3. CASE ReaderLocks \/ ReaderBroken \/ WriterLocks \/ WriterEnds
      BY <3>3 DEF ReaderLocks, ReaderBroken, WriterLocks, WriterEnds, peer, socket
    <3>4. CASE Finish \/ UNCHANGED vars
      BY <3>4 DEF Finish, vars, peer, socket
    <3> QED BY <3>1, <3>2, <3>3, <3>4
  <2> QED BY <2>1, Standing
<1>2. CASE ClientRead \/ ClientStalls \/ ClientCloses \/ ClientResets \/ Poll \/ UNCHANGED vars
  <2>1. UNCHANGED <<reader, queue, writer, lock, state>>
    BY <1>2 DEF ClientRead, ClientStalls, ClientCloses, ClientResets, Poll, vars, server, tasks
  <2> QED BY <1>1, <2>1, QuietOrder DEF Alive, Order
<1>3. CASE Finish
  <2>1. /\ state' = "done" /\ reader'.direct = <<>> /\ reader'.held = NoFrame /\ queue' = <<>>
        /\ writer'.item = NoFrame
    BY <1>3 DEF Finish
  <2> QED BY <1>1, <2>1, QuietOrder
<1>4. CASE EndOfFile \/ (ChunkDone /\ Asyncio)
  <2>1. /\ reader'.direct = reader.direct /\ reader'.held = reader.held
        /\ UNCHANGED <<queue, writer, lock>> /\ state' # "farewell" /\ (Alive' => Alive)
    BY <1>4 DEF EndOfFile, ChunkDone, AsyncioChunkDone, Asyncio, Trio, tasks, Open, Alive, Order,
       Typed, ReaderType
  <2> QED BY <1>1, <2>1, QuietOrder
<1>5. CASE ChunkDone /\ ~Asyncio
  <2>1. TrioChunkDone /\ reader.pc = "run"
    BY <1>5 DEF ChunkDone
  <2>2. reader'.direct = reader.direct /\ reader'.held \in {reader.held, NoFrame}
    BY <2>1 DEF TrioChunkDone, DirectSend, Typed, ReaderType
  <2>3. /\ UNCHANGED <<queue, writer, state>> /\ (lock' = "writer" => lock = "writer")
        /\ state # "farewell"
    BY <2>1 DEF TrioChunkDone, DirectSend, Order
  <2> QED BY <1>1, <2>2, <2>3, QuietOrder DEF Alive
<1>6. CASE ReaderLocks \/ ReaderBroken
  <2>1. /\ reader'.direct \in {reader.direct, <<>>} /\ reader'.held \in {reader.held, NoFrame}
        /\ UNCHANGED <<queue, writer, state>> /\ Alive
        /\ (lock' = "writer" => reader'.direct = <<>>)
    BY <1>6 DEF ReaderLocks, ReaderBroken, Typed, ReaderType
  <2> QED BY <1>1, <2>1, QuietOrder DEF Alive
<1>7. CASE WriterLocks
  <2>1. /\ writer'.item = writer.item /\ UNCHANGED <<queue, reader, state>> /\ Alive /\ Trio
        /\ lock \in {"free", "writer"} /\ reader.pc # "run"
    BY <1>7 DEF WriterLocks, LoopFree, Typed, WriterType
  <2>2. lock = "free" => reader.direct = <<>>
    BY <2>1 DEF Shape, TrioShape, Typed, ReaderType
  <2> QED BY <1>1, <2>1, <2>2, QuietOrder DEF Alive
<1>8. CASE WriterEnds
  <2>1. /\ writer'.item = NoFrame /\ UNCHANGED <<queue, reader, state>> /\ Alive
        /\ lock' # "writer"
    BY <1>8 DEF WriterEnds, Released
  <2> QED BY <1>1, <2>1, QuietOrder DEF Alive
<1> QED BY <1>2, <1>3, <1>4, <1>5, <1>6, <1>7, <1>8

LEMMA StepOrder ==
    ASSUME Sound, Sound', Order, [Next]_vars
    PROVE  Order'
<1> USE DEF Sound
<1>1. CASE Client
  <2>1. CASE \E chunk \in Chunks : Receive(chunk)
    <3>1. PICK chunk \in Chunks : Receive(chunk)
      BY <2>1
    <3>2. CASE Malformed(chunk) /\ Asyncio
      <4>1. Write(Frame("reply")) /\ made' = made + 1 /\ UNCHANGED engine
        BY <3>1, <3>2 DEF Receive, ProtocolError
      <4> QED BY <3>2, <4>1, WriteOrder
    <3>3. CASE ~(Malformed(chunk) /\ Asyncio)
      <4>1. /\ UNCHANGED <<engine, wrote, made, queue, writer, lock>> /\ Open
            /\ state' \in {state, "closing"}
        BY <3>1, <3>3 DEF Receive, ProtocolError, socket, tasks
      <4>2. reader' = [reader EXCEPT !.pc = "run", !.chunk = chunk]
            \/ reader' = [reader EXCEPT !.pc = "exit"]
        BY <3>1, <3>3 DEF Receive, ProtocolError
      <4>3. reader'.direct = reader.direct /\ reader'.held = reader.held
        BY <4>2, ReaderRecord DEF Typed, ReaderType
      <4> QED BY <4>1, <4>3, QuietOrder, Standing DEF Open, Alive
    <3> QED BY <3>2, <3>3
  <2> QED BY <1>1, <2>1, QuietSteps DEF Client
<1>2. CASE Publish
  <2>1. UNCHANGED <<engine, reader>>
    BY <1>2 DEF Publish, peer
  <2>2. CASE Trio /\ state = "closing"
    <3>1. UNCHANGED <<made, wrote, state, queue, writer, lock>>
      BY <1>2, <2>2 DEF Publish, socket, tasks
    <3> QED BY <2>1, <2>2, <3>1, QuietOrder, Standing DEF Alive
  <2>3. CASE ~(Trio /\ state = "closing")
    <3>1. made' = made + 1 /\ (AsyncioPush(Frame("push")) \/ TrioPush(Frame("push")))
      BY <1>2, <2>3 DEF Publish
    <3> QED BY <2>1, <3>1, WriteOrder, TrioPushOrder DEF AsyncioPush
  <2> QED BY <2>2, <2>3
<1>3. CASE Dispatch
  <2>1. /\ UNCHANGED engine /\ made' = made + 1 /\ reader.pc = "run"
    BY <1>3 DEF Dispatch, peer
  <2>2. CASE Head(reader.chunk) = "command"
    <3>1. (Asyncio /\ Write(Frame("reply"))) \/ TrioReply(Frame("reply"))
      BY <1>3, <2>2 DEF Dispatch
    <3> QED BY <2>1, <3>1, WriteOrder, TrioReplyOrder
  <2>3. CASE Head(reader.chunk) # "command"
    <3>1. /\ AsyncioPush(Frame("push")) \/ TrioPush(Frame("push"))
          /\ reader' = [reader EXCEPT !.chunk = Tail(@)]
      BY <1>3, <2>3 DEF Dispatch
    <3>2. /\ reader'.pc = reader.pc /\ reader'.direct = reader.direct /\ reader'.held = reader.held
      BY <3>1 DEF Typed, ReaderType
    <3> QED BY <2>1, <3>1, <3>2, WriteOrder, TrioPushOrder DEF AsyncioPush
  <2> QED BY <2>2, <2>3
<1>4. CASE EndOfFile \/ ChunkDone \/ Poll \/ UNCHANGED vars
  BY <1>4, QuietSteps
<1>5. CASE Drain
  BY <1>5, DrainOrder
<1>6. CASE Reading
  BY <1>6, QuietSteps, ReaderSendsOrder DEF Reading
<1>7. CASE Writing
  BY <1>7, QuietSteps, WriterSendsOrder DEF Writing
<1>8. CASE Ending
  <2>1. CASE NurseryEnds /\ ~Finish
    <3>1. /\ reader.pc = "exit" /\ writer.pc = "done" /\ Trio /\ Alive /\ state' = "farewell"
          /\ UNCHANGED <<engine, wrote, made, reader, queue, writer, lock>>
      BY <2>1 DEF NurseryEnds, peer, socket, tasks
    <3>2. reader.direct = <<>> /\ writer.item = NoFrame /\ reader.held = NoFrame
      BY <3>1 DEF Shape, TrioShape
    <3> QED BY <3>1, <3>2, QuietOrder, Standing
  <2> QED BY <1>8, <2>1, QuietSteps, FarewellOrder DEF Ending, Unwind, Lost
<1> QED BY <1>1, <1>2, <1>3, <1>4, <1>5, <1>6, <1>7, <1>8 DEF Next, Chunk

-----------------------------------------------------------------------------
(* A frame goes out behind those it must not overtake. *)
InOrder ==
    /\ ReplySent => wrote'.reply > wrote.reply /\ wrote'.reply > wrote.push
    /\ PushSent => wrote'.push > wrote.push
    /\ PushSent /\ Asyncio => wrote'.push > wrote.reply

LEMMA PutInOrder ==
    ASSUME Sound, NEW f \in FrameType, f.kind \in {"reply", "push"}, Put(f),
           wrote.push < f.n, f.kind = "reply" \/ Asyncio => wrote.reply < f.n
    PROVE  InOrder
<1>1. wrote.reply \in Nat /\ wrote.push \in Nat /\ f.n \in Nat
  BY Numbers DEF Sound, FrameType
<1>2. \/ wrote'.reply = f.n /\ wrote'.push = wrote.push /\ f.kind = "reply"
      \/ wrote'.push = f.n /\ wrote'.reply = wrote.reply
  BY PutWrote DEF Sound, Typed
<1> QED BY <1>1, <1>2 DEF InOrder, ReplySent, PushSent

LEMMA WriteInOrder ==
    ASSUME Sound, Order, NEW kind \in {"reply", "push"}, Write(Frame(kind))
    PROVE  InOrder
<1>1. /\ Frame(kind) \in FrameType /\ Frame(kind).n = made + 1 /\ Frame(kind).kind = kind
      /\ wrote.push < made + 1 /\ wrote.reply < made + 1
  BY Standing, FrameTypes
<1>2. CASE Put(Frame(kind))
  BY <1>1, <1>2, PutInOrder
<1>3. CASE UNCHANGED wrote
  BY <1>3 DEF InOrder, ReplySent, PushSent
<1> QED BY <1>2, <1>3 DEF Write, socket

LEMMA StepInOrder ==
    ASSUME Sound, Order, [Next]_vars
    PROVE  InOrder
<1> USE DEF Sound
<1>1. CASE UNCHANGED wrote
  BY <1>1 DEF InOrder, ReplySent, PushSent
<1>2. CASE Client
  <2>1. CASE \E chunk \in Chunks : Receive(chunk)
    BY <1>1, <2>1, WriteInOrder DEF Receive, ProtocolError, socket
  <2> QED BY <1>1, <1>2, <2>1 DEF Client, ClientRead, ClientStalls, ClientCloses, ClientResets, socket
<1>3. CASE Publish
  BY <1>1, <1>3, WriteInOrder DEF Publish, AsyncioPush, TrioPush, socket
<1>4. CASE Dispatch
  BY <1>1, <1>4, WriteInOrder DEF Dispatch, AsyncioPush, TrioPush, TrioReply, socket
<1>5. CASE Drain
  <2>1. Put(Head(queue)) /\ queue # <<>> /\ Asyncio
    BY <1>5 DEF Drain
  <2>2. Ordered(queue, wrote.push, made) /\ Ordered(queue, wrote.reply, made)
    BY <2>1 DEF Order
  <2>3. Head(queue) \in FrameType /\ wrote.push < Head(queue).n /\ wrote.reply < Head(queue).n
    BY <2>1, <2>2, Standing, OrderedTail
  <2>4. Head(queue).kind \in {"reply", "push"}
    BY <2>1, Standing, KindsTail DEF Order, Kinds
  <2> QED BY <2>1, <2>3, <2>4, PutInOrder
<1>6. CASE ReaderSends
  <2>1. Put(Head(reader.direct)) /\ reader.direct # <<>>
    BY <1>6 DEF ReaderSends, Shape, TrioShape
  <2>2. /\ Head(reader.direct) \in FrameType
        /\ wrote.push < Head(reader.direct).n /\ wrote.reply < Head(reader.direct).n
    BY <2>1, Standing, OrderedTail
  <2>3. Head(reader.direct).kind = "reply"
    BY <2>1, Standing, KindsTail DEF Order, Kinds
  <2> QED BY <2>1, <2>2, <2>3, PutInOrder
<1>7. CASE WriterSends
  <2>1. Put(writer.item) /\ writer.item # NoFrame /\ Trio
    BY <1>7 DEF WriterSends, Shape
  <2>2. wrote.push < writer.item.n /\ writer.item.kind = "push" /\ ~Asyncio
    BY <2>1 DEF Order, ItemOrder, Kinds, Trio, Asyncio
  <2> QED BY <2>1, <2>2, Standing, PutInOrder
<1>8. CASE Farewell
  <2>1. CASE Put(Frame("reply"))
    <3>1. /\ Frame("reply") \in FrameType /\ Frame("reply").n = made + 1
          /\ Frame("reply").kind = "reply" /\ wrote.push < made + 1 /\ wrote.reply < made + 1
      BY Standing, FrameTypes
    <3> QED BY <2>1, <3>1, PutInOrder
  <2> QED BY <1>1, <1>8, <2>1 DEF Farewell, socket
<1>9. CASE \/ EndOfFile \/ ChunkDone \/ Poll \/ ReaderLocks \/ ReaderBroken \/ WriterLocks
           \/ WriterEnds \/ NurseryEnds \/ Unwind \/ Lost \/ UNCHANGED vars
  BY <1>1, <1>9 DEF EndOfFile, ChunkDone, AsyncioChunkDone, TrioChunkDone, Poll, ReaderLocks,
     ReaderBroken, WriterLocks, WriterEnds, NurseryEnds, Unwind, Lost, Finish, vars, socket
<1> QED BY <1>2, <1>3, <1>4, <1>5, <1>6, <1>7, <1>8, <1>9 DEF Next, Chunk, Reading, Writing, Ending

-----------------------------------------------------------------------------
(* The reply that is held answers the first request of what is left of the *)
(* chunk.                                                                  *)
HeldMidChunk == reader.held # NoFrame => reader.chunk # <<>>

LEMMA StepMidChunk ==
    ASSUME Sound, HeldMidChunk, [Next]_vars
    PROVE  HeldMidChunk'
<1> USE DEF Sound
<1>1. CASE UNCHANGED reader
  BY <1>1 DEF HeldMidChunk
<1>2. CASE reader'.held = NoFrame
  BY <1>2 DEF HeldMidChunk
<1>3. CASE reader'.held = reader.held /\ reader'.chunk = reader.chunk
  BY <1>3 DEF HeldMidChunk
<1>4. CASE Client
  <2>1. CASE \E chunk \in Chunks : Receive(chunk)
    <3>1. PICK chunk \in Chunks : Receive(chunk)
      BY <2>1
    <3>2. /\ reader.pc = "recv"
          /\ \/ UNCHANGED reader
             \/ reader' = [reader EXCEPT !.pc = "run", !.chunk = chunk]
             \/ reader' = [reader EXCEPT !.pc = "exit"]
      BY <3>1 DEF Receive, ProtocolError
    <3>3. reader.held = NoFrame
      BY <3>2 DEF Shape
    <3>4. reader'.held = reader.held
      BY <3>2 DEF Typed, ReaderType
    <3> QED BY <1>2, <3>3, <3>4
  <2> QED BY <1>1, <1>4, <2>1 DEF Client, ClientRead, ClientStalls, ClientCloses, ClientResets, server
<1>5. CASE Dispatch
  <2>1. reader.pc = "run" /\ reader.chunk # <<>> /\ reader.held = NoFrame
    BY <1>5 DEF Dispatch, Shape
  <2>2. CASE /\ Head(reader.chunk) = "command" /\ TrioReply(Frame("reply"))
    <3>1. CASE ~subscribed
      <4>1. reader' = [reader EXCEPT !.chunk = Tail(@), !.direct = Append(@, Frame("reply"))]
        BY <2>2, <3>1 DEF TrioReply
      <4>2. reader'.held = reader.held
        BY <4>1 DEF Typed, ReaderType
      <4> QED BY <1>2, <2>1, <4>2
    <3>2. CASE DirectSend(reader.chunk, reader.direct, Frame("reply"))
      BY <2>1, <3>2 DEF DirectSend, HeldMidChunk
    <3>3. CASE reader' = [reader EXCEPT !.pc = "exit", !.chunk = <<>>]
      <4>1. reader'.held = reader.held
        BY <3>3 DEF Typed, ReaderType
      <4> QED BY <1>2, <2>1, <4>1
    <3> QED BY <2>2, <3>1, <3>2, <3>3 DEF TrioReply
  <2>3. CASE reader' = [reader EXCEPT !.chunk = Tail(@)]
    <3>1. reader'.held = reader.held
      BY <2>3 DEF Typed, ReaderType
    <3> QED BY <1>2, <2>1, <3>1
  <2> QED BY <1>5, <2>2, <2>3 DEF Dispatch
<1>6. CASE EndOfFile \/ ChunkDone \/ ReaderLocks
  <2>1. UNCHANGED reader \/ (\E p \in {"exit", "recv", "send"} : reader' = [reader EXCEPT !.pc = p])
        \/ DirectSend(<<>>, reader.direct, NoFrame)
    BY <1>6 DEF EndOfFile, ChunkDone, AsyncioChunkDone, TrioChunkDone, ReaderLocks
  <2>2. CASE DirectSend(<<>>, reader.direct, NoFrame)
    BY <1>2, <2>2 DEF DirectSend
  <2>3. CASE \E p \in {"exit", "recv", "send"} : reader' = [reader EXCEPT !.pc = p]
    <3>1. reader'.held = reader.held /\ reader'.chunk = reader.chunk
      BY <2>3 DEF Typed, ReaderType
    <3> QED BY <1>3, <3>1
  <2> QED BY <1>1, <2>1, <2>2, <2>3
<1>7. CASE ReaderSends \/ ReaderBroken
  <2>1. CASE reader' = [reader EXCEPT !.direct = Tail(reader.direct)]
    <3>1. reader'.held = reader.held /\ reader'.chunk = reader.chunk
      BY <2>1 DEF Typed, ReaderType
    <3> QED BY <1>3, <3>1
  <2>2. CASE reader'.held = NoFrame
    BY <1>2, <2>2
  <2> QED BY <1>7, <2>1, <2>2 DEF ReaderSends, ReaderBroken
<1>8. CASE Unwind \/ Lost \/ NurseryEnds
  BY <1>1, <1>2, <1>8 DEF Unwind, Lost, NurseryEnds, Finish
<1>9. CASE Publish \/ Poll \/ Drain \/ Writing \/ Farewell \/ UNCHANGED vars
  BY <1>1, <1>9 DEF Publish, Poll, Drain, Writing, WriterLocks, WriterSends, WriterEnds, Farewell, vars
<1> QED BY <1>4, <1>5, <1>6, <1>7, <1>8, <1>9 DEF Next, Chunk, Reading, Ending

(* What waits is what was produced and is not on the socket. *)
Counted == (Open /\ client.open) => wrote.count + Cardinality(Pending) = made

LEMMA PendingNums == Pending = Nums(queue) \cup Nums(reader.direct)
                               \cup ({writer.item.n, reader.held.n} \ {0})
BY DEF Pending, Nums

LEMMA PendingBounded ==
    ASSUME Sound, Order
    PROVE  /\ Pending \subseteq 1 .. made /\ IsFiniteSet(Pending)
           /\ Cardinality(Pending) \in Nat
           /\ \A n \in Pending : n <= made /\ n \notin {wrote.reply, wrote.push}
<1>1. /\ \A n \in Nums(queue) : n \in Nat /\ wrote.push < n /\ n <= made /\ n # wrote.reply
      /\ \A n \in Nums(reader.direct) :
            n \in Nat /\ wrote.push < n /\ n <= made /\ wrote.reply < n
  BY Standing, NumsNat DEF Ordered
<1>2. writer.item.n # 0 => /\ writer.item.n \in Nat /\ wrote.push < writer.item.n
                           /\ writer.item.n <= made /\ writer.item.n # wrote.reply
  <2>1. writer.item.n # 0 => writer.item # NoFrame
    BY DEF NoFrame
  <2> QED BY <2>1, Standing DEF Order, ItemOrder
<1>3. reader.held.n # 0 => /\ reader.held.n \in Nat /\ wrote.reply < reader.held.n
                           /\ reader.held.n <= made /\ reader.held.n # wrote.push
  <2>1. reader.held.n # 0 => reader.held # NoFrame
    BY DEF NoFrame
  <2> QED BY <2>1, Standing DEF Order, HeldOrder
<1>4. \A n \in Pending : n \in 1 .. made /\ n \notin {wrote.reply, wrote.push}
  BY <1>1, <1>2, <1>3, Standing, PendingNums
<1>5. IsFiniteSet(1 .. made)
  BY Standing, FS_Interval
<1>6. IsFiniteSet(Pending)
  BY <1>4, <1>5, FS_Subset
<1> QED BY <1>4, <1>6, Standing, FS_CardinalityType

(* One frame more waits, or goes out. *)
LEMMA CountUp ==
    ASSUME NEW P, IsFiniteSet(P), Cardinality(P) \in Nat, NEW n, n \notin P
    PROVE  Cardinality(P \cup {n}) = Cardinality(P) + 1
BY FS_AddElement

LEMMA Waits ==
    ASSUME Sound, Order, Counted, Open, client.open, UNCHANGED wrote, made' = made + 1,
           Pending' = Pending \cup {made + 1}
    PROVE  Counted'
<1>1. made + 1 \notin Pending
  BY Standing, PendingBounded
<1>2. Cardinality(Pending') = Cardinality(Pending) + 1
  BY <1>1, PendingBounded, CountUp
<1> QED BY <1>2, Standing, PendingBounded, Numbers DEF Counted, Sound

LEMMA Leaves ==
    ASSUME Sound, Order, Sound', Order', Counted, Open, client.open, wrote'.count = wrote.count + 1,
           UNCHANGED made, NEW n, n \notin Pending', Pending = Pending' \cup {n}
    PROVE  Counted'
<1>1. IsFiniteSet(Pending')
  BY PendingBounded, FS_Subset
<1>2. Cardinality(Pending) = Cardinality(Pending') + 1 /\ Cardinality(Pending') \in Nat
  BY <1>1, CountUp, FS_CardinalityType
<1>3. wrote.count \in Nat /\ made \in Nat
  BY Numbers DEF Sound
<1>4. wrote.count + Cardinality(Pending) = made
  BY DEF Counted
<1>5. wrote'.count + Cardinality(Pending') = made'
  BY <1>2, <1>3, <1>4
<1> QED BY <1>5 DEF Counted

LEMMA StaysCounted ==
    ASSUME Counted, Open' /\ client'.open => Open /\ client.open,
           wrote'.count = wrote.count, made' = made, Pending' = Pending
    PROVE  Counted'
BY DEF Counted

LEMMA WriteCounted ==
    ASSUME Sound, Order, Counted, Open, client.open, Asyncio, made' = made + 1,
           UNCHANGED writer, reader'.direct = reader.direct, reader'.held = reader.held,
           NEW kind \in {"reply", "push"}, Write(Frame(kind))
    PROVE  Counted'
<1>1. /\ Frame(kind) \in FrameType /\ Frame(kind).n = made + 1 /\ Frame(kind).kind # "none"
  BY FrameTypes DEF Sound, Typed
<1>2. CASE Put(Frame(kind)) /\ UNCHANGED queue
  <2>1. wrote'.count = wrote.count + 1
    BY <1>1, <1>2, PutWrote DEF Sound, Typed
  <2>2. Pending' = Pending
    BY <1>2 DEF Pending
  <2> QED BY <2>1, <2>2, Standing, PendingBounded, Numbers DEF Counted, Sound
<1>3. CASE queue' = Append(queue, Frame(kind)) /\ UNCHANGED socket
  <2>1. Nums(queue') = Nums(queue) \cup {made + 1}
    BY <1>1, <1>3, Standing, NumsAppend
  <2>2. Pending' = Pending \cup {made + 1}
    <3>1. Pending' = Nums(queue') \cup Nums(reader'.direct)
                        \cup ({writer'.item.n, reader'.held.n} \ {0})
      BY DEF Pending, Nums
    <3> QED BY <2>1, <3>1, PendingNums
  <2> QED BY <1>3, <2>2, Waits DEF socket
<1> QED BY <1>2, <1>3 DEF Write, Open

(* A connection that ends does not open again. *)
LEMMA StaysOpen ==
    ASSUME Sound, [Next]_vars
    PROVE  /\ Open' => Open
           /\ client'.open => client.open
<1>1. Open' => Open
  <2>1. state' = state \/ state' # "open"
    BY DEF Next, Client, ClientRead, ClientStalls, ClientCloses, ClientResets, Receive, ProtocolError, Publish,
       Chunk, EndOfFile, Dispatch, ChunkDone, AsyncioPush, TrioPush, TrioReply, AsyncioChunkDone,
       TrioChunkDone, Poll, Drain, Reading, ReaderLocks, ReaderSends, ReaderBroken, Writing,
       WriterLocks, WriterSends, WriterEnds, Ending, NurseryEnds, Farewell, Unwind, Lost, Finish,
       vars, server, Open
  <2> QED BY <2>1 DEF Open
<1>2. client'.open => client.open
  <2>1. CASE UNCHANGED client
    BY <2>1
  <2>2. CASE ClientStalls \/ ClientCloses \/ ClientResets
    BY <2>2 DEF ClientStalls, ClientCloses, ClientResets, Sound, Typed, ClientType
  <2>3. CASE \E chunk \in Chunks : Receive(chunk)
    BY <2>3 DEF Receive, Sound, Typed, ClientType
  <2> QED BY <2>1, <2>2, <2>3 DEF Next, Client, ClientRead, Publish,
       Chunk, EndOfFile, Dispatch, ChunkDone, AsyncioChunkDone,
       TrioChunkDone, Poll, Drain, Reading, ReaderLocks, ReaderSends, ReaderBroken, Writing,
       WriterLocks, WriterSends, WriterEnds, Ending, NurseryEnds, Farewell, Unwind, Lost, Finish,
       vars, peer
<1> QED BY <1>1, <1>2

LEMMA PendingThen ==
    Pending' = Nums(queue') \cup Nums(reader'.direct)
                 \cup ({writer'.item.n, reader'.held.n} \ {0})
BY DEF Pending, Nums

LEMMA TrioPushCounted ==
    ASSUME Sound, Order, Counted, Open, Open', client.open, TrioPush(Frame("push")),
           made' = made + 1, reader'.direct = reader.direct, reader'.held = reader.held
    PROVE  Counted'
<1>1. Frame("push") \in FrameType /\ Frame("push").n = made + 1 /\ made \in Nat
  BY Standing, FrameTypes
<1>2. UNCHANGED wrote /\ Trio /\ Alive
  BY DEF TrioPush, socket, Open, Alive
<1>3. CASE writer.pc = "wait" /\ writer' = [pc |-> "acquire", item |-> Frame("push")]
           /\ UNCHANGED queue
  <2>1. writer.item.n = 0 /\ writer'.item.n = made + 1
    BY <1>1, <1>3, FrameTypes DEF Sound, Shape, Typed
  <2>2. Pending' = Pending \cup {made + 1}
    BY <1>1, <1>3, <2>1, PendingNums, PendingThen
  <2> QED BY <1>2, <2>2, Waits
<1>4. CASE queue' = Append(queue, Frame("push")) /\ UNCHANGED writer
  <2>1. Nums(queue') = Nums(queue) \cup {made + 1}
    BY <1>1, <1>4, Standing, NumsAppend
  <2>2. Pending' = Pending \cup {made + 1}
    BY <1>4, <2>1, PendingNums, PendingThen
  <2> QED BY <1>2, <2>2, Waits
<1> QED BY <1>3, <1>4 DEF TrioPush, Open

LEMMA TrioReplyCounted ==
    ASSUME Sound, Order, Counted, Open, Open', client.open, TrioReply(Frame("reply")),
           made' = made + 1, reader.pc = "run"
    PROVE  Counted'
<1>1. Frame("reply") \in FrameType /\ Frame("reply").n = made + 1 /\ made \in Nat
  BY Standing, FrameTypes
<1>2. UNCHANGED <<wrote, queue, writer>>
  BY DEF TrioReply, socket
<1>3. reader.held.n = 0
  BY DEF Sound, Shape, NoFrame
<1>4. CASE reader' = [reader EXCEPT !.chunk = Tail(@), !.direct = Append(@, Frame("reply"))]
  <2>1. /\ reader'.direct = Append(reader.direct, Frame("reply")) /\ reader'.held = reader.held
    BY <1>4 DEF Sound, Typed, ReaderType
  <2>2. Nums(reader'.direct) = Nums(reader.direct) \cup {made + 1}
    BY <1>1, <2>1, Standing, NumsAppend
  <2>3. Pending' = Pending \cup {made + 1}
    BY <1>2, <2>1, <2>2, PendingNums, PendingThen
  <2> QED BY <1>2, <2>3, Waits
<1>5. CASE DirectSend(reader.chunk, reader.direct, Frame("reply"))
  <2>1. reader'.direct = reader.direct /\ reader'.held.n = made + 1
    BY <1>1, <1>5 DEF DirectSend
  <2>2. Pending' = Pending \cup {made + 1}
    BY <1>1, <1>2, <1>3, <2>1, PendingNums, PendingThen
  <2> QED BY <1>2, <2>2, Waits
<1> QED BY <1>4, <1>5 DEF TrioReply, Open

LEMMA DrainCounted ==
    ASSUME Sound, Order, Sound', Order', Counted, Open, client.open, Drain
    PROVE  Counted'
<1>1. /\ Put(Head(queue)) /\ queue' = Tail(queue) /\ queue # <<>> /\ Asyncio
      /\ UNCHANGED <<made, reader, writer>>
  BY DEF Drain, tasks
<1>2. /\ reader.direct = <<>> /\ reader.held.n = 0 /\ writer.item.n = 0
  BY <1>1 DEF Sound, Shape, AsyncioShape, NoFrame
<1>3. /\ Head(queue) \in FrameType /\ Head(queue).n \in Nat
      /\ Nums(queue) = Nums(Tail(queue)) \cup {Head(queue).n}
      /\ Head(queue).n \notin Nums(Tail(queue))
  BY <1>1, Standing, OrderedTail
<1>4. Head(queue).kind \in {"reply", "push"}
  <2>1. Head(queue).kind \in KindsOf(queue)
    BY <1>1, Standing, KindsTail
  <2> QED BY <2>1 DEF Order, Kinds
<1>5. wrote'.count = wrote.count + 1
  BY <1>1, <1>3, <1>4, PutWrote DEF Sound, Typed
<1>6. Pending = Nums(queue) /\ Pending' = Nums(Tail(queue))
  BY <1>1, <1>2, PendingNums, PendingThen, OrderedEmpty
<1> QED BY <1>1, <1>3, <1>5, <1>6, Leaves

LEMMA ReaderSendsCounted ==
    ASSUME Sound, Order, Sound', Order', HeldMidChunk, Counted, Open, Open', client.open,
           ReaderSends
    PROVE  Counted'
<1> DEFINE f == Head(reader.direct)
           rest == Tail(reader.direct)
<1>1. /\ Put(f) /\ reader.direct # <<>> /\ UNCHANGED <<made, queue, writer>>
  BY DEF ReaderSends, Sound, Shape, TrioShape
<1>2. /\ f \in FrameType /\ f.n \in Nat /\ rest \in Seq(FrameType)
      /\ Nums(reader.direct) = Nums(rest) \cup {f.n} /\ f.n \notin Nums(rest)
      /\ wrote.reply < f.n
  BY <1>1, Standing, OrderedTail
<1>3. f.kind = "reply"
  <2>1. f.kind \in KindsOf(reader.direct)
    BY <1>1, Standing, KindsTail
  <2> QED BY <2>1 DEF Order, Kinds
<1>4. wrote'.count = wrote.count + 1
  BY <1>1, <1>2, <1>3, PutWrote DEF Sound, Typed
<1>5. reader'.direct = rest /\ reader'.held.n = reader.held.n
  <2>1. CASE rest # <<>>
    BY <2>1 DEF ReaderSends, Sound, Typed, ReaderType
  <2>2. CASE rest = <<>>
    <3>1. reader.chunk = <<>> /\ reader'.held = NoFrame /\ reader'.direct = <<>>
      BY <2>2 DEF ReaderSends, Open
    <3>2. reader.held = NoFrame
      BY <3>1 DEF HeldMidChunk
    <3> QED BY <2>2, <3>1, <3>2
  <2> QED BY <2>1, <2>2
<1>6. f.n \notin Nums(queue)
  BY <1>2, Standing
<1>7. writer.item.n # f.n
  <2>1. CASE writer.item = NoFrame
    BY <1>2, <2>1, Standing DEF NoFrame
  <2>2. CASE writer.item # NoFrame
    BY <1>2, <2>2 DEF Order, ItemOrder
  <2> QED BY <2>1, <2>2
<1>8. reader.held.n # f.n
  <2>1. CASE reader.held = NoFrame
    BY <1>2, <2>1, Standing DEF NoFrame
  <2>2. CASE reader.held # NoFrame
    BY <1>2, <2>2, Standing DEF Order, HeldOrder
  <2> QED BY <2>1, <2>2
<1>9. f.n # 0
  BY <1>2, Standing
<1> HIDE DEF f, rest
<1>10. f.n \notin Pending' /\ Pending = Pending' \cup {f.n}
  BY <1>1, <1>2, <1>5, <1>6, <1>7, <1>8, <1>9, PendingNums, PendingThen
<1> QED BY <1>1, <1>4, <1>10, Leaves

LEMMA WriterSendsCounted ==
    ASSUME Sound, Order, Sound', Order', Counted, Open, client.open, WriterSends
    PROVE  Counted'
<1> DEFINE n == writer.item.n
<1>1. /\ Put(writer.item) /\ writer.item # NoFrame /\ UNCHANGED <<made, reader>>
  BY DEF WriterSends, Sound, Shape
<1>2. /\ n \in Nat /\ wrote.push < n /\ Ordered(queue, n, made) /\ n \notin Nums(reader.direct)
  BY <1>1, Standing DEF Order, ItemOrder
<1>3. writer.item.kind = "push"
  BY <1>1 DEF Order, Kinds
<1>4. wrote'.count = wrote.count + 1
  BY <1>1, <1>3, Standing, PutWrote DEF Sound, Typed
<1>5. n # 0
  BY <1>2, Standing
<1>6. n \notin Nums(queue)
  BY <1>2 DEF Ordered
<1>7. reader.held.n # n
  <2>1. CASE reader.held = NoFrame
    BY <1>5, <2>1 DEF NoFrame
  <2>2. CASE reader.held # NoFrame
    BY <1>1, <2>2 DEF Order, HeldOrder
  <2> QED BY <2>1, <2>2
<1>8. Pending = Nums(queue) \cup Nums(reader.direct) \cup {n} \cup ({reader.held.n} \ {0})
  BY <1>5, PendingNums
<1>9. Pending' = Nums(queue) \cup Nums(reader.direct) \cup ({reader.held.n} \ {0})
  <2>1. CASE queue # <<>>
    <3>1. writer'.item = Head(queue) /\ queue' = Tail(queue)
      BY <2>1 DEF WriterSends
    <3>2. /\ Nums(queue) = Nums(Tail(queue)) \cup {Head(queue).n} /\ Head(queue).n # 0
      BY <1>2, <2>1, Standing, OrderedTail
    <3> QED BY <1>1, <3>1, <3>2, PendingThen
  <2>2. CASE queue = <<>>
    <3>1. writer'.item.n = 0 /\ queue' = queue
      BY <2>2 DEF WriterSends, NoFrame
    <3> QED BY <1>1, <3>1, PendingThen
  <2> QED BY <2>1, <2>2
<1> HIDE DEF n
<1>10. n \notin Pending' /\ Pending = Pending' \cup {n}
  BY <1>2, <1>5, <1>6, <1>7, <1>8, <1>9
<1> QED BY <1>1, <1>4, <1>10, Leaves

LEMMA StepCounted ==
    ASSUME Sound, Order, Sound', Order', HeldMidChunk, Counted, [Next]_vars
    PROVE  Counted'
<1> SUFFICES ASSUME Open', client'.open PROVE Counted'
  BY DEF Counted
<1>0. Open /\ client.open
  BY StaysOpen
<1>1. CASE Dispatch
  <2>1. made' = made + 1 /\ reader.pc = "run"
    BY <1>1 DEF Dispatch
  <2>2. CASE TrioReply(Frame("reply"))
    BY <1>0, <2>1, <2>2, TrioReplyCounted
  <2>3. CASE reader' = [reader EXCEPT !.chunk = Tail(@)]
    <3>1. reader'.direct = reader.direct /\ reader'.held = reader.held
      BY <2>3 DEF Sound, Typed, ReaderType
    <3>2. CASE TrioPush(Frame("push"))
      BY <1>0, <2>1, <3>1, <3>2, TrioPushCounted
    <3>3. CASE /\ Asyncio /\ UNCHANGED writer
               /\ Write(Frame("reply")) \/ Write(Frame("push"))
      BY <1>0, <2>1, <3>1, <3>3, WriteCounted
    <3> QED BY <1>1, <2>2, <3>2, <3>3 DEF Dispatch, AsyncioPush, tasks
  <2> QED BY <1>1, <2>2, <2>3 DEF Dispatch
<1>2. CASE Publish
  <2>1. UNCHANGED reader /\ made' = made + 1 /\ (AsyncioPush(Frame("push")) \/ TrioPush(Frame("push")))
    BY <1>0, <1>2 DEF Publish, Open
  <2> QED BY <1>0, <2>1, WriteCounted, TrioPushCounted DEF AsyncioPush, tasks
<1>3. CASE Drain
  BY <1>0, <1>3, DrainCounted
<1>4. CASE ReaderSends
  BY <1>0, <1>4, ReaderSendsCounted
<1>5. CASE WriterSends
  BY <1>0, <1>5, WriterSendsCounted
<1>6. CASE \E chunk \in Chunks : Receive(chunk)
  <2>1. PICK chunk \in Chunks : Receive(chunk)
    BY <1>6
  <2>2. /\ UNCHANGED <<wrote, made, queue, writer>>
        /\ reader' = [reader EXCEPT !.pc = "run", !.chunk = chunk]
    BY <2>1 DEF Receive, ProtocolError, socket, tasks, Open
  <2>3. reader'.direct = reader.direct /\ reader'.held = reader.held
    BY <2>2 DEF Sound, Typed, ReaderType
  <2>4. Pending' = Pending
    BY <2>2, <2>3 DEF Pending
  <2> QED BY <1>0, <2>2, <2>4, StaysCounted
<1>7. CASE ClientRead \/ ClientStalls \/ ClientCloses \/ ClientResets \/ Poll \/ UNCHANGED vars
  <2>1. UNCHANGED <<wrote, made, queue, reader, writer>>
    BY <1>7 DEF ClientRead, ClientStalls, ClientCloses, ClientResets, Poll, vars, socket, server, tasks
  <2>2. Pending' = Pending
    BY <2>1 DEF Pending
  <2> QED BY <1>0, <2>1, <2>2, StaysCounted
<1>8. CASE EndOfFile \/ ChunkDone \/ ReaderLocks
  <2>1. UNCHANGED <<wrote, made, queue, writer>>
    BY <1>8 DEF EndOfFile, ChunkDone, AsyncioChunkDone, TrioChunkDone, ReaderLocks, socket, tasks
  <2>2. reader'.direct = reader.direct /\ reader'.held = reader.held
    <3>1. CASE \E p \in {"exit", "recv", "send"} : reader' = [reader EXCEPT !.pc = p]
      BY <3>1 DEF Sound, Typed, ReaderType
    <3>2. CASE ChunkDone /\ DirectSend(<<>>, reader.direct, NoFrame)
      BY <3>2 DEF ChunkDone, DirectSend, Sound, Shape
    <3>3. CASE UNCHANGED reader
      BY <3>3
    <3> QED BY <1>8, <3>1, <3>2, <3>3 DEF EndOfFile, ChunkDone, AsyncioChunkDone, TrioChunkDone,
         ReaderLocks
  <2>3. Pending' = Pending
    BY <2>1, <2>2 DEF Pending
  <2> QED BY <1>0, <2>1, <2>3, StaysCounted
<1>9. CASE WriterLocks
  <2>1. /\ UNCHANGED <<wrote, made, queue, reader>>
        /\ writer'.item = writer.item
    BY <1>9 DEF WriterLocks, socket, Sound, Typed, WriterType
  <2>2. Pending' = Pending
    BY <2>1 DEF Pending
  <2> QED BY <1>0, <2>1, <2>2, StaysCounted
<1>10. ~(ReaderBroken \/ WriterEnds \/ Ending)
  BY <1>0 DEF ReaderBroken, WriterEnds, Ending, NurseryEnds, Farewell, Unwind, Lost, Finish, Open, Gone
<1> QED BY <1>1, <1>2, <1>3, <1>4, <1>5, <1>6, <1>7, <1>8, <1>9, <1>10
        DEF Next, Client, Chunk, Reading, Writing

LEMMA InitCounted == Init => Counted /\ HeldMidChunk
<1> SUFFICES ASSUME Init PROVE Counted /\ HeldMidChunk
  OBVIOUS
<1>1. /\ queue = <<>> /\ reader.direct = <<>> /\ reader.held = NoFrame /\ writer.item = NoFrame
      /\ wrote.count = 0 /\ made = 0
  BY DEF Init
<1>2. Pending = {}
  BY <1>1, PendingNums, OrderedEmpty DEF NoFrame
<1> QED BY <1>1, <1>2, FS_EmptySet DEF Counted, HeldMidChunk

-----------------------------------------------------------------------------
(* The replies that wait in the transport of asyncio. *)

Replies(q) == {i \in DOMAIN q : q[i].kind = "reply"}

Backlog ==
    Asyncio =>
      /\ Cardinality(Replies(queue)) <= HighWater + MaxChunk
      /\ (reader.pc = "recv" /\ ~paused) => Cardinality(Replies(queue)) <= HighWater
      /\ reader.pc = "run" =>
           Cardinality(Replies(queue)) + Len(reader.chunk) <= HighWater + MaxChunk

LEMMA RepliesCount ==
    ASSUME NEW q \in Seq(FrameType)
    PROVE  /\ IsFiniteSet(Replies(q)) /\ Cardinality(Replies(q)) \in Nat
           /\ Cardinality(Replies(q)) <= Len(q)
<1>1. Replies(q) \in SUBSET (1 .. Len(q)) /\ Len(q) \in Nat
  BY DEF Replies
<1> DEFINE n == Len(q)
<1> HIDE DEF n
<1>2. n \in Nat /\ n = Len(q)
  BY <1>1 DEF n
<1>3. IsFiniteSet(1 .. n) /\ Cardinality(1 .. n) = (IF 1 > n THEN 0 ELSE n - 1 + 1)
  <2>1. 1 \in Int /\ n \in Int
    BY <1>2
  <2> QED BY ONLY <2>1, FS_Interval
<1>4. Cardinality(1 .. n) = n
  BY <1>2, <1>3
<1> QED BY <1>1, <1>2, <1>3, <1>4, FS_Subset, FS_CardinalityType

LEMMA RepliesAppend ==
    ASSUME NEW q \in Seq(FrameType), NEW f \in FrameType
    PROVE  Cardinality(Replies(Append(q, f))) =
             Cardinality(Replies(q)) + (IF f.kind = "reply" THEN 1 ELSE 0)
<1> DEFINE p == Append(q, f)
           l == Len(q) + 1
<1>1. /\ DOMAIN p = DOMAIN q \cup {l} /\ l \notin DOMAIN q /\ p[l] = f
      /\ \A i \in DOMAIN q : p[i] = q[i]
  BY AppendEntries
<1> HIDE DEF p, l
<1>2. CASE f.kind = "reply"
  <2>1. Replies(p) = Replies(q) \cup {l} /\ l \notin Replies(q)
    BY <1>1, <1>2 DEF Replies
  <2>2. Cardinality(Replies(p)) = Cardinality(Replies(q)) + 1
    BY <2>1, RepliesCount, CountUp
  <2> QED BY <1>2, <2>2 DEF p
<1>3. CASE f.kind # "reply"
  <2>1. Replies(p) = Replies(q)
    BY <1>1, <1>3 DEF Replies
  <2> QED BY <1>3, <2>1, RepliesCount DEF p
<1> QED BY <1>2, <1>3

LEMMA RepliesTail ==
    ASSUME NEW q \in Seq(FrameType), q # <<>>
    PROVE  Cardinality(Replies(Tail(q))) <= Cardinality(Replies(q))
<1> DEFINE f == [i \in Replies(Tail(q)) |-> i + 1]
<1>1. Tail(q) \in Seq(FrameType) /\ Replies(Tail(q)) \subseteq Nat
  BY HeadTail DEF Replies
<1>2. \A i \in Replies(Tail(q)) : i + 1 \in Replies(q)
  BY TailEntries DEF Replies
<1>3. f \in Injection(Replies(Tail(q)), Replies(q))
  <2>1. f \in [Replies(Tail(q)) -> Replies(q)]
    BY <1>2
  <2>2. \A i, j \in Replies(Tail(q)) : f[i] = f[j] => i = j
    BY <1>1
  <2> QED BY <2>1, <2>2 DEF Injection, IsInjective
<1> QED BY <1>1, <1>3, RepliesCount, FS_Injection

LEMMA InitBacklog == Init => Backlog
<1> SUFFICES ASSUME Init PROVE Backlog
  OBVIOUS
<1>1. Replies(queue) = {} /\ reader.pc = "recv"
  BY DEF Init, Replies
<1>2. Cardinality(Replies(queue)) = 0
  BY <1>1, FS_EmptySet
<1> QED BY <1>1, <1>2 DEF Backlog

(* A frame written adds at most itself to the replies that wait. *)
LEMMA WriteBacklog ==
    ASSUME Sound, NEW kind \in {"reply", "push"}, Write(Frame(kind))
    PROVE  /\ Cardinality(Replies(queue)) \in Nat /\ Cardinality(Replies(queue')) \in Nat
           /\ Cardinality(Replies(queue')) \in
                {Cardinality(Replies(queue)),
                 Cardinality(Replies(queue)) + (IF kind = "reply" THEN 1 ELSE 0)}
<1>1. Frame(kind) \in FrameType /\ Frame(kind).kind = kind /\ queue \in Seq(FrameType)
  BY FrameTypes DEF Sound, Typed
<1>2. Cardinality(Replies(queue)) \in Nat
  BY <1>1, RepliesCount
<1>3. queue' \in {queue, Append(queue, Frame(kind))}
  BY DEF Write
<1>4. Cardinality(Replies(queue')) \in
        {Cardinality(Replies(queue)),
         Cardinality(Replies(queue)) + (IF kind = "reply" THEN 1 ELSE 0)}
  BY <1>1, <1>3, RepliesAppend
<1>5. Cardinality(Replies(queue')) \in Nat
  BY <1>2, <1>4
<1> QED BY <1>2, <1>4, <1>5

LEMMA StepBacklog ==
    ASSUME Sound, Sound', Backlog, [Next]_vars
    PROVE  Backlog'
<1> DEFINE R == Cardinality(Replies(queue))
<1> SUFFICES ASSUME Asyncio' PROVE Backlog'
  BY DEF Backlog
<1>0. Asyncio /\ ~Trio
  <2>1. UNCHANGED engine
    BY DEF Next, Client, ClientRead, ClientStalls, ClientCloses, ClientResets, Receive, Publish, Chunk, EndOfFile,
       Dispatch, ChunkDone, AsyncioChunkDone, TrioChunkDone, Poll, Drain, Reading, ReaderLocks,
       ReaderSends, ReaderBroken, Writing, WriterLocks, WriterSends, WriterEnds, Ending,
       NurseryEnds, Farewell, Unwind, Lost, Finish, vars, peer
  <2> QED BY <2>1 DEF Asyncio, Trio
<1>1. /\ R \in Nat /\ R' \in Nat /\ R <= Len(queue) /\ R' <= Len(queue')
      /\ Len(queue) \in Nat /\ Len(queue') \in Nat
  BY RepliesCount DEF Sound, Typed
<1>2. /\ R <= HighWater + MaxChunk
      /\ reader.pc = "recv" /\ ~paused => R <= HighWater
      /\ reader.pc = "run" => R + Len(reader.chunk) <= HighWater + MaxChunk
  BY <1>0 DEF Backlog
<1>3. ASSUME /\ R' <= HighWater + MaxChunk
             /\ reader'.pc = "recv" /\ ~paused' => R' <= HighWater
             /\ reader'.pc = "run" => R' + Len(reader'.chunk) <= HighWater + MaxChunk
      PROVE  Backlog'
  BY <1>3 DEF Backlog
<1> HIDE DEF R
<1>4. CASE R' = R /\ UNCHANGED <<reader, paused>>
  BY <1>2, <1>3, <1>4
<1>5. CASE Client
  <2>1. CASE \E chunk \in Chunks : Receive(chunk)
    <3>1. PICK chunk \in Chunks : Receive(chunk)
      BY <2>1
    <3>2. R <= HighWater /\ reader.pc = "recv"
      BY <1>2, <3>1 DEF Receive
    <3>3. chunk \in Seq(Request) /\ Len(chunk) \in 1 .. MaxChunk
      BY DEF Chunks
    <3>4. CASE Malformed(chunk)
      <4>1. Write(Frame("reply")) /\ UNCHANGED reader /\ paused' = (paused \/ Len(queue') > HighWater)
        BY <1>0, <3>1, <3>4 DEF Receive, ProtocolError
      <4>2. R' \in {R, R + 1}
        BY <4>1, WriteBacklog DEF R
      <4>3. R' <= HighWater + MaxChunk
        BY <1>1, <3>2, <4>2
      <4>4. reader'.pc = "recv" /\ ~paused' => R' <= HighWater
        <5>1. ~paused' => ~(Len(queue') > HighWater)
          BY <4>1
        <5> QED BY <1>1, <5>1
      <4> QED BY <1>3, <3>2, <4>1, <4>3, <4>4
    <3>5. CASE ~Malformed(chunk)
      <4>1. reader' = [reader EXCEPT !.pc = "run", !.chunk = chunk] /\ UNCHANGED queue
        BY <3>1, <3>5 DEF Receive
      <4>2. reader'.pc = "run" /\ reader'.chunk = chunk
        BY <4>1 DEF Sound, Typed, ReaderType
      <4>3. R' = R
        BY <4>1 DEF R
      <4> QED BY <1>1, <1>3, <3>2, <3>3, <4>2, <4>3
    <3> QED BY <3>4, <3>5
  <2>2. CASE ClientRead \/ ClientStalls \/ ClientCloses \/ ClientResets
    BY <1>4, <2>2 DEF ClientRead, ClientStalls, ClientCloses, ClientResets, server, R
  <2> QED BY <1>5, <2>1, <2>2 DEF Client
<1>6. CASE Publish
  <2>1. UNCHANGED <<reader, paused>> /\ Write(Frame("push"))
    BY <1>0, <1>6 DEF Publish, AsyncioPush, TrioPush
  <2>2. R' = R
    BY <1>1, <2>1, WriteBacklog DEF R
  <2> QED BY <1>4, <2>1, <2>2
<1>7. CASE Dispatch
  <2>1. /\ reader.pc = "run" /\ reader.chunk # <<>>
        /\ reader' = [reader EXCEPT !.chunk = Tail(@)]
        /\ Write(Frame("reply")) \/ Write(Frame("push"))
    BY <1>0, <1>7 DEF Dispatch, AsyncioPush, TrioPush, TrioReply
  <2>2. R' \in {R, R + 1}
    BY <1>1, <2>1, WriteBacklog DEF R
  <2>3. reader.chunk \in Seq(Request)
    BY ReaderRecord DEF Sound, Typed
  <2>4. reader'.pc = "run" /\ reader'.chunk = Tail(reader.chunk)
    BY <2>1 DEF Sound, Typed, ReaderType
  <2>5. Len(reader'.chunk) = Len(reader.chunk) - 1 /\ Len(reader.chunk) \in Nat \ {0}
    BY <2>1, <2>3, <2>4
  <2>6. R + Len(reader.chunk) <= HighWater + MaxChunk
    BY <1>2, <2>1
  <2>7. R' + Len(reader'.chunk) <= HighWater + MaxChunk /\ R' <= HighWater + MaxChunk
    BY <1>1, <2>2, <2>5, <2>6
  <2> QED BY <1>3, <2>4, <2>7
<1>8. CASE ChunkDone \/ Poll \/ EndOfFile
  <2>1. R' = R
    BY <1>0, <1>8 DEF ChunkDone, AsyncioChunkDone, Poll, EndOfFile, R
  <2>2. /\ reader'.pc = "recv" /\ ~paused' => Len(queue) <= HighWater \/ R <= HighWater
        /\ reader'.pc # "run" \/ UNCHANGED reader
    <3>1. CASE ChunkDone
      <4>1. reader' = [reader EXCEPT !.pc = "recv"] /\ paused' = (paused \/ Len(queue) > HighWater)
        BY <1>0, <3>1 DEF ChunkDone, AsyncioChunkDone
      <4>2. reader'.pc = "recv"
        BY <4>1 DEF Sound, Typed, ReaderType
      <4>3. ~paused' => ~(Len(queue) > HighWater)
        BY <4>1
      <4> QED BY <1>1, <4>2, <4>3
    <3>2. CASE Poll
      BY <1>1, <3>2 DEF Poll
    <3>3. CASE EndOfFile
      BY <1>0, <1>2, <3>3 DEF EndOfFile
    <3> QED BY <1>8, <3>1, <3>2, <3>3
  <2> QED BY <1>1, <1>2, <1>3, <2>1, <2>2
<1>9. CASE Drain
  <2>1. queue' = Tail(queue) /\ queue # <<>> /\ UNCHANGED <<reader, paused>>
    BY <1>9 DEF Drain
  <2>2. R' <= R
    BY <2>1, RepliesTail DEF R, Sound, Typed
  <2>3. reader.pc = "run" => Len(reader.chunk) \in Nat
    BY ReaderRecord DEF Sound, Typed
  <2> QED BY <1>1, <1>2, <1>3, <2>1, <2>2, <2>3
<1>10. CASE Lost
  <2>1. queue' = <<>> /\ reader'.pc = "exit"
    BY <1>10 DEF Lost, Finish
  <2>2. Len(queue') = 0
    BY <2>1
  <2> QED BY <1>1, <1>3, <2>1, <2>2
<1>11. ~(Reading \/ Writing \/ NurseryEnds \/ Unwind)
  BY <1>0 DEF Reading, ReaderLocks, ReaderSends, ReaderBroken, Writing, WriterLocks, WriterSends,
     WriterEnds, NurseryEnds, Unwind
<1>12. ~Farewell
  BY <1>0 DEF Farewell, Sound, Shape, AsyncioShape
<1>13. CASE UNCHANGED vars
  BY <1>4, <1>13 DEF vars, R
<1> QED BY <1>5, <1>6, <1>7, <1>8, <1>9, <1>10, <1>11, <1>12, <1>13 DEF Next, Chunk, Ending

-----------------------------------------------------------------------------
(* A connection's tasks, buffers and socket are well formed. *)
THEOREM ConnectionTypeCorrect == Spec => []TypeOK
<1>1. Init => Sound /\ Order
  BY InitSound, InitOrder
<1>2. Sound /\ Order /\ [Next]_vars => Sound' /\ Order'
  <2>1. Sound /\ Order /\ [Next]_vars => Sound'
    BY StepSound DEF Order
  <2> QED BY <2>1, StepOrder
<1>3. Sound => TypeOK
  BY TypedIsTypeOK DEF Sound
<1> QED BY <1>1, <1>2, <1>3, PTL DEF Spec

(* Replies leave a connection in the order they were produced, and pushes  *)
(* too; no push overtakes a reply, and on asyncio nothing overtakes        *)
(* anything, however the reader, the writer and the transport interleave.  *)
THEOREM FramesLeaveInOrder == Spec => FramesInOrder
<1>1. Init => Sound /\ Order
  BY InitSound, InitOrder
<1>2. Sound /\ Order /\ [Next]_vars => Sound' /\ Order'
  <2>1. Sound /\ Order /\ [Next]_vars => Sound'
    BY StepSound DEF Order
  <2> QED BY <2>1, StepOrder
<1>3. Sound /\ Order /\ [Next]_vars =>
        [/\ ReplySent => wrote'.reply > wrote.reply /\ wrote'.reply > wrote.push
         /\ PushSent => wrote'.push > wrote.push
         /\ PushSent /\ Asyncio => wrote'.push > wrote.reply]_vars
  BY StepInOrder DEF InOrder
<1> QED BY <1>1, <1>2, <1>3, PTL DEF Spec, FramesInOrder

(* While a connection is open, every frame produced for it is on the       *)
(* socket or waits in exactly one place: the transport's buffer, the push  *)
(* channel, the writer task, the direct replies, or the handler that       *)
(* flushes them.                                                           *)
THEOREM ConnectionsLoseNothing == Spec => []NothingLost
<1> DEFINE Inv == Sound /\ Order /\ HeldMidChunk /\ Counted
<1>1. Init => Inv
  BY InitSound, InitOrder, InitCounted
<1>2. Inv /\ [Next]_vars => Inv'
  <2> SUFFICES ASSUME Inv, [Next]_vars PROVE Inv'
    OBVIOUS
  <2>1. Sound'
    BY StepSound DEF Order
  <2>2. Order'
    BY <2>1, StepOrder
  <2> QED BY <2>1, <2>2, StepMidChunk, StepCounted
<1>3. Inv => NothingLost
  BY PendingBounded DEF Counted, NothingLost
<1> QED BY <1>1, <1>2, <1>3, PTL DEF Spec

(* Backpressure on asyncio: however a client pipelines, stalls or is       *)
(* published to, the replies that wait for it never exceed the high-water  *)
(* mark by more than the chunk that was being worked through.              *)
THEOREM BacklogStaysBounded == Spec => []BacklogBounded
<1> DEFINE Inv == Sound /\ Order /\ Backlog
<1>1. Init => Inv
  BY InitSound, InitOrder, InitBacklog
<1>2. Inv /\ [Next]_vars => Inv'
  <2> SUFFICES ASSUME Inv, [Next]_vars PROVE Inv'
    OBVIOUS
  <2>1. Sound'
    BY StepSound DEF Order
  <2> QED BY <2>1, StepOrder, StepBacklog
<1>3. Inv => BacklogBounded
  BY DEF Backlog, BacklogBounded, Replies
<1> QED BY <1>1, <1>2, <1>3, PTL DEF Spec
=============================================================================
