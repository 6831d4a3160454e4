# kagni in TLA+

kagni is a redis-compatible key-value server in Python: one event loop
(asyncio or trio) owns an in-memory store, clients talk RESP over TCP or a unix
socket, and snapshots go to sqlite. This directory holds TLA+ models of the
parts whose correctness depends on order, time or failure, the TLC
configurations that check them on small instances, and TLAPS proofs of the
properties that matter most. Source paths below are relative to
`src/src/kagni/`. `PROJECT.json` maps every definition to the lines it models
and lists components, runs, mutants, findings, hazards and theorems.

## Inventory of the system

| Component | State | Operations | Talks to |
|---|---|---|---|
| Store, `data.py` | `_storage` (value, monotonic deadline), `_generations`, `epoch` | get, set, remove, expire, persist, touch, clear, snapshot, restore, lazy purge and sweep | called by every handler; `on_purge` calls back into notifications |
| Generic and string commands, `commands/basic.py`, `common.py` | none of its own | SET family, counters, in-place edits, DEL, EXPIRE family, FLUSHDB, reads | store, hub (`_notify`), `DB.flush` |
| Lists, sets, sorted sets, bitmaps, `commands/{lists,set,zset,bit}.py`, `zset.py` | container objects mutated in place; `ZSet` keeps a score dict and a sorted list | pushes, pops, trims, moves, set algebra with STORE, ZADD and range removals, SETBIT, BITOP, BITFIELD | store |
| Hashes, `commands/hash.py` | fields with deadlines of their own | HSET, HDEL, HINCRBY, HEXPIRE family, purge on read | store |
| Transactions, `commands/__init__.py` | per `Session`: `in_multi`, `queue`, `watched` | WATCH, MULTI, queueing, EXEC, DISCARD | store generations and liveness |
| Pub/sub, `pubsub.py`, `commands/pubsub.py` | hub tables name -> sessions; per session `channels`, `patterns`, `push_sink` | SUBSCRIBE family, PUBLISH, PUBSUB, CONFIG notify-keyspace-events | sessions, connections |
| Persistence, `db.py`, dumpers in `server_*.py`, `cli.py` | sqlite table, `DB._lock`, dumper task, worker threads | periodic dump, flush, final dump, load | store, threads |
| Connections, `server_asyncio.py`, `server_trio.py` | parser, push queue, write buffer, send lock | read, dispatch, reply, push, slow-consumer close, shutdown | dispatch, hub |
| RESP, `resp.py` | undecoded bytes | incremental framing, encoding | connections |
| Command line, `cli.py`, `embed.py`, `testing.py` | socket file, pidfile | start, daemonise, stop | everything |

What is hard here:

* **time inside a command**: every `Data` call reads the monotonic clock for
  itself, so a key can die between a handler's lookup and its store;
* **stale stamps**: EXEC compares generation and liveness recorded at WATCH time;
* **threads**: snapshots are committed on worker threads while the loop goes on
  serving, flushing and shutting down; only `DB._lock` and the epoch guard order
  them;
* **crash and restart**: monotonic deadlines mean nothing to the next process;
* **two copies of one fact**: hub tables and session sets, score dict and sorted
  list;
* **frames in two roles**: in EXEC a pushed frame can take the place of a reply;
* **two tasks, one socket**: on trio direct replies and the push writer contend
  for a lock and a channel; on asyncio one transport buffer serves replies,
  pushes, backpressure and the slow-consumer close;
* **input in pieces**: a chunk ends anywhere in a message, and the hiredis reader
  hands bytes between two buffers whose boundary it must track;
* **a clock per field**: every field of a hash has a deadline of its own, read
  anew for each field, and corpses stay until somebody looks.

What makes each component correct is stated as the properties below; the
`hazards` of `PROJECT.json` give the line where each danger sits.

## Modules

```
Data ----- Keyspace ------- KeyspaceProofs       MCKeyspace
  |  \            \
  |   \--- Containers \                          MCContainers
  |    \      |  \_____\
  |     \     \--------- | - ContainersProofs
  |      \- Hashes ----- Versioned               MCHashes
  |            \-------- HashesProofs
  |      Transactions ----- TransactionsProofs   MCTransactions
  |      (over Versioned)
  \------ Persistence ----- PersistenceProofs    MCPersistence

          PubSub ---------- PubSubProofs         MCPubSub
          Connection ------ ConnectionProofs     MCConnection
          Framing --------- AlgorithmsProofs     MCFraming
          Queries ---------/                     MCQueries
```

**Data** translates `class Data` into functions from store record to store
record. A handler makes several calls in one uninterrupted turn of the loop, so
actions compose these functions; each takes the clock reading of its own call.
`events` collects the keyspace notifications of the command in progress.

**Versioned** is the abstract specification of what the store promises to
optimistic transactions: a key's observable content (value and deadline) appears
or changes only with a larger generation; it may vanish silently; a flush
empties everything in a new epoch. `Unnoticed` is the content that a key without any
may be given silently as well: none, but for Containers.

**Keyspace** has one action per generic and string command. Lookups happen at
`clock`, the last store call at any later reading `t`, so deadlines may pass
inside each command. Values are small counters, other text, a string too long to
store, and one value standing for every other kind.

**Containers** has one action per list, set, sorted-set and bitmap command that
writes, and `class ZSet` with both of its indexes. Here the clock stands still
within a command, keyspace events are left out, and commands with any number of
pairs or sources have one pair or two sources. Two loops over a sorted set are
taken in one go: ZREM's removals (`Remove`) and the additions that build an
aggregate (`InOrder`). `RemovalsInTurn` and `AggregatesInTurn` prove that the code's
one-by-one order comes to the same, because a sorted set is determined by its
scores.

**Transactions** runs sessions over *any* store that keeps `Versioned`: a data
command is any lawful step. That is the composition: Keyspace, Containers and
Hashes (field by field) are proved to implement `Versioned`, and Transactions needs
nothing else of them, except that nothing is `Unnoticed`: SETBIT of a zero bit is not
one of its data commands (see the disagreements below). A replaying EXEC is several steps (`running`), between which keys expire but no
other session is served. `disturbed` and `flushed` are history variables.

**Persistence** interleaves the loop thread, the dumper, two possible worker
calls (a periodic and a final dump), sqlite failures, SIGTERM, crashes and
restarts, under either engine: asyncio (`Engine = "asyncio"`) may abandon a dump
that runs on its thread and may be interrupted while it flushes; trio waits for
the thread. The process runs with or without `--no-save`. Values carry the
number of flushes before them and the deadline their client asked for, which no
code reads.

**PubSub** has the hub, sessions, the subscribed-mode gate, MULTI/EXEC nesting,
notifications and disconnects. WATCH is abstracted: EXEC may abort at will. `closed`
are the trio sessions that had a protocol error: their channel is closed while the hub
still knows them, and a sender that finds it closed raises. `Fanout` is what a
publication owes, `Raising` the frames of it whose sender raises, `Sent` what goes out:
`publish` serves the channel's subscribers, then the patterns', and the first sender
that raises ends both loops, the rest of the notification (`K` before `E`) and the
command, whose client gets an error. Subscribers of one name are served in any order
(a set), those of two patterns one pattern after the other. Handlers that change data
before they notify have done so; one with more to do after the notification leaves that
undone, which is not carried over to Keyspace and Containers.

**Hashes** has one action per hash command. A cell is a value and a wall-clock
deadline. A command looks its key up at `clock` and every field it visits at a
reading of its own, so a deadline can pass between two fields of one command.
Which commands drop a hash they emptied, and which leave it, is kept as it is in
`hash.py`. The wall clock is the monotonic one plus `WallOffset`; nobody sets it.

**Connection** is one connection on either backend, chosen in `Init`. A frame is a
number in the order of production and whether it is a reply or a push. The reader
works a chunk off request by request without letting go of the loop; on trio the
handler that flushes in the middle of a chunk holds the reply it was about to add
(`held`), because the flush can wait for the lock. On asyncio
`queue` is the transport's write buffer, `paused` its backpressure flag; on trio
`queue` is the bounded push channel, `writer` the task that empties it and `lock`
the send lock both tasks take. The client reads, stalls for good, closes or sends
input that is no request; other connections publish. A client that closed its end does
not make sends fail yet: over TCP frames are still taken, and lost, until its reset
comes (`ClientResets`, at any time or never); over a unix socket closing is both
(`ClientCloses` chooses). `Room` says when a send succeeds, `Gone` when it fails. `state` follows the
connection to its end: the slow-consumer close, the cancelled nursery, the handler
that failed, the farewell after a protocol error. `wrote` and `made` are history.

**Framing** is both engines of `RESPReader`. Messages are made of units that stand
for bytes and know only whether they begin or end a message; the stream is chosen
in `Init` and cut into chunks in every way. `WireLength` is what the code counts the
parsed messages for: a request is counted right, a null for nothing, and a message with
a simple string (`+PING`) for `Recoded` units, since hiredis answers it as bytes and
`_wire_length` encodes those as a longer bulk string. From then on the account drifts:
it may fail to match at a boundary, and it may match inside a message, when hiredis
keeps the first part and the rest is looked at for command lines (`Misplaced`: waiting
there, answered as a `stray` message, or given to hiredis after all, whichever byte
stands there; that is every outcome, more than a given byte allows). The run of the
reader ends with a stray answer. RESP3 types are left out. `Round` is one turn of the parser's loop,
which takes a message if all of it is there; `Rounds` lets it run as often as there
are units, and `End` is where each message of the stream ends. hiredis itself is
external: it answers the complete framed messages it was given and rejects the rest.

**Queries** holds the algorithms that only compute: the LCS table, its walk back and
its matches, the index arithmetic of GETRANGE and LRANGE, LPOS with RANK, COUNT
and MAXLEN, ZRANGE by rank, score and lex with REV and LIMIT, and BITFIELD's
fields with their overflow modes. A query is chosen in `Asked` and answered in one
step (`Answer`); the invariants compare the answer with a definition that does not
compute it step by step (the longest among all common subsequences, the set of
positions a range names, the integers congruent to a sum). The loops are recursive
functions; those that keep some of the elements they pass (LPOS, the members of a
lexicographic range, the matches no shorter than MINMATCHLEN) are one of them,
`Picked`. `QueriesAssumption` says which questions the commands' parsing lets through.

Each mutant operator stands directly before the definition it distorts and is
used by no action; `PROJECT.json` pairs it with the property that must fail.

## Runs

| Run | Configuration | Shows |
|---|---|---|
| `keyspace` | `MCKeyspace.cfg` | `TypeOK`; `ImplementsVersioned`; `DeathEventsExact`: `expired` and `del` only for keys that died that way, and no live key deleted silently; `EditsKeepTTL` |
| `containers` | `MCContainers.cfg` | `TypeOK`; `CollectionsSound`: no empty collection (`NoEmptyCollections`), score dict and sorted list agree (`IndexesAgree`); `ContentVersioned`: containers implement `Versioned`, with the zero bit `Unnoticed`; `MovesLoseNothing` |
| `hashes` | `MCHashes.cfg` | `TypeOK`; `FieldsVersioned`: every single field implements `Versioned`; `ReadsTakeNothing`: lazy purging removes corpses only; `HashesDisappear`: no write leaves an empty hash or removes one silently |
| `transactions` | `MCTransactions.cfg` | `TypeOK`; `ExecAbortsExactly`: dirty if and only if a watched key was disturbed, flushes aside; `NoLeftoverCommands` |
| `persistence_asyncio` | `MCPersistence.cfg` | `TypeOK`; `FlushedStayFlushed`; `DumpKeepsUp` |
| `persistence_trio` | `MCPersistenceTime.cfg` | `DeadlinesSurviveRestart`; `FinalSnapshotKept`; liveness: `CorpsesSwept`, `LoopComesBack` |
| `final_snapshot` | `MCPersistenceFinal.cfg` | violated under asyncio: `FinalSnapshotKept` |
| `pubsub` | `MCPubSub.cfg` | `TypeOK`; `HubMirrorsSessions`; `DeliveryExact`: every matching subscription served, or a closed one in the way and the command failed; `SubscribedNeverInMulti`; `ExecAnswersAll` |
| `connection` | `MCConnection.cfg` | `TypeOK`; `NothingLost`: every frame is on the socket or waits in exactly one place; `BacklogBounded`; `FramesInOrder`; liveness: `WaitsEnd` (`FramesArrive`, `PausesEnd`), `ConnectionsEnd` (`ClosingEnds`, `GoneClientsForgotten`) |
| `closed_connections_leak` | `MCConnectionLeak.cfg` | violated on trio: `ClosedConnectionsEnd` |
| `framing` | `MCFraming.cfg` | `TypeOK`; `AnswersExact`: each complete message answered once, in order, at once; `BuffersExact`: the hand-over to and from hiredis (`BoundaryExact`) and the cap (`BufferCapped`); `ErrorsJustified`; on hiredis all three except after a simple string |
| `queries` | `MCQueries.cfg` | `LcsExact` (`LcsLongest`, `LcsIndexesAlign`), `SelectionsExact` (`RangesExact`, `ZRangeExact`, `LposExact`), `BitfieldExact` |

### Bounds

* `keyspace`: two keys (DEL, MSET and MGET touch both), three clock readings (a
  deadline lies in the past, passes inside a command, passes between commands,
  or never passes), generations and epoch up to 2 (a write after a flush).
* `containers`: two keys, two members, two scores, lists of at most two
  elements, two bits. Every command meets a missing key, an expired one, its own
  kind and each wrong kind; a move or store has distinct and equal keys; an
  update moves a member past another; indexes reach beyond both ends.
  Generations only grow and no command reads them, so the view leaves them out;
  every step is still checked against its own generations.
* `transactions`: two sessions (one watches, one writes), two keys, two
  contents, one queued command at a time, one flush.
* `persistence_*`: two keys and two flushes where dumps race flushes (an old
  snapshot, a flush, a newer snapshot, a second flush); one key, three wall-clock
  readings and one flush where deadlines count: written, crashed, restarted,
  expired.
* `pubsub`: three connections (a publisher, a closed one and a live one that misses
  the frame), the channels of keyspace and keyevent notifications, a pattern that
  matches both, one open transaction at a time. `MaxLoad` bounds connections and queued
  commands together: two commands (a subscription and what follows it) with two
  connections, one with three. That two live subscribers of one name fare differently
  behind a closed one needs a fourth.

* `hashes`: one key (every command has one), two fields, counters 0 and 1 next to
  text, three clock readings, and deadlines in the past, at the present reading, on
  the next one and never: one field, both or none expires between two commands or
  inside one. Generations and events are in no guard, so the view leaves them out;
  every step is still checked against its own.
* `connection`: a socket of one frame, both marks at one, a push limit of three and
  a channel of one, chunks of up to three requests, six requests, and publishing up to
  the fifth frame. A stalled client fills every buffer of either backend, an UNSUBSCRIBE and a
  command share a chunk, and a push meets each state of the reader and the writer.
  Three requests are needed for a command, a SUBSCRIBE and another command in one
  chunk, which is what makes trio's handler flush with a reply in hand.
* `framing`: streams of up to four messages of six kinds, chunks of one to three
  units against messages of one to six: a chunk ends inside, at and beyond a
  message and carries several; one kind is larger than the buffer may become. A simple
  string of two units counts for three, so that the account matches again one unit
  inside the message after it, and does not match at its end.
* `queries`: strings over two letters up to length four (where longest common
  subsequences are ambiguous), indexes beyond both ends of values up to three long,
  all sorted sets of three members and two scores, bounds on, between and beyond
  the scores, bit fields of one to three bits that overlap and amounts that
  overflow them more than once in both directions.

Deadlock is checked except where the modelled system may stop: `connection` (the
client may fall silent), `framing` (the stream ends) and `queries` (a query is
answered once).

### Fairness

`persistence_trio` (`FairSpec`): weak fairness on the dumper's turn and wake-up, on
closing, and on a worker's step: the loop runs its timers and threads are
scheduled. Strong fairness on taking `DB._lock`, by the loop and by a worker: the
lock becomes free again and again and a waiter is granted it eventually; without
this a loop of dumps could starve FLUSHDB. Nothing forces a client, SIGTERM, a
crash or a restart, and sqlite may fail every time, but is never required to: a
waiter must get through without an error coming to its rescue. The run is for
trio: asyncio's shutdown first waits for `wait_closed()`
(`server_asyncio.py:168`), which depends on clients that may never leave.

`connection` (`Spec`): weak fairness on the loop's tasks (the chunk in progress, the
poll timer, the transport's draining, trio's reader and writer, the end of the
nursery), because asyncio and trio run every task that can run, and on the
client's reading, which is disabled once it stalls. Nothing forces a client to
send, stall or close, its host to answer with a reset, or anybody to publish.
`ConnectionsEnd` is correspondingly modest: a connection the server is closing ends
unless its client stays and never reads (on asyncio `transport.close()` waits for the
buffer to drain), and a client that left ends on asyncio always, on trio when the writer
has a frame to send and the send fails.

## What is proved

For every number of keys, sessions, channels and flushes, and for both engines:

* `KeyspaceTypeCorrect`, `KeyspaceImplementsVersioned`. The argument is
  compositional: `Follows(s, t, s', t')` relates two stores and two clock
  readings the way `Versioned` allows; each `Data` operation extends a store that
  follows another to one that still does (`...Follows`); every handler is a chain
  of such operations (`...Lawful`, one lemma per group of commands), and FLUSHALL
  is the abstract flush.
* `DeathEventsAreExact`, `EditsKeepDeadlines`, on the same operations seen from one
  key: `Result(s, k, x, n, E)` says which entry, generation and events a command has
  left so far, `KeyTold` what that must mean at the clock reading the command ends
  with, and `Told` the same of all keys. A lookup leaves a store that is `Looked`,
  from which plain writes, edits, announced and silent deletions are told truly; each
  command is one of these.
* `TransactionsTypeCorrect`, `ExecExact`, `NoLeftovers`. `ExecAbortsExactly` is
  not inductive: `IInv` adds `StampExact`, which says for each watched key that
  its generation never fell below the stamp, that it cannot come to life under the
  watched generation, and that generation and liveness equal the stamp exactly
  when nothing disturbed the key.
* `PersistenceTypeCorrect`, `FlushIsFinal`. `FlushedStayFlushed` alone does not
  survive a commit. `Inv` adds what the code relies on: the lock belongs to the
  thread that is past `JobLock` (`LockInv`), a job whose epoch is current holds
  only rows of the current era (`JobInv`), and between clear and wipe memory is
  empty and every pending snapshot is stale (`FlushInv`). This is where the order
  clear-then-wipe and the guard under the lock are used.
* `DeadlinesAreAbsolute`, `DumpsKeepUp`, `FinalSnapshotOnTrio`. The first carries the
  client's deadline through the two clocks into every snapshot in flight
  (`TimeInv`); the second needs that at most one dump is between its snapshot and
  its commit (`OneDump`, `KeepInv`); the third is stated for trio, which waits for
  the dump's thread, and only for trio: `final_snapshot` shows that asyncio fails it.
* `HashesTypeCorrect`, `HashesImplementVersioned`, `ReadsKeepLiveFields`,
  `EmptyHashesDisappear`. A command's fields are visited at clock readings of their
  own; the lemmas follow one field through the visit and the key through the
  command's ending (dropped, stored, or left as an empty husk).
* `ContainersTypeCorrect`, `CollectionsStaySound`, `ContainersImplementVersioned`,
  `MovesKeepElements`. Most of the work is about `class ZSet`: bisection splits a
  sorted list (`PlaceSplits`), so insertion, deletion and range removal keep it sorted
  and equal to the dict (`AddWhole`, `RemoveWhole`, `RemoveAllWhole`,
  `AggregateWhole`). Above that, `Fair` says of a store in the middle of a command
  that its containers are sound and that each change a client can see was paid with
  a generation (`Owed`), or is the zero bit set on a missing key (`Allowed`); every operation on the store keeps it, a command is a chain of such
  operations (one lemma per command), and what a command answers with is lawful
  (`AnswerLawful`). `MoveCounts` counts an element at both keys through the same chain.
* `RemovalsInTurn`, `AggregatesInTurn`: see Containers above.
* `PubSubTypeCorrect`, `HubMirrors`, `PublishExact`, `ExecComplete`, `GateHolds`:
  hub and sessions agree, messages reach exactly the matching subscriptions (or a part
  of them, and the command fails, when one of these is closed), EXEC
  has a frame per command, no subscribed connection is inside MULTI. `Inv` adds
  that a session without a connection has no subscriptions and that a replaying
  session is connected, outside MULTI and has commands left.

* `ConnectionTypeCorrect`, `FramesLeaveInOrder`, `ConnectionsLoseNothing`,
  `BacklogStaysBounded`. `Sound` says which task holds the lock and which fields
  only one backend uses; `Order` that socket, queue, buffer, the writer's frame and
  the held reply are in the order of production, one after the other; `HeldMidChunk`
  when the handler can hold a reply; `Counted` that their lengths add up to what was
  made; `Backlog` that asyncio pauses before a second chunk.

* `ReaderKeepsItsPlace`, and from it `FramingTypeCorrect`, `AnswersAreExact`,
  `BuffersAreExact`, `ErrorsHaveCauses`: for every stream, every size of message, chunk
  and cap. None of the four is inductive: they do not say what the buffers hold.
  `ReaderInv` does: `Slice(b, k, p)` means that `b` is the stream from the end of its
  k-th message to its p-th unit, and the buffer that counts (the reader's own, or
  hiredis') is the slice from the last message answered to the last unit that arrived;
  a non-empty buffer at a boundary begins a command line; hiredis' account equals what
  it holds until a null or a simple string comes by. `MessagesFacts` says what the loop makes of a slice:
  the messages that end in it, and a slice that begins where they end. It is shown by
  induction over the rounds, `InlineFacts` finds where the command lines end, and
  `WireFacts` says that the lengths hiredis' messages re-encode to are those they had,
  if none is a null or holds a simple string. After a simple string (`~Straight`) what
  the account says is given up, but not the place: until a byte is misread
  (`~Misread`), the buffers are still those slices and the answers the stream's.
  A step is one lemma per engine (`FeedPythonKeeps`, `FeedHiredisKeeps`), over what
  hiredis does with what it is given (`HiredisKeeps`) and over errors (`RaiseKeeps`).

* `SelectionsAreExact`, `BitfieldIsExact`, `LcsIsExact`: for values and strings of any
  length, fields of any width, and every argument. A reply is computed at once from
  its query (`ReplyInv` is the inductive invariant), so the work is about the operators:
  * `Picked(x, P)` puts the element at position p of P where p stands in the count of P
    (`PickedFacts`), and is the only sequence that does (`PickedUnique`); so a window of
    what is picked is what a window of the count picks (`PickedWindow`). Slices,
    bisections, REV, LIMIT, RANK and COUNT come down to that.
  * A field holds a number below the power of two of its width (`ExtractBound`), which
    `Interpret` reads as the weighted sum of its bits (`NumberInterprets`); what is
    stored reads back (`ExtractStored`); and in the field's range there is one number
    congruent to what should be stored (`InterpretResidue`, `SameResidue`).
    `ServedUpTo` carries that through a list of subcommands.
  * The table of LCS grows by at most one per character of either string (`TableSlow`),
    so no common subsequence is longer than its last entry (`TableLongest`). Every step
    of the walk back keeps the cells collected plus the entry it stands on equal to
    that last entry (`Walking`), so it collects as many (`PathMatches`). Cutting cells
    into runs loses no character and leaves the runs apart (`RunsOfMatching`). The second
    walk is, at each character, never further left than the first (`RightmostMatches`):
    it finds them all, and its runs are cut the same way.

Induction over lengths is drawn from the well-ordering of the natural numbers
(`LeastNatural`, `InductionUpTo`): the first place where a fact fails has no
predecessor. The library's own induction theorems take the fact as an operator, which
the installed provers cannot instantiate; a set of numbers does as well. That a
recursive function exists at all is `Recursion`, by induction over how far it is made.

The proofs use the named assumptions on constants (`SentinelAssumption`,
`KeyspaceAssumption`, `TransactionsAssumption`, `PersistenceAssumption`,
`PubSubAssumption`, `HashesAssumption`, `ConnectionAssumption`,
`ContainersAssumption`, `FramingAssumption`, `QueriesAssumption`), which TLC evaluates in
every run of their modules, and nothing else.

Only model-checked: the liveness properties (`CorpsesSwept`, `LoopComesBack`,
`WaitsEnd`, `ConnectionsEnd`), because temporal reasoning under fairness is beyond the
prover. Every safety property that a passing run checks is a theorem.

## Where code and documentation disagree

Two disagreements have a run:

1. `final_snapshot`: under asyncio an abandoned periodic dump may commit after the
   final one, against "final snapshot included" of the README.
2. `closed_connections_leak`: on trio the handler of a client that closed its
   connection waits for the writer task, which waits for a frame. Handler, task
   and hub entry stay until the server stops.

Others were met while modelling. The models follow the code, and the properties
above are stated so that they hold of it, with the exception named in their
comments:

* store: SET, DEL and PERSIST over an expired key drop it without the `expired`
  event README promises; FLUSHDB restarts the generations, so a watched key that
  is flushed and rewritten the same number of times passes for unchanged
  (`ExecAbortsExactly` excludes flushes); SETBIT of a zero bit on a missing key
  creates a key at an unchanged generation (`ContentVersioned` names it). EXEC still
  notices by the key's liveness, unless it was there at WATCH, was then deleted without
  a touch (LTRIM to nothing, a store of an empty result) or expired, and came back as
  that empty bitmap: it then passes for unchanged;
  INCR, APPEND and the like on a key that dies between their read and their store
  create a key without a deadline; ZREM, LTRIM and the store commands delete
  without a `del` event.
* hashes: HGET and the other reads of single fields leave an empty hash under a
  live key, although `hash.py:7` says it disappears (`HashesDisappear` names
  the exception); HDEL of the last field that can be seen is silent while a corpse
  is left beside it; a field's expiry does not move the generation, as a key's
  does not; a wall clock set back revives fields.
* persistence: when the last key goes the dumper skips its turn, and the key stays
  on disk until some other key exists; under `--no-save` a dead entry waits for a
  client; a snapshot that cannot be loaded starts the server empty, and the next
  dump replaces the file.
* pub/sub: a PUBLISH replayed by EXEC to the transaction's own subscription loses
  its integer reply to the pushed message. `pubsub.py:5` "routes published
  messages to every matching subscriber", but one whose channel trio has closed after a
  protocol error makes `publish` raise `ClosedResourceError` (`server_trio.py:100`
  catches other errors): live subscribers behind it miss the message, a keyspace
  notification stops half-way, and the publisher is answered "internal error" for a
  command that may have been carried out (`DeliveryExact` says who can miss what).
* trio connection: `idle_event` is never cleared, because `trio.Event` has no
  `clear()`: a reply to a subscribed connection that goes through it ends the
  handler, and after an UNSUBSCRIBE a reply in the same chunk overtakes the
  pushes queued before (the case `FramesInOrder` names).
* asyncio connection: `transport.close()` on a slow subscriber waits for its buffer
  to drain, so a client that reads nothing stays connected, and in the hub; a
  SUBSCRIBE in the middle of a chunk does not flush the replies before it.
* framing: "boundary tracking is exact for well-formed frames" (`resp.py:183`) is
  false of simple strings: `+PING\r\n` is 7 bytes fed and, encoded as a bulk string,
  10 consumed. hiredis then stays engaged and rejects a `PING\r\n` in the next chunk;
  `+PING\r\n*1\r` makes the account match inside the second message, whose rest is
  then parsed as a command line. `Straight` and `Misread` name the exception in
  `AnswersExact`, `BuffersExact` and `ErrorsJustified`;
  a protocol error discards the messages the same chunk completed
  earlier; a command line after a framed message in one chunk is an error under
  hiredis and none under the python engine; a null switches hiredis' accounting off
  (`ErrorsJustified` and `BufferCapped` name both).
* queries: GETRANGE with an end more than its length below zero follows Python's
  slices (`RangesExact` says what it answers).

## Not modelled, and the plan

Left out for good: encoding of replies and error texts, option parsing, glob
matching and SCAN cursors over it (pattern strings), INFO and the other
introspection commands, logging, argument parsing and forking (formatting or plain
I/O), `embed.py` and `testing.py` (wiring of the parts modelled), and deep copies
of container values in snapshots (values are immutable in TLA+). Connection and
PubSub are separate: Connection has one session and lets anybody publish, PubSub
has many sessions and delivers at once.

The socket file and the pidfile concern several processes: two servers that start
at once can both find a stale socket, and a server whose bind failed still dumps
and removes the pidfile. They are listed as hazards and not modelled.

Planned, in this order:

1. That a transaction over Keyspace implements the one over `Versioned`.
2. **Lifecycle**: socket file and pidfile of two servers that race to start.
