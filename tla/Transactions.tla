---------------------------- MODULE Transactions ----------------------------
(***************************************************************************)
(* WATCH / MULTI / EXEC / DISCARD of kagni/commands: sessions queue        *)
(* commands and replay them, on top of any store that keeps the promise of *)
(* Versioned, with nothing Unnoticed.  A data command is any lawful step   *)
(* of that store, so what is shown here holds for every command set that   *)
(* refines that: all but SETBIT of a zero bit on a missing key (see        *)
(* Containers), which EXEC misses when the key was there at WATCH, then    *)
(* vanished without a touch.                                               *)
(*                                                                         *)
(* EXEC replays its queue inside one call of the event loop: while         *)
(* `running' is a session no other session is served, but time passes and  *)
(* keys expire.                                                            *)
(***************************************************************************)
EXTENDS Integers, Sequences

CONSTANTS
    Key, Absent,
    Content,        \* what a live key can hold (value and deadline)
    Session,        \* connections
    Nobody,         \* no session is replaying its queue
    Unwatched,      \* the key is not in session.watched
    MaxQueue,       \* bound on a transaction's length
    MaxGeneration,  \* bound on a key's generation
    MaxEpoch        \* bound on the number of flushes

VARIABLES
    content, generation, epoch,   \* the store, see Versioned
    in_multi,   \* Session.in_multi
    queue,      \* Session.queue
    watched,    \* Session.watched: key -> generation and liveness at WATCH
    running,    \* the session whose EXEC is replaying its queue
    disturbed,  \* history: watched keys written or changed since their WATCH
    flushed     \* history: watched keys that saw a FLUSHDB since their WATCH

S == INSTANCE Versioned WITH Unnoticed <- {}

store == <<content, generation, epoch>>
session == <<in_multi, queue, watched>>
history == <<disturbed, flushed>>
vars == <<store, session, running, history>>

(* Commands a transaction may hold: a data command, a flush, UNWATCH. *)
Command == {"data", "flush", "unwatch"}

Stamp == [generation: Nat, live: BOOLEAN]

ASSUME TransactionsAssumption ==
    /\ Absent \notin Content
    /\ Nobody \notin Session
    /\ Unwatched \notin Stamp
    /\ MaxQueue \in Nat
    /\ MaxGeneration \in Nat
    /\ MaxEpoch \in Nat

NoWatch == [k \in Key |-> Unwatched]

Live(k) == content[k] # Absent

Init ==
    /\ S!Init
    /\ content \in [Key -> Content \cup {Absent}]
    /\ in_multi = [s \in Session |-> FALSE]
    /\ queue = [s \in Session |-> <<>>]
    /\ watched = [s \in Session |-> NoWatch]
    /\ running = Nobody
    /\ disturbed = [s \in Session |-> {}]
    /\ flushed = [s \in Session |-> {}]

-----------------------------------------------------------------------------
(* The store: one data command, a flush, the passing of time. *)

Writable == {k \in Key : generation[k] < MaxGeneration}

Changed(k) == generation'[k] # generation[k] \/ content'[k] # content[k]

(* History: what the store step did to the keys each session watches. *)
Record(isFlush) ==
    /\ disturbed' = [s \in Session |->
          disturbed[s] \cup {k \in Key : watched[s][k] # Unwatched /\ Changed(k)}]
    /\ flushed' = [s \in Session |->
          flushed[s] \cup {k \in Key : isFlush /\ watched[s][k] # Unwatched}]

DataCommand ==
    /\ content' \in [Key -> Content \cup {Absent}]
    /\ \E written \in SUBSET Writable :
          generation' = [k \in Key |-> IF k \in written THEN generation[k] + 1 ELSE generation[k]]
    /\ S!Proceed
    /\ Record(FALSE)

FlushCommand ==
    /\ epoch < MaxEpoch
    /\ S!Flush
    /\ Record(TRUE)

Expire(k) ==
    /\ Live(k)
    /\ content' = [content EXCEPT ![k] = Absent]
    /\ UNCHANGED <<generation, epoch, session, running>>
    /\ Record(FALSE)

-----------------------------------------------------------------------------
(* Forget: watched.clear() *)
ClearWatched(s) == watched' = [watched EXCEPT ![s] = NoWatch]

ForgetHistory(s) ==
    /\ disturbed' = [disturbed EXCEPT ![s] = {}]
    /\ flushed' = [flushed EXCEPT ![s] = {}]

(* A command outside a transaction. *)
Direct(s, command) ==
    /\ running = Nobody /\ ~in_multi[s]
    /\ \/ /\ command = "data" /\ DataCommand
          /\ UNCHANGED watched
       \/ /\ command = "flush" /\ FlushCommand
          /\ UNCHANGED watched
       \/ /\ command = "unwatch" /\ ClearWatched(s) /\ ForgetHistory(s)
          /\ UNCHANGED store
    /\ UNCHANGED <<in_multi, queue, running>>

WATCH(s, K) ==
    /\ running = Nobody /\ ~in_multi[s]
    /\ watched' = [watched EXCEPT ![s] = [k \in Key |->
          IF k \in K THEN [generation |-> generation[k], live |-> Live(k)] ELSE @[k]]]
    /\ disturbed' = [disturbed EXCEPT ![s] = @ \ K]
    /\ flushed' = [flushed EXCEPT ![s] = @ \ K]
    /\ UNCHANGED <<store, in_multi, queue, running>>

MULTI(s) ==
    /\ running = Nobody /\ ~in_multi[s]
    /\ in_multi' = [in_multi EXCEPT ![s] = TRUE]
    /\ queue' = [queue EXCEPT ![s] = <<>>]
    /\ UNCHANGED <<store, watched, running, history>>

(* Mutant: a nested MULTI is queued instead of refused. *)
QueueNested(s, command) ==
    /\ running = Nobody /\ in_multi[s]
    /\ Len(queue[s]) < MaxQueue
    /\ \E c \in {command, "multi"} : queue' = [queue EXCEPT ![s] = Append(@, c)]
    /\ UNCHANGED <<store, in_multi, watched, running, history>>

(* A well-formed command inside a transaction; nested MULTI, WATCH,        *)
(* unknown commands and arity mistakes answer an error and queue nothing.  *)
Queue(s, command) ==
    /\ running = Nobody /\ in_multi[s]
    /\ Len(queue[s]) < MaxQueue
    /\ queue' = [queue EXCEPT ![s] = Append(@, command)]
    /\ UNCHANGED <<store, in_multi, watched, running, history>>

(* Mutant: DISCARD keeps the queue. *)
DiscardKeepsQueue(s) ==
    /\ running = Nobody /\ in_multi[s]
    /\ in_multi' = [in_multi EXCEPT ![s] = FALSE]
    /\ ClearWatched(s) /\ ForgetHistory(s)
    /\ UNCHANGED <<store, queue, running>>

DISCARD(s) ==
    /\ running = Nobody /\ in_multi[s]
    /\ in_multi' = [in_multi EXCEPT ![s] = FALSE]
    /\ queue' = [queue EXCEPT ![s] = <<>>]
    /\ ClearWatched(s) /\ ForgetHistory(s)
    /\ UNCHANGED <<store, running>>

(* Mutant: only generations are compared, expiry goes unnoticed. *)
DirtyGenerations(s) ==
    \E k \in Key : watched[s][k] # Unwatched /\ generation[k] # watched[s][k].generation

(* The abort condition EXEC evaluates. *)
Dirty(s) ==
    \E k \in Key :
       /\ watched[s][k] # Unwatched
       /\ \/ generation[k] # watched[s][k].generation
          \/ Live(k) # watched[s][k].live

(* EXEC: the transaction is closed and the watches dropped either way; a   *)
(* dirty one answers a null array, an empty one an empty array.            *)
EXEC(s) ==
    /\ running = Nobody /\ in_multi[s]
    /\ epoch + Len(queue[s]) <= MaxEpoch   \* room for the queued flushes
    /\ in_multi' = [in_multi EXCEPT ![s] = FALSE]
    /\ IF Dirty(s) \/ queue[s] = <<>>
       THEN queue' = [queue EXCEPT ![s] = <<>>] /\ running' = Nobody
       ELSE UNCHANGED queue /\ running' = s
    /\ ClearWatched(s) /\ ForgetHistory(s)
    /\ UNCHANGED store

(* The replay runs the next queued command through _dispatch_direct. *)
Replay(s) ==
    /\ running = s
    /\ \/ /\ Head(queue[s]) = "data" /\ DataCommand
          /\ UNCHANGED watched
       \/ /\ Head(queue[s]) = "flush" /\ FlushCommand
          /\ UNCHANGED watched
       \/ /\ Head(queue[s]) = "unwatch" /\ ClearWatched(s) /\ ForgetHistory(s)
          /\ UNCHANGED store
    /\ queue' = [queue EXCEPT ![s] = Tail(@)]
    /\ running' = IF Len(queue[s]) = 1 THEN Nobody ELSE s
    /\ UNCHANGED in_multi

(* The connection goes away and with it its Session; a new one starts over.*)
Reconnect(s) ==
    /\ running = Nobody
    /\ in_multi' = [in_multi EXCEPT ![s] = FALSE]
    /\ queue' = [queue EXCEPT ![s] = <<>>]
    /\ ClearWatched(s) /\ ForgetHistory(s)
    /\ UNCHANGED <<store, running>>

Next ==
    \/ \E k \in Key : Expire(k)
    \/ \E s \in Session :
         \/ \E c \in Command : Direct(s, c) \/ Queue(s, c)
         \/ \E K \in SUBSET Key : WATCH(s, K)
         \/ MULTI(s) \/ DISCARD(s) \/ EXEC(s) \/ Replay(s) \/ Reconnect(s)

Spec == Init /\ [][Next]_vars

-----------------------------------------------------------------------------
(* The sessions and the store are well formed (class Session, Data). *)
TypeOK ==
    /\ content \in [Key -> Content \cup {Absent}]
    /\ generation \in [Key -> Nat]
    /\ epoch \in Nat
    /\ in_multi \in [Session -> BOOLEAN]
    /\ queue \in [Session -> Seq(Command)]
    /\ watched \in [Session -> [Key -> Stamp \cup {Unwatched}]]
    /\ running \in Session \cup {Nobody}
    /\ disturbed \in [Session -> SUBSET Key]
    /\ flushed \in [Session -> SUBSET Key]

(* EXEC's comparison of generation and liveness is exact: as long as no    *)
(* FLUSHDB hit a watched key, a transaction is dirty if and only if some   *)
(* watched key was written, changed, deleted or expired since its WATCH,   *)
(* also when it was deleted and recreated with the same value.             *)
ExecAbortsExactly ==
    \A s \in Session :
       flushed[s] = {} => (Dirty(s) <=> disturbed[s] # {})

(* A connection outside MULTI holds no queued command, unless its own EXEC *)
(* is replaying them, so nothing left over from an aborted, discarded or   *)
(* interrupted transaction can run in a later one.                         *)
NoLeftoverCommands ==
    \A s \in Session :
       /\ queue[s] # <<>> => (in_multi[s] \/ running = s)
       /\ running = s => ~in_multi[s] /\ queue[s] # <<>>
=============================================================================
