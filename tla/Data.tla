-------------------------------- MODULE Data --------------------------------
(***************************************************************************)
(* The TTL-aware key-value store of kagni/data.py, as operators on a store *)
(* record.  A command handler makes several Data calls in one uninterrupted*)
(* step of the event loop, so the calls are functions from store to store  *)
(* that a command's action composes; every call takes the reading `now' of *)
(* the monotonic clock it makes, and `wall' where it reads the wall clock. *)
(*                                                                         *)
(* `events' holds the keyspace notifications of the command in progress:   *)
(* what Data.on_purge and CommandSetMixin._notify hand to the hub.         *)
(***************************************************************************)
EXTENDS Integers

CONSTANTS
    Key,      \* keys clients use
    Value,    \* stored values
    Absent,   \* no entry / no value (Python's None)
    NoTTL     \* "expires_at": None

Entry == [value: Value, expires_at: Int \cup {NoTTL}]

EventName == {"set", "append", "setrange", "incrby", "incrbyfloat",
              "del", "expire", "persist", "expired",
              "hset", "hdel", "hincrby", "hexpire", "hpersist"}

Store == [storage: [Key -> Entry \cup {Absent}],
          generations: [Key -> Nat],
          epoch: Nat,
          events: SUBSET (Key \X EventName)]

(* No sentinel can be mistaken for data. *)
ASSUME SentinelAssumption ==
    /\ Absent \notin Entry
    /\ Absent \notin Value
    /\ NoTTL \notin Int

NoEntries == [k \in Key |-> Absent]
NoGenerations == [k \in Key |-> 0]

-----------------------------------------------------------------------------
(* Reads *)

Live(entry, now) ==
    /\ entry # Absent
    /\ (entry.expires_at = NoTTL \/ entry.expires_at > now)

(* __contains__ and is_live: no purging. *)
Contains(d, k, now) == Live(d.storage[k], now)

(* The value get, __getitem__ answer: an expired key reads as missing. *)
Read(d, k, now) == IF Contains(d, k, now) THEN d.storage[k].value ELSE Absent

(* What clients can observe of a key at time now: its value and deadline. *)
Observed(d, k, now) == IF Contains(d, k, now) THEN d.storage[k] ELSE Absent

Corpse(d, k, now) == d.storage[k] # Absent /\ ~Live(d.storage[k], now)

(* Mutant: the event is published under a name of its own. *)
NotifyUnknown(d, k, event) == [d EXCEPT !.events = @ \cup {<<k, "evicted">>}]

Notify(d, k, event) == [d EXCEPT !.events = @ \cup {<<k, event>>}]

Drop(d, k) == [d EXCEPT !.storage[k] = Absent]

PurgeKey(d, k) == Notify(Drop(d, k), k, "expired")

(* The side effect of get, ttl_ms, wall_expiry: a corpse is purged. *)
Reap(d, k, now) == IF Corpse(d, k, now) THEN PurgeKey(d, k) ELSE d

(* _sweep, run by the aggregate views and by snapshot(). *)
Sweep(d, now) ==
    [d EXCEPT !.storage = [k \in Key |-> IF Corpse(d, k, now) THEN Absent ELSE @[k]],
              !.events = @ \cup {<<k, "expired">> : k \in {c \in Key : Corpse(d, c, now)}}]

-----------------------------------------------------------------------------
(* Writes *)

Put(d, k, entry) == [d EXCEPT !.storage[k] = entry]

SetItem(d, k, v) == Put(d, k, [value |-> v, expires_at |-> NoTTL])

(* The monotonic deadline for an absolute wall-clock deadline. *)
Monotonic(deadline, now, wall) == now + (deadline - wall)

(* set(): keep_ttl only preserves the deadline of an entry that is still   *)
(* live at this call's own clock reading.                                  *)
Set(d, k, v, deadline, keepTTL, now, wall) ==
    Put(d, k, [value |-> v,
               expires_at |->
                 IF keepTTL /\ Contains(d, k, now) THEN d.storage[k].expires_at
                 ELSE IF deadline # NoTTL THEN Monotonic(deadline, now, wall)
                 ELSE NoTTL])

Touch(d, k) == [d EXCEPT !.generations[k] = @ + 1]

(* Mutant: _after_write forgets touch(). *)
AfterWriteUntouched(d, k, event) == Notify(d, k, event)

(* CommandSetMixin._after_write *)
AfterWrite(d, k, event) == Notify(Touch(d, k), k, event)

(* Mutant: clear() steps the epoch the wrong way. *)
ClearRewindsEpoch(d) == [storage |-> NoEntries,
                         generations |-> NoGenerations,
                         epoch |-> d.epoch - 1,
                         events |-> d.events]

Clear(d) == [storage |-> NoEntries,
             generations |-> NoGenerations,
             epoch |-> d.epoch + 1,
             events |-> d.events]

-----------------------------------------------------------------------------
(* Expiration: each operation with its 1/0 answer. *)

(* expire() and expire_at() once the new monotonic deadline is known: a    *)
(* deadline that is not in the future deletes the key.                     *)
Expire(d, k, expires_at, now) ==
    IF ~Contains(d, k, now) THEN Reap(d, k, now)
    ELSE IF expires_at <= now THEN Drop(d, k)
    ELSE Put(d, k, [d.storage[k] EXCEPT !.expires_at = expires_at])

(* persist(): a corpse is deleted without the on_purge callback. *)
Persist(d, k, now) ==
    IF ~Contains(d, k, now) THEN Drop(d, k)
    ELSE Put(d, k, [d.storage[k] EXCEPT !.expires_at = NoTTL])

Persists(d, k, now) == Contains(d, k, now) /\ d.storage[k].expires_at # NoTTL

-----------------------------------------------------------------------------
(* Snapshots: rows <<value, wall deadline>> of the live keys. *)

Row == [value: Value, deadline: Int \cup {NoTTL}]

(* Mutant: the monotonic deadline is stored as it is. *)
SnapshotMonotonic(d, now, wall) ==
    [k \in Key |->
        IF ~Contains(d, k, now) THEN Absent
        ELSE [value |-> d.storage[k].value, deadline |-> d.storage[k].expires_at]]

Snapshot(d, now, wall) ==
    [k \in Key |->
        IF ~Contains(d, k, now) THEN Absent
        ELSE [value |-> d.storage[k].value,
              deadline |-> IF d.storage[k].expires_at = NoTTL THEN NoTTL
                           ELSE wall + (d.storage[k].expires_at - now)]]

(* restore() into an empty store: rows whose deadline passed are dropped. *)
Restored(rows, now, wall) ==
    [k \in Key |->
        IF rows[k] = Absent THEN Absent
        ELSE IF rows[k].deadline = NoTTL
             THEN [value |-> rows[k].value, expires_at |-> NoTTL]
        ELSE IF Monotonic(rows[k].deadline, now, wall) <= now THEN Absent
        ELSE [value |-> rows[k].value,
              expires_at |-> Monotonic(rows[k].deadline, now, wall)]]
=============================================================================
