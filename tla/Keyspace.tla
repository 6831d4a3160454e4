------------------------------ MODULE Keyspace ------------------------------
(***************************************************************************)
(* The generic and string commands of kagni/commands/basic.py on one       *)
(* store.  A command runs to completion on the event loop, but it reads    *)
(* the clock more than once while it runs: its lookups happen at `clock'   *)
(* and its last store call at some t >= clock, so a deadline may pass in   *)
(* the middle of a command.                                                *)
(*                                                                         *)
(* String values are the integers a counter can hold, other text, and the  *)
(* result of growing a string past MAX_STRING_SIZE; every other member of  *)
(* Value stands for a list, hash, set, zset or bitmap.                     *)
(***************************************************************************)
EXTENDS Data

CONSTANTS
    Number,       \* the values of a 64-bit counter, scaled down
    Text,         \* a string that is not an integer
    TooBig,       \* a string longer than MAX_STRING_SIZE
    Deadline,     \* wall-clock deadlines clients ask for
    Seconds,      \* relative TTLs clients ask for, non-positive ones too
    WallOffset,   \* wall clock minus monotonic clock
    MaxTime,      \* bound on the monotonic clock
    MaxGeneration \* bound on a key's write generation, and on the epoch

String == Number \cup {Text, TooBig}

ASSUME KeyspaceAssumption ==
    /\ Number \subseteq Int
    /\ String \subseteq Value
    /\ Deadline \subseteq Int
    /\ Seconds \subseteq Int
    /\ WallOffset \in Int
    /\ MaxTime \in Nat
    /\ MaxGeneration \in Nat

VARIABLES
    d,      \* the store
    clock   \* the monotonic clock

vars == <<d, clock>>

Wall(t) == t + WallOffset

Later == clock .. MaxTime

(* The store as a command finds it: no event published yet. *)
Begin == [d EXCEPT !.events = {}]

InBounds == d.epoch < MaxGeneration /\ \A k \in Key : d.generations[k] < MaxGeneration

(* A command whose last clock reading is t leaves the store as s. *)
Answer(t, s) == clock' = t /\ d' = s

(* expect_kind(..., KIND_STRING) raises WRONGTYPE. *)
WrongKind(s, k, now) == Read(s, k, now) \notin String \cup {Absent}

(* A store that may already hold keys: what restore() left. *)
Init ==
    /\ clock = 0
    /\ d \in {[storage |-> s, generations |-> NoGenerations, epoch |-> 0, events |-> {}] :
                s \in [Key -> {[value |-> v, expires_at |-> e] :
                                  v \in Value \ {TooBig}, e \in {NoTTL, 1}} \cup {Absent}]}

-----------------------------------------------------------------------------
(* SET and its variants *)

SetFlags == {f \in SUBSET {"NX", "XX", "GET", "KEEPTTL"} : ~({"NX", "XX"} \subseteq f)}

SET(k, v, flags, deadline) ==
    /\ InBounds
    /\ "KEEPTTL" \in flags => deadline = NoTTL
    /\ \E t \in Later :
         LET s == IF "GET" \in flags THEN Reap(Begin, k, clock) ELSE Begin
             found == Contains(s, k, clock)
             refused == \/ "GET" \in flags /\ WrongKind(s, k, clock)
                        \/ "NX" \in flags /\ found
                        \/ "XX" \in flags /\ ~found
                        \/ v = TooBig
             written == AfterWrite(Set(s, k, v, deadline, "KEEPTTL" \in flags, t, Wall(t)),
                                   k, "set")
         IN Answer(t, IF refused THEN s
                      ELSE IF deadline = NoTTL THEN written
                      ELSE Notify(written, k, "expire"))

SETNX(k, v) ==
    /\ InBounds
    /\ \E t \in Later :
         Answer(t, IF Contains(Begin, k, clock) \/ v = TooBig THEN Begin
                   ELSE AfterWrite(Set(Begin, k, v, NoTTL, FALSE, t, Wall(t)), k, "set"))

(* SETEX, PSETEX: no size guard. *)
SETEX(k, v, deadline) ==
    /\ InBounds
    /\ \E t \in Later :
         Answer(t, Notify(AfterWrite(Set(Begin, k, v, deadline, FALSE, t, Wall(t)), k, "set"),
                          k, "expire"))

GETSET(k, v) ==
    /\ InBounds
    /\ LET s == Reap(Begin, k, clock)
       IN Answer(clock, IF WrongKind(s, k, clock) \/ v = TooBig THEN s
                        ELSE AfterWrite(SetItem(s, k, v), k, "set"))

(* update() and one _after_write per key.  A key named twice would only be *)
(* touched twice, so the pairs are a function.                             *)
PutAll(s, f) ==
    [s EXCEPT !.storage = [k \in Key |-> IF k \in DOMAIN f
                                         THEN [value |-> f[k], expires_at |-> NoTTL]
                                         ELSE @[k]],
              !.generations = [k \in Key |-> IF k \in DOMAIN f THEN @[k] + 1 ELSE @[k]],
              !.events = @ \cup {<<k, "set">> : k \in DOMAIN f}]

MSET(f) ==
    /\ InBounds
    /\ Answer(clock, IF \E k \in DOMAIN f : f[k] = TooBig THEN Begin ELSE PutAll(Begin, f))

MSETNX(f) ==
    /\ InBounds
    /\ Answer(clock, IF \E k \in DOMAIN f : Contains(Begin, k, clock) \/ f[k] = TooBig
                     THEN Begin ELSE PutAll(Begin, f))

-----------------------------------------------------------------------------
(* In-place edits: read the value, then set(..., keep_ttl=True). *)

(* Mutant: keep_ttl is forgotten. *)
EditClearsTTL(s, k, v, event, t) ==
    AfterWrite(Set(s, k, v, NoTTL, FALSE, t, Wall(t)), k, event)

Edit(s, k, v, event, t) ==
    AfterWrite(Set(s, k, v, NoTTL, TRUE, t, Wall(t)), k, event)

(* INCR, INCRBY, DECR, DECRBY *)
Bump(k, by) ==
    /\ InBounds
    /\ \E t \in Later :
         LET s == Reap(Begin, k, clock)
             val == Read(s, k, clock)
             current == IF val = Absent THEN 0 ELSE val
         IN Answer(t, IF val \in Number \cup {Absent} /\ current + by \in Number
                      THEN Edit(s, k, current + by, "incrby", t) ELSE s)

(* INCRBYFLOAT: a result with a fraction is text to the counters; TooBig   *)
(* stands for no finite result (not a float, or an overflow).              *)
INCRBYFLOAT(k, result) ==
    /\ InBounds
    /\ \E t \in Later :
         LET s == Reap(Begin, k, clock)
             finite == result # TooBig
         IN Answer(t, IF WrongKind(s, k, clock) \/ ~finite THEN s
                      ELSE Edit(s, k, result, "incrbyfloat", t))

(* APPEND and SETRANGE: result stands for the edited string. *)
Grow(k, result, event) ==
    /\ InBounds
    /\ \E t \in Later :
         LET s == Reap(Begin, k, clock)
         IN Answer(t, IF WrongKind(s, k, clock) \/ result = TooBig THEN s
                      ELSE Edit(s, k, result, event, t))

-----------------------------------------------------------------------------
(* Deletion and expiry *)

GETDEL(k) ==
    /\ InBounds
    /\ LET s == Reap(Begin, k, clock)
       IN Answer(clock, IF Read(s, k, clock) \notin String THEN s
                        ELSE AfterWrite(Drop(s, k), k, "del"))

DEL(K) ==
    /\ InBounds
    /\ \E t \in Later :
         LET removed == {k \in K : Contains(Begin, k, t)}
         IN Answer(t, [Begin EXCEPT
                !.storage = [k \in Key |-> IF k \in K THEN Absent ELSE @[k]],
                !.generations = [k \in Key |-> IF k \in removed THEN @[k] + 1 ELSE @[k]],
                !.events = {<<k, "del">> : k \in removed}])

GETEX(k, deadline, persist) ==
    /\ InBounds
    /\ persist => deadline = NoTTL
    /\ \E t \in Later :
         LET s == Reap(Begin, k, clock)
         IN Answer(t,
              IF Read(s, k, clock) \notin String THEN s
              ELSE IF persist THEN AfterWrite(Persist(s, k, t), k, "persist")
              ELSE IF deadline = NoTTL THEN s
              ELSE IF deadline <= Wall(t) THEN AfterWrite(Drop(s, k), k, "del")
              ELSE AfterWrite(Set(s, k, s.storage[k].value, deadline, FALSE, t, Wall(t)),
                              k, "expire"))

(* Mutant: the event's liveness test is made before the update. *)
ExpireToStale(k, expires_at) ==
    /\ InBounds
    /\ \E t \in Later :
         LET s == Expire(Begin, k, expires_at, clock)
         IN Answer(t, IF ~Contains(Begin, k, clock) THEN s
                      ELSE AfterWrite(s, k, IF Contains(Begin, k, clock) THEN "expire" ELSE "del"))

(* The EXPIRE family: live_before and the update at clock, the liveness    *)
(* that picks the event at t.                                              *)
ExpireTo(k, expires_at) ==
    /\ InBounds
    /\ \E t \in Later :
         LET s == Expire(Begin, k, expires_at, clock)
         IN Answer(t, IF ~Contains(Begin, k, clock) THEN s
                      ELSE AfterWrite(s, k, IF Contains(s, k, t) THEN "expire" ELSE "del"))

EXPIRE(k, secs) == ExpireTo(k, clock + secs)

(* PEXPIRE, EXPIREAT, PEXPIREAT *)
EXPIREAT(k, deadline) == ExpireTo(k, Monotonic(deadline, clock, Wall(clock)))

PERSIST(k) ==
    /\ InBounds
    /\ Answer(clock, IF Persists(Begin, k, clock)
                     THEN AfterWrite(Persist(Begin, k, clock), k, "persist")
                     ELSE Persist(Begin, k, clock))

(* FLUSHDB, FLUSHALL *)
FLUSHALL == InBounds /\ Answer(clock, Clear(Begin))

-----------------------------------------------------------------------------
(* Reads *)

(* GET, GETRANGE, SUBSTR, STRLEN, TYPE, TTL, PTTL, EXPIRETIME, PEXPIRETIME *)
Lookup(k) == Answer(clock, Reap(Begin, k, clock))

(* MGET and LCS reap the keys they read; a key of another kind ends the    *)
(* command with WRONGTYPE, wherever it stands among the arguments.         *)
MGET(K) ==
    \E read \in SUBSET K :
       /\ (\A k \in K : ~WrongKind(Begin, k, clock)) => read = K
       /\ LET dead == {k \in read : Corpse(Begin, k, clock)}
          IN Answer(clock, [Begin EXCEPT
                !.storage = [k \in Key |-> IF k \in dead THEN Absent ELSE @[k]],
                !.events = {<<k, "expired">> : k \in dead}])

(* KEYS, SCAN, DBSIZE, INFO keyspace *)
Aggregate == Answer(clock, Sweep(Begin, clock))

(* EXISTS, TOUCH *)
Probe == Answer(clock, Begin)

Tick == clock < MaxTime /\ clock' = clock + 1 /\ d' = d

-----------------------------------------------------------------------------
Assignments == UNION {[K -> String] : K \in (SUBSET Key) \ {{}}}

Write(k) ==
    \/ \E v \in String, f \in SetFlags, t \in Deadline \cup {NoTTL} : SET(k, v, f, t)
    \/ \E v \in String : SETNX(k, v) \/ GETSET(k, v)
    \/ \E v \in String, t \in Deadline : SETEX(k, v, t)
    \/ \E by \in {-1, 1} : Bump(k, by)
    \/ \E v \in String : INCRBYFLOAT(k, v)
    \/ \E v \in String, event \in {"append", "setrange"} : Grow(k, v, event)
    \/ GETDEL(k) \/ PERSIST(k)
    \/ \E t \in Deadline \cup {NoTTL}, p \in BOOLEAN : GETEX(k, t, p)
    \/ \E secs \in Seconds : EXPIRE(k, secs)
    \/ \E t \in Deadline : EXPIREAT(k, t)

Next ==
    \/ \E k \in Key : Write(k) \/ Lookup(k)
    \/ \E f \in Assignments : MSET(f) \/ MSETNX(f)
    \/ \E K \in SUBSET Key : DEL(K) \/ MGET(K)
    \/ FLUSHALL \/ Aggregate \/ Probe \/ Tick

Spec == Init /\ [][Next]_vars

-----------------------------------------------------------------------------
(* The store has its type and the clock its range: what every Data and     *)
(* command handler of basic.py preserves.                                  *)
TypeOK == d \in Store /\ clock \in 0 .. MaxTime

Contract == INSTANCE Versioned WITH
    content <- [k \in Key |-> Observed(d, k, clock)],
    generation <- d.generations,
    epoch <- d.epoch, Unnoticed <- {}

(* Every command keeps the promise WATCH rests on (Versioned): no handler  *)
(* of basic.py makes a key appear, or changes its value or deadline,       *)
(* without _after_write, even when deadlines pass while it runs; only a    *)
(* flush starts the generations over.                                      *)
ImplementsVersioned == Contract!Spec

NewEvent(k, event) == d'.events # d.events /\ <<k, event>> \in d'.events \ d.events

(* Keyspace events tell the truth about deaths: "expired" (on_purge) is    *)
(* sent only for an entry whose deadline passed and which is dropped or    *)
(* replaced in the same command, "del" only for a key that was live and    *)
(* is now gone.  And no live key is deleted silently: one whose deadline   *)
(* has not passed and whose entry is gone was announced, or flushed.       *)
DeathEventsExact ==
    [][\A k \in Key :
         /\ NewEvent(k, "expired") =>
                /\ Corpse(d, k, clock')
                /\ d'.storage[k] = Absent \/ d'.generations[k] > d.generations[k]
         /\ NewEvent(k, "del") =>
                Contains(d, k, clock) /\ ~Contains(d', k, clock')
         /\ (Contains(d, k, clock') /\ d'.storage[k] = Absent /\ d'.epoch = d.epoch) =>
                <<k, "del">> \in d'.events]_vars

(* Counters and in-place edits update "the value without touching the      *)
(* key's expiration" (_bump): a key that stays live to the end of INCR,    *)
(* INCRBYFLOAT, APPEND or SETRANGE has the deadline it had, also when the  *)
(* clock moves between the command's read and its store.  A key that dies  *)
(* in between is stored without a deadline.                                *)
EditsKeepTTL ==
    [][\A k \in Key, e \in {"incrby", "incrbyfloat", "append", "setrange"} :
         (NewEvent(k, e) /\ Contains(d, k, clock'))
            => d'.storage[k].expires_at = d.storage[k].expires_at]_vars
=============================================================================
