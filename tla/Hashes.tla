------------------------------- MODULE Hashes -------------------------------
(***************************************************************************)
(* The hash commands of kagni/commands/hash.py.  A hash is a dict of       *)
(* fields, each with a value and, once the HEXPIRE family touched it, a    *)
(* wall-clock deadline of its own.  Expired fields stay in the dict until  *)
(* a command looks at them; some of those commands then drop a hash that   *)
(* became empty and some do not.                                           *)
(*                                                                         *)
(* A command looks its key up at `clock' and reads the wall clock anew for *)
(* every field it visits, so a field's deadline may pass between the first *)
(* field of a command and its last.  The wall clock runs with the          *)
(* monotonic one: a wall clock set back would bring fields back to life.   *)
(* A field named twice in a command ends as if it were named once.         *)
(***************************************************************************)
EXTENDS Data

CONSTANTS
    Field,        \* field names
    Number,       \* the values of a 64-bit counter, scaled down
    Text,         \* a field value that is no number
    Other,        \* a value that is not a hash
    When,         \* times asked for by HEXPIRE (from now) and HEXPIREAT
    WallOffset,   \* wall clock minus monotonic clock
    MaxTime,      \* bound on the monotonic clock
    MaxGeneration \* bound on a key's write generation

Wall(t) == t + WallOffset

(* The wall-clock deadlines a field can get. *)
Moment == When \cup {Wall(t) + w : t \in 0 .. MaxTime, w \in When \cup {0}}

FieldValue == Number \cup {Text}
Cell == [value: FieldValue, deadline: Moment \cup {NoTTL}]
Hash == [Field -> Cell \cup {Absent}]

ASSUME HashesAssumption ==
    /\ Number \subseteq Int /\ 0 \in Number
    /\ Value = Hash \cup {Other} /\ Other \notin Hash
    /\ Absent \notin Cell
    /\ When \subseteq Int
    /\ WallOffset \in Int
    /\ MaxTime \in Nat
    /\ MaxGeneration \in Nat

VARIABLES
    d,      \* the store
    clock   \* the monotonic clock

vars == <<d, clock>>

-----------------------------------------------------------------------------
(* Fields *)

Later == clock .. MaxTime

(* _put: without a deadline, or with one. *)
Plain(v) == [value |-> v, deadline |-> NoTTL]

Dead(cell, t) == cell # Absent /\ cell.deadline # NoTTL /\ cell.deadline <= Wall(t)

(* What _field answers at time t. *)
LiveField(cell, t) == IF Dead(cell, t) THEN Absent ELSE cell

(* The fields a command visits, each at its own time, lose their corpses;  *)
(* _purge visits all of them at once.                                      *)
Purged(h, at) == [f \in Field |-> IF f \in DOMAIN at THEN LiveField(h[f], at[f]) ELSE h[f]]

(* Mutant: the sweep runs ahead of the clock. *)
AllAtNext(t) == [f \in Field |-> t + 1]

AllAt(t) == [f \in Field |-> t]

EmptyHash == [f \in Field |-> Absent]

-----------------------------------------------------------------------------
(* The store under a hash command *)

InBounds == \A k \in Key : d.generations[k] < MaxGeneration

(* The store after _hash looked k up, and the dict it answers, if any. *)
Found(k) == Reap([d EXCEPT !.events = {}], k, clock)
Current(k) == Read(Found(k), k, clock)
Missing(k) == Current(k) = Absent

(* The dict a write works on: a missing key gets a new one. *)
Dict(k) == IF Missing(k) THEN EmptyHash ELSE Current(k)

(* The dict is changed in place, or the new one is stored. *)
Stored(k, h) ==
    Put(Found(k), k, [value |-> h,
                      expires_at |-> IF Missing(k) THEN NoTTL ELSE Found(k).storage[k].expires_at])

(* Mutant: an empty dict stays under its key. *)
DropNever(s, k, h) == s

DropIfEmpty(s, k, h) == IF h = EmptyHash THEN Drop(s, k) ELSE s

(* A command that read the clock last at t leaves the store as s, unless   *)
(* expect_kind raised WRONGTYPE.                                           *)
Answer(k, t, s) ==
    /\ InBounds
    /\ clock' = t
    /\ d' = IF Current(k) = Other THEN Found(k) ELSE s

-----------------------------------------------------------------------------
(* Writes *)

(* HSET, HMSET: a set always clears the field's deadline. *)
HSET(k, pairs) ==
    \E t \in Later :
       LET h == [f \in Field |-> IF f \in DOMAIN pairs THEN Plain(pairs[f]) ELSE Dict(k)[f]]
       IN Answer(k, t, AfterWrite(Stored(k, h), k, "hset"))

HSETNX(k, f, v) ==
    \E t \in Later :
       Answer(k, t, IF ~Missing(k) /\ LiveField(Dict(k)[f], t) # Absent THEN Found(k)
                    ELSE AfterWrite(Stored(k, [Dict(k) EXCEPT ![f] = Plain(v)]), k, "hset"))

HDEL(k, F) ==
    \E t \in Later : \E at \in [F -> clock .. t] :
       LET removed == {f \in F : LiveField(Current(k)[f], at[f]) # Absent}
           h == [f \in Field |-> IF f \in F THEN Absent ELSE Current(k)[f]]
           s == IF removed = {} THEN Stored(k, h) ELSE AfterWrite(Stored(k, h), k, "hdel")
       IN Answer(k, t, IF Missing(k) THEN Found(k)
                       ELSE IF h # EmptyHash THEN s
                       ELSE IF removed = {} THEN Drop(s, k)
                       ELSE Notify(Drop(s, k), k, "del"))

(* Mutant: the sum is written without _after_write. *)
HINCRBYSilent(k, f, increment) ==
    \E t \in Later :
       LET live == LiveField(Dict(k)[f], t)
           old == IF live = Absent THEN Plain(0) ELSE live
       IN Answer(k, t, IF old.value = Text THEN Found(k)
                       ELSE IF old.value + increment \notin Number THEN Found(k)
                       ELSE Stored(k, [Dict(k) EXCEPT
                                         ![f] = [value |-> old.value + increment,
                                                 deadline |-> old.deadline]]))

(* Mutant: the sum is not checked against the 64-bit range. *)
HINCRBYUnchecked(k, f, increment) ==
    \E t \in Later :
       LET live == LiveField(Dict(k)[f], t)
           old == IF live = Absent THEN Plain(0) ELSE live
       IN Answer(k, t, IF old.value = Text THEN Found(k)
                       ELSE AfterWrite(Stored(k, [Dict(k) EXCEPT
                                                    ![f] = [value |-> old.value + increment,
                                                            deadline |-> old.deadline]]),
                                       k, "hincrby"))

(* HINCRBY, HINCRBYFLOAT: the field keeps its deadline; text, and a sum    *)
(* out of range, are refused.                                              *)
HINCRBY(k, f, increment) ==
    \E t \in Later :
       LET live == LiveField(Dict(k)[f], t)
           old == IF live = Absent THEN Plain(0) ELSE live
       IN Answer(k, t, IF old.value = Text THEN Found(k)
                       ELSE IF old.value + increment \notin Number THEN Found(k)
                       ELSE AfterWrite(Stored(k, [Dict(k) EXCEPT
                                                    ![f] = [value |-> old.value + increment,
                                                            deadline |-> old.deadline]]),
                                       k, "hincrby"))

-----------------------------------------------------------------------------
(* Reads *)

(* HGET, HMGET, HEXISTS, HSTRLEN purge what they visit and leave even an   *)
(* empty dict where it is.                                                 *)
FieldRead(k, F) ==
    \E t \in Later : \E at \in [F -> clock .. t] :
       Answer(k, t, IF Missing(k) THEN Found(k) ELSE Stored(k, Purged(Current(k), at)))

(* HLEN, HKEYS, HVALS, HGETALL, HSCAN, HRANDFIELD *)
HashRead(k) ==
    \E t \in Later :
       LET h == Purged(Current(k), AllAt(t))
       IN Answer(k, t, IF Missing(k) THEN Found(k) ELSE DropIfEmpty(Stored(k, h), k, h))

-----------------------------------------------------------------------------
(* Field deadlines *)

Flag == {"none", "NX", "XX", "GT", "LT"}

(* The reply 0: a flag keeps the deadline old from becoming new. *)
Blocked(flag, old, new) ==
    \/ flag = "NX" /\ old # NoTTL
    \/ flag = "XX" /\ old = NoTTL
    \/ flag = "GT" /\ old # NoTTL /\ new <= old
    \/ flag = "LT" /\ (old = NoTTL \/ new >= old)

(* HEXPIRE, HPEXPIRE, HEXPIREAT, HPEXPIREAT: a field is looked up and its  *)
(* new deadline computed at at[f], and compared with the clock at by[f].   *)
HEXPIRE(k, F, when, absolute, flag) ==
    \E t \in Later : \E at, by \in [F -> clock .. t] :
       LET new(f) == IF absolute THEN when ELSE Wall(at[f]) + when
           live(f) == LiveField(Current(k)[f], at[f])
           done == {f \in F : live(f) # Absent /\ ~Blocked(flag, live(f).deadline, new(f))}
           h == [f \in Field |->
                   IF f \notin F THEN Current(k)[f]
                   ELSE IF f \notin done THEN live(f)
                   ELSE IF new(f) <= Wall(by[f]) THEN Absent
                   ELSE [value |-> live(f).value, deadline |-> new(f)]]
           s == IF done = {} THEN Stored(k, h) ELSE AfterWrite(Stored(k, h), k, "hexpire")
       IN /\ \A f \in F : at[f] <= by[f]
          /\ Answer(k, t, IF Missing(k) THEN Found(k)
                          ELSE DropIfEmpty(IF done # {} /\ h = EmptyHash
                                           THEN Notify(s, k, "del") ELSE s, k, h))

(* HTTL, HPTTL, HEXPIRETIME, HPEXPIRETIME: unlike the other reads of       *)
(* single fields, these do drop an empty hash.                             *)
FieldTTL(k, F) ==
    \E t \in Later : \E at \in [F -> clock .. t] :
       LET h == Purged(Current(k), at)
       IN Answer(k, t, IF Missing(k) THEN Found(k) ELSE DropIfEmpty(Stored(k, h), k, h))

HPERSIST(k, F) ==
    \E t \in Later : \E at \in [F -> clock .. t] :
       LET h == Purged(Current(k), at)
           done == {f \in F : h[f] # Absent /\ h[f].deadline # NoTTL}
           kept == [f \in Field |-> IF f \in done THEN Plain(h[f].value) ELSE h[f]]
           s == IF done = {} THEN Stored(k, kept) ELSE AfterWrite(Stored(k, kept), k, "hpersist")
       IN Answer(k, t, IF Missing(k) THEN Found(k) ELSE DropIfEmpty(s, k, kept))

-----------------------------------------------------------------------------
Tick == clock < MaxTime /\ clock' = clock + 1 /\ d' = d

(* The deadlines a restored field may carry, passed ones too. *)
RestoredDeadline == {NoTTL} \cup {Wall(t) : t \in 0 .. MaxTime}

(* What restore() left: fields are loaded as they were stored. *)
Init ==
    /\ clock = 0
    /\ d \in {[storage |-> s, generations |-> NoGenerations, epoch |-> 0, events |-> {}] :
                s \in [Key -> {[value |-> h, expires_at |-> e] :
                                 h \in [Field -> [value: {0, Text}, deadline: RestoredDeadline]
                                                 \cup {Absent}] \cup {Other},
                                 e \in {NoTTL, 1}} \cup {Absent}]}

SomeFields == (SUBSET Field) \ {{}}

Write(k) ==
    \/ \E F \in SomeFields : HDEL(k, F) \/ \E pairs \in [F -> FieldValue] : HSET(k, pairs)
    \/ \E f \in Field, v \in FieldValue : HSETNX(k, f, v)
    \/ \E f \in Field, n \in Number : HINCRBY(k, f, n)

Deadlines(k) ==
    \E F \in SomeFields :
       \/ FieldTTL(k, F)
       \/ HPERSIST(k, F)
       \/ \E when \in When, absolute \in BOOLEAN, flag \in Flag : HEXPIRE(k, F, when, absolute, flag)

Next ==
    \/ \E k \in Key : Write(k) \/ Deadlines(k) \/ HashRead(k) \/ \E F \in SomeFields : FieldRead(k, F)
    \/ Tick

Spec == Init /\ [][Next]_vars

-----------------------------------------------------------------------------
(* The store holds hashes and other values, the clock stays in its bounds. *)
TypeOK == d \in Store /\ clock \in 0 .. MaxTime

(* What a client asking at time t can see of a field. *)
Seen(s, k, f, t) ==
    LET v == Read(s, k, t)
    IN IF v \in {Absent, Other} THEN Absent ELSE LiveField(v[f], t)

Contract == INSTANCE Versioned WITH
    Key <- Key \X Field,
    content <- [p \in Key \X Field |-> Seen(d, p[1], p[2], clock)],
    generation <- [p \in Key \X Field |-> d.generations[p[1]]],
    epoch <- d.epoch, Unnoticed <- {}

(* The hash commands keep the promise WATCH rests on for every single      *)
(* field: its value and deadline only appear or change when _after_write   *)
(* gives the key a new generation, also when its deadline passes in the    *)
(* middle of a command.                                                    *)
FieldsVersioned == Contract!Spec

(* Lazy purging removes corpses only: a field whose deadline is still      *)
(* ahead when a command ends is as it was, unless the command wrote to the *)
(* hash.  Here, unlike in the promise above, it may not vanish either.     *)
ReadsTakeNothing ==
    [][\A k \in Key, f \in Field :
         d'.generations[k] = d.generations[k] =>
            Seen(d', k, f, clock') = Seen(d, k, f, clock')]_vars

HoldsEmpty(s, k) == s.storage[k] # Absent /\ s.storage[k].value = EmptyHash

(* "a hash whose last field ... is deleted disappears": no command that    *)
(* writes to a hash leaves an empty dict, whatever corpses it purged on    *)
(* the way.  The reads of single fields may leave one behind.  And it does *)
(* not disappear silently: a key that goes while one of its fields is      *)
(* still to be seen is announced to the subscribers of the keyspace.       *)
HashesDisappear ==
    [][\A k \in Key :
         /\ (HoldsEmpty(d', k) /\ ~HoldsEmpty(d, k)) =>
                /\ d'.generations[k] = d.generations[k]
                /\ \E F \in SomeFields : FieldRead(k, F)
         /\ (d'.storage[k] = Absent /\ \E f \in Field : Seen(d, k, f, clock') # Absent) =>
                <<k, "del">> \in d'.events]_vars
=============================================================================
