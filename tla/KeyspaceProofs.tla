--------------------------- MODULE KeyspaceProofs ---------------------------
(***************************************************************************)
(* Type correctness of Keyspace, the proof that every command of basic.py  *)
(* keeps the contract of Versioned, and the two action properties: death   *)
(* events are exact, and edits in place keep the deadline; for any set of  *)
(* keys, values, deadlines and any bounds.                                 *)
(***************************************************************************)
EXTENDS Keyspace, TLAPS

USE SentinelAssumption, KeyspaceAssumption

(* Store s2 at time t2 is a lawful successor of store s1 at time t1: a key *)
(* whose generation did not grow shows what it showed, or nothing.         *)
Follows(s1, t1, s2, t2) ==
    /\ s2 \in Store
    /\ s2.epoch = s1.epoch
    /\ \A k \in Key :
         \/ s2.generations[k] > s1.generations[k]
         \/ /\ s2.generations[k] = s1.generations[k]
            /\ Observed(s2, k, t2) \in {Observed(s1, k, t1), Absent}

(* Time alone only makes keys vanish: the empty command prologue. *)
LEMMA BeginFollows ==
    ASSUME d \in Store, clock \in Int, NEW t \in Int, t >= clock
    PROVE  Begin \in Store /\ Follows(d, clock, Begin, t)
<1>1. Begin \in Store
  BY DEF Begin, Store
<1>2. /\ Begin.storage = d.storage
      /\ Begin.generations = d.generations
      /\ Begin.epoch = d.epoch
  BY DEF Begin, Store
<1>3. ASSUME NEW k \in Key
      PROVE Observed(Begin, k, t) \in {Observed(d, k, clock), Absent}
  <2>1. d.storage[k] \in Entry \cup {Absent}
    BY DEF Store
  <2> QED BY <1>2, <2>1 DEF Observed, Contains, Live, Entry
<1> QED BY <1>1, <1>2, <1>3 DEF Follows

(* A notification changes nothing a client can read. *)
LEMMA NotifyFollows ==
    ASSUME NEW s1, NEW t1, NEW s2, NEW t2, Follows(s1, t1, s2, t2),
           NEW k \in Key, NEW e \in EventName
    PROVE  Follows(s1, t1, Notify(s2, k, e), t2)
<1>1. s2 \in Store
  BY DEF Follows
<1>2. /\ Notify(s2, k, e) \in Store
      /\ Notify(s2, k, e).storage = s2.storage
      /\ Notify(s2, k, e).generations = s2.generations
      /\ Notify(s2, k, e).epoch = s2.epoch
  BY <1>1 DEF Notify, Store
<1> QED BY <1>2 DEF Follows, Observed, Contains

(* Deleting an entry without touching it only makes the key vanish. *)
LEMMA DropFollows ==
    ASSUME NEW s1, NEW t1, NEW s2, NEW t2, Follows(s1, t1, s2, t2), NEW k \in Key
    PROVE  Follows(s1, t1, Drop(s2, k), t2)
<1>1. s2 \in Store
  BY DEF Follows
<1>2. /\ Drop(s2, k) \in Store
      /\ Drop(s2, k).generations = s2.generations
      /\ Drop(s2, k).epoch = s2.epoch
      /\ \A j \in Key : Drop(s2, k).storage[j] = IF j = k THEN Absent ELSE s2.storage[j]
  BY <1>1 DEF Drop, Store
<1>3. \A j \in Key : Observed(Drop(s2, k), j, t2) \in {Observed(s2, j, t2), Absent}
  BY <1>2 DEF Observed, Contains, Live
<1> QED BY <1>2, <1>3 DEF Follows

(* Purging a corpse is a deletion and a notification. *)
LEMMA ReapFollows ==
    ASSUME NEW s1, NEW t1, NEW s2, NEW t2, Follows(s1, t1, s2, t2),
           NEW k \in Key, NEW t
    PROVE  Follows(s1, t1, Reap(s2, k, t), t2)
<1>1. Follows(s1, t1, PurgeKey(s2, k), t2)
  BY DropFollows, NotifyFollows DEF PurgeKey, EventName
<1> QED BY <1>1 DEF Reap

(* Whatever is stored under a key, _after_write makes it lawful. *)
LEMMA WriteFollows ==
    ASSUME NEW s1, NEW t1, NEW s2, NEW t2, s1 \in Store, Follows(s1, t1, s2, t2),
           NEW k \in Key, NEW entry \in Entry \cup {Absent}, NEW e \in EventName
    PROVE  Follows(s1, t1, AfterWrite(Put(s2, k, entry), k, e), t2)
<1> DEFINE s3 == Put(s2, k, entry)
           s4 == Touch(s3, k)
<1>1. s2 \in Store
  BY DEF Follows
<1>2. /\ s3 \in Store
      /\ s3.generations = s2.generations
      /\ s3.epoch = s2.epoch
      /\ \A j \in Key : s3.storage[j] = IF j = k THEN entry ELSE s2.storage[j]
  BY <1>1 DEF Put, Store
<1>3. /\ s4 \in Store
      /\ s4.storage = s3.storage
      /\ s4.epoch = s3.epoch
      /\ \A j \in Key : s4.generations[j] = IF j = k THEN s3.generations[j] + 1
                                            ELSE s3.generations[j]
  BY <1>2 DEF Touch, Store
<1>4. \A j \in Key : j # k => Observed(s4, j, t2) = Observed(s2, j, t2)
  BY <1>2, <1>3 DEF Observed, Contains
<1>5. s1.generations[k] \in Nat /\ s2.generations[k] \in Nat
      /\ s2.generations[k] >= s1.generations[k]
  BY <1>1 DEF Store, Follows
<1>6. Follows(s1, t1, s4, t2)
  BY <1>2, <1>3, <1>4, <1>5 DEF Follows
<1> QED BY <1>6, NotifyFollows DEF AfterWrite

(* The same for a value stored by set() and for a deletion. *)
LEMMA SetFollows ==
    ASSUME NEW s1, NEW t1, NEW s2, NEW t2, s1 \in Store, Follows(s1, t1, s2, t2),
           NEW k \in Key, NEW v \in Value, NEW deadline \in Int \cup {NoTTL},
           NEW keep \in BOOLEAN, NEW now \in Int, NEW wall \in Int, NEW e \in EventName
    PROVE  Follows(s1, t1, AfterWrite(Set(s2, k, v, deadline, keep, now, wall), k, e), t2)
<1>1. s2.storage[k] \in Entry \cup {Absent}
  BY DEF Follows, Store
<1>2. (keep /\ Contains(s2, k, now)) => s2.storage[k].expires_at \in Int \cup {NoTTL}
  BY <1>1 DEF Contains, Live, Entry
<1>3. deadline # NoTTL => Monotonic(deadline, now, wall) \in Int
  BY DEF Monotonic
<1> QED BY <1>2, <1>3, WriteFollows DEF Set, Entry

LEMMA DeleteFollows ==
    ASSUME NEW s1, NEW t1, NEW s2, NEW t2, s1 \in Store, Follows(s1, t1, s2, t2),
           NEW k \in Key, NEW e \in EventName
    PROVE  Follows(s1, t1, AfterWrite(Drop(s2, k), k, e), t2)
BY WriteFollows DEF Drop, Put

(* persist() and expire() change one entry, or only drop it. *)
LEMMA PersistFollows ==
    ASSUME NEW s1, NEW t1, NEW s2, NEW t2, s1 \in Store, Follows(s1, t1, s2, t2),
           NEW k \in Key, NEW now, NEW e \in EventName
    PROVE  /\ Follows(s1, t1, AfterWrite(Persist(s2, k, now), k, e), t2)
           /\ ~Persists(s2, k, now) => Follows(s1, t1, Persist(s2, k, now), t2)
<1>1. s2 \in Store /\ s2.storage[k] \in Entry \cup {Absent}
  BY DEF Follows, Store
<1>2. CASE ~Contains(s2, k, now)
  BY <1>2, DeleteFollows, DropFollows DEF Persist
<1>3. CASE Contains(s2, k, now)
  <2>1. [s2.storage[k] EXCEPT !.expires_at = NoTTL] \in Entry
    BY <1>1, <1>3 DEF Contains, Live, Entry
  <2>2. Follows(s1, t1, AfterWrite(Persist(s2, k, now), k, e), t2)
    BY <1>3, <2>1, WriteFollows DEF Persist
  <2>3. ASSUME ~Persists(s2, k, now)
        PROVE  Follows(s1, t1, Persist(s2, k, now), t2)
    <3>1. s2.storage[k] \in Entry /\ s2.storage[k].expires_at = NoTTL
      BY <1>1, <1>3, <2>3 DEF Persists, Contains, Live
    <3>2. [s2.storage[k] EXCEPT !.expires_at = NoTTL] = s2.storage[k]
      BY <3>1 DEF Entry
    <3>3. Persist(s2, k, now) = s2
      BY <1>1, <1>3, <3>2 DEF Persist, Put, Store
    <3> QED BY <3>3
  <2> QED BY <2>2, <2>3
<1> QED BY <1>2, <1>3

LEMMA ExpireFollows ==
    ASSUME NEW s1, NEW t1, NEW s2, NEW t2, s1 \in Store, Follows(s1, t1, s2, t2),
           NEW k \in Key, NEW at \in Int, NEW now, NEW e \in EventName
    PROVE  /\ Contains(s2, k, now) =>
                 Follows(s1, t1, AfterWrite(Expire(s2, k, at, now), k, e), t2)
           /\ ~Contains(s2, k, now) => Follows(s1, t1, Expire(s2, k, at, now), t2)
<1>1. s2 \in Store /\ s2.storage[k] \in Entry \cup {Absent}
  BY DEF Follows, Store
<1>2. CASE ~Contains(s2, k, now)
  BY <1>2, ReapFollows DEF Expire
<1>3. CASE Contains(s2, k, now)
  <2>1. [s2.storage[k] EXCEPT !.expires_at = at] \in Entry
    BY <1>1, <1>3 DEF Contains, Live, Entry
  <2>2. CASE at <= now
    BY <1>3, <2>2, DeleteFollows DEF Expire
  <2>3. CASE ~(at <= now)
    BY <1>3, <2>1, <2>3, WriteFollows DEF Expire
  <2> QED BY <1>3, <2>2, <2>3
<1> QED BY <1>2, <1>3

(* Sweeping, and reading many keys, drops corpses without touching them. *)
LEMMA ManyFollow ==
    ASSUME NEW s1, NEW t1, NEW s2, NEW t2, Follows(s1, t1, s2, t2), NEW s3 \in Store,
           s3.epoch = s2.epoch,
           \A k \in Key : s3.generations[k] = s2.generations[k],
           \A k \in Key : s3.storage[k] \in {s2.storage[k], Absent}
    PROVE  Follows(s1, t1, s3, t2)
<1>1. \A k \in Key : Observed(s3, k, t2) \in {Observed(s2, k, t2), Absent}
  BY DEF Observed, Contains, Live
<1> QED BY <1>1 DEF Follows

-----------------------------------------------------------------------------
(* Every command but a flush is a lawful step. *)
Lawful == clock' \in 0 .. MaxTime /\ Follows(d, clock, d', clock')

(* What every command starts from. *)
LEMMA Prologue ==
    ASSUME TypeOK, NEW t \in Later
    PROVE  /\ d \in Store /\ clock \in Int /\ t \in Int /\ Wall(t) \in Int
           /\ t \in 0 .. MaxTime /\ clock \in Later
           /\ Begin \in Store /\ Follows(d, clock, Begin, t)
           /\ \A k \in Key : Follows(d, clock, Reap(Begin, k, clock), t)
<1>1. d \in Store /\ clock \in Int /\ t \in Int /\ t >= clock /\ Wall(t) \in Int
      /\ t \in 0 .. MaxTime /\ clock \in Later
  BY DEF TypeOK, Later, Wall
<1>2. Begin \in Store /\ Follows(d, clock, Begin, t)
  BY <1>1, BeginFollows
<1>3. \A k \in Key : Follows(d, clock, Reap(Begin, k, clock), t)
  BY <1>2, ReapFollows
<1> QED BY <1>1, <1>2, <1>3

LEMMA ClockInLater == TypeOK => clock \in Later
BY DEF TypeOK, Later

LEMMA SetLawful ==
    ASSUME TypeOK, NEW k \in Key, NEW v \in String, NEW flags \in SetFlags,
           NEW deadline \in Deadline \cup {NoTTL}, SET(k, v, flags, deadline)
    PROVE  Lawful
<1> DEFINE s == IF "GET" \in flags THEN Reap(Begin, k, clock) ELSE Begin
           written(t) == AfterWrite(Set(s, k, v, deadline, "KEEPTTL" \in flags, t, Wall(t)),
                                    k, "set")
<1>1. PICK t \in Later : \/ Answer(t, s)
                         \/ Answer(t, written(t))
                         \/ Answer(t, Notify(written(t), k, "expire"))
  BY DEF SET
<1>2. Follows(d, clock, s, t) /\ d \in Store /\ t \in 0 .. MaxTime
      /\ t \in Int /\ Wall(t) \in Int
  BY Prologue
<1>3. v \in Value /\ deadline \in Int \cup {NoTTL} /\ "set" \in EventName
      /\ "expire" \in EventName /\ ("KEEPTTL" \in flags) \in BOOLEAN
  BY DEF EventName
<1> HIDE DEF s
<1>4. Follows(d, clock, written(t), t)
  BY <1>2, <1>3, SetFollows
<1>5. Follows(d, clock, Notify(written(t), k, "expire"), t)
  BY <1>3, <1>4, NotifyFollows
<1> QED BY <1>1, <1>2, <1>4, <1>5 DEF Answer, Lawful

LEMMA StoreLawful ==
    ASSUME TypeOK, NEW k \in Key, NEW v \in String,
           SETNX(k, v) \/ GETSET(k, v) \/ \E t \in Deadline : SETEX(k, v, t)
    PROVE  Lawful
<1>0. v \in Value /\ "set" \in EventName /\ "expire" \in EventName
      /\ NoTTL \in Int \cup {NoTTL} /\ FALSE \in BOOLEAN /\ Deadline \subseteq Int
  BY DEF EventName
<1>1. CASE SETNX(k, v)
  <2>1. PICK t \in Later :
          \/ Answer(t, Begin)
          \/ Answer(t, AfterWrite(Set(Begin, k, v, NoTTL, FALSE, t, Wall(t)), k, "set"))
    BY <1>1 DEF SETNX
  <2>2. Follows(d, clock, AfterWrite(Set(Begin, k, v, NoTTL, FALSE, t, Wall(t)), k, "set"), t)
    BY <1>0, Prologue, SetFollows
  <2> QED BY <2>1, <2>2, Prologue DEF Answer, Lawful
<1>2. CASE GETSET(k, v)
  <2> DEFINE s == Reap(Begin, k, clock)
  <2>1. Answer(clock, s) \/ Answer(clock, AfterWrite(SetItem(s, k, v), k, "set"))
    BY <1>2 DEF GETSET
  <2>2. Follows(d, clock, s, clock) /\ d \in Store
    BY ClockInLater, Prologue
  <2>3. [value |-> v, expires_at |-> NoTTL] \in Entry
    BY <1>0 DEF Entry
  <2> HIDE DEF s
  <2>4. Follows(d, clock, AfterWrite(SetItem(s, k, v), k, "set"), clock)
    BY <1>0, <2>2, <2>3, WriteFollows DEF SetItem
  <2> QED BY <2>1, <2>2, <2>4 DEF Answer, Lawful, TypeOK
<1>3. CASE \E deadline \in Deadline : SETEX(k, v, deadline)
  <2>1. PICK deadline \in Deadline : SETEX(k, v, deadline)
    BY <1>3
  <2> DEFINE written(t) == AfterWrite(Set(Begin, k, v, deadline, FALSE, t, Wall(t)), k, "set")
  <2>2. PICK t \in Later : Answer(t, Notify(written(t), k, "expire"))
    BY <2>1 DEF SETEX
  <2>3. deadline \in Int \cup {NoTTL}
    BY <1>0
  <2>4. Follows(d, clock, written(t), t)
    BY <1>0, <2>3, Prologue, SetFollows
  <2>5. Follows(d, clock, Notify(written(t), k, "expire"), t)
    BY <1>0, <2>4, NotifyFollows
  <2> QED BY <2>2, <2>5, Prologue DEF Answer, Lawful
<1> QED BY <1>1, <1>2, <1>3

LEMMA EditLawful ==
    ASSUME TypeOK, NEW k \in Key, NEW v \in String, NEW e \in EventName, NEW t \in Later,
           Answer(t, Edit(Reap(Begin, k, clock), k, v, e, t))
           \/ Answer(t, Reap(Begin, k, clock))
    PROVE  Lawful
<1>1. v \in Value /\ NoTTL \in Int \cup {NoTTL} /\ TRUE \in BOOLEAN
  OBVIOUS
<1>2. Follows(d, clock, Edit(Reap(Begin, k, clock), k, v, e, t), t)
  BY <1>1, Prologue, SetFollows DEF Edit
<1> QED BY <1>2, Prologue DEF Answer, Lawful

LEMMA InPlaceLawful ==
    ASSUME TypeOK, NEW k \in Key,
           \/ \E by \in {-1, 1} : Bump(k, by)
           \/ \E v \in String : INCRBYFLOAT(k, v)
           \/ \E v \in String, event \in {"append", "setrange"} : Grow(k, v, event)
    PROVE  Lawful
<1> DEFINE s == Reap(Begin, k, clock)
<1>1. CASE \E by \in {-1, 1} : Bump(k, by)
  <2>1. PICK t \in Later :
          Answer(t, s) \/ \E n \in Number : Answer(t, Edit(s, k, n, "incrby", t))
    BY <1>1 DEF Bump
  <2> QED BY <2>1, EditLawful DEF String, EventName
<1>2. CASE \E v \in String : INCRBYFLOAT(k, v)
  <2>1. PICK v \in String, t \in Later :
          Answer(t, s) \/ Answer(t, Edit(s, k, v, "incrbyfloat", t))
    BY <1>2 DEF INCRBYFLOAT
  <2> QED BY <2>1, EditLawful DEF EventName
<1>3. CASE \E v \in String, event \in {"append", "setrange"} : Grow(k, v, event)
  <2>1. PICK v \in String, event \in {"append", "setrange"}, t \in Later :
          Answer(t, s) \/ Answer(t, Edit(s, k, v, event, t))
    BY <1>3 DEF Grow
  <2> QED BY <2>1, EditLawful DEF EventName
<1> QED BY <1>1, <1>2, <1>3

LEMMA ExpireLawful ==
    ASSUME TypeOK, NEW k \in Key,
           \/ \E secs \in Seconds : EXPIRE(k, secs)
           \/ \E t \in Deadline : EXPIREAT(k, t)
    PROVE  Lawful
<1>1. PICK at \in Int : ExpireTo(k, at)
  BY DEF EXPIRE, EXPIREAT, Monotonic, Wall, TypeOK
<1> DEFINE s == Expire(Begin, k, at, clock)
           event(t) == IF Contains(s, k, t) THEN "expire" ELSE "del"
<1>2. PICK t \in Later :
        Answer(t, IF ~Contains(Begin, k, clock) THEN s ELSE AfterWrite(s, k, event(t)))
  BY <1>1 DEF ExpireTo
<1>3. event(t) \in EventName
  BY DEF EventName
<1> HIDE DEF event
<1>4. IF Contains(Begin, k, clock) THEN Follows(d, clock, AfterWrite(s, k, event(t)), t)
      ELSE Follows(d, clock, s, t)
  BY <1>3, Prologue, ExpireFollows
<1> QED BY <1>2, <1>4, Prologue DEF Answer, Lawful

LEMMA GetexLawful ==
    ASSUME TypeOK, NEW k \in Key, NEW deadline \in Deadline \cup {NoTTL},
           NEW persist \in BOOLEAN, GETEX(k, deadline, persist)
    PROVE  Lawful
<1> DEFINE s == Reap(Begin, k, clock)
           reset(t) == AfterWrite(Set(s, k, s.storage[k].value, deadline, FALSE, t, Wall(t)),
                                  k, "expire")
<1>1. PICK t \in Later :
        \/ Answer(t, s)
        \/ Answer(t, AfterWrite(Persist(s, k, t), k, "persist"))
        \/ Answer(t, AfterWrite(Drop(s, k), k, "del"))
        \/ Read(s, k, clock) \in String /\ Answer(t, reset(t))
  BY DEF GETEX
<1>2. Follows(d, clock, s, t) /\ d \in Store /\ t \in 0 .. MaxTime
      /\ t \in Int /\ Wall(t) \in Int
  BY Prologue
<1>3. {"persist", "del", "expire"} \subseteq EventName /\ FALSE \in BOOLEAN
      /\ deadline \in Int \cup {NoTTL}
  BY DEF EventName
<1> HIDE DEF s
<1>4. Follows(d, clock, AfterWrite(Persist(s, k, t), k, "persist"), t)
  BY <1>2, <1>3, PersistFollows
<1>5. Follows(d, clock, AfterWrite(Drop(s, k), k, "del"), t)
  BY <1>2, <1>3, DeleteFollows
<1>6. ASSUME Read(s, k, clock) \in String
      PROVE  Follows(d, clock, reset(t), t)
  <2>1. s.storage[k] \in Entry \cup {Absent}
    BY <1>2 DEF Follows, Store
  <2>2. s.storage[k].value \in Value
    BY <1>6 DEF Read
  <2> QED BY <1>2, <1>3, <2>2, SetFollows
<1> QED BY <1>1, <1>2, <1>4, <1>5, <1>6 DEF Answer, Lawful

LEMMA DeleteLawful ==
    ASSUME TypeOK, NEW k \in Key, GETDEL(k) \/ PERSIST(k)
    PROVE  Lawful
<1> DEFINE s == Reap(Begin, k, clock)
<1>1. {"persist", "del"} \subseteq EventName /\ clock \in Later
  BY ClockInLater DEF EventName
<1>2. CASE GETDEL(k)
  <2>1. Answer(clock, s) \/ Answer(clock, AfterWrite(Drop(s, k), k, "del"))
    BY <1>2 DEF GETDEL
  <2>2. Follows(d, clock, s, clock) /\ d \in Store
    BY <1>1, Prologue
  <2>3. Follows(d, clock, AfterWrite(Drop(s, k), k, "del"), clock)
    BY <1>1, <2>2, DeleteFollows
  <2> QED BY <2>1, <2>2, <2>3 DEF Answer, Lawful, TypeOK
<1>3. CASE PERSIST(k)
  <2>1. Answer(clock, IF Persists(Begin, k, clock)
                      THEN AfterWrite(Persist(Begin, k, clock), k, "persist")
                      ELSE Persist(Begin, k, clock))
    BY <1>3 DEF PERSIST
  <2>2. /\ Follows(d, clock, AfterWrite(Persist(Begin, k, clock), k, "persist"), clock)
        /\ ~Persists(Begin, k, clock) => Follows(d, clock, Persist(Begin, k, clock), clock)
    BY <1>1, Prologue, PersistFollows
  <2> QED BY <2>1, <2>2 DEF Answer, Lawful, TypeOK
<1> QED BY <1>2, <1>3

LEMMA ManyKeysLawful ==
    ASSUME TypeOK,
           \/ \E f \in Assignments : MSET(f) \/ MSETNX(f)
           \/ \E K \in SUBSET Key : DEL(K) \/ MGET(K)
    PROVE  Lawful
<1>0. {"set", "del", "expired"} \subseteq EventName /\ clock \in Later
      /\ Begin \in Store /\ Follows(d, clock, Begin, clock)
  BY ClockInLater, Prologue DEF EventName
<1>1. CASE \E f \in Assignments : MSET(f) \/ MSETNX(f)
  <2>1. PICK f \in Assignments : Answer(clock, Begin) \/ Answer(clock, PutAll(Begin, f))
    BY <1>1 DEF MSET, MSETNX
  <2>2. PICK K \in SUBSET Key : f \in [K -> String]
    BY DEF Assignments
  <2> DEFINE s == PutAll(Begin, f)
  <2>3. /\ s \in Store
        /\ s.epoch = Begin.epoch
        /\ \A k \in Key : s.storage[k] = IF k \in K THEN [value |-> f[k], expires_at |-> NoTTL]
                                           ELSE Begin.storage[k]
        /\ \A k \in Key : s.generations[k] = IF k \in K THEN Begin.generations[k] + 1
                                               ELSE Begin.generations[k]
    <3>1. \A k \in K : [value |-> f[k], expires_at |-> NoTTL] \in Entry
      BY <2>2 DEF Entry
    <3>2. {<<k, "set">> : k \in K} \in SUBSET (Key \X EventName)
      BY <1>0
    <3> DEFINE st == [k \in Key |-> IF k \in K THEN [value |-> f[k], expires_at |-> NoTTL]
                                    ELSE Begin.storage[k]]
               g == [k \in Key |-> IF k \in K THEN Begin.generations[k] + 1
                                   ELSE Begin.generations[k]]
               ev == Begin.events \cup {<<k, "set">> : k \in K}
    <3>3. s = [Begin EXCEPT !.storage = st, !.generations = g, !.events = ev]
      BY <2>2 DEF PutAll
    <3>4. st \in [Key -> Entry \cup {Absent}] /\ g \in [Key -> Nat]
      BY <1>0, <3>1 DEF Store
    <3>5. ev \in SUBSET (Key \X EventName)
      BY <1>0, <3>2 DEF Store
    <3> HIDE DEF s, ev, st, g
    <3>6. s \in Store /\ s.epoch = Begin.epoch /\ s.storage = st /\ s.generations = g
      BY <1>0, <3>3, <3>4, <3>5 DEF Store
    <3> QED BY <3>6 DEF st, g
  <2>4. \A k \in Key : k \notin K => Observed(s, k, clock) = Observed(Begin, k, clock)
    BY <2>3 DEF Observed, Contains
  <2>5. Follows(d, clock, s, clock)
    <3>1. d \in Store
      BY DEF TypeOK
    <3>2. \A k \in Key : d.generations[k] \in Nat /\ Begin.generations[k] \in Nat
      BY <1>0, <3>1 DEF Store
    <3> HIDE DEF s
    <3> QED BY <1>0, <2>3, <2>4, <3>2 DEF Follows
  <2> QED BY <1>0, <2>1, <2>5 DEF Answer, Lawful, TypeOK
<1>2. CASE \E K \in SUBSET Key : DEL(K)
  <2>1. PICK K \in SUBSET Key : DEL(K)
    BY <1>2
  <2> DEFINE removed(t) == {k \in K : Contains(Begin, k, t)}
             s(t) == [Begin EXCEPT
                !.storage = [k \in Key |-> IF k \in K THEN Absent ELSE @[k]],
                !.generations = [k \in Key |-> IF k \in removed(t) THEN @[k] + 1 ELSE @[k]],
                !.events = {<<k, "del">> : k \in removed(t)}]
  <2>2. PICK t \in Later : Answer(t, s(t))
    BY <2>1 DEF DEL
  <2>3. /\ s(t) \in Store
        /\ s(t).epoch = Begin.epoch
        /\ \A k \in Key : s(t).storage[k] = IF k \in K THEN Absent ELSE Begin.storage[k]
        /\ \A k \in Key : s(t).generations[k] = IF k \in removed(t) THEN Begin.generations[k] + 1
                                                  ELSE Begin.generations[k]
    <3>1. removed(t) \subseteq Key
      OBVIOUS
    <3> HIDE DEF removed
    <3>2. {<<k, "del">> : k \in removed(t)} \in SUBSET (Key \X EventName)
      BY <1>0, <3>1
    <3> DEFINE st == [k \in Key |-> IF k \in K THEN Absent ELSE Begin.storage[k]]
               g == [k \in Key |-> IF k \in removed(t) THEN Begin.generations[k] + 1
                                   ELSE Begin.generations[k]]
               ev == {<<k, "del">> : k \in removed(t)}
    <3>3. s(t) = [Begin EXCEPT !.storage = st, !.generations = g, !.events = ev]
      OBVIOUS
    <3>4. st \in [Key -> Entry \cup {Absent}] /\ g \in [Key -> Nat]
      BY <1>0 DEF Store
    <3>5. ev \in SUBSET (Key \X EventName)
      BY <3>2
    <3> HIDE DEF s, ev, st, g
    <3>6. s(t) \in Store /\ s(t).epoch = Begin.epoch /\ s(t).storage = st
          /\ s(t).generations = g
      BY <1>0, <3>3, <3>4, <3>5 DEF Store
    <3> QED BY <3>6 DEF st, g
  <2>4. \A k \in Key : Observed(s(t), k, t) \in {Observed(Begin, k, t), Absent}
    BY <2>3 DEF Observed, Contains, Live
  <2>5. Follows(d, clock, Begin, t) /\ t \in 0 .. MaxTime /\ d \in Store
    BY Prologue
  <2>6. \A k \in Key : d.generations[k] \in Nat /\ Begin.generations[k] \in Nat
    BY <1>0, <2>5 DEF Store
  <2> HIDE DEF s, removed
  <2>7. Follows(d, clock, s(t), t)
    BY <2>3, <2>4, <2>5, <2>6 DEF Follows
  <2> QED BY <2>2, <2>5, <2>7 DEF Answer, Lawful
<1>3. CASE \E K \in SUBSET Key : MGET(K)
  <2>1. PICK dead \in SUBSET Key :
          Answer(clock, [Begin EXCEPT
                !.storage = [k \in Key |-> IF k \in dead THEN Absent ELSE @[k]],
                !.events = {<<k, "expired">> : k \in dead}])
    BY <1>3 DEF MGET
  <2> DEFINE s == [Begin EXCEPT
                !.storage = [k \in Key |-> IF k \in dead THEN Absent ELSE @[k]],
                !.events = {<<k, "expired">> : k \in dead}]
  <2>2. /\ s \in Store
        /\ s.epoch = Begin.epoch
        /\ s.generations = Begin.generations
        /\ \A k \in Key : s.storage[k] \in {Begin.storage[k], Absent}
    <3>1. {<<k, "expired">> : k \in dead} \in SUBSET (Key \X EventName)
      BY <1>0
    <3> QED BY <1>0, <3>1 DEF Store
  <2> HIDE DEF s
  <2>3. Follows(d, clock, s, clock)
    BY <1>0, <2>2, ManyFollow
  <2> QED BY <2>1, <2>3 DEF Answer, Lawful, TypeOK, s
<1> QED BY <1>1, <1>2, <1>3

LEMMA ReadLawful ==
    ASSUME TypeOK, (\E k \in Key : Lookup(k)) \/ Aggregate \/ Probe \/ Tick
    PROVE  Lawful
<1>0. "expired" \in EventName /\ clock \in Later
      /\ Begin \in Store /\ Follows(d, clock, Begin, clock)
  BY ClockInLater, Prologue DEF EventName
<1>1. CASE \E k \in Key : Lookup(k)
  BY <1>0, <1>1, Prologue DEF Lookup, Answer, Lawful, TypeOK
<1>2. CASE Aggregate
  <2> DEFINE s == Sweep(Begin, clock)
  <2>1. /\ s \in Store
        /\ s.epoch = Begin.epoch
        /\ s.generations = Begin.generations
        /\ \A k \in Key : s.storage[k] \in {Begin.storage[k], Absent}
    <3> DEFINE dead == {c \in Key : Corpse(Begin, c, clock)}
    <3>1. s = [Begin EXCEPT !.storage = [k \in Key |-> IF Corpse(Begin, k, clock) THEN Absent
                                                        ELSE Begin.storage[k]],
                            !.events = Begin.events \cup {<<k, "expired">> : k \in dead}]
      BY DEF Sweep
    <3>2. {<<k, "expired">> : k \in dead} \subseteq Key \X EventName
      BY <1>0
    <3> HIDE DEF dead, s
    <3> QED BY <1>0, <3>1, <3>2 DEF Store
  <2> HIDE DEF s
  <2>2. Follows(d, clock, s, clock)
    BY <1>0, <2>1, ManyFollow
  <2> QED BY <1>2, <2>2 DEF Aggregate, Answer, Lawful, TypeOK, s
<1>3. CASE Probe
  BY <1>0, <1>3 DEF Probe, Answer, Lawful, TypeOK
<1>4. CASE Tick
  <2>1. clock' \in 0 .. MaxTime /\ clock' >= clock /\ clock \in Int /\ d' = d /\ d \in Store
    BY <1>4 DEF Tick, TypeOK
  <2>2. \A k \in Key : Observed(d, k, clock') \in {Observed(d, k, clock), Absent}
    BY <2>1 DEF Observed, Contains, Live, Store, Entry
  <2> QED BY <2>1, <2>2 DEF Lawful, Follows
<1> QED BY <1>1, <1>2, <1>3, <1>4

-----------------------------------------------------------------------------
(* clear() empties the store and starts a new epoch. *)
LEMMA ClearStore ==
    ASSUME NEW s \in Store
    PROVE  /\ Clear(s) \in Store
           /\ Clear(s).storage = NoEntries
           /\ Clear(s).generations = NoGenerations
           /\ Clear(s).epoch = s.epoch + 1
<1>1. /\ NoEntries \in [Key -> Entry \cup {Absent}]
      /\ NoGenerations \in [Key -> Nat]
  BY DEF NoEntries, NoGenerations
<1> QED BY <1>1 DEF Clear, Store

(* FLUSHALL is the contract's flush. *)
LEMMA FlushAll ==
    ASSUME TypeOK, FLUSHALL
    PROVE  TypeOK' /\ Contract!Flush
<1>1. d \in Store /\ clock \in Later /\ Begin \in Store
  BY ClockInLater, Prologue DEF TypeOK
<1>2. clock' = clock /\ d' = Clear(Begin)
  BY DEF FLUSHALL, Answer
<1>3. /\ d' \in Store
      /\ d'.storage = NoEntries
      /\ d'.generations = NoGenerations
      /\ d'.epoch = d.epoch + 1
  <2>1. Begin.epoch = d.epoch /\ d.epoch \in Nat
    BY <1>1 DEF Begin, Store
  <2> QED BY <1>1, <1>2, <2>1, ClearStore
<1>4. \A k \in Key : Observed(d', k, clock') = Absent
  BY <1>3 DEF Observed, Contains, Live, NoEntries
<1> QED BY <1>2, <1>3, <1>4 DEF TypeOK, Contract!Flush, NoGenerations

(* One step of Keyspace: TypeOK is preserved and the step maps to a step   *)
(* of the contract.                                                        *)
LEMMA StepLawful ==
    ASSUME TypeOK, [Next]_vars
    PROVE  TypeOK' /\ (Contract!Next \/ UNCHANGED Contract!vvars)
<1>1. ASSUME Lawful
      PROVE  TypeOK' /\ Contract!Proceed
  <2>1. d' \in Store /\ d'.epoch = d.epoch
    BY <1>1 DEF Lawful, Follows
  <2>2. \A k \in Key :
          \/ d'.generations[k] > d.generations[k]
          \/ /\ d'.generations[k] = d.generations[k]
             /\ Observed(d', k, clock') \in {Observed(d, k, clock), Absent}
    BY <1>1 DEF Lawful, Follows
  <2> QED BY <1>1, <2>1, <2>2 DEF Lawful, TypeOK, Contract!Proceed
<1>2. ASSUME NEW k \in Key, Write(k)
      PROVE  Lawful
  <2>1. CASE \E v \in String, f \in SetFlags, t \in Deadline \cup {NoTTL} : SET(k, v, f, t)
    BY <2>1, SetLawful
  <2>2. CASE \/ \E v \in String : SETNX(k, v) \/ GETSET(k, v)
             \/ \E v \in String, t \in Deadline : SETEX(k, v, t)
    BY <2>2, StoreLawful
  <2>3. CASE \/ \E by \in {-1, 1} : Bump(k, by)
             \/ \E v \in String : INCRBYFLOAT(k, v)
             \/ \E v \in String, event \in {"append", "setrange"} : Grow(k, v, event)
    BY <2>3, InPlaceLawful
  <2>4. CASE GETDEL(k) \/ PERSIST(k)
    BY <2>4, DeleteLawful
  <2>5. CASE \E t \in Deadline \cup {NoTTL}, p \in BOOLEAN : GETEX(k, t, p)
    BY <2>5, GetexLawful
  <2>6. CASE \/ \E secs \in Seconds : EXPIRE(k, secs)
             \/ \E t \in Deadline : EXPIREAT(k, t)
    BY <2>6, ExpireLawful
  <2> QED BY <1>2, <2>1, <2>2, <2>3, <2>4, <2>5, <2>6 DEF Write
<1>3. CASE Next
  <2>1. CASE \E k \in Key : Write(k)
    BY <1>1, <1>2, <2>1 DEF Contract!Next
  <2>2. CASE \/ \E f \in Assignments : MSET(f) \/ MSETNX(f)
             \/ \E K \in SUBSET Key : DEL(K) \/ MGET(K)
    BY <1>1, <2>2, ManyKeysLawful DEF Contract!Next
  <2>3. CASE (\E k \in Key : Lookup(k)) \/ Aggregate \/ Probe \/ Tick
    BY <1>1, <2>3, ReadLawful DEF Contract!Next
  <2>4. CASE FLUSHALL
    BY <2>4, FlushAll DEF Contract!Next
  <2> QED BY <1>3, <2>1, <2>2, <2>3, <2>4 DEF Next
<1>4. CASE UNCHANGED vars
  BY <1>4 DEF vars, TypeOK, Contract!vvars, Observed, Contains
<1> QED BY <1>3, <1>4

LEMMA InitLawful == Init => TypeOK /\ Contract!Init
<1> SUFFICES ASSUME Init PROVE TypeOK /\ Contract!Init
  OBVIOUS
<1>1. PICK s \in [Key -> {[value |-> v, expires_at |-> e] :
                            v \in Value \ {TooBig}, e \in {NoTTL, 1}} \cup {Absent}] :
        d = [storage |-> s, generations |-> NoGenerations, epoch |-> 0, events |-> {}]
  BY DEF Init
<1>2. s \in [Key -> Entry \cup {Absent}]
  BY DEF Entry
<1>3. d \in Store /\ d.generations = NoGenerations /\ d.epoch = 0
  BY <1>1, <1>2 DEF Store, NoGenerations
<1> QED BY <1>3 DEF Init, TypeOK, Contract!Init, NoGenerations

(* Type correctness: every command of basic.py leaves a well-formed store. *)
THEOREM KeyspaceTypeCorrect == Spec => []TypeOK
<1>1. Init => TypeOK
  BY InitLawful
<1>2. TypeOK /\ [Next]_vars => TypeOK'
  BY StepLawful
<1> QED BY <1>1, <1>2, PTL DEF Spec

(* Refinement: a key never appears or changes in the sight of clients      *)
(* without its write generation growing, whatever deadlines pass while a   *)
(* command runs.                                                           *)
THEOREM KeyspaceImplementsVersioned == Spec => ImplementsVersioned
<1>1. Init => Contract!Init
  BY InitLawful
<1>2. TypeOK /\ [Next]_vars => [Contract!Next]_(Contract!vvars)
  BY StepLawful
<1> QED BY <1>1, <1>2, KeyspaceTypeCorrect, PTL DEF Spec, ImplementsVersioned, Contract!Spec

-----------------------------------------------------------------------------
(* What a command on one key leaves: its entry x, its generation n, and    *)
(* the names E of the events published for it.                             *)
Result(s, k, x, n, E) ==
    /\ s \in Store /\ x \in Entry \cup {Absent} /\ n \in Nat
    /\ s.storage[k] = x /\ s.generations[k] = n
    /\ \A j \in Key : j # k => s.storage[j] = d.storage[j] /\ s.generations[j] = d.generations[j]
    /\ s.events = {<<k, e>> : e \in E}

LEMMA BeginResult ==
    ASSUME d \in Store, NEW k \in Key
    PROVE  Result(Begin, k, d.storage[k], d.generations[k], {})
BY DEF Begin, Store, Result

LEMMA NotifyResult ==
    ASSUME NEW k \in Key, NEW s, NEW x, NEW n, NEW E, Result(s, k, x, n, E), NEW e \in EventName
    PROVE  Result(Notify(s, k, e), k, x, n, E \cup {e})
<1> DEFINE r == Notify(s, k, e)
<1>1. /\ r \in Store /\ r.storage = s.storage /\ r.generations = s.generations
      /\ r.events = s.events \cup {<<k, e>>}
  BY DEF Notify, Store, Result
<1> QED BY <1>1 DEF Result

LEMMA PutResult ==
    ASSUME NEW k \in Key, NEW s, NEW x, NEW n, NEW E, Result(s, k, x, n, E),
           NEW y \in Entry \cup {Absent}
    PROVE  Result(Put(s, k, y), k, y, n, E)
BY DEF Put, Store, Result

LEMMA DropResult ==
    ASSUME NEW k \in Key, NEW s, NEW x, NEW n, NEW E, Result(s, k, x, n, E)
    PROVE  Result(Drop(s, k), k, Absent, n, E)
BY PutResult DEF Drop, Put

LEMMA WriteResult ==
    ASSUME NEW k \in Key, NEW s, NEW x, NEW n, NEW E, Result(s, k, x, n, E), NEW e \in EventName
    PROVE  Result(AfterWrite(s, k, e), k, x, n + 1, E \cup {e})
<1> DEFINE r == Touch(s, k)
<1>1. /\ r \in Store /\ r.storage = s.storage /\ r.events = s.events
      /\ \A j \in Key : r.generations[j] = IF j = k THEN s.generations[j] + 1 ELSE s.generations[j]
  BY DEF Touch, Store, Result
<1>2. Result(r, k, x, n + 1, E)
  BY <1>1 DEF Result
<1> QED BY <1>2, NotifyResult DEF AfterWrite

(* A lookup at the start of a command purges the key if it is dead. *)
LEMMA ReapResult ==
    ASSUME d \in Store, NEW k \in Key
    PROVE  IF Corpse(d, k, clock)
           THEN Result(Reap(Begin, k, clock), k, Absent, d.generations[k], {"expired"})
           ELSE Result(Reap(Begin, k, clock), k, d.storage[k], d.generations[k], {})
<1>1. Corpse(Begin, k, clock) <=> Corpse(d, k, clock)
  BY DEF Begin, Store, Corpse
<1>2. Result(PurgeKey(Begin, k), k, Absent, d.generations[k], {} \cup {"expired"})
  BY BeginResult, DropResult, NotifyResult DEF PurgeKey, EventName
<1>3. {} \cup {"expired"} = {"expired"}
  OBVIOUS
<1> QED BY <1>1, <1>2, <1>3, BeginResult DEF Reap
-----------------------------------------------------------------------------
(* What the events of a command that ends at time t with store s say of    *)
(* deaths and of edits in place.                                           *)
Edits == {"incrby", "incrbyfloat", "append", "setrange"}

Told(s, t) ==
    \A k \in Key :
       /\ <<k, "expired">> \in s.events =>
            Corpse(d, k, t) /\ (s.storage[k] = Absent \/ s.generations[k] > d.generations[k])
       /\ <<k, "del">> \in s.events => Contains(d, k, clock) /\ ~Contains(s, k, t)
       /\ Contains(d, k, t) /\ s.storage[k] = Absent => <<k, "del">> \in s.events
       /\ \A e \in Edits : <<k, e>> \in s.events /\ Contains(d, k, t) =>
            s.storage[k].expires_at = d.storage[k].expires_at

(* The same of one key. *)
KeyTold(k, x, n, E, t) ==
    /\ "expired" \in E => Corpse(d, k, t) /\ (x = Absent \/ n > d.generations[k])
    /\ "del" \in E => Contains(d, k, clock) /\ ~Live(x, t)
    /\ Contains(d, k, t) /\ x = Absent => "del" \in E
    /\ E \cap Edits # {} /\ Contains(d, k, t) => x.expires_at = d.storage[k].expires_at

LEMMA OneKeyTold ==
    ASSUME NEW k \in Key, NEW s, NEW x, NEW n, NEW E, NEW t, Result(s, k, x, n, E),
           KeyTold(k, x, n, E, t)
    PROVE  Told(s, t)
<1> SUFFICES ASSUME NEW j \in Key
             PROVE  /\ <<j, "expired">> \in s.events => /\ Corpse(d, j, t)
                                                        /\ \/ s.storage[j] = Absent
                                                           \/ s.generations[j] > d.generations[j]
                    /\ <<j, "del">> \in s.events => Contains(d, j, clock) /\ ~Contains(s, j, t)
                    /\ Contains(d, j, t) /\ s.storage[j] = Absent => <<j, "del">> \in s.events
                    /\ \A e \in Edits : <<j, e>> \in s.events /\ Contains(d, j, t) =>
                         s.storage[j].expires_at = d.storage[j].expires_at
  BY DEF Told
<1>1. \A e : <<j, e>> \in s.events <=> j = k /\ e \in E
  BY DEF Result
<1>2. CASE j = k
  BY <1>1, <1>2 DEF Result, KeyTold, Contains
<1>3. CASE j # k
  BY <1>1, <1>3 DEF Result, Contains, Live
<1> QED BY <1>2, <1>3

(* Time only kills. *)
LEMMA DeadLater ==
    ASSUME d \in Store, clock \in Int, NEW t \in Int, clock <= t, NEW k \in Key
    PROVE  /\ Corpse(d, k, clock) => Corpse(d, k, t)
           /\ Contains(d, k, t) => Contains(d, k, clock)
           /\ d.storage[k] \in Entry \cup {Absent} /\ d.generations[k] \in Nat
           /\ d.storage[k] = Absent \/ Contains(d, k, t) \/ Corpse(d, k, t)
BY DEF Corpse, Contains, Live, Store, Entry

(* The store as it was, the key purged if it was dead. *)
LEMMA ReapTold ==
    ASSUME TypeOK, NEW k \in Key, NEW t \in Later
    PROVE  Told(Begin, t) /\ Told(Reap(Begin, k, clock), t)
<1>1. d \in Store /\ clock \in Int /\ t \in Int /\ clock <= t
  BY Prologue DEF Later
<1>2. KeyTold(k, d.storage[k], d.generations[k], {}, t)
  BY <1>1, DeadLater DEF KeyTold, Contains, Live
<1>3. Told(Begin, t)
  BY <1>1, <1>2, BeginResult, OneKeyTold
<1>4. CASE Corpse(d, k, clock)
  <2>1. KeyTold(k, Absent, d.generations[k], {"expired"}, t)
    BY <1>1, <1>4, DeadLater DEF KeyTold, Corpse, Contains, Edits
  <2> QED BY <1>1, <1>3, <1>4, <2>1, ReapResult, OneKeyTold
<1>5. CASE ~Corpse(d, k, clock)
  BY <1>1, <1>2, <1>3, <1>5, ReapResult, OneKeyTold
<1> QED BY <1>4, <1>5

(* The store in which a command on key k has only looked. *)
Looked(s, k) ==
    \E x, E : /\ Result(s, k, x, d.generations[k], E)
              /\ E \subseteq {"expired"}
              /\ E # {} => Corpse(d, k, clock)
              /\ x = d.storage[k] \/ (x = Absent /\ Corpse(d, k, clock))

LEMMA LooksLook ==
    ASSUME TypeOK, NEW k \in Key
    PROVE  Looked(Begin, k) /\ Looked(Reap(Begin, k, clock), k)
<1>1. d \in Store
  BY DEF TypeOK
<1>2. Looked(Begin, k)
  BY <1>1, BeginResult DEF Looked
<1>3. CASE Corpse(d, k, clock)
  BY <1>1, <1>2, <1>3, ReapResult DEF Looked
<1>4. CASE ~Corpse(d, k, clock)
  BY <1>1, <1>2, <1>4, ReapResult DEF Looked
<1> QED BY <1>3, <1>4

(* A plain write: an entry is stored and announced. *)
Plain == {"set", "expire", "persist"}

LEMMA WriteTold ==
    ASSUME TypeOK, NEW k \in Key, NEW s, Looked(s, k), NEW t \in Later, NEW y \in Entry,
           NEW e \in Plain
    PROVE  /\ Told(AfterWrite(Put(s, k, y), k, e), t)
           /\ Told(Notify(AfterWrite(Put(s, k, y), k, e), k, "expire"), t)
<1>1. PICK x, E : /\ Result(s, k, x, d.generations[k], E)
                  /\ E \subseteq {"expired"}
                  /\ E # {} => Corpse(d, k, clock)
  BY DEF Looked
<1>2. e \in EventName /\ "expire" \in EventName
  BY DEF Plain, EventName
<1>3. /\ d \in Store /\ clock \in Int /\ t \in Int /\ clock <= t
      /\ d.generations[k] \in Nat /\ y # Absent
      /\ Corpse(d, k, clock) => Corpse(d, k, t)
  BY Prologue, DeadLater DEF Later, TypeOK
<1> DEFINE n == d.generations[k] + 1
<1>4. Result(AfterWrite(Put(s, k, y), k, e), k, y, n, E \cup {e})
  BY <1>1, <1>2, PutResult, WriteResult
<1>5. Result(Notify(AfterWrite(Put(s, k, y), k, e), k, "expire"), k, y, n,
             (E \cup {e}) \cup {"expire"})
  BY <1>2, <1>4, NotifyResult
<1>6. KeyTold(k, y, n, E \cup {e}, t) /\ KeyTold(k, y, n, (E \cup {e}) \cup {"expire"}, t)
  BY <1>1, <1>3 DEF KeyTold, Edits, Plain
<1> HIDE DEF n
<1> QED BY <1>4, <1>5, <1>6, OneKeyTold

LEMMA SetTold ==
    ASSUME TypeOK, NEW k \in Key, NEW s, Looked(s, k), NEW t \in Later, NEW v \in Value,
           NEW deadline \in Int \cup {NoTTL}, NEW keep \in BOOLEAN, NEW e \in Plain
    PROVE  LET r == AfterWrite(Set(s, k, v, deadline, keep, t, Wall(t)), k, e)
           IN  Told(r, t) /\ Told(Notify(r, k, "expire"), t)
<1>1. PICK x, n, E : Result(s, k, x, n, E)
  BY DEF Looked
<1>2. t \in Int /\ Wall(t) \in Int
  BY Prologue
<1> DEFINE y == [value |-> v,
                 expires_at |-> IF keep /\ Contains(s, k, t) THEN s.storage[k].expires_at
                                ELSE IF deadline # NoTTL THEN Monotonic(deadline, t, Wall(t))
                                ELSE NoTTL]
<1>3. s.storage[k] \in Entry \cup {Absent}
  BY <1>1 DEF Result
<1>4. Contains(s, k, t) => s.storage[k].expires_at \in Int \cup {NoTTL}
  BY <1>3 DEF Contains, Live, Entry
<1>5. deadline # NoTTL => Monotonic(deadline, t, Wall(t)) \in Int
  BY <1>2 DEF Monotonic
<1>6. y \in Entry
  BY <1>4, <1>5 DEF Entry
<1>7. Set(s, k, v, deadline, keep, t, Wall(t)) = Put(s, k, y)
  BY DEF Set
<1> HIDE DEF y
<1>8. /\ Told(AfterWrite(Put(s, k, y), k, e), t)
      /\ Told(Notify(AfterWrite(Put(s, k, y), k, e), k, "expire"), t)
  BY <1>6, WriteTold
<1> QED BY <1>7, <1>8

(* An edit in place: the deadline of a key that lives on is kept. *)
LEMMA EditTold ==
    ASSUME TypeOK, NEW k \in Key, NEW s, Looked(s, k), NEW t \in Later, NEW v \in Value,
           NEW e \in Edits
    PROVE  Told(Edit(s, k, v, e, t), t)
<1>1. PICK x, E : /\ Result(s, k, x, d.generations[k], E)
                  /\ E \subseteq {"expired"}
                  /\ E # {} => Corpse(d, k, clock)
                  /\ x = d.storage[k] \/ (x = Absent /\ Corpse(d, k, clock))
  BY DEF Looked
<1>2. e \in EventName
  BY DEF Edits, EventName
<1>3. /\ d \in Store /\ clock \in Int /\ t \in Int /\ clock <= t /\ Wall(t) \in Int
      /\ d.generations[k] \in Nat
      /\ Corpse(d, k, clock) => Corpse(d, k, t)
  BY Prologue, DeadLater DEF Later, TypeOK
<1> DEFINE n == d.generations[k] + 1
           r == Set(s, k, v, NoTTL, TRUE, t, Wall(t))
<1>4. PICK y \in Entry : /\ Result(r, k, y, d.generations[k], E)
                         /\ Live(x, t) => y.expires_at = x.expires_at
  <2> DEFINE y == [value |-> v,
                   expires_at |-> IF TRUE /\ Contains(s, k, t) THEN s.storage[k].expires_at
                                  ELSE IF NoTTL # NoTTL THEN Monotonic(NoTTL, t, Wall(t))
                                  ELSE NoTTL]
  <2>1. s.storage[k] = x /\ x \in Entry \cup {Absent} /\ (Contains(s, k, t) <=> Live(x, t))
    BY <1>1 DEF Result, Contains
  <2>2. Live(x, t) => x.expires_at \in Int \cup {NoTTL}
    BY <2>1 DEF Live, Entry
  <2>3. y \in Entry
    BY <2>1, <2>2 DEF Entry
  <2>4. Live(x, t) => y.expires_at = x.expires_at
    BY <2>1
  <2>5. r = Put(s, k, y)
    BY DEF Set
  <2> HIDE DEF y, r
  <2>6. Result(Put(s, k, y), k, y, d.generations[k], E)
    BY <1>1, <2>3, PutResult
  <2> QED BY <2>3, <2>4, <2>5, <2>6
<1>5. Result(AfterWrite(r, k, e), k, y, n, E \cup {e})
  BY <1>2, <1>4, WriteResult
<1>6. y # Absent
  OBVIOUS
<1>7. Contains(d, k, t) => y.expires_at = d.storage[k].expires_at
  BY <1>1, <1>3, <1>4 DEF Contains, Corpse
<1>8. KeyTold(k, y, n, E \cup {e}, t)
  BY <1>1, <1>3, <1>6, <1>7 DEF KeyTold, Edits
<1> HIDE DEF n, r
<1>9. Told(AfterWrite(r, k, e), t)
  BY <1>5, <1>8, OneKeyTold
<1> QED BY <1>9 DEF Edit, r

(* A deletion that is announced: the key was live when the command began. *)
LEMMA DeleteTold ==
    ASSUME TypeOK, NEW k \in Key, NEW t \in Later, NEW s, Looked(s, k), Contains(d, k, clock)
    PROVE  Told(AfterWrite(Drop(s, k), k, "del"), t)
<1>1. PICK x, E : /\ Result(s, k, x, d.generations[k], E)
                  /\ E \subseteq {"expired"}
                  /\ E # {} => Corpse(d, k, clock)
  BY DEF Looked
<1>2. E = {}
  BY <1>1 DEF Corpse, Contains
<1>3. Result(AfterWrite(Drop(s, k), k, "del"), k, Absent, d.generations[k] + 1, E \cup {"del"})
  BY <1>1, DropResult, WriteResult DEF EventName
<1>4. KeyTold(k, Absent, d.generations[k] + 1, E \cup {"del"}, t)
  BY <1>2 DEF KeyTold, Live, Edits
<1> QED BY <1>3, <1>4, OneKeyTold

(* A deletion that is not: the key is dead by the end of the command. *)
LEMMA SilentTold ==
    ASSUME TypeOK, NEW k \in Key, NEW t \in Later, NEW s, Looked(s, k), ~Contains(d, k, t)
    PROVE  Told(Drop(s, k), t) /\ Told(AfterWrite(Drop(s, k), k, "persist"), t)
<1>1. PICK x, E : /\ Result(s, k, x, d.generations[k], E)
                  /\ E \subseteq {"expired"}
                  /\ E # {} => Corpse(d, k, clock)
  BY DEF Looked
<1>2. /\ d \in Store /\ clock \in Int /\ t \in Int /\ clock <= t
      /\ Corpse(d, k, clock) => Corpse(d, k, t)
  BY Prologue, DeadLater DEF Later, TypeOK
<1>3. Result(Drop(s, k), k, Absent, d.generations[k], E)
  BY <1>1, DropResult
<1>4. Result(AfterWrite(Drop(s, k), k, "persist"), k, Absent, d.generations[k] + 1,
             E \cup {"persist"})
  BY <1>3, WriteResult DEF EventName
<1>5. KeyTold(k, Absent, d.generations[k], E, t)
  BY <1>1, <1>2 DEF KeyTold, Edits
<1>6. KeyTold(k, Absent, d.generations[k] + 1, E \cup {"persist"}, t)
  BY <1>1, <1>2 DEF KeyTold, Edits
<1> QED BY <1>3, <1>4, <1>5, <1>6, OneKeyTold

-----------------------------------------------------------------------------
(* Every command tells the truth. *)
Truthful == Told(d', clock')

LEMMA SetTruthful ==
    ASSUME TypeOK, NEW k \in Key, NEW v \in String, NEW flags \in SetFlags,
           NEW deadline \in Deadline \cup {NoTTL}, SET(k, v, flags, deadline)
    PROVE  Truthful
<1> DEFINE s == IF "GET" \in flags THEN Reap(Begin, k, clock) ELSE Begin
           keep == "KEEPTTL" \in flags
           written(t) == AfterWrite(Set(s, k, v, deadline, keep, t, Wall(t)), k, "set")
<1>1. PICK t \in Later : \/ Answer(t, s)
                         \/ Answer(t, written(t))
                         \/ Answer(t, Notify(written(t), k, "expire"))
  BY DEF SET
<1>2. Told(s, t)
  BY ReapTold
<1>3. Looked(s, k)
  BY LooksLook
<1>4. v \in Value /\ deadline \in Int \cup {NoTTL} /\ "set" \in Plain /\ keep \in BOOLEAN
  BY DEF Plain
<1> HIDE DEF s, keep
<1>5. Told(written(t), t) /\ Told(Notify(written(t), k, "expire"), t)
  BY <1>3, <1>4, SetTold
<1> QED BY <1>1, <1>2, <1>5 DEF Answer, Truthful

LEMMA StoreTruthful ==
    ASSUME TypeOK, NEW k \in Key, NEW v \in String,
           SETNX(k, v) \/ GETSET(k, v) \/ \E t \in Deadline : SETEX(k, v, t)
    PROVE  Truthful
<1>1. v \in Value /\ "set" \in Plain /\ clock \in Later
  BY ClockInLater DEF Plain
<1>2. CASE SETNX(k, v)
  <2>1. PICK t \in Later :
          \/ Answer(t, Begin)
          \/ Answer(t, AfterWrite(Set(Begin, k, v, NoTTL, FALSE, t, Wall(t)), k, "set"))
    BY <1>2 DEF SETNX
  <2>2. Told(AfterWrite(Set(Begin, k, v, NoTTL, FALSE, t, Wall(t)), k, "set"), t)
    BY <1>1, LooksLook, SetTold
  <2> QED BY <2>1, <2>2, ReapTold DEF Answer, Truthful
<1>3. CASE GETSET(k, v)
  <2> DEFINE s == Reap(Begin, k, clock)
             y == [value |-> v, expires_at |-> NoTTL]
  <2>1. Answer(clock, s) \/ Answer(clock, AfterWrite(Put(s, k, y), k, "set"))
    BY <1>3 DEF GETSET, SetItem
  <2>2. y \in Entry
    BY <1>1 DEF Entry
  <2> HIDE DEF y
  <2>3. Told(AfterWrite(Put(s, k, y), k, "set"), clock)
    BY <1>1, <2>2, LooksLook, WriteTold
  <2> QED BY <1>1, <2>1, <2>3, ReapTold DEF Answer, Truthful
<1>4. CASE \E deadline \in Deadline : SETEX(k, v, deadline)
  <2>1. PICK deadline \in Deadline : SETEX(k, v, deadline)
    BY <1>4
  <2> DEFINE written(t) == AfterWrite(Set(Begin, k, v, deadline, FALSE, t, Wall(t)), k, "set")
  <2>2. PICK t \in Later : Answer(t, Notify(written(t), k, "expire"))
    BY <2>1 DEF SETEX
  <2>3. deadline \in Int \cup {NoTTL}
    OBVIOUS
  <2>4. Told(Notify(written(t), k, "expire"), t)
    BY <1>1, <2>3, LooksLook, SetTold
  <2> QED BY <2>2, <2>4 DEF Answer, Truthful
<1> QED BY <1>2, <1>3, <1>4

LEMMA InPlaceTruthful ==
    ASSUME TypeOK, NEW k \in Key,
           \/ \E by \in {-1, 1} : Bump(k, by)
           \/ \E v \in String : INCRBYFLOAT(k, v)
           \/ \E v \in String, event \in {"append", "setrange"} : Grow(k, v, event)
    PROVE  Truthful
<1> DEFINE s == Reap(Begin, k, clock)
<1>1. \E v \in Value, e \in Edits, t \in Later : Answer(t, s) \/ Answer(t, Edit(s, k, v, e, t))
  <2>1. CASE \E by \in {-1, 1} : Bump(k, by)
    <3>1. PICK t \in Later :
            Answer(t, s) \/ \E n \in Number : Answer(t, Edit(s, k, n, "incrby", t))
      BY <2>1 DEF Bump
    <3>2. "incrby" \in Edits /\ Number \subseteq Value /\ Text \in Value
      BY DEF Edits, String
    <3> QED BY <3>1, <3>2
  <2>2. CASE \E v \in String : INCRBYFLOAT(k, v)
    <3>1. PICK v \in String, t \in Later :
            Answer(t, s) \/ Answer(t, Edit(s, k, v, "incrbyfloat", t))
      BY <2>2 DEF INCRBYFLOAT
    <3>2. "incrbyfloat" \in Edits /\ v \in Value
      BY DEF Edits
    <3> QED BY <3>1, <3>2
  <2>3. CASE \E v \in String, event \in {"append", "setrange"} : Grow(k, v, event)
    <3>1. PICK v \in String, event \in {"append", "setrange"}, t \in Later :
            Answer(t, s) \/ Answer(t, Edit(s, k, v, event, t))
      BY <2>3 DEF Grow
    <3>2. event \in Edits /\ v \in Value
      BY DEF Edits
    <3> QED BY <3>1, <3>2
  <2> QED BY <2>1, <2>2, <2>3
<1>2. PICK v \in Value, e \in Edits, t \in Later :
        Answer(t, s) \/ Answer(t, Edit(s, k, v, e, t))
  BY <1>1
<1>3. Told(s, t) /\ Told(Edit(s, k, v, e, t), t)
  BY ReapTold, LooksLook, EditTold
<1> QED BY <1>2, <1>3 DEF Answer, Truthful

LEMMA ExpireTruthful ==
    ASSUME TypeOK, NEW k \in Key,
           \/ \E secs \in Seconds : EXPIRE(k, secs)
           \/ \E t \in Deadline : EXPIREAT(k, t)
    PROVE  Truthful
<1>1. PICK at \in Int : ExpireTo(k, at)
  BY DEF EXPIRE, EXPIREAT, Monotonic, Wall, TypeOK
<1>2. d \in Store /\ clock \in Int /\ Begin.storage = d.storage
  BY DEF TypeOK, Begin, Store
<1> DEFINE s == Expire(Begin, k, at, clock)
           event(t) == IF Contains(s, k, t) THEN "expire" ELSE "del"
<1>3. PICK t \in Later :
        Answer(t, IF ~Contains(Begin, k, clock) THEN s ELSE AfterWrite(s, k, event(t)))
  BY <1>1 DEF ExpireTo
<1>4. t \in Int /\ clock <= t
  BY <1>2 DEF Later
<1>5. CASE ~Contains(Begin, k, clock)
  BY <1>3, <1>5, ReapTold DEF Answer, Truthful, Expire
<1>6. CASE Contains(Begin, k, clock)
  <2>0. Contains(d, k, clock)
    BY <1>2, <1>6 DEF Contains
  <2>1. CASE at <= clock
    <3>1. s = Drop(Begin, k)
      BY <1>6, <2>1 DEF Expire
    <3>2. s.storage[k] = Absent
      <4>1. Result(Drop(Begin, k), k, Absent, d.generations[k], {})
        BY <1>2, BeginResult, DropResult
      <4> QED BY <3>1, <4>1 DEF Result
    <3>3. event(t) = "del"
      BY <3>2 DEF Contains, Live
    <3>4. Told(AfterWrite(Drop(Begin, k), k, "del"), t)
      BY <2>0, LooksLook, DeleteTold
    <3> HIDE DEF s, event
    <3> QED BY <1>3, <1>6, <3>1, <3>3, <3>4 DEF Answer, Truthful
  <2>2. CASE ~(at <= clock)
    <3> DEFINE y == [Begin.storage[k] EXCEPT !.expires_at = at]
    <3>1. s = Put(Begin, k, y)
      BY <1>6, <2>2 DEF Expire
    <3>2. y \in Entry /\ y # Absent
      BY <1>2, <2>0 DEF Contains, Live, Entry, Store
    <3> HIDE DEF y
    <3>3. Result(s, k, y, d.generations[k], {})
      BY <1>2, <3>1, <3>2, BeginResult, PutResult
    <3>4. Contains(s, k, t) <=> Live(y, t)
      BY <3>3 DEF Result, Contains
    <3>5. event(t) \in EventName
      BY DEF EventName
    <3>6. Result(AfterWrite(s, k, event(t)), k, y, d.generations[k] + 1, {} \cup {event(t)})
      BY <3>3, <3>5, WriteResult
    <3>7. KeyTold(k, y, d.generations[k] + 1, {} \cup {event(t)}, t)
      BY <2>0, <3>2, <3>4 DEF KeyTold, Edits
    <3> HIDE DEF s, event
    <3>8. Told(AfterWrite(s, k, event(t)), t)
      BY <3>6, <3>7, OneKeyTold
    <3> QED BY <1>3, <1>6, <3>8 DEF Answer, Truthful
  <2> QED BY <2>1, <2>2
<1> QED BY <1>5, <1>6

(* A key whose value a command has read as a string was live. *)
LEMMA FoundLive ==
    ASSUME TypeOK, NEW k \in Key, Read(Reap(Begin, k, clock), k, clock) # Absent
    PROVE  /\ Contains(d, k, clock)
           /\ Reap(Begin, k, clock).storage[k] = d.storage[k]
<1>1. d \in Store
  BY DEF TypeOK
<1>2. PICK x, E : /\ Result(Reap(Begin, k, clock), k, x, d.generations[k], E)
                  /\ x = d.storage[k] \/ (x = Absent /\ Corpse(d, k, clock))
  BY LooksLook DEF Looked
<1>3. Live(x, clock) /\ Reap(Begin, k, clock).storage[k] = x
  BY <1>2 DEF Read, Contains, Result
<1>4. x # Absent
  BY <1>3 DEF Live
<1> QED BY <1>2, <1>3, <1>4 DEF Contains

LEMMA GetexTruthful ==
    ASSUME TypeOK, NEW k \in Key, NEW deadline \in Deadline \cup {NoTTL},
           NEW persist \in BOOLEAN, GETEX(k, deadline, persist)
    PROVE  Truthful
<1> DEFINE s == Reap(Begin, k, clock)
           reset(t) == AfterWrite(Set(s, k, s.storage[k].value, deadline, FALSE, t, Wall(t)),
                                  k, "expire")
<1>1. PICK t \in Later :
        \/ Answer(t, s)
        \/ /\ Read(s, k, clock) \in String
           /\ \/ Answer(t, AfterWrite(Persist(s, k, t), k, "persist"))
              \/ Answer(t, AfterWrite(Drop(s, k), k, "del"))
              \/ Answer(t, reset(t))
  BY DEF GETEX
<1>2. Told(s, t) /\ Looked(s, k) /\ d \in Store
  BY ReapTold, LooksLook DEF TypeOK
<1>3. {"persist", "expire"} \subseteq Plain /\ FALSE \in BOOLEAN
      /\ deadline \in Int \cup {NoTTL}
  BY DEF Plain
<1>4. CASE Read(s, k, clock) \in String
  <2>1. Read(s, k, clock) # Absent
    BY <1>4
  <2>2. Contains(d, k, clock) /\ s.storage[k] = d.storage[k]
    BY <2>1, FoundLive
  <2>3. d.storage[k] \in Entry
    BY <1>2, <2>2 DEF Store, Contains, Live
  <2> HIDE DEF s
  <2>4. Told(AfterWrite(Persist(s, k, t), k, "persist"), t)
    <3>1. CASE Contains(s, k, t)
      <4> DEFINE y == [s.storage[k] EXCEPT !.expires_at = NoTTL]
      <4>1. y \in Entry /\ Persist(s, k, t) = Put(s, k, y)
        BY <2>2, <2>3, <3>1 DEF Entry, Persist
      <4> HIDE DEF y
      <4>2. Told(AfterWrite(Put(s, k, y), k, "persist"), t)
        BY <1>2, <1>3, <4>1, WriteTold
      <4> QED BY <4>1, <4>2
    <3>2. CASE ~Contains(s, k, t)
      <4>1. ~Contains(d, k, t)
        BY <2>2, <3>2 DEF Contains
      <4>2. Persist(s, k, t) = Drop(s, k)
        BY <3>2 DEF Persist
      <4> QED BY <1>2, <4>1, <4>2, SilentTold
    <3> QED BY <3>1, <3>2
  <2>5. Told(AfterWrite(Drop(s, k), k, "del"), t)
    BY <1>2, <2>2, DeleteTold
  <2>6. s.storage[k].value \in Value
    BY <2>2, <2>3 DEF Entry
  <2>7. Told(reset(t), t)
    BY <1>2, <1>3, <2>6, SetTold
  <2> QED BY <1>1, <1>2, <2>4, <2>5, <2>7 DEF Answer, Truthful
<1> QED BY <1>1, <1>2, <1>4 DEF Answer, Truthful

LEMMA DeleteTruthful ==
    ASSUME TypeOK, NEW k \in Key, GETDEL(k) \/ PERSIST(k)
    PROVE  Truthful
<1> DEFINE s == Reap(Begin, k, clock)
<1>1. d \in Store /\ clock \in Later /\ Begin.storage = d.storage /\ "persist" \in Plain
      /\ Looked(Begin, k)
  BY ClockInLater, LooksLook DEF TypeOK, Begin, Store, Plain
<1>2. CASE GETDEL(k)
  <2>1. \/ Answer(clock, s)
        \/ Read(s, k, clock) \in String /\ Answer(clock, AfterWrite(Drop(s, k), k, "del"))
    BY <1>2 DEF GETDEL
  <2>2. CASE Answer(clock, s)
    BY <1>1, <2>2, ReapTold DEF Answer, Truthful
  <2>3. CASE Read(s, k, clock) \in String /\ Answer(clock, AfterWrite(Drop(s, k), k, "del"))
    <3>1. Contains(d, k, clock)
      BY <2>3, FoundLive
    <3>2. Told(AfterWrite(Drop(s, k), k, "del"), clock)
      BY <1>1, <3>1, LooksLook, DeleteTold
    <3> QED BY <2>3, <3>2 DEF Answer, Truthful
  <2> QED BY <2>1, <2>2, <2>3
<1>3. CASE PERSIST(k)
  <2>1. Answer(clock, IF Persists(Begin, k, clock)
                      THEN AfterWrite(Persist(Begin, k, clock), k, "persist")
                      ELSE Persist(Begin, k, clock))
    BY <1>3 DEF PERSIST
  <2> DEFINE y == [Begin.storage[k] EXCEPT !.expires_at = NoTTL]
  <2>2. CASE ~Contains(Begin, k, clock)
    <3>1. ~Contains(d, k, clock)
      BY <1>1, <2>2 DEF Contains
    <3>2. Told(Drop(Begin, k), clock)
      BY <1>1, <3>1, SilentTold
    <3> QED BY <2>1, <2>2, <3>2 DEF Answer, Truthful, Persists, Persist
  <2>3. CASE Contains(Begin, k, clock)
    <3>1. y \in Entry /\ Persist(Begin, k, clock) = Put(Begin, k, y)
      BY <1>1, <2>3 DEF Contains, Live, Store, Entry, Persist
    <3>2. CASE Persists(Begin, k, clock)
      <4> HIDE DEF y
      <4>1. Told(AfterWrite(Put(Begin, k, y), k, "persist"), clock)
        BY <1>1, <3>1, WriteTold
      <4> QED BY <2>1, <3>1, <3>2, <4>1 DEF Answer, Truthful
    <3>3. CASE ~Persists(Begin, k, clock)
      <4>1. Begin.storage[k] \in Entry /\ Begin.storage[k].expires_at = NoTTL
        BY <1>1, <2>3, <3>3 DEF Persists, Contains, Live, Store
      <4>2. y = Begin.storage[k]
        BY <4>1 DEF Entry
      <4>3. Begin \in Store
        BY <1>1 DEF Begin, Store
      <4>4. Persist(Begin, k, clock) = Begin
        BY <3>1, <4>2, <4>3 DEF Put, Store
      <4>5. Told(Begin, clock)
        BY <1>1, ReapTold
      <4> QED BY <2>1, <3>3, <4>4, <4>5 DEF Answer, Truthful
    <3> QED BY <3>2, <3>3
  <2> QED BY <2>2, <2>3
<1> QED BY <1>2, <1>3

(* MSET and MSETNX only store; DEL announces the keys that were live.      *)
LEMMA ManyKeysTruthful ==
    ASSUME TypeOK,
           \/ \E f \in Assignments : MSET(f) \/ MSETNX(f)
           \/ \E K \in SUBSET Key : DEL(K)
    PROVE  Truthful
<1>1. /\ d \in Store /\ clock \in Later /\ Begin \in Store /\ Begin.events = {}
      /\ Begin.storage = d.storage /\ Begin.generations = d.generations
  BY ClockInLater, Prologue DEF TypeOK, Begin, Store
<1>2. CASE \E f \in Assignments : MSET(f) \/ MSETNX(f)
  <2>1. PICK f \in Assignments : Answer(clock, Begin) \/ Answer(clock, PutAll(Begin, f))
    BY <1>2 DEF MSET, MSETNX
  <2>2. PICK K \in SUBSET Key : f \in [K -> String]
    BY DEF Assignments
  <2>3. CASE Answer(clock, Begin)
    <3>1. PICK k : k \in Key
      BY DEF Assignments
    <3>2. Told(Begin, clock)
      BY <1>1, <3>1, ReapTold
    <3> QED BY <2>3, <3>2 DEF Answer, Truthful
  <2>4. CASE Answer(clock, PutAll(Begin, f))
    <3> DEFINE s == PutAll(Begin, f)
    <3>1. /\ \A k \in K : s.storage[k] = [value |-> f[k], expires_at |-> NoTTL]
          /\ \A k \in Key : k \notin K => s.storage[k] = d.storage[k]
          /\ s.events = {<<k, "set">> : k \in K}
      <4> DEFINE st == [k \in Key |-> IF k \in K THEN [value |-> f[k], expires_at |-> NoTTL]
                                      ELSE Begin.storage[k]]
                 g == [k \in Key |-> IF k \in K THEN Begin.generations[k] + 1
                                     ELSE Begin.generations[k]]
                 ev == Begin.events \cup {<<k, "set">> : k \in K}
      <4>1. s = [Begin EXCEPT !.storage = st, !.generations = g, !.events = ev]
        BY <2>2 DEF PutAll
      <4>2. ev = {<<k, "set">> : k \in K}
        BY <1>1
      <4> HIDE DEF s, st, g, ev
      <4>3. s.storage = st /\ s.events = ev
        BY <1>1, <4>1 DEF Store
      <4> QED BY <1>1, <2>2, <4>2, <4>3 DEF st
    <3>2. \A k \in K : [value |-> f[k], expires_at |-> NoTTL] \in Entry
      BY <2>2 DEF Entry
    <3>3. \A k, e : <<k, e>> \in s.events => e = "set"
      BY <3>1
    <3> HIDE DEF s
    <3>4. Told(s, clock)
      BY <3>1, <3>2, <3>3 DEF Told, Contains, Live, Edits
    <3> QED BY <2>4, <3>4 DEF Answer, Truthful, s
  <2> QED BY <2>1, <2>3, <2>4
<1>3. CASE \E K \in SUBSET Key : DEL(K)
  <2>1. PICK K \in SUBSET Key : DEL(K)
    BY <1>3
  <2> DEFINE removed(t) == {k \in K : Contains(Begin, k, t)}
             s(t) == [Begin EXCEPT
                !.storage = [k \in Key |-> IF k \in K THEN Absent ELSE @[k]],
                !.generations = [k \in Key |-> IF k \in removed(t) THEN @[k] + 1 ELSE @[k]],
                !.events = {<<k, "del">> : k \in removed(t)}]
  <2>2. PICK t \in Later : Answer(t, s(t))
    BY <2>1 DEF DEL
  <2>3. /\ \A k \in Key : s(t).storage[k] = IF k \in K THEN Absent ELSE d.storage[k]
        /\ s(t).events = {<<k, "del">> : k \in removed(t)}
    <3> DEFINE st == [k \in Key |-> IF k \in K THEN Absent ELSE Begin.storage[k]]
               g == [k \in Key |-> IF k \in removed(t) THEN Begin.generations[k] + 1
                                   ELSE Begin.generations[k]]
               ev == {<<k, "del">> : k \in removed(t)}
    <3>1. s(t) = [Begin EXCEPT !.storage = st, !.generations = g, !.events = ev]
      OBVIOUS
    <3> HIDE DEF s, ev, st, g, removed
    <3>2. s(t).storage = st /\ s(t).events = ev
      BY <1>1, <3>1 DEF Store
    <3> QED BY <1>1, <3>2 DEF st, ev
  <2>4. \A k \in Key : k \in removed(t) <=> k \in K /\ Contains(d, k, t)
    BY <1>1 DEF Contains
  <2>5. \A k, e : <<k, e>> \in s(t).events <=> e = "del" /\ k \in removed(t)
    BY <2>3
  <2>6. \A k \in Key : Contains(d, k, t) => Contains(d, k, clock)
    BY <1>1, DeadLater DEF Later, TypeOK
  <2> HIDE DEF s, removed
  <2>7. Told(s(t), t)
    BY <2>3, <2>4, <2>5, <2>6 DEF Told, Contains, Live, Edits
  <2> QED BY <2>2, <2>7 DEF Answer, Truthful
<1> QED BY <1>2, <1>3

(* Corpses dropped, and announced as expired. *)
LEMMA CorpsesTold ==
    ASSUME TypeOK, NEW dead \in SUBSET Key, \A k \in dead : Corpse(d, k, clock), NEW s,
           \A k \in Key : s.storage[k] = IF k \in dead THEN Absent ELSE d.storage[k],
           s.events = {<<k, "expired">> : k \in dead}
    PROVE  Told(s, clock)
<1>1. \A k, e : <<k, e>> \in s.events <=> e = "expired" /\ k \in dead
  OBVIOUS
<1>2. \A k \in dead : Corpse(d, k, clock) /\ ~Contains(d, k, clock)
  BY DEF Corpse, Contains
<1> QED BY <1>1, <1>2 DEF Told, Contains, Live, Edits

LEMMA ReadTruthful ==
    ASSUME TypeOK, (\E k \in Key : Lookup(k)) \/ (\E K \in SUBSET Key : MGET(K))
                   \/ Aggregate \/ Probe
    PROVE  Truthful
<1>1. /\ d \in Store /\ clock \in Later /\ Begin \in Store /\ Begin.events = {}
      /\ Begin.storage = d.storage
      /\ \A k \in Key : Corpse(Begin, k, clock) <=> Corpse(d, k, clock)
  BY ClockInLater, Prologue DEF TypeOK, Begin, Store, Corpse
<1>2. CASE \E k \in Key : Lookup(k)
  BY <1>1, <1>2, ReapTold DEF Lookup, Answer, Truthful
<1>3. CASE \E K \in SUBSET Key : MGET(K)
  <2>1. PICK dead \in SUBSET Key :
          /\ \A k \in dead : Corpse(Begin, k, clock)
          /\ Answer(clock, [Begin EXCEPT
                !.storage = [k \in Key |-> IF k \in dead THEN Absent ELSE @[k]],
                !.events = {<<k, "expired">> : k \in dead}])
    BY <1>3 DEF MGET
  <2> DEFINE s == [Begin EXCEPT
                !.storage = [k \in Key |-> IF k \in dead THEN Absent ELSE @[k]],
                !.events = {<<k, "expired">> : k \in dead}]
  <2>2. /\ \A k \in Key : s.storage[k] = IF k \in dead THEN Absent ELSE d.storage[k]
        /\ s.events = {<<k, "expired">> : k \in dead}
    BY <1>1 DEF Store
  <2> HIDE DEF s
  <2>3. Told(s, clock)
    BY <1>1, <2>1, <2>2, CorpsesTold
  <2> QED BY <2>1, <2>3 DEF Answer, Truthful, s
<1>4. CASE Aggregate
  <2> DEFINE s == Sweep(Begin, clock)
             dead == {c \in Key : Corpse(Begin, c, clock)}
  <2>1. s = [Begin EXCEPT !.storage = [k \in Key |-> IF Corpse(Begin, k, clock) THEN Absent
                                                      ELSE Begin.storage[k]],
                          !.events = Begin.events \cup {<<k, "expired">> : k \in dead}]
    BY DEF Sweep
  <2>2. Begin.events \cup {<<k, "expired">> : k \in dead} = {<<k, "expired">> : k \in dead}
    BY <1>1
  <2>3. \A k \in Key : k \in dead <=> Corpse(Begin, k, clock)
    OBVIOUS
  <2> HIDE DEF s, dead
  <2>4. /\ \A k \in Key : s.storage[k] = IF k \in dead THEN Absent ELSE d.storage[k]
        /\ s.events = {<<k, "expired">> : k \in dead}
    BY <1>1, <2>1, <2>2, <2>3 DEF Store
  <2>5. dead \in SUBSET Key /\ \A k \in dead : Corpse(d, k, clock)
    BY <1>1 DEF dead
  <2>6. Told(s, clock)
    BY <2>4, <2>5, CorpsesTold
  <2> QED BY <1>4, <2>6 DEF Aggregate, Answer, Truthful, s
<1>5. CASE Probe
  <2>1. Told(Begin, clock)
    BY <1>1 DEF Told, Contains, Live
  <2> QED BY <1>5, <2>1 DEF Probe, Answer, Truthful
<1> QED BY <1>2, <1>3, <1>4, <1>5

(* A step tells the truth, or publishes nothing: a flush, and the clock. *)
LEMMA StepTruthful ==
    ASSUME TypeOK, [Next]_vars
    PROVE  \/ Truthful
           \/ d' = d
           \/ d'.events = {} /\ d'.epoch # d.epoch
<1>1. ASSUME NEW k \in Key, Write(k)
      PROVE  Truthful
  <2>1. CASE \E v \in String, f \in SetFlags, t \in Deadline \cup {NoTTL} : SET(k, v, f, t)
    BY <2>1, SetTruthful
  <2>2. CASE \/ \E v \in String : SETNX(k, v) \/ GETSET(k, v)
             \/ \E v \in String, t \in Deadline : SETEX(k, v, t)
    BY <2>2, StoreTruthful
  <2>3. CASE \/ \E by \in {-1, 1} : Bump(k, by)
             \/ \E v \in String : INCRBYFLOAT(k, v)
             \/ \E v \in String, event \in {"append", "setrange"} : Grow(k, v, event)
    BY <2>3, InPlaceTruthful
  <2>4. CASE GETDEL(k) \/ PERSIST(k)
    BY <2>4, DeleteTruthful
  <2>5. CASE \E t \in Deadline \cup {NoTTL}, p \in BOOLEAN : GETEX(k, t, p)
    BY <2>5, GetexTruthful
  <2>6. CASE \/ \E secs \in Seconds : EXPIRE(k, secs)
             \/ \E t \in Deadline : EXPIREAT(k, t)
    BY <2>6, ExpireTruthful
  <2> QED BY <1>1, <2>1, <2>2, <2>3, <2>4, <2>5, <2>6 DEF Write
<1>2. CASE FLUSHALL
  <2>1. d' = Clear(Begin) /\ Begin.events = {} /\ Begin.epoch = d.epoch /\ d.epoch \in Nat
    BY <1>2 DEF FLUSHALL, Answer, Begin, TypeOK, Store
  <2>2. d'.events = {} /\ d'.epoch = d.epoch + 1
    BY <2>1 DEF Clear
  <2> QED BY <2>1, <2>2
<1>3. CASE Tick \/ UNCHANGED vars
  BY <1>3 DEF Tick, vars
<1>4. CASE \/ \E f \in Assignments : MSET(f) \/ MSETNX(f)
           \/ \E K \in SUBSET Key : DEL(K)
  BY <1>4, ManyKeysTruthful
<1>5. CASE \/ \E k \in Key : Lookup(k)
           \/ \E K \in SUBSET Key : MGET(K)
           \/ Aggregate \/ Probe
  BY <1>5, ReadTruthful
<1> QED BY <1>1, <1>2, <1>3, <1>4, <1>5 DEF Next

(* "expired" is published only for a key whose deadline has passed, "del"  *)
(* only for a live key that is gone, and no live key goes unannounced,     *)
(* whatever deadlines pass while a command runs.                           *)
THEOREM DeathEventsAreExact == Spec => DeathEventsExact
<1> DEFINE Deaths ==
      \A k \in Key :
         /\ NewEvent(k, "expired") =>
                /\ Corpse(d, k, clock')
                /\ d'.storage[k] = Absent \/ d'.generations[k] > d.generations[k]
         /\ NewEvent(k, "del") =>
                Contains(d, k, clock) /\ ~Contains(d', k, clock')
         /\ (Contains(d, k, clock') /\ d'.storage[k] = Absent /\ d'.epoch = d.epoch) =>
                <<k, "del">> \in d'.events
<1>1. ASSUME TypeOK, [Next]_vars
      PROVE  Deaths
  <2>1. CASE Truthful
    BY <2>1 DEF Truthful, Told, NewEvent
  <2>2. CASE d' = d
    BY <2>2 DEF NewEvent, Contains, Live
  <2>3. CASE d'.events = {} /\ d'.epoch # d.epoch
    BY <2>3 DEF NewEvent
  <2> QED BY <1>1, <2>1, <2>2, <2>3, StepTruthful
<1>2. TypeOK /\ [Next]_vars => [Deaths]_vars
  BY <1>1
<1> QED BY <1>2, KeyspaceTypeCorrect, PTL DEF Spec, DeathEventsExact

(* INCR, INCRBYFLOAT, APPEND and SETRANGE leave the deadline of a key that *)
(* outlives them alone.                                                    *)
THEOREM EditsKeepDeadlines == Spec => EditsKeepTTL
<1> DEFINE Kept ==
      \A k \in Key, e \in {"incrby", "incrbyfloat", "append", "setrange"} :
         (NewEvent(k, e) /\ Contains(d, k, clock'))
            => d'.storage[k].expires_at = d.storage[k].expires_at
<1>1. ASSUME TypeOK, [Next]_vars
      PROVE  Kept
  <2>1. CASE Truthful
    BY <2>1 DEF Truthful, Told, NewEvent, Edits
  <2>2. CASE d' = d \/ d'.events = {}
    BY <2>2 DEF NewEvent
  <2> QED BY <1>1, <2>1, <2>2, StepTruthful
<1>2. TypeOK /\ [Next]_vars => [Kept]_vars
  BY <1>1
<1> QED BY <1>2, KeyspaceTypeCorrect, PTL DEF Spec, EditsKeepTTL
=============================================================================
