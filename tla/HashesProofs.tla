---------------------------- MODULE HashesProofs ----------------------------
(***************************************************************************)
(* Everything the runs check of Hashes, proved for any fields, numbers,    *)
(* deadlines and bounds.  The invariant is the type: a command is a        *)
(* composition of store operations on one key, so each is described once   *)
(* by what it leaves under that key (Result), and each command by what     *)
(* that means for the fields a client still sees (Kept, NoHusk, Told).     *)
(***************************************************************************)
EXTENDS Hashes, TLAPS

USE SentinelAssumption, HashesAssumption

(* Store s is the store with entry x and generation g under key k. *)
Result(k, s, x, g) ==
    /\ s \in Store
    /\ s.epoch = d.epoch
    /\ s.storage = [d.storage EXCEPT ![k] = x]
    /\ s.generations = [d.generations EXCEPT ![k] = g]

(* What can be seen of a field of the entry e at time t. *)
SeenIn(e, f, t) ==
    IF Live(e, t) /\ e.value # Other THEN LiveField(e.value[f], t) ELSE Absent

LEMMA SeenEntry ==
    ASSUME NEW s \in Store, NEW k \in Key, NEW f \in Field, NEW t
    PROVE  Seen(s, k, f, t) = SeenIn(s.storage[k], f, t)
<1>1. s.storage[k] \in Entry \cup {Absent}
  BY DEF Store
<1>2. Live(s.storage[k], t) => s.storage[k].value \in Value /\ s.storage[k].value # Absent
  BY <1>1 DEF Live, Entry
<1> QED BY <1>2 DEF Seen, SeenIn, Read, Contains

LEMMA Vocabulary ==
    {"hset", "hdel", "hincrby", "hexpire", "hpersist", "del", "expired"} \subseteq EventName
BY DEF EventName

LEMMA HashKinds ==
    /\ EmptyHash \in Hash
    /\ Hash \subseteq Value /\ Other \notin Hash /\ Absent \notin Hash
    /\ \A h \in Hash, f \in Field : h[f] \in Cell \cup {Absent}
    /\ \A v \in FieldValue : Plain(v) \in Cell
<1>1. EmptyHash \in Hash
  BY DEF EmptyHash, Hash
<1>2. Hash \subseteq Value /\ Other \notin Hash /\ Absent \notin Hash
  OBVIOUS
<1>3. \A h \in Hash, f \in Field : h[f] \in Cell \cup {Absent}
  BY DEF Hash
<1>4. \A v \in FieldValue : Plain(v) \in Cell
  BY DEF Plain, Cell
<1> QED BY <1>1, <1>2, <1>3, <1>4

LEMMA TimeType ==
    ASSUME TypeOK, NEW t \in Later
    PROVE  t \in 0 .. MaxTime /\ clock \in Int /\ t \in Int /\ clock <= t
           /\ \A u \in clock .. t : u \in 0 .. MaxTime /\ u <= t
BY DEF TypeOK, Later

LEMMA MomentType ==
    /\ Moment \subseteq Int
    /\ \A w \in When : w \in Moment
    /\ \A t \in 0 .. MaxTime : Wall(t) \in Moment /\ Wall(t) \in Int
    /\ \A t \in 0 .. MaxTime, w \in When : Wall(t) + w \in Moment
<1>1. \A t \in 0 .. MaxTime : Wall(t) \in Int /\ Wall(t) + 0 = Wall(t)
  BY DEF Wall
<1>2. \A t \in 0 .. MaxTime, w \in When \cup {0} : Wall(t) + w \in Moment
  BY DEF Moment
<1>3. \A m \in Moment : m \in Int
  BY <1>1 DEF Moment
<1>4. \A w \in When : w \in Moment
  BY DEF Moment
<1> QED BY <1>1, <1>2, <1>3, <1>4

-----------------------------------------------------------------------------
(* The store operations a command is composed of. *)

LEMMA FoundResult ==
    ASSUME TypeOK, NEW k \in Key
    PROVE  Result(k, Found(k), IF Corpse(d, k, clock) THEN Absent ELSE d.storage[k],
                  d.generations[k])
<1> DEFINE b == [d EXCEPT !.events = {}]
<1>1. /\ d \in Store /\ b \in Store
      /\ b.storage = d.storage /\ b.generations = d.generations /\ b.epoch = d.epoch
  BY DEF TypeOK, Store
<1>2. Corpse(b, k, clock) = Corpse(d, k, clock)
  BY <1>1 DEF Corpse
<1>3. d.storage = [d.storage EXCEPT ![k] = d.storage[k]]
      /\ d.generations = [d.generations EXCEPT ![k] = d.generations[k]]
  BY <1>1 DEF Store
<1>4. Found(k) = IF Corpse(d, k, clock) THEN PurgeKey(b, k) ELSE b
  BY <1>2 DEF Found, Reap
<1>5. CASE ~Corpse(d, k, clock)
  <2> HIDE DEF b
  <2> QED BY <1>1, <1>3, <1>4, <1>5 DEF Result
<1>6. CASE Corpse(d, k, clock)
  <2> DEFINE c == Drop(b, k)
  <2>1. /\ c \in Store /\ c.storage = [d.storage EXCEPT ![k] = Absent]
        /\ c.generations = d.generations /\ c.epoch = d.epoch
    <3> HIDE DEF b
    <3> QED BY <1>1 DEF Drop, Store
  <2> HIDE DEF c
  <2>2. /\ Notify(c, k, "expired") \in Store
        /\ Notify(c, k, "expired").storage = [d.storage EXCEPT ![k] = Absent]
        /\ Notify(c, k, "expired").generations = d.generations
        /\ Notify(c, k, "expired").epoch = d.epoch
    BY <2>1, Vocabulary DEF Notify, Store
  <2>3. PurgeKey(b, k) = Notify(c, k, "expired")
    BY DEF PurgeKey, c
  <2> HIDE DEF b
  <2> QED BY <1>3, <1>4, <1>6, <2>2, <2>3 DEF Result
<1> QED BY <1>5, <1>6

LEMMA ResultAt ==
    ASSUME TypeOK, NEW k \in Key, NEW s, NEW x, NEW g, Result(k, s, x, g)
    PROVE  s.storage[k] = x /\ s.generations[k] = g
BY DEF Result, Store, TypeOK

LEMMA PutResult ==
    ASSUME TypeOK, NEW k \in Key, NEW s, NEW x, NEW g, Result(k, s, x, g), NEW e \in Entry
    PROVE  Result(k, Put(s, k, e), e, g)
BY DEF Result, Put, Store, TypeOK

LEMMA DropResult ==
    ASSUME TypeOK, NEW k \in Key, NEW s, NEW x, NEW g, Result(k, s, x, g)
    PROVE  Result(k, Drop(s, k), Absent, g) /\ Drop(s, k).events = s.events
BY DEF Result, Drop, Store, TypeOK

LEMMA NotifyResult ==
    ASSUME TypeOK, NEW k \in Key, NEW s, NEW x, NEW g, Result(k, s, x, g), NEW e \in EventName
    PROVE  Result(k, Notify(s, k, e), x, g) /\ <<k, e>> \in Notify(s, k, e).events
BY DEF Result, Notify, Store, TypeOK

LEMMA WriteResult ==
    ASSUME TypeOK, NEW k \in Key, NEW s, NEW x, Result(k, s, x, d.generations[k]),
           NEW e \in EventName
    PROVE  Result(k, AfterWrite(s, k, e), x, d.generations[k] + 1)
<1>1. d.generations[k] \in Nat /\ s.generations[k] = d.generations[k]
  BY DEF TypeOK, Store, Result
<1>2. Result(k, Touch(s, k), x, d.generations[k] + 1)
  BY <1>1 DEF Result, Touch, Store, TypeOK
<1> QED BY <1>2, NotifyResult DEF AfterWrite

(* The deadline of the entry a command stores. *)
Due(k) == IF Missing(k) THEN NoTTL ELSE d.storage[k].expires_at

LEMMA Lookup ==
    ASSUME TypeOK, NEW k \in Key
    PROVE  /\ Current(k) = IF Live(d.storage[k], clock) THEN d.storage[k].value ELSE Absent
           /\ Current(k) \in Hash \cup {Other, Absent}
           /\ Missing(k) <=> ~Live(d.storage[k], clock)
           /\ ~Missing(k) => Found(k).storage[k] = d.storage[k] /\ d.storage[k] \in Entry
           /\ Due(k) \in Int \cup {NoTTL}
           /\ Current(k) # Other => Dict(k) \in Hash
<1>1. d.storage[k] \in Entry \cup {Absent} /\ d.storage \in [Key -> Entry \cup {Absent}]
  BY DEF TypeOK, Store
<1>2. Found(k).storage[k] = IF Corpse(d, k, clock) THEN Absent ELSE d.storage[k]
  BY <1>1, FoundResult DEF Result
<1>3. Current(k) = IF Live(d.storage[k], clock) THEN d.storage[k].value ELSE Absent
  BY <1>2 DEF Current, Read, Contains, Corpse, Live
<1>4. Live(d.storage[k], clock) =>
         d.storage[k] \in Entry /\ d.storage[k].value \in Value /\ d.storage[k].value # Absent
         /\ d.storage[k].expires_at \in Int \cup {NoTTL}
  BY <1>1 DEF Live, Entry
<1>5. Missing(k) <=> ~Live(d.storage[k], clock)
  BY <1>3, <1>4 DEF Missing
<1>6. Current(k) \in Hash \cup {Other, Absent}
  BY <1>3, <1>4
<1>7. ~Missing(k) => Found(k).storage[k] = d.storage[k] /\ d.storage[k] \in Entry
  BY <1>2, <1>4, <1>5 DEF Corpse
<1>8. Due(k) \in Int \cup {NoTTL}
  BY <1>4, <1>5 DEF Due
<1>9. Current(k) # Other => Dict(k) \in Hash
  BY <1>6, HashKinds DEF Dict, Missing
<1> QED BY <1>3, <1>5, <1>6, <1>7, <1>8, <1>9

LEMMA StoredResult ==
    ASSUME TypeOK, NEW k \in Key, NEW h \in Hash
    PROVE  Result(k, Stored(k, h), [value |-> h, expires_at |-> Due(k)], d.generations[k])
<1> DEFINE e == [value |-> h, expires_at |-> Due(k)]
<1>1. e \in Entry
  BY Lookup, HashKinds DEF Entry
<1>2. Stored(k, h) = Put(Found(k), k, e)
  BY Lookup DEF Stored, Due
<1> HIDE DEF e
<1>3. Result(k, Put(Found(k), k, e), e, d.generations[k])
  BY <1>1, FoundResult, PutResult
<1> QED BY <1>2, <1>3 DEF e

-----------------------------------------------------------------------------
(* What a command on k may do to the fields of k by time t: write, or take *)
(* nothing that can still be seen. *)
Kept(k, s, t) ==
    \E x : \/ Result(k, s, x, d.generations[k] + 1)
           \/ /\ Result(k, s, x, d.generations[k])
              /\ \A f \in Field : SeenIn(x, f, t) = SeenIn(d.storage[k], f, t)

(* An empty dict under k was there before. *)
NoHusk(k, s) == HoldsEmpty(s, k) => HoldsEmpty(d, k)

(* A key that goes with a field still to be seen is announced. *)
Told(k, s, t) ==
    (s.storage[k] = Absent /\ \E f \in Field : SeenIn(d.storage[k], f, t) # Absent)
        => <<k, "del">> \in s.events

(* A lookup takes nothing. *)
LEMMA FoundKept ==
    ASSUME TypeOK, NEW k \in Key, NEW t \in Later
    PROVE  Kept(k, Found(k), t) /\ NoHusk(k, Found(k)) /\ Told(k, Found(k), t)
<1> DEFINE x == IF Corpse(d, k, clock) THEN Absent ELSE d.storage[k]
<1>1. Result(k, Found(k), x, d.generations[k])
  BY FoundResult
<1>2. d.storage[k] \in Entry \cup {Absent} /\ d.storage \in [Key -> Entry \cup {Absent}]
  BY DEF TypeOK, Store
<1>3. Corpse(d, k, clock) => ~Live(d.storage[k], t)
  BY <1>2, TimeType DEF Corpse, Live, Entry
<1>4. \A f \in Field : SeenIn(x, f, t) = SeenIn(d.storage[k], f, t)
  BY <1>3 DEF SeenIn, Live
<1>5. Found(k).storage[k] = x
  BY <1>1, <1>2 DEF Result
<1>6. Told(k, Found(k), t)
  BY <1>4, <1>5 DEF Told, SeenIn, Live
<1>7. NoHusk(k, Found(k))
  BY <1>5 DEF NoHusk, HoldsEmpty
<1>8. Kept(k, Found(k), t)
  BY <1>1, <1>4 DEF Kept
<1> QED BY <1>6, <1>7, <1>8

(* h differs from the dict found under k by corpses only. *)
Shed(k, h, t) ==
    \A f \in Field : \/ h[f] = Current(k)[f]
                     \/ h[f] = Absent /\ LiveField(Current(k)[f], t) = Absent

LEMMA ShedSeen ==
    ASSUME TypeOK, NEW k \in Key, NEW t \in Later, Current(k) \in Hash,
           NEW h \in Hash, Shed(k, h, t)
    PROVE  /\ \A f \in Field : SeenIn([value |-> h, expires_at |-> Due(k)], f, t)
                                 = SeenIn(d.storage[k], f, t)
           /\ h = EmptyHash => \A f \in Field : SeenIn(d.storage[k], f, t) = Absent
<1> DEFINE e == [value |-> h, expires_at |-> Due(k)]
<1>1. Current(k) = d.storage[k].value /\ d.storage[k] \in Entry /\ ~Missing(k)
  BY Lookup, HashKinds DEF Missing
<1>2. Due(k) = d.storage[k].expires_at
  BY <1>1 DEF Due
<1>3. d.storage[k] # Absent /\ e # Absent
  BY <1>1, <1>2, HashKinds DEF Entry
<1>4. e.value = h /\ e.expires_at = Due(k)
  OBVIOUS
<1> HIDE DEF e
<1>5. Live(e, t) = Live(d.storage[k], t)
  BY <1>2, <1>3, <1>4 DEF Live
<1>6. \A f \in Field : LiveField(h[f], t) = LiveField(Current(k)[f], t)
  BY DEF Shed, LiveField, Dead
<1>7. h # Other /\ Current(k) # Other
  OBVIOUS
<1>8. \A f \in Field : SeenIn(e, f, t) = SeenIn(d.storage[k], f, t)
  BY <1>1, <1>4, <1>5, <1>6, <1>7 DEF SeenIn
<1>9. h = EmptyHash => \A f \in Field : SeenIn(e, f, t) = Absent
  BY <1>4 DEF SeenIn, EmptyHash, LiveField
<1> QED BY <1>8, <1>9 DEF e

(* A corpse stays one. *)
LEMMA LaterDead ==
    ASSUME NEW h \in Hash, NEW f \in Field, NEW u \in 0 .. MaxTime, NEW t \in Int, u <= t,
           LiveField(h[f], u) = Absent
    PROVE  LiveField(h[f], t) = Absent
<1>1. h[f] \in Cell \cup {Absent}
  BY HashKinds
<1>2. CASE h[f] = Absent
  BY <1>2 DEF LiveField
<1>3. CASE h[f] # Absent
  <2>1. Dead(h[f], u) /\ h[f].deadline \in Int
    BY <1>1, <1>3, MomentType DEF LiveField, Dead, Cell
  <2> QED BY <2>1 DEF LiveField, Dead, Wall
<1> QED BY <1>2, <1>3

(* Storing a dict that lost corpses takes nothing. *)
LEMMA ShedKept ==
    ASSUME TypeOK, NEW k \in Key, NEW t \in Later, Current(k) \in Hash,
           NEW h \in Hash, Shed(k, h, t)
    PROVE  Kept(k, Stored(k, h), t) /\ Told(k, Stored(k, h), t)
<1> DEFINE e == [value |-> h, expires_at |-> Due(k)]
<1>1. Result(k, Stored(k, h), e, d.generations[k])
  BY StoredResult
<1>2. \A f \in Field : SeenIn(e, f, t) = SeenIn(d.storage[k], f, t)
  BY ShedSeen
<1>3. e \in Entry
  BY Lookup, HashKinds DEF Entry
<1> HIDE DEF e
<1>4. Kept(k, Stored(k, h), t)
  BY <1>1, <1>2 DEF Kept
<1>5. Stored(k, h).storage[k] = e
  BY <1>1, ResultAt
<1>6. Told(k, Stored(k, h), t)
  BY <1>3, <1>5 DEF Told
<1> QED BY <1>4, <1>6

(* Dropping the dict when nothing but corpses is left takes nothing. *)
LEMMA ShedDropKept ==
    ASSUME TypeOK, NEW k \in Key, NEW t \in Later, Current(k) \in Hash,
           NEW h \in Hash, Shed(k, h, t)
    PROVE  LET s == DropIfEmpty(Stored(k, h), k, h)
           IN Kept(k, s, t) /\ NoHusk(k, s) /\ Told(k, s, t)
<1>1. CASE h # EmptyHash
  <2>1. Stored(k, h).storage[k] = [value |-> h, expires_at |-> Due(k)]
    BY StoredResult, ResultAt
  <2>2. NoHusk(k, Stored(k, h))
    BY <1>1, <2>1 DEF NoHusk, HoldsEmpty
  <2> QED BY <1>1, <2>2, ShedKept DEF DropIfEmpty
<1>2. CASE h = EmptyHash
  <2> DEFINE s == Drop(Stored(k, h), k)
  <2>1. Result(k, s, Absent, d.generations[k])
    BY StoredResult, DropResult
  <2>2. \A f \in Field : SeenIn(d.storage[k], f, t) = Absent
    BY <1>2, ShedSeen
  <2>3. \A f \in Field : SeenIn(Absent, f, t) = Absent
    BY DEF SeenIn, Live
  <2> HIDE DEF s
  <2>4. Kept(k, s, t)
    BY <2>1, <2>2, <2>3 DEF Kept
  <2>5. s.storage[k] = Absent
    BY <2>1, ResultAt
  <2>6. NoHusk(k, s) /\ Told(k, s, t)
    BY <2>2, <2>5 DEF NoHusk, Told, HoldsEmpty
  <2> QED BY <1>2, <2>4, <2>6 DEF DropIfEmpty, s
<1> QED BY <1>1, <1>2

(* A write leaves a field in the dict. *)
LEMMA WroteKept ==
    ASSUME TypeOK, NEW k \in Key, NEW t \in Later, NEW h \in Hash, h # EmptyHash,
           NEW e \in EventName
    PROVE  LET s == AfterWrite(Stored(k, h), k, e)
           IN Kept(k, s, t) /\ NoHusk(k, s) /\ Told(k, s, t)
<1> DEFINE s == AfterWrite(Stored(k, h), k, e)
           x == [value |-> h, expires_at |-> Due(k)]
<1>1. Result(k, s, x, d.generations[k] + 1)
  BY StoredResult, WriteResult
<1>2. x \in Entry /\ x.value = h
  BY Lookup, HashKinds DEF Entry
<1> HIDE DEF s, x
<1>3. s.storage[k] = x
  BY <1>1, ResultAt
<1>4. Kept(k, s, t)
  BY <1>1 DEF Kept
<1>5. NoHusk(k, s) /\ Told(k, s, t)
  BY <1>2, <1>3 DEF NoHusk, Told, HoldsEmpty
<1> QED BY <1>4, <1>5 DEF s

(* A write that takes the last field drops the key and says so. *)
LEMMA WroteLastKept ==
    ASSUME TypeOK, NEW k \in Key, NEW t \in Later, NEW h \in Hash, NEW e \in EventName
    PROVE  /\ LET s == Notify(Drop(AfterWrite(Stored(k, h), k, e), k), k, "del")
              IN Kept(k, s, t) /\ NoHusk(k, s) /\ Told(k, s, t)
           /\ LET s == Drop(Notify(AfterWrite(Stored(k, h), k, e), k, "del"), k)
              IN Kept(k, s, t) /\ NoHusk(k, s) /\ Told(k, s, t)
<1> DEFINE w == AfterWrite(Stored(k, h), k, e)
           g == d.generations[k] + 1
           x == [value |-> h, expires_at |-> Due(k)]
<1>1. Result(k, w, x, g)
  BY StoredResult, WriteResult
<1>2. "del" \in EventName
  BY Vocabulary
<1> HIDE DEF w, x
<1>3. ASSUME NEW s, Result(k, s, Absent, g), <<k, "del">> \in s.events
      PROVE  Kept(k, s, t) /\ NoHusk(k, s) /\ Told(k, s, t)
  <2>1. s.storage[k] = Absent
    BY <1>3, ResultAt
  <2> QED BY <1>3, <2>1 DEF Kept, NoHusk, Told, HoldsEmpty
<1> HIDE DEF g
<1>4. Result(k, Drop(w, k), Absent, g)
  BY <1>1, DropResult
<1>5. Result(k, Notify(Drop(w, k), k, "del"), Absent, g)
      /\ <<k, "del">> \in Notify(Drop(w, k), k, "del").events
  BY <1>2, <1>4, NotifyResult
<1>6. Result(k, Notify(w, k, "del"), x, g) /\ <<k, "del">> \in Notify(w, k, "del").events
  BY <1>1, <1>2, NotifyResult
<1>7. Result(k, Drop(Notify(w, k, "del"), k), Absent, g)
      /\ Drop(Notify(w, k, "del"), k).events = Notify(w, k, "del").events
  BY <1>6, DropResult
<1> QED BY <1>3, <1>5, <1>6, <1>7 DEF w

-----------------------------------------------------------------------------
(* The commands *)

(* Every command but the reads of single fields. *)
Lawful(k) ==
    /\ clock' \in Later
    /\ Kept(k, d', clock') /\ NoHusk(k, d') /\ Told(k, d', clock')

LEMMA AnswerLawful ==
    ASSUME TypeOK, NEW k \in Key, NEW t \in Later, NEW s, Answer(k, t, s),
           Current(k) # Other => Kept(k, s, t) /\ NoHusk(k, s) /\ Told(k, s, t)
    PROVE  Lawful(k)
<1>1. clock' = t /\ d' = IF Current(k) = Other THEN Found(k) ELSE s
  BY DEF Answer
<1> QED BY <1>1, FoundKept DEF Lawful

LEMMA HSETLawful ==
    ASSUME TypeOK, NEW k \in Key, NEW F \in SomeFields, NEW pairs \in [F -> FieldValue],
           HSET(k, pairs)
    PROVE  Lawful(k)
<1> DEFINE h == [f \in Field |-> IF f \in DOMAIN pairs THEN Plain(pairs[f]) ELSE Dict(k)[f]]
<1>1. PICK t \in Later : Answer(k, t, AfterWrite(Stored(k, h), k, "hset"))
  BY DEF HSET
<1>2. SUFFICES ASSUME Current(k) # Other
               PROVE  h \in Hash /\ h # EmptyHash
  BY <1>1, AnswerLawful, WroteKept, Vocabulary
<1>3. h \in Hash
  <2>1. Dict(k) \in Hash
    BY <1>2, Lookup
  <2>2. \A f \in Field : h[f] \in Cell \cup {Absent}
    BY <2>1, HashKinds
  <2> QED BY <2>2 DEF Hash
<1>4. PICK f \in F : f \in Field
  BY DEF SomeFields
<1>5. h[f] \in Cell
  BY <1>4, HashKinds
<1> QED BY <1>3, <1>4, <1>5 DEF EmptyHash

LEMMA HSETNXLawful ==
    ASSUME TypeOK, NEW k \in Key, NEW f \in Field, NEW v \in FieldValue, HSETNX(k, f, v)
    PROVE  Lawful(k)
<1> DEFINE h == [Dict(k) EXCEPT ![f] = Plain(v)]
           s(t) == IF ~Missing(k) /\ LiveField(Dict(k)[f], t) # Absent THEN Found(k)
                   ELSE AfterWrite(Stored(k, h), k, "hset")
<1>1. PICK t \in Later : Answer(k, t, s(t))
  BY DEF HSETNX
<1>2. SUFFICES ASSUME Current(k) # Other
               PROVE  h \in Hash /\ h # EmptyHash
  BY <1>1, AnswerLawful, WroteKept, FoundKept, Vocabulary
<1>3. h \in Hash /\ h[f] = Plain(v) /\ Plain(v) # Absent
  BY <1>2, Lookup, HashKinds DEF Hash
<1> QED BY <1>3 DEF EmptyHash

LEMMA HINCRBYLawful ==
    ASSUME TypeOK, NEW k \in Key, NEW f \in Field, NEW increment \in Number,
           HINCRBY(k, f, increment)
    PROVE  Lawful(k)
<1> DEFINE live(t) == LiveField(Dict(k)[f], t)
           old(t) == IF live(t) = Absent THEN Plain(0) ELSE live(t)
           c(t) == [value |-> old(t).value + increment, deadline |-> old(t).deadline]
           h(t) == [Dict(k) EXCEPT ![f] = c(t)]
<1>1. PICK t \in Later :
         \/ Answer(k, t, Found(k))
         \/ /\ old(t).value + increment \in Number
            /\ Answer(k, t, AfterWrite(Stored(k, h(t)), k, "hincrby"))
  BY DEF HINCRBY
<1>2. CASE Answer(k, t, Found(k))
  BY <1>2, AnswerLawful, FoundKept
<1>3. CASE /\ old(t).value + increment \in Number
           /\ Answer(k, t, AfterWrite(Stored(k, h(t)), k, "hincrby"))
  <2>1. SUFFICES ASSUME Current(k) # Other
                 PROVE  h(t) \in Hash /\ h(t) # EmptyHash
    BY <1>3, AnswerLawful, WroteKept, Vocabulary
  <2>2. Dict(k) \in Hash /\ Dict(k)[f] \in Cell \cup {Absent}
    BY <2>1, Lookup, HashKinds
  <2>3. Plain(0) \in Cell
    BY HashKinds DEF FieldValue
  <2>4. old(t) \in Cell
    BY <2>2, <2>3 DEF LiveField
  <2> HIDE DEF old
  <2>5. c(t) \in Cell
    BY <1>3, <2>4 DEF Cell, FieldValue
  <2> HIDE DEF c
  <2>6. h(t) \in Hash /\ h(t)[f] = c(t) /\ c(t) # Absent
    BY <2>2, <2>5 DEF Hash
  <2> QED BY <2>6 DEF EmptyHash
<1> QED BY <1>1, <1>2, <1>3

LEMMA FieldsSplit ==
    ASSUME NEW F \in SomeFields
    PROVE  F \subseteq Field
BY DEF SomeFields

LEMMA HDELLawful ==
    ASSUME TypeOK, NEW k \in Key, NEW F \in SomeFields, HDEL(k, F)
    PROVE  Lawful(k)
<1> DEFINE removed(at) == {f \in F : LiveField(Current(k)[f], at[f]) # Absent}
           h == [f \in Field |-> IF f \in F THEN Absent ELSE Current(k)[f]]
           stored == Stored(k, h)
           written == AfterWrite(stored, k, "hdel")
<1>1. PICK t \in Later : \E at \in [F -> clock .. t] :
        Answer(k, t, IF Missing(k) THEN Found(k)
                     ELSE IF h # EmptyHash THEN IF removed(at) = {} THEN stored ELSE written
                     ELSE IF removed(at) = {} THEN Drop(stored, k)
                     ELSE Notify(Drop(written, k), k, "del"))
  BY DEF HDEL
<1>2. PICK at \in [F -> clock .. t] :
        Answer(k, t, IF Missing(k) THEN Found(k)
                     ELSE IF h # EmptyHash THEN IF removed(at) = {} THEN stored ELSE written
                     ELSE IF removed(at) = {} THEN Drop(stored, k)
                     ELSE Notify(Drop(written, k), k, "del"))
  BY <1>1
<1>3. CASE Missing(k) \/ Current(k) = Other
  BY <1>2, <1>3, AnswerLawful, FoundKept
<1>4. CASE ~Missing(k) /\ Current(k) # Other
  <2>1. Current(k) \in Hash
    BY <1>4, Lookup DEF Missing
  <2>2. h \in Hash
    BY <2>1 DEF Hash
  <2>3. CASE removed(at) # {}
    <3>1. Answer(k, t, IF h # EmptyHash THEN written ELSE Notify(Drop(written, k), k, "del"))
      BY <1>2, <1>4, <2>3
    <3> QED BY <2>2, <3>1, AnswerLawful, WroteKept, WroteLastKept, Vocabulary
  <2>4. CASE removed(at) = {}
    <3>1. Answer(k, t, DropIfEmpty(stored, k, h))
      BY <1>2, <1>4, <2>4 DEF DropIfEmpty
    <3>2. \A f \in F : at[f] \in 0 .. MaxTime /\ at[f] <= t /\ t \in Int
      BY TimeType
    <3>3. Shed(k, h, t)
      <4>1. \A f \in F : LiveField(Current(k)[f], at[f]) = Absent
        BY <2>4
      <4> QED BY <2>1, <3>2, <4>1, LaterDead, FieldsSplit DEF Shed
    <3> QED BY <2>1, <2>2, <3>1, <3>3, AnswerLawful, ShedDropKept
  <2> QED BY <2>3, <2>4
<1> QED BY <1>3, <1>4

(* Purging takes corpses only, at whatever times the fields are visited. *)
LEMMA PurgedSheds ==
    ASSUME TypeOK, NEW k \in Key, NEW t \in Later, Current(k) \in Hash,
           NEW F \in SUBSET Field, NEW at \in [F -> clock .. t]
    PROVE  Purged(Current(k), at) \in Hash /\ Shed(k, Purged(Current(k), at), t)
<1> DEFINE h == Purged(Current(k), at)
<1>1. \A f \in Field : h[f] = IF f \in F THEN LiveField(Current(k)[f], at[f])
                                ELSE Current(k)[f]
  BY DEF Purged
<1>2. \A f \in Field : h[f] \in {Current(k)[f], Absent}
  BY <1>1 DEF LiveField
<1>3. h = [f \in Field |-> h[f]]
  BY DEF Purged
<1> HIDE DEF h
<1>4. h \in Hash
  BY <1>2, <1>3 DEF Hash
<1>5. \A f \in F : at[f] \in 0 .. MaxTime /\ at[f] <= t /\ t \in Int
  BY TimeType
<1>6. ASSUME NEW f \in Field
      PROVE  \/ h[f] = Current(k)[f]
             \/ h[f] = Absent /\ LiveField(Current(k)[f], t) = Absent
  <2>1. CASE f \in F /\ LiveField(Current(k)[f], at[f]) = Absent
    BY <1>1, <1>5, <2>1, LaterDead
  <2>2. CASE f \in F /\ LiveField(Current(k)[f], at[f]) # Absent
    BY <1>1, <2>2 DEF LiveField
  <2>3. CASE f \notin F
    BY <1>1, <2>3
  <2> QED BY <2>1, <2>2, <2>3
<1> QED BY <1>4, <1>6 DEF Shed, h

LEMMA HashReadLawful ==
    ASSUME TypeOK, NEW k \in Key, HashRead(k)
    PROVE  Lawful(k)
<1> DEFINE h(t) == Purged(Current(k), AllAt(t))
<1>1. PICK t \in Later :
        Answer(k, t, IF Missing(k) THEN Found(k) ELSE DropIfEmpty(Stored(k, h(t)), k, h(t)))
  BY DEF HashRead
<1>2. CASE Missing(k) \/ Current(k) = Other
  BY <1>1, <1>2, AnswerLawful, FoundKept
<1>3. CASE ~Missing(k) /\ Current(k) # Other
  <2>1. Current(k) \in Hash
    BY <1>3, Lookup DEF Missing
  <2>2. AllAt(t) \in [Field -> clock .. t] /\ Field \in SUBSET Field
    BY TimeType DEF AllAt
  <2>3. h(t) \in Hash /\ Shed(k, h(t), t)
    BY <2>1, <2>2, PurgedSheds
  <2> HIDE DEF h
  <2> QED BY <1>1, <1>3, <2>1, <2>3, AnswerLawful, ShedDropKept
<1> QED BY <1>2, <1>3

LEMMA FieldTTLLawful ==
    ASSUME TypeOK, NEW k \in Key, NEW F \in SomeFields, FieldTTL(k, F)
    PROVE  Lawful(k)
<1> DEFINE h(at) == Purged(Current(k), at)
<1>1. PICK t \in Later : \E at \in [F -> clock .. t] :
        Answer(k, t, IF Missing(k) THEN Found(k) ELSE DropIfEmpty(Stored(k, h(at)), k, h(at)))
  BY DEF FieldTTL
<1>2. PICK at \in [F -> clock .. t] :
        Answer(k, t, IF Missing(k) THEN Found(k) ELSE DropIfEmpty(Stored(k, h(at)), k, h(at)))
  BY <1>1
<1>3. CASE Missing(k) \/ Current(k) = Other
  BY <1>2, <1>3, AnswerLawful, FoundKept
<1>4. CASE ~Missing(k) /\ Current(k) # Other
  <2>1. Current(k) \in Hash
    BY <1>4, Lookup DEF Missing
  <2>2. h(at) \in Hash /\ Shed(k, h(at), t)
    BY <2>1, FieldsSplit, PurgedSheds
  <2> HIDE DEF h
  <2> QED BY <1>2, <1>4, <2>1, <2>2, AnswerLawful, ShedDropKept
<1> QED BY <1>3, <1>4

LEMMA HPERSISTLawful ==
    ASSUME TypeOK, NEW k \in Key, NEW F \in SomeFields, HPERSIST(k, F)
    PROVE  Lawful(k)
<1> DEFINE h(at) == Purged(Current(k), at)
           done(at) == {f \in F : h(at)[f] # Absent /\ h(at)[f].deadline # NoTTL}
           kept(at) == [f \in Field |-> IF f \in done(at) THEN Plain(h(at)[f].value)
                                        ELSE h(at)[f]]
           s(at) == IF done(at) = {} THEN Stored(k, kept(at))
                    ELSE AfterWrite(Stored(k, kept(at)), k, "hpersist")
<1>1. PICK t \in Later : \E at \in [F -> clock .. t] :
        Answer(k, t, IF Missing(k) THEN Found(k) ELSE DropIfEmpty(s(at), k, kept(at)))
  BY DEF HPERSIST
<1>2. PICK at \in [F -> clock .. t] :
        Answer(k, t, IF Missing(k) THEN Found(k) ELSE DropIfEmpty(s(at), k, kept(at)))
  BY <1>1
<1>3. CASE Missing(k) \/ Current(k) = Other
  BY <1>2, <1>3, AnswerLawful, FoundKept
<1>4. CASE ~Missing(k) /\ Current(k) # Other
  <2>1. Current(k) \in Hash
    BY <1>4, Lookup DEF Missing
  <2>2. h(at) \in Hash /\ Shed(k, h(at), t)
    BY <2>1, FieldsSplit, PurgedSheds
  <2>3. h(at) = [f \in Field |-> h(at)[f]]
    BY <2>2 DEF Hash
  <2> HIDE DEF h
  <2>4. CASE done(at) = {}
    <3>1. kept(at) = h(at)
      BY <2>3, <2>4
    <3>2. Answer(k, t, DropIfEmpty(Stored(k, h(at)), k, h(at)))
      BY <1>2, <1>4, <2>4, <3>1
    <3> QED BY <2>1, <2>2, <3>2, AnswerLawful, ShedDropKept
  <2>5. CASE done(at) # {}
    <3>1. \A f \in done(at) : h(at)[f] \in Cell /\ h(at)[f].value \in FieldValue
      BY <2>2, FieldsSplit, HashKinds DEF Cell
    <3>2. \A f \in Field : kept(at)[f] \in Cell \cup {Absent}
      BY <2>2, <3>1, HashKinds
    <3>3. kept(at) \in Hash
      BY <3>2 DEF Hash
    <3>4. PICK f \in done(at) : f \in Field
      BY <2>5, FieldsSplit
    <3>5. kept(at)[f] \in Cell
      BY <3>1, <3>4, HashKinds
    <3>6. kept(at) # EmptyHash
      BY <3>4, <3>5 DEF EmptyHash
    <3>7. Answer(k, t, AfterWrite(Stored(k, kept(at)), k, "hpersist"))
      BY <1>2, <1>4, <2>5, <3>6 DEF DropIfEmpty
    <3> HIDE DEF kept
    <3> QED BY <3>3, <3>6, <3>7, AnswerLawful, WroteKept, Vocabulary
  <2> QED BY <2>4, <2>5
<1> QED BY <1>3, <1>4

LEMMA HEXPIRELawful ==
    ASSUME TypeOK, NEW k \in Key, NEW F \in SomeFields, NEW when \in When,
           NEW absolute \in BOOLEAN, NEW flag \in Flag,
           HEXPIRE(k, F, when, absolute, flag)
    PROVE  Lawful(k)
<1> DEFINE new(at, f) == IF absolute THEN when ELSE Wall(at[f]) + when
           live(at, f) == LiveField(Current(k)[f], at[f])
           done(at) == {f \in F : live(at, f) # Absent
                                  /\ ~Blocked(flag, live(at, f).deadline, new(at, f))}
           h(at, by) == [f \in Field |->
                   IF f \notin F THEN Current(k)[f]
                   ELSE IF f \notin done(at) THEN live(at, f)
                   ELSE IF new(at, f) <= Wall(by[f]) THEN Absent
                   ELSE [value |-> live(at, f).value, deadline |-> new(at, f)]]
           w(at, by) == AfterWrite(Stored(k, h(at, by)), k, "hexpire")
           s(at, by) == IF done(at) = {} THEN Stored(k, h(at, by)) ELSE w(at, by)
           out(at, by) == IF Missing(k) THEN Found(k)
                          ELSE DropIfEmpty(IF done(at) # {} /\ h(at, by) = EmptyHash
                                           THEN Notify(s(at, by), k, "del")
                                           ELSE s(at, by), k, h(at, by))
<1>1. PICK t \in Later : \E at, by \in [F -> clock .. t] : Answer(k, t, out(at, by))
  BY DEF HEXPIRE
<1>2. PICK at \in [F -> clock .. t], by \in [F -> clock .. t] : Answer(k, t, out(at, by))
  BY <1>1
<1>3. CASE Missing(k) \/ Current(k) = Other
  BY <1>2, <1>3, AnswerLawful, FoundKept
<1>4. CASE ~Missing(k) /\ Current(k) # Other
  <2>1. Current(k) \in Hash
    BY <1>4, Lookup DEF Missing
  <2>2. CASE done(at) = {}
    <3>1. h(at, by) = Purged(Current(k), at)
      BY <2>2 DEF Purged
    <3>2. Answer(k, t, DropIfEmpty(Stored(k, Purged(Current(k), at)), k, Purged(Current(k), at)))
      BY <1>2, <1>4, <2>2, <3>1
    <3>3. /\ Purged(Current(k), at) \in Hash
          /\ Shed(k, Purged(Current(k), at), t)
      BY <2>1, FieldsSplit, PurgedSheds
    <3> QED BY <2>1, <3>2, <3>3, AnswerLawful, ShedDropKept
  <2>3. CASE done(at) # {}
    <3>1. \A f \in F : at[f] \in 0 .. MaxTime
      BY TimeType
    <3>2. \A f \in F : new(at, f) \in Moment
      BY <3>1, MomentType
    <3>3. \A f \in F : live(at, f) \in Cell \cup {Absent}
      BY <2>1, FieldsSplit, HashKinds DEF LiveField
    <3> HIDE DEF new
    <3>4. \A f \in done(at) :
            [value |-> live(at, f).value, deadline |-> new(at, f)] \in Cell
      BY <3>2, <3>3 DEF Cell
    <3> HIDE DEF live, done
    <3>5. \A f \in Field : h(at, by)[f] \in Cell \cup {Absent}
      BY <2>1, <3>3, <3>4, HashKinds
    <3>6. h(at, by) \in Hash
      BY <3>5 DEF Hash
    <3>7. Answer(k, t, IF h(at, by) = EmptyHash THEN Drop(Notify(w(at, by), k, "del"), k)
                       ELSE w(at, by))
      BY <1>2, <1>4, <2>3 DEF DropIfEmpty
    <3> HIDE DEF h
    <3> QED BY <3>6, <3>7, AnswerLawful, WroteKept, WroteLastKept, Vocabulary
  <2> QED BY <2>2, <2>3
<1> QED BY <1>3, <1>4

(* The reads of single fields may leave an empty dict, and touch nothing. *)
LEMMA FieldReadKept ==
    ASSUME TypeOK, NEW k \in Key, NEW F \in SomeFields, FieldRead(k, F)
    PROVE  /\ clock' \in Later
           /\ Kept(k, d', clock') /\ Told(k, d', clock')
           /\ d'.generations[k] = d.generations[k]
<1> DEFINE h(at) == Purged(Current(k), at)
<1>1. PICK t \in Later : \E at \in [F -> clock .. t] :
        Answer(k, t, IF Missing(k) THEN Found(k) ELSE Stored(k, h(at)))
  BY DEF FieldRead
<1>2. PICK at \in [F -> clock .. t] :
        Answer(k, t, IF Missing(k) THEN Found(k) ELSE Stored(k, h(at)))
  BY <1>1
<1>3. CASE Missing(k) \/ Current(k) = Other
  <2>1. clock' = t /\ d' = Found(k)
    BY <1>2, <1>3 DEF Answer
  <2> QED BY <2>1, FoundKept, FoundResult, ResultAt
<1>4. CASE ~Missing(k) /\ Current(k) # Other
  <2>1. Current(k) \in Hash
    BY <1>4, Lookup DEF Missing
  <2>2. h(at) \in Hash /\ Shed(k, h(at), t)
    BY <2>1, FieldsSplit, PurgedSheds
  <2>3. clock' = t /\ d' = Stored(k, h(at))
    BY <1>2, <1>4 DEF Answer
  <2> HIDE DEF h
  <2> QED BY <2>1, <2>2, <2>3, ShedKept, StoredResult, ResultAt
<1> QED BY <1>3, <1>4

-----------------------------------------------------------------------------
(* Every command of the hash family, the reads of single fields too. *)
Stepped(k) ==
    /\ clock' \in Later
    /\ Kept(k, d', clock') /\ Told(k, d', clock')
    /\ NoHusk(k, d') \/ (d'.generations[k] = d.generations[k] /\ \E F \in SomeFields : FieldRead(k, F))

LEMMA CommandStepped ==
    ASSUME TypeOK, NEW k \in Key,
           Write(k) \/ Deadlines(k) \/ HashRead(k) \/ \E F \in SomeFields : FieldRead(k, F)
    PROVE  Stepped(k)
<1>1. CASE Write(k)
  BY <1>1, HDELLawful, HSETLawful, HSETNXLawful, HINCRBYLawful DEF Write, Lawful, Stepped
<1>2. CASE Deadlines(k)
  BY <1>2, FieldTTLLawful, HPERSISTLawful, HEXPIRELawful DEF Deadlines, Lawful, Stepped
<1>3. CASE HashRead(k)
  BY <1>3, HashReadLawful DEF Lawful, Stepped
<1>4. CASE \E F \in SomeFields : FieldRead(k, F)
  BY <1>4, FieldReadKept DEF Stepped
<1> QED BY <1>1, <1>2, <1>3, <1>4

(* What the field-level contract and the two action properties ask of the  *)
(* other keys: nothing happens to them but the passing of time. *)
LEMMA KeyStep ==
    ASSUME TypeOK, NEW k \in Key, Stepped(k)
    PROVE  /\ TypeOK'
           /\ d'.epoch = d.epoch
           /\ \A j \in Key :
                /\ j # k => d'.storage[j] = d.storage[j] /\ d'.generations[j] = d.generations[j]
                /\ \/ d'.generations[j] = d.generations[j] + 1
                   \/ /\ d'.generations[j] = d.generations[j]
                      /\ \A f \in Field : Seen(d', j, f, clock') = Seen(d, j, f, clock')
<1>1. PICK x : \/ Result(k, d', x, d.generations[k] + 1)
               \/ /\ Result(k, d', x, d.generations[k])
                  /\ \A f \in Field : SeenIn(x, f, clock') = SeenIn(d.storage[k], f, clock')
  BY DEF Stepped, Kept
<1>2. d' \in Store /\ d'.epoch = d.epoch /\ d \in Store
  BY <1>1 DEF Result, TypeOK
<1>3. TypeOK'
  BY <1>2, TimeType DEF TypeOK, Stepped
<1>4. \A j \in Key : j # k => d'.storage[j] = d.storage[j] /\ d'.generations[j] = d.generations[j]
  BY <1>1, <1>2 DEF Result, Store
<1>5. \A j \in Key, f \in Field :
         /\ Seen(d', j, f, clock') = SeenIn(d'.storage[j], f, clock')
         /\ Seen(d, j, f, clock') = SeenIn(d.storage[j], f, clock')
  BY <1>2, SeenEntry
<1>6. \/ d'.generations[k] = d.generations[k] + 1
      \/ /\ d'.generations[k] = d.generations[k]
         /\ \A f \in Field : SeenIn(d'.storage[k], f, clock') = SeenIn(d.storage[k], f, clock')
  BY <1>1, ResultAt
<1> QED BY <1>2, <1>3, <1>4, <1>5, <1>6

(* Time alone only makes fields vanish. *)
LEMMA SeenLater ==
    ASSUME TypeOK, NEW t \in Later, NEW k \in Key, NEW f \in Field
    PROVE  Seen(d, k, f, t) \in {Seen(d, k, f, clock), Absent}
<1>1. d \in Store /\ d.storage[k] \in Entry \cup {Absent} /\ t >= clock
      /\ clock \in 0 .. MaxTime /\ clock \in Int /\ t \in Int /\ t \in 0 .. MaxTime
  BY TimeType DEF TypeOK, Store
<1>2. CASE ~Live(d.storage[k], t)
  BY <1>1, <1>2, SeenEntry DEF SeenIn
<1>3. CASE Live(d.storage[k], t)
  <2>1. Live(d.storage[k], clock) /\ d.storage[k] \in Entry
    BY <1>1, <1>3 DEF Live, Entry
  <2>2. CASE d.storage[k].value = Other
    BY <1>1, <2>2, SeenEntry DEF SeenIn
  <2>3. CASE d.storage[k].value # Other
    <3>1. d.storage[k].value \in Hash
      BY <2>1, <2>3 DEF Entry
    <3> DEFINE h == d.storage[k].value
    <3>2. LiveField(h[f], t) \in {LiveField(h[f], clock), Absent}
      BY <1>1, <3>1, LaterDead DEF LiveField
    <3> QED BY <1>1, <1>3, <2>1, <2>3, <3>2, SeenEntry DEF SeenIn
  <2> QED BY <2>2, <2>3
<1> QED BY <1>2, <1>3

LEMMA InitHashes == Init => TypeOK /\ Contract!Init
<1> SUFFICES ASSUME Init PROVE TypeOK /\ Contract!Init
  OBVIOUS
<1>1. RestoredDeadline \subseteq Moment \cup {NoTTL} /\ {0, Text} \subseteq FieldValue
  BY MomentType DEF RestoredDeadline, FieldValue
<1>2. [Field -> [value: {0, Text}, deadline: RestoredDeadline] \cup {Absent}] \subseteq Hash
  BY <1>1 DEF Hash, Cell
<1> DEFINE E == {[value |-> h, expires_at |-> e] :
                   h \in [Field -> [value: {0, Text}, deadline: RestoredDeadline] \cup {Absent}]
                         \cup {Other}, e \in {NoTTL, 1}}
<1>3. E \subseteq Entry
  BY <1>2 DEF Entry
<1>4. PICK s \in [Key -> E \cup {Absent}] :
        d = [storage |-> s, generations |-> NoGenerations, epoch |-> 0, events |-> {}]
  BY DEF Init
<1> HIDE DEF E
<1>5. s \in [Key -> Entry \cup {Absent}] /\ NoGenerations \in [Key -> Nat]
  BY <1>3 DEF NoGenerations
<1>6. d \in Store /\ d.generations = NoGenerations /\ d.epoch = 0
  BY <1>4, <1>5 DEF Store
<1>7. clock \in 0 .. MaxTime
  BY DEF Init
<1>8. [p \in Key \X Field |-> d.generations[p[1]]] = [p \in Key \X Field |-> 0]
  BY <1>6 DEF NoGenerations
<1> QED BY <1>6, <1>7, <1>8 DEF TypeOK, Contract!Init

(* One step: what it does, in terms of all three properties. *)
LEMMA StepHashes ==
    ASSUME TypeOK, [Next]_vars
    PROVE  /\ TypeOK' /\ clock' \in Later
           /\ d'.epoch = d.epoch
           /\ \A j \in Key :
                \/ d'.generations[j] = d.generations[j] + 1
                \/ /\ d'.generations[j] = d.generations[j]
                   /\ \A f \in Field : Seen(d', j, f, clock') = Seen(d, j, f, clock')
<1>1. CASE \E k \in Key : Write(k) \/ Deadlines(k) \/ HashRead(k)
                          \/ \E F \in SomeFields : FieldRead(k, F)
  BY <1>1, CommandStepped, KeyStep DEF Stepped
<1>2. CASE Tick \/ UNCHANGED vars
  <2>1. d' = d /\ clock' \in Later /\ clock' \in 0 .. MaxTime
    BY <1>2 DEF Tick, vars, TypeOK, Later
  <2> QED BY <2>1 DEF TypeOK
<1> QED BY <1>1, <1>2 DEF Next

(* Type correctness: every hash command leaves a well-formed store, with   *)
(* field values in range and field deadlines among those clients asked for.*)
THEOREM HashesTypeCorrect == Spec => []TypeOK
<1>1. Init => TypeOK
  BY InitHashes
<1>2. TypeOK /\ [Next]_vars => TypeOK'
  BY StepHashes
<1> QED BY <1>1, <1>2, PTL DEF Spec

(* Refinement: a field never appears or changes in the sight of clients    *)
(* without its key's write generation growing, whatever deadlines pass     *)
(* while a hash command visits its fields.                                 *)
THEOREM HashesImplementVersioned == Spec => FieldsVersioned
<1>1. Init => Contract!Init
  BY InitHashes
<1>2. ASSUME TypeOK, [Next]_vars
      PROVE  [Contract!Next]_(Contract!vvars)
  <2>1. \A j \in Key : d.generations[j] \in Nat
    BY <1>2 DEF TypeOK, Store
  <2>2. ASSUME NEW p \in Key \X Field
        PROVE  \/ d'.generations[p[1]] > d.generations[p[1]]
               \/ /\ d'.generations[p[1]] = d.generations[p[1]]
                  /\ Seen(d', p[1], p[2], clock') \in {Seen(d, p[1], p[2], clock), Absent}
    BY <1>2, <2>1, StepHashes, SeenLater
  <2> QED BY <1>2, <2>2, StepHashes DEF Contract!Next, Contract!Proceed
<1>3. TypeOK /\ [Next]_vars => [Contract!Next]_(Contract!vvars)
  BY <1>2
<1> QED BY <1>1, <1>3, HashesTypeCorrect, PTL DEF Spec, FieldsVersioned, Contract!Spec

(* Lazy purging takes corpses only: a field whose deadline is still ahead  *)
(* when a command ends is as it was unless the command wrote to its hash.  *)
THEOREM ReadsKeepLiveFields == Spec => ReadsTakeNothing
<1>1. ASSUME TypeOK, [Next]_vars
      PROVE  \A k \in Key, f \in Field :
               d'.generations[k] = d.generations[k] =>
                  Seen(d', k, f, clock') = Seen(d, k, f, clock')
  <2>1. \A j \in Key : d.generations[j] \in Nat
    BY <1>1 DEF TypeOK, Store
  <2> QED BY <1>1, <2>1, StepHashes
<1>2. TypeOK /\ [Next]_vars =>
        [\A k \in Key, f \in Field :
           d'.generations[k] = d.generations[k] =>
              Seen(d', k, f, clock') = Seen(d, k, f, clock')]_vars
  BY <1>1
<1> QED BY <1>2, HashesTypeCorrect, PTL DEF Spec, ReadsTakeNothing

(* A hash that loses its last field to a write disappears, and no key with *)
(* a visible field disappears unannounced.                                 *)
THEOREM EmptyHashesDisappear == Spec => HashesDisappear
<1> DEFINE Husk(k) == (HoldsEmpty(d', k) /\ ~HoldsEmpty(d, k)) =>
                /\ d'.generations[k] = d.generations[k]
                /\ \E F \in SomeFields : FieldRead(k, F)
           Loud(k) == (d'.storage[k] = Absent /\ \E f \in Field : Seen(d, k, f, clock') # Absent) =>
                <<k, "del">> \in d'.events
<1>1. ASSUME TypeOK, Next
      PROVE  \A k \in Key : Husk(k) /\ Loud(k)
  <2>0. d \in Store
    BY <1>1 DEF TypeOK
  <2>1. ASSUME NEW j \in Key, d'.storage[j] = d.storage[j]
        PROVE  Husk(j) /\ Loud(j)
    <3>1. \A f \in Field : d.storage[j] = Absent => Seen(d, j, f, clock') = Absent
      BY <2>0, SeenEntry DEF SeenIn, Live
    <3> QED BY <2>1, <3>1 DEF HoldsEmpty
  <2>2. CASE Tick
    BY <2>1, <2>2 DEF Tick
  <2>3. ASSUME NEW k \in Key, Write(k) \/ Deadlines(k) \/ HashRead(k)
                              \/ \E F \in SomeFields : FieldRead(k, F)
        PROVE  \A j \in Key : Husk(j) /\ Loud(j)
    <3>1. Stepped(k)
      BY <1>1, <2>3, CommandStepped
    <3>2. \A j \in Key : j # k => d'.storage[j] = d.storage[j]
      BY <1>1, <3>1, KeyStep
    <3>3. Husk(k)
      BY <3>1 DEF Stepped, NoHusk
    <3>4. \A f \in Field : Seen(d, k, f, clock') = SeenIn(d.storage[k], f, clock')
      BY <2>0, SeenEntry
    <3>5. Loud(k)
      BY <3>1, <3>4 DEF Stepped, Told
    <3> HIDE DEF Husk, Loud
    <3> QED BY <2>1, <3>2, <3>3, <3>5
  <2> QED BY <1>1, <2>2, <2>3 DEF Next
<1>2. TypeOK /\ [Next]_vars => 
        [\A k \in Key :
           /\ (HoldsEmpty(d', k) /\ ~HoldsEmpty(d, k)) =>
                /\ d'.generations[k] = d.generations[k]
                /\ \E F \in SomeFields : FieldRead(k, F)
           /\ (d'.storage[k] = Absent /\ \E f \in Field : Seen(d, k, f, clock') # Absent) =>
                <<k, "del">> \in d'.events]_vars
  BY <1>1
<1> QED BY <1>2, HashesTypeCorrect, PTL DEF Spec, HashesDisappear
=============================================================================
