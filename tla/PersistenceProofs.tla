-------------------------- MODULE PersistenceProofs --------------------------
(***************************************************************************)
(* Persistence keeps its types, never brings a flushed key back, restores  *)
(* every deadline as the wall-clock time it was, and acknowledges a dump   *)
(* only when the table holds its rows (on trio, the final one too), for    *)
(* every set of keys and deadlines and any number of flushes.              *)
(***************************************************************************)
EXTENDS Persistence, TLAPS

USE SentinelAssumption, PersistenceAssumption

(* Every row (or entry) of f was written after the e-th flush. *)
Fresh(f, e) == \A k \in Key : f[k] # Absent => f[k].value.era = e

Good(s, e) == s \in Store /\ Fresh(s.storage, e)

LEMMA NoEntriesFresh ==
    ASSUME NEW e
    PROVE  /\ Fresh(NoEntries, e) /\ NoEntries \in Rows
           /\ NoEntries \in [Key -> Entry \cup {Absent}]
BY DEF Fresh, NoEntries, Rows

LEMMA EmptiedGood ==
    ASSUME NEW e
    PROVE  Good(Emptied, e) /\ Emptied.epoch = 0
<1>1. NoGenerations \in [Key -> Nat]
  BY DEF NoGenerations
<1> QED BY <1>1, NoEntriesFresh DEF Good, Emptied, Store

LEMMA SetGood ==
    ASSUME NEW s, NEW e, Good(s, e), NEW k \in Key, NEW v \in Value, v.era = e,
           NEW due \in Int \cup {NoTTL}, NEW now \in Int, NEW w \in Int
    PROVE  /\ Good(Set(s, k, v, due, FALSE, now, w), e)
           /\ Set(s, k, v, due, FALSE, now, w).epoch = s.epoch
<1> DEFINE at == IF due # NoTTL THEN Monotonic(due, now, w) ELSE NoTTL
           entry == [value |-> v, expires_at |-> at]
<1>1. Set(s, k, v, due, FALSE, now, w) = Put(s, k, entry)
  BY DEF Set
<1>2. at \in Int \cup {NoTTL}
  BY DEF Monotonic
<1>3. entry \in Entry
  BY <1>2 DEF Entry
<1>4. entry.value.era = e
  OBVIOUS
<1> HIDE DEF entry
<1>5. /\ Put(s, k, entry).storage = [s.storage EXCEPT ![k] = entry]
      /\ Put(s, k, entry) \in Store
      /\ Put(s, k, entry).epoch = s.epoch
  BY <1>3 DEF Good, Put, Store
<1>6. \A j \in Key : Put(s, k, entry).storage[j] = IF j = k THEN entry ELSE s.storage[j]
  BY <1>5 DEF Good, Store
<1>7. Fresh(Put(s, k, entry).storage, e)
  BY <1>4, <1>6 DEF Good, Fresh
<1> QED BY <1>1, <1>5, <1>7 DEF Good

LEMMA DropGood ==
    ASSUME NEW s, NEW e, Good(s, e), NEW k \in Key
    PROVE  Good(Drop(s, k), e) /\ Drop(s, k).epoch = s.epoch
BY DEF Good, Drop, Store, Fresh

LEMMA SweptGood ==
    ASSUME NEW e, Good(d, e)
    PROVE  Good(Swept, e) /\ Swept.epoch = d.epoch
<1> DEFINE f == [k \in Key |-> IF Corpse(d, k, Now) THEN Absent ELSE d.storage[k]]
<1>1. f \in [Key -> Entry \cup {Absent}] /\ Fresh(f, e)
  BY DEF Good, Store, Fresh
<1> DEFINE ev == d.events \cup {<<k, "expired">> : k \in {c \in Key : Corpse(d, c, Now)}}
<1>2. Sweep(d, Now) = [d EXCEPT !.storage = f, !.events = ev]
  BY DEF Sweep
<1> HIDE DEF f, ev
<1>3. /\ Sweep(d, Now) = [storage |-> f, generations |-> d.generations,
                          epoch |-> d.epoch, events |-> ev]
      /\ d.generations \in [Key -> Nat] /\ d.epoch \in Nat
  BY <1>2 DEF Good, Store
<1>4. Swept = [storage |-> f, generations |-> d.generations, epoch |-> d.epoch, events |-> {}]
  BY <1>3 DEF Swept
<1> QED BY <1>1, <1>3, <1>4 DEF Good, Store

LEMMA SnapshotFresh ==
    ASSUME NEW e, Good(d, e), Now \in Int, wall \in Int
    PROVE  TakeSnapshot \in Rows /\ Fresh(TakeSnapshot, e)
<1>1. ASSUME NEW k \in Key, Contains(d, k, Now)
      PROVE  /\ d.storage[k] \in Entry
             /\ d.storage[k].value.era = e
             /\ d.storage[k].value \in Value
             /\ d.storage[k].expires_at \in Int \cup {NoTTL}
  BY <1>1 DEF Good, Store, Contains, Live, Fresh, Entry
<1>2. ASSUME NEW k \in Key
      PROVE  /\ TakeSnapshot[k] \in Row \cup {Absent}
             /\ TakeSnapshot[k] # Absent => TakeSnapshot[k].value.era = e
  <2>1. CASE ~Contains(d, k, Now)
    BY <2>1 DEF TakeSnapshot, Snapshot
  <2>2. CASE Contains(d, k, Now)
    <3> DEFINE at == IF d.storage[k].expires_at = NoTTL THEN NoTTL
                     ELSE wall + (d.storage[k].expires_at - Now)
    <3>1. TakeSnapshot[k] = [value |-> d.storage[k].value, deadline |-> at]
      BY <2>2 DEF TakeSnapshot, Snapshot
    <3>2. at \in Int \cup {NoTTL}
      BY <1>1, <2>2
    <3> HIDE DEF at
    <3> QED BY <1>1, <2>2, <3>1, <3>2 DEF Row
  <2> QED BY <2>1, <2>2
<1>3. TakeSnapshot = [k \in Key |-> TakeSnapshot[k]]
  BY DEF TakeSnapshot, Snapshot
<1> QED BY <1>2, <1>3 DEF Rows, Fresh

LEMMA RestoredGood ==
    ASSUME NEW e, disk \in Rows, Fresh(disk, e), wall \in Int
    PROVE  /\ Good([Emptied EXCEPT !.storage = Restored(disk, 0, wall)], e)
           /\ [Emptied EXCEPT !.storage = Restored(disk, 0, wall)].epoch = 0
<1> DEFINE f == Restored(disk, 0, wall)
<1>1. ASSUME NEW k \in Key
      PROVE  /\ f[k] \in Entry \cup {Absent}
             /\ f[k] # Absent => f[k].value.era = e
  <2>1. CASE disk[k] = Absent
    BY <2>1 DEF Restored
  <2>2. CASE disk[k] # Absent
    <3>1. /\ disk[k].value \in Value /\ disk[k].value.era = e
          /\ disk[k].deadline \in Int \cup {NoTTL}
      BY <2>2 DEF Rows, Row, Fresh
    <3>2. disk[k].deadline # NoTTL => Monotonic(disk[k].deadline, 0, wall) \in Int
      BY <3>1 DEF Monotonic
    <3>3. \/ f[k] = [value |-> disk[k].value, expires_at |-> NoTTL]
          \/ f[k] = Absent
          \/ /\ disk[k].deadline # NoTTL
             /\ f[k] = [value |-> disk[k].value,
                     expires_at |-> Monotonic(disk[k].deadline, 0, wall)]
      BY <2>2 DEF Restored
    <3> QED BY <3>1, <3>2, <3>3 DEF Entry
  <2> QED BY <2>1, <2>2
<1>2. f = [k \in Key |-> f[k]]
  BY DEF Restored
<1>3. f \in [Key -> Entry \cup {Absent}] /\ Fresh(f, e)
  BY <1>1, <1>2 DEF Fresh
<1>4. NoGenerations \in [Key -> Nat]
  BY DEF NoGenerations
<1> HIDE DEF f
<1>5. [Emptied EXCEPT !.storage = f] =
        [storage |-> f, generations |-> NoGenerations, epoch |-> 0, events |-> {}]
  BY DEF Emptied
<1> QED BY <1>3, <1>4, <1>5 DEF Good, Store, f

-----------------------------------------------------------------------------
(* The inductive invariant. *)

JobRecord == [pc: {"idle", "queued", "opened", "locked", "checked", "done"},
              rows: Rows, epoch: Nat]

MidFlush == loop \in {"flushing", "wiping"}

Pending(j) == job[j].pc \in {"queued", "opened", "locked", "checked"}

(* A flush under way leaves room for one more era. *)
Room == MidFlush => era < MaxEra

(* A worker past its acquire owns the lock, and so does a wiping loop. *)
LockInv ==
    /\ \A j \in Dump : job[j].pc \in {"locked", "checked"} => lock = j
    /\ loop = "wiping" => lock = "loop"

FreshInv == Fresh(disk, era) /\ Fresh(d.storage, era)

(* A snapshot that may still pass the epoch guard, or has passed it, holds *)
(* rows of the current era only.                                           *)
JobInv ==
    \A j \in Dump :
       /\ Pending(j) => job[j].epoch <= d.epoch
       /\ (Pending(j) /\ job[j].epoch = d.epoch) => Fresh(job[j].rows, era)
       /\ job[j].pc = "checked" => Fresh(job[j].rows, era)

(* clear() came first: between it and the wipe every snapshot is stale.    *)
FlushInv ==
    MidFlush => /\ d.storage = NoEntries
                /\ \A j \in Dump : Pending(j) => job[j].epoch < d.epoch

Inv == TypeOK /\ Room /\ LockInv /\ FreshInv /\ JobInv /\ FlushInv

LEMMA IdleType == Idle \in JobRecord /\ Idle.pc = "idle"
BY NoEntriesFresh DEF Idle, JobRecord

LEMMA InvFacts ==
    ASSUME Inv
    PROVE  /\ Good(d, era) /\ d \in Store /\ d.epoch \in Nat
           /\ wall \in Int /\ Now \in Int
           /\ disk \in Rows /\ era \in 0 .. MaxEra /\ save \in BOOLEAN
           /\ job \in [Dump -> JobRecord]
BY DEF Inv, TypeOK, FreshInv, Good, Store, Now, JobRecord

LEMMA InitInv == Init => Inv
<1> SUFFICES ASSUME Init PROVE Inv
  OBVIOUS
<1>1. Good(d, era) /\ d.epoch = 0
  BY EmptiedGood DEF Init
<1>2. disk \in Rows /\ Fresh(disk, era)
  <2> DEFINE v == [era |-> 0, due |-> NoTTL]
  <2>1. v \in Value /\ v.era = 0
    OBVIOUS
  <2> HIDE DEF v
  <2>2. [value |-> v, deadline |-> NoTTL] \in Row
    BY <2>1 DEF Row
  <2>3. \A k \in Key : disk[k] \in {[value |-> v, deadline |-> NoTTL], Absent}
    BY DEF Init, v
  <2>4. disk \in [Key -> Row \cup {Absent}]
    BY <2>2 DEF Init, v
  <2> QED BY <2>1, <2>3, <2>4 DEF Init, Rows, Fresh
<1>3. /\ job \in [Dump -> JobRecord]
      /\ \A j \in Dump : job[j].pc = "idle"
  BY IdleType DEF Init
<1>4. TypeOK
  BY <1>1, <1>2, <1>3 DEF Init, TypeOK, Good, Loop, JobRecord
<1> QED BY <1>1, <1>2, <1>3, <1>4
        DEF Init, Inv, Room, LockInv, FreshInv, JobInv, FlushInv, MidFlush, Pending, Good

-----------------------------------------------------------------------------
(* Commands and the clock. *)

LEMMA TickInv == ASSUME Inv, Tick PROVE Inv'
<1>1. TypeOK'
  BY DEF Inv, Tick, TypeOK
<1> QED BY <1>1 DEF Inv, Tick, Room, LockInv, FreshInv, JobInv, FlushInv, MidFlush, Pending, Fresh

(* A step that only replaces the store by one of the same epoch, while     *)
(* the loop serves.                                                        *)
LEMMA StoreInv ==
    ASSUME Inv, loop = "serve", Good(d', era), d'.epoch = d.epoch,
           UNCHANGED <<save, disk, wall, boot, loop, dumper, job, lock, era, promised, clean>>
    PROVE  Inv'
<1>1. TypeOK'
  BY DEF Inv, TypeOK, Good
<1> QED BY <1>1 DEF Inv, Room, LockInv, FreshInv, JobInv, FlushInv, MidFlush, Pending, Fresh, Good

LEMMA SetKeyInv == ASSUME Inv, NEW k \in Key, NEW due \in Due, SetKey(k, due) PROVE Inv'
<1> DEFINE v == [era |-> era, due |-> due]
<1>1. v \in Value /\ v.era = era /\ due \in Int \cup {NoTTL}
  BY InvFacts
<1> HIDE DEF v
<1>2. Good(d', era) /\ d'.epoch = d.epoch
  BY <1>1, InvFacts, SetGood DEF SetKey, v
<1> QED BY <1>2, StoreInv DEF SetKey

LEMMA DelKeyInv == ASSUME Inv, NEW k \in Key, DelKey(k) PROVE Inv'
BY InvFacts, DropGood, StoreInv DEF DelKey

LEMMA FlushClearInv == ASSUME Inv, FlushClear PROVE Inv'
<1>1. /\ d'.storage = NoEntries /\ d'.epoch = d.epoch + 1 /\ d' \in Store
      /\ Fresh(d'.storage, era)
  <2>1. NoGenerations \in [Key -> Nat] /\ d.events \in SUBSET (Key \X EventName)
    BY InvFacts DEF NoGenerations, Store
  <2> QED BY <2>1, InvFacts, NoEntriesFresh DEF FlushClear, Clear, Store
<1>2. TypeOK'
  BY <1>1 DEF Inv, FlushClear, TypeOK, Loop
<1>3. \A j \in Dump : Pending(j) => job[j].epoch < d'.epoch /\ job[j].epoch # d'.epoch
  BY <1>1, InvFacts DEF Inv, JobInv, JobRecord
<1>4. Room' /\ LockInv'
  BY DEF Inv, FlushClear, Room, LockInv, MidFlush
<1>5. FreshInv'
  BY <1>1 DEF Inv, FlushClear, FreshInv
<1>6. JobInv'
  BY <1>3, InvFacts, <1>1 DEF Inv, FlushClear, JobInv, Pending, JobRecord, Fresh
<1>7. FlushInv'
  BY <1>1, <1>3 DEF FlushClear, FlushInv, Pending
<1> QED BY <1>2, <1>4, <1>5, <1>6, <1>7 DEF Inv

LEMMA FlushLockInv == ASSUME Inv, FlushLock PROVE Inv'
<1>1. TypeOK'
  BY DEF Inv, FlushLock, TypeOK, Loop
<1> QED BY <1>1 DEF Inv, FlushLock, Room, LockInv, FreshInv, JobInv, FlushInv, MidFlush, Pending,
                    Fresh, Dump

LEMMA FlushWipeInv == ASSUME Inv, FlushWipe PROVE Inv'
<1>1. era + 1 \in 0 .. MaxEra /\ d.storage = NoEntries
  BY InvFacts DEF Inv, FlushWipe, Room, FlushInv, MidFlush
<1>2. TypeOK'
  BY <1>1, NoEntriesFresh DEF Inv, FlushWipe, TypeOK, Loop
<1>3. \A j \in Dump : /\ Pending(j) => job[j].epoch < d.epoch
                       /\ job[j].pc \notin {"locked", "checked"}
  BY DEF Inv, FlushWipe, FlushInv, LockInv, MidFlush, Dump
<1>4. Room' /\ LockInv' /\ FlushInv'
  BY <1>3 DEF FlushWipe, Room, LockInv, FlushInv, MidFlush
<1>5. FreshInv'
  BY <1>1, NoEntriesFresh DEF FlushWipe, FreshInv
<1>6. JobInv'
  BY <1>3, InvFacts DEF FlushWipe, JobInv, Pending, JobRecord
<1> QED BY <1>2, <1>4, <1>5, <1>6 DEF Inv

LEMMA FlushFailInv == ASSUME Inv, FlushFail PROVE Inv'
<1>1. TypeOK'
  BY DEF Inv, FlushFail, TypeOK, Loop
<1> QED BY <1>1 DEF Inv, FlushFail, Room, LockInv, FreshInv, JobInv, FlushInv, MidFlush, Pending,
                    Fresh, Dump

-----------------------------------------------------------------------------
(* The dumper, the worker threads, shutdown and restart. *)

(* Job j moves on to a record of which the invariant holds; the flush and  *)
(* the other job are not concerned.                                        *)
LEMMA JobStepInv ==
    ASSUME Inv, NEW j \in Dump, NEW r \in JobRecord,
           job' = [job EXCEPT ![j] = r],
           r.pc \in {"locked", "checked"} => lock' = j,
           lock' \in {lock, j} \/ (lock = j /\ lock' = "free"),
           lock' = lock \/ lock \in {"free", j},
           \/ r.pc \in {"idle", "done"}
           \/ /\ Pending(j) /\ r.epoch = job[j].epoch /\ r.rows = job[j].rows
              /\ r.pc = "checked" => Fresh(r.rows, era),
           UNCHANGED <<save, d, wall, boot, loop, era, promised>>,
           dumper' \in {"off", "asleep", "waiting"},
           disk' \in Rows, Fresh(disk', era),
           clean' \in [exit: BOOLEAN, failed: BOOLEAN, loaded: BOOLEAN]
    PROVE  Inv'
<1>1. /\ job' \in [Dump -> JobRecord] /\ job'[j] = r
      /\ \A i \in Dump : i # j => job'[i] = job[i]
  BY InvFacts
<1>2. TypeOK'
  BY <1>1 DEF Inv, TypeOK, Loop, JobRecord
<1>3. Room' /\ FreshInv'
  BY DEF Inv, Room, MidFlush, FreshInv
<1>4. LockInv'
  BY <1>1 DEF Inv, LockInv, Dump
<1>5. JobInv'
  <2> SUFFICES ASSUME NEW i \in Dump
               PROVE  /\ Pending(i)' => job'[i].epoch <= d.epoch
                      /\ (Pending(i)' /\ job'[i].epoch = d.epoch) => Fresh(job'[i].rows, era)
                      /\ job'[i].pc = "checked" => Fresh(job'[i].rows, era)
    BY DEF JobInv
  <2>1. CASE i # j
    BY <1>1, <2>1 DEF Inv, JobInv, Pending
  <2>2. CASE i = j
    BY <1>1, <2>2 DEF Inv, JobInv, Pending
  <2> QED BY <2>1, <2>2
<1>6. FlushInv'
  BY <1>1 DEF Inv, FlushInv, MidFlush, Pending
<1> QED BY <1>2, <1>3, <1>4, <1>5, <1>6 DEF Inv

LEMMA WorkingInv == ASSUME Inv, NEW j \in Dump, Working(j) PROVE Inv'
<1> DEFINE at(pc) == [job[j] EXCEPT !.pc = pc]
<1>1. \A pc \in {"opened", "locked", "checked", "done"} :
        /\ at(pc) \in JobRecord /\ at(pc).pc = pc
        /\ at(pc).epoch = job[j].epoch /\ at(pc).rows = job[j].rows
  BY InvFacts DEF JobRecord
<1>2. /\ job[j] \in JobRecord /\ disk \in Rows /\ Fresh(disk, era)
      /\ dumper \in {"off", "asleep", "waiting"}
      /\ clean \in [exit: BOOLEAN, failed: BOOLEAN, loaded: BOOLEAN]
      /\ lock \in Dump \cup {"free", "loop"}
  BY InvFacts DEF Inv, TypeOK, FreshInv
<1>3. /\ job[j].pc \in {"locked", "checked"} => lock = j
      /\ (Pending(j) /\ job[j].epoch = d.epoch) => Fresh(job[j].rows, era)
      /\ job[j].pc = "checked" => Fresh(job[j].rows, era)
  BY DEF Inv, LockInv, JobInv
<1>4. CASE JobOpen(j)
  <2>1. job' = [job EXCEPT ![j] = at("opened")] /\ Pending(j)
    BY <1>4, InvFacts DEF JobOpen, Pending
  <2> DEFINE r == at("opened")
  <2>2. /\ r \in JobRecord /\ r.pc = "opened"
        /\ r.epoch = job[j].epoch /\ r.rows = job[j].rows
    BY <1>1
  <2>3. UNCHANGED <<save, d, disk, wall, boot, loop, dumper, lock, era, promised, clean>>
    BY <1>4 DEF JobOpen
  <2>4. job' = [job EXCEPT ![j] = r]
    BY <2>1
  <2> HIDE DEF r, at
  <2>5. /\ r.pc \in {"locked", "checked"} => lock' = j
        /\ lock' \in {lock, j} \/ (lock = j /\ lock' = "free")
        /\ lock' = lock \/ lock \in {"free", j}
        /\ r.pc = "checked" => Fresh(r.rows, era)
    BY <2>2, <2>3
  <2>6. Fresh(disk', era) /\ disk' \in Rows /\ dumper' \in {"off", "asleep", "waiting"}
        /\ clean' \in [exit: BOOLEAN, failed: BOOLEAN, loaded: BOOLEAN]
        /\ UNCHANGED <<save, d, wall, boot, loop, era, promised>>
    BY <1>2, <2>3
  <2>7. Pending(j) /\ r.epoch = job[j].epoch /\ r.rows = job[j].rows /\ r \in JobRecord
    BY <2>1, <2>2
  <2> QED BY <2>4, <2>5, <2>6, <2>7, JobStepInv
<1>5. CASE JobLock(j)
  <2>1. job' = [job EXCEPT ![j] = at("locked")] /\ Pending(j)
    BY <1>5, InvFacts DEF JobLock, Pending
  <2> DEFINE r == at("locked")
  <2>2. /\ r \in JobRecord /\ r.pc = "locked"
        /\ r.epoch = job[j].epoch /\ r.rows = job[j].rows
    BY <1>1
  <2>3. /\ lock = "free" /\ lock' = j
        /\ UNCHANGED <<save, d, disk, wall, boot, loop, dumper, era, promised, clean>>
    BY <1>5 DEF JobLock
  <2>4. job' = [job EXCEPT ![j] = r]
    BY <2>1
  <2> HIDE DEF r, at
  <2>5. /\ r.pc \in {"locked", "checked"} => lock' = j
        /\ lock' \in {lock, j} \/ (lock = j /\ lock' = "free")
        /\ lock' = lock \/ lock \in {"free", j}
    BY <2>3
  <2>6. r.pc = "checked" => Fresh(r.rows, era)
    BY <2>2
  <2>7. Fresh(disk', era) /\ disk' \in Rows /\ dumper' \in {"off", "asleep", "waiting"}
        /\ clean' \in [exit: BOOLEAN, failed: BOOLEAN, loaded: BOOLEAN]
        /\ UNCHANGED <<save, d, wall, boot, loop, era, promised>>
    BY <1>2, <2>3
  <2>8. Pending(j) /\ r.epoch = job[j].epoch /\ r.rows = job[j].rows /\ r \in JobRecord
    BY <2>1, <2>2
  <2> QED BY <2>4, <2>5, <2>6, <2>7, <2>8, JobStepInv
<1>6. CASE JobCheck(j)
  <2>0. UNCHANGED <<save, d, disk, wall, boot, loop, dumper, era, promised, clean>>
    BY <1>6 DEF JobCheck
  <2>1. CASE job[j].epoch = d.epoch
    <3>1. job' = [job EXCEPT ![j] = at("checked")] /\ Pending(j)
      BY <1>6, <2>1, InvFacts DEF JobCheck, Pending
    <3>2. job[j].pc = "locked" /\ lock' = lock
      BY <1>6, <2>1 DEF JobCheck
    <3> DEFINE r == at("checked")
    <3>3. /\ r \in JobRecord /\ r.pc = "checked"
          /\ r.epoch = job[j].epoch /\ r.rows = job[j].rows
          /\ job' = [job EXCEPT ![j] = r]
      BY <1>1, <3>1
    <3>4. Fresh(r.rows, era) /\ lock' = j
      BY <1>3, <2>1, <3>1, <3>2, <3>3
    <3> HIDE DEF r, at
    <3>5. /\ r.pc \in {"locked", "checked"} => lock' = j
          /\ lock' \in {lock, j} \/ (lock = j /\ lock' = "free")
          /\ lock' = lock \/ lock \in {"free", j}
      BY <3>2, <3>4
    <3>6. Fresh(disk', era) /\ disk' \in Rows /\ dumper' \in {"off", "asleep", "waiting"}
          /\ clean' \in [exit: BOOLEAN, failed: BOOLEAN, loaded: BOOLEAN]
          /\ UNCHANGED <<save, d, wall, boot, loop, era, promised>>
      BY <1>2, <2>0
    <3>7. Pending(j) /\ r.epoch = job[j].epoch /\ r.rows = job[j].rows /\ r \in JobRecord
          /\ job' = [job EXCEPT ![j] = r]
      BY <3>1, <3>3
    <3> QED BY <3>4, <3>5, <3>6, <3>7, JobStepInv
  <2>2. CASE job[j].epoch # d.epoch
    <3>1. job' = [job EXCEPT ![j] = at("done")] /\ lock = j /\ lock' = "free"
      BY <1>3, <1>6, <2>2, InvFacts DEF JobCheck
    <3> HIDE DEF at
    <3> QED BY <1>1, <1>2, <2>0, <3>1, JobStepInv
  <2> QED BY <2>1, <2>2
<1>7. CASE JobCommit(j)
  <2>1. job' = [job EXCEPT ![j] = at("done")] /\ lock = j /\ lock' = "free"
    BY <1>3, <1>7, InvFacts DEF JobCommit
  <2>2. disk' \in Rows /\ Fresh(disk', era)
    BY <1>2, <1>3, <1>7 DEF JobCommit, JobRecord
  <2> HIDE DEF at
  <2> QED BY <1>1, <1>2, <1>7, <2>1, <2>2, JobStepInv DEF JobCommit
<1>8. CASE JobFail(j)
  <2>1. job' = [job EXCEPT ![j] = at("done")]
    BY <1>8, InvFacts DEF JobFail
  <2>2. clean' \in [exit: BOOLEAN, failed: BOOLEAN, loaded: BOOLEAN]
    BY <1>2, <1>8 DEF JobFail
  <2> DEFINE r == at("done")
  <2>3. r \in JobRecord /\ r.pc = "done" /\ job' = [job EXCEPT ![j] = r]
    BY <1>1, <2>1
  <2>4. /\ lock' = lock \/ (lock = j /\ lock' = "free")
        /\ UNCHANGED <<save, d, disk, wall, boot, loop, dumper, era, promised>>
    BY <1>8 DEF JobFail
  <2> HIDE DEF r, at
  <2> QED BY <1>2, <2>2, <2>3, <2>4, JobStepInv
<1> QED BY <1>4, <1>5, <1>6, <1>7, <1>8 DEF Working

LEMMA DumperWakeInv == ASSUME Inv, DumperWake PROVE Inv'
<1>1. "periodic" \in Dump /\ disk \in Rows /\ Fresh(disk, era)
      /\ clean \in [exit: BOOLEAN, failed: BOOLEAN, loaded: BOOLEAN]
  BY InvFacts DEF Dump, Inv, FreshInv, TypeOK
<1> QED BY <1>1, IdleType, JobStepInv DEF DumperWake

(* A new snapshot is handed over: rows of this era, in this epoch. *)
LEMMA SubmitInv ==
    ASSUME Inv, loop \in {"serve", "closing"}, NEW j \in Dump,
           job' = [job EXCEPT ![j] = Submitted],
           d' = Swept, promised' = TakeSnapshot,
           loop' \in {"serve", "final"},
           dumper' \in {"off", "asleep", "waiting"},
           clean' = [clean EXCEPT !.failed = FALSE],
           UNCHANGED <<save, disk, wall, boot, lock, era>>
    PROVE  Inv'
<1>1. Good(d', era) /\ d'.epoch = d.epoch
  BY InvFacts, SweptGood
<1>2. TakeSnapshot \in Rows /\ Fresh(TakeSnapshot, era)
  BY InvFacts, SnapshotFresh
<1>3. /\ Submitted \in JobRecord /\ Submitted.pc = "queued"
      /\ Submitted.epoch = d.epoch /\ Fresh(Submitted.rows, era)
  BY <1>2, InvFacts DEF Submitted, JobRecord
<1>4. /\ job' \in [Dump -> JobRecord] /\ job'[j] = Submitted
      /\ \A i \in Dump : i # j => job'[i] = job[i]
  BY <1>3, InvFacts
<1>5. TypeOK'
  BY <1>1, <1>2, <1>4 DEF Inv, TypeOK, Loop, JobRecord, Good
<1>6. Room' /\ FreshInv' /\ FlushInv'
  BY <1>1 DEF Inv, Room, MidFlush, FreshInv, FlushInv, Good
<1>7. LockInv'
  BY <1>3, <1>4 DEF Inv, LockInv
<1>8. JobInv'
  <2> SUFFICES ASSUME NEW i \in Dump
               PROVE  /\ Pending(i)' => job'[i].epoch <= d'.epoch
                      /\ (Pending(i)' /\ job'[i].epoch = d'.epoch) => Fresh(job'[i].rows, era)
                      /\ job'[i].pc = "checked" => Fresh(job'[i].rows, era)
    BY DEF JobInv
  <2>1. CASE i # j
    BY <1>1, <1>4, <2>1 DEF Inv, JobInv, Pending
  <2>2. CASE i = j
    BY <1>1, <1>3, <1>4, <2>2, InvFacts
  <2> QED BY <2>1, <2>2
<1> QED BY <1>5, <1>6, <1>7, <1>8 DEF Inv

(* A step that drops jobs and stays away from the table. *)
LEMMA QuietInv ==
    ASSUME Inv, loop' \in Loop \ {"flushing", "wiping"},
           dumper' \in {"off", "asleep", "waiting"},
           job' \in [Dump -> JobRecord],
           \A j \in Dump : job'[j] = job[j] \/ job'[j].pc \in {"idle", "done"},
           lock' = lock \/ (lock = "loop" /\ lock' = "free"),
           Good(d', era),
           d'.epoch = d.epoch \/ \A j \in Dump : job'[j].pc \in {"idle", "done"},
           promised' \in Rows,
           boot' \in {boot, wall},
           clean' \in [exit: BOOLEAN, failed: BOOLEAN, loaded: BOOLEAN],
           save' \in BOOLEAN,
           UNCHANGED <<disk, wall, era>>
    PROVE  Inv'
<1>1. TypeOK'
  BY DEF Inv, TypeOK, JobRecord, Good
<1>2. Room' /\ FreshInv' /\ FlushInv'
  BY DEF Inv, Room, MidFlush, FreshInv, FlushInv, Good
<1>3. LockInv'
  BY DEF Inv, LockInv, Dump
<1>4. JobInv'
  <2> SUFFICES ASSUME NEW j \in Dump
               PROVE  /\ Pending(j)' => job'[j].epoch <= d'.epoch
                      /\ (Pending(j)' /\ job'[j].epoch = d'.epoch) => Fresh(job'[j].rows, era)
                      /\ job'[j].pc = "checked" => Fresh(job'[j].rows, era)
    BY DEF JobInv
  <2>1. CASE job'[j].pc \in {"idle", "done"}
    BY <2>1 DEF Pending
  <2>2. CASE job'[j].pc \notin {"idle", "done"}
    BY <2>2 DEF Inv, JobInv, Pending
  <2> QED BY <2>1, <2>2
<1> QED BY <1>1, <1>2, <1>3, <1>4 DEF Inv

LEMMA DumperTurnInv == ASSUME Inv, DumperTurn PROVE Inv'
<1>1. "periodic" \in Dump
  BY DEF Dump
<1>2. CASE TakeSnapshot = NoEntries
  <2>1. Good(Swept, era) /\ Swept.epoch = d.epoch /\ TakeSnapshot \in Rows
    BY InvFacts, SweptGood, SnapshotFresh
  <2>2. /\ loop' = "serve" /\ dumper' = dumper /\ job' = job /\ lock' = lock /\ d' = Swept
        /\ promised' = TakeSnapshot /\ UNCHANGED <<save, disk, wall, boot, era>>
        /\ clean' = [clean EXCEPT !.failed = FALSE]
    BY <1>2 DEF DumperTurn
  <2>3. /\ clean' \in [exit: BOOLEAN, failed: BOOLEAN, loaded: BOOLEAN]
        /\ dumper' \in {"off", "asleep", "waiting"} /\ job' \in [Dump -> JobRecord]
        /\ loop' \in Loop \ {"flushing", "wiping"} /\ save' \in BOOLEAN
    BY <2>2, InvFacts DEF Inv, TypeOK, Loop
  <2>4. \A j \in Dump : job'[j] = job[j]
    BY <2>2
  <2> QED BY <2>1, <2>2, <2>3, <2>4, QuietInv
<1>3. CASE TakeSnapshot # NoEntries
  <2>1. /\ loop = "serve" /\ loop' = "serve" /\ dumper' = "waiting"
        /\ job' = [job EXCEPT !["periodic"] = Submitted]
        /\ d' = Swept /\ promised' = TakeSnapshot
        /\ clean' = [clean EXCEPT !.failed = FALSE]
        /\ UNCHANGED <<save, disk, wall, boot, lock, era>>
    BY <1>3 DEF DumperTurn
  <2> QED BY <1>1, <2>1, SubmitInv
<1> QED BY <1>2, <1>3

LEMMA SigtermInv == ASSUME Inv, Sigterm PROVE Inv'
<1>1. /\ job' \in [Dump -> JobRecord]
      /\ \A j \in Dump : job'[j] = job[j] \/ job'[j].pc \in {"idle", "done"}
  BY IdleType, InvFacts DEF Sigterm, Dump
<1>2. lock' = lock \/ (lock = "loop" /\ lock' = "free")
  BY DEF Inv, LockInv, Sigterm
<1>3. /\ promised' \in Rows /\ clean' \in [exit: BOOLEAN, failed: BOOLEAN, loaded: BOOLEAN]
      /\ Good(d', era) /\ d'.epoch = d.epoch /\ boot' = boot
      /\ loop' = "closing" /\ dumper' = "off" /\ UNCHANGED <<save, disk, wall, era>>
  BY InvFacts DEF Sigterm, Inv, TypeOK
<1> QED BY <1>1, <1>2, <1>3, QuietInv DEF Loop

LEMMA FinalDumpInv == ASSUME Inv, FinalDump PROVE Inv'
<1>1. CASE save
  <2>1. /\ loop = "closing" /\ loop' = "final" /\ dumper' = dumper
        /\ job' = [job EXCEPT !["final"] = Submitted]
        /\ d' = Swept /\ promised' = TakeSnapshot
        /\ clean' = [clean EXCEPT !.failed = FALSE]
        /\ UNCHANGED <<save, disk, wall, boot, lock, era>>
    BY <1>1 DEF FinalDump
  <2> QED BY <2>1, SubmitInv DEF Inv, TypeOK, Dump
<1>2. CASE ~save
  <2>1. /\ loop' = "exit" /\ job' = job
        /\ UNCHANGED <<save, d, promised, clean, disk, wall, boot, dumper, lock, era>>
    BY <1>2 DEF FinalDump
  <2>2. /\ promised \in Rows /\ clean \in [exit: BOOLEAN, failed: BOOLEAN, loaded: BOOLEAN]
        /\ dumper \in {"off", "asleep", "waiting"}
    BY DEF Inv, TypeOK
  <2> QED BY <2>1, <2>2, InvFacts, QuietInv DEF Loop
<1> QED BY <1>1, <1>2

LEMMA EndInv == ASSUME Inv, FinalDone \/ Exit PROVE Inv'
<1>1. /\ promised \in Rows /\ clean \in [exit: BOOLEAN, failed: BOOLEAN, loaded: BOOLEAN]
      /\ dumper \in {"off", "asleep", "waiting"}
  BY DEF Inv, TypeOK
<1>2. CASE FinalDone
  BY <1>1, <1>2, InvFacts, QuietInv DEF FinalDone, Loop
<1>3. CASE Exit
  <2>1. Good(d', era)
    BY <1>3, EmptiedGood DEF Exit
  <2>2. \A j \in Dump : job'[j] = job[j] /\ job'[j].pc \in {"idle", "done"}
    BY <1>3 DEF Exit
  <2>3. clean' \in [exit: BOOLEAN, failed: BOOLEAN, loaded: BOOLEAN]
    BY <1>1, <1>3 DEF Exit
  <2>4. /\ loop' = "down" /\ job' = job
        /\ UNCHANGED <<save, promised, disk, wall, boot, dumper, lock, era>>
    BY <1>3 DEF Exit
  <2> QED BY <1>1, <2>1, <2>2, <2>3, <2>4, InvFacts, QuietInv DEF Loop
<1> QED BY <1>2, <1>3

(* A crash frees even a lock a worker held: all state of the process goes. *)
LEMMA CrashInv == ASSUME Inv, Crash PROVE Inv'
<1>1. /\ job' \in [Dump -> JobRecord] /\ \A j \in Dump : job'[j].pc = "idle"
  BY IdleType DEF Crash
<1>2. Good(d', era)
  BY EmptiedGood DEF Crash
<1>3. TypeOK'
  BY <1>1, <1>2 DEF Inv, Crash, TypeOK, Loop, JobRecord, Good
<1>4. Room' /\ FreshInv' /\ FlushInv' /\ LockInv' /\ JobInv'
  BY <1>1, <1>2 DEF Inv, Crash, Room, MidFlush, FreshInv, FlushInv, LockInv, JobInv, Pending, Good
<1> QED BY <1>3, <1>4 DEF Inv

LEMMA StartInv == ASSUME Inv, Start PROVE Inv'
<1>1. /\ job' \in [Dump -> JobRecord] /\ \A j \in Dump : job'[j].pc = "idle"
  BY IdleType DEF Start
<1>2. PICK loaded \in BOOLEAN :
        /\ d' = IF loaded THEN [Emptied EXCEPT !.storage = Restored(disk, 0, wall)] ELSE Emptied
        /\ clean' = [exit |-> FALSE, failed |-> FALSE, loaded |-> loaded]
  BY DEF Start
<1>3. Good(d', era)
  <2>1. Fresh(disk, era)
    BY DEF Inv, FreshInv
  <2> QED BY <1>2, <2>1, InvFacts, EmptiedGood, RestoredGood
<1>4. /\ loop' = "serve" /\ dumper' \in {"off", "asleep"} /\ boot' = wall
      /\ promised' = disk /\ save' \in BOOLEAN /\ UNCHANGED <<disk, wall, lock, era>>
  BY DEF Start
<1>5. clean' \in [exit: BOOLEAN, failed: BOOLEAN, loaded: BOOLEAN]
  BY <1>2
<1> QED BY <1>1, <1>3, <1>4, <1>5, InvFacts, QuietInv DEF Loop

-----------------------------------------------------------------------------
LEMMA StepInv == Inv /\ [Next]_vars => Inv'
<1> SUFFICES ASSUME Inv, [Next]_vars PROVE Inv'
  OBVIOUS
<1>1. CASE Tick
  BY <1>1, TickInv
<1>2. CASE \E k \in Key : DelKey(k) \/ \E due \in Due : SetKey(k, due)
  BY <1>2, DelKeyInv, SetKeyInv
<1>3. CASE FlushClear
  BY <1>3, FlushClearInv
<1>4. CASE Flushing
  BY <1>4, FlushLockInv, FlushWipeInv, FlushFailInv DEF Flushing
<1>5. CASE DumperTurn \/ DumperWake
  BY <1>5, DumperTurnInv, DumperWakeInv
<1>6. CASE \E j \in Dump : Working(j)
  BY <1>6, WorkingInv
<1>7. CASE Sigterm \/ Closing
  BY <1>7, SigtermInv, FinalDumpInv, EndInv DEF Closing
<1>8. CASE Crash \/ Start
  BY <1>8, CrashInv, StartInv
<1>9. CASE UNCHANGED vars
  BY <1>9 DEF vars, Inv, TypeOK, Room, LockInv, FreshInv, JobInv, FlushInv, MidFlush, Pending, Fresh
<1> QED BY <1>1, <1>2, <1>3, <1>4, <1>5, <1>6, <1>7, <1>8, <1>9 DEF Next

LEMMA InvAlways == Spec => []Inv
BY InitInv, StepInv, PTL DEF Spec

(* The store, the sqlite rows, the worker threads and DB._lock keep their  *)
(* types through every interleaving of commands, dumps, flushes, shutdown, *)
(* crash and restart.                                                      *)
THEOREM PersistenceTypeCorrect == Spec => []TypeOK
<1>1. Inv => TypeOK
  BY DEF Inv
<1> QED BY <1>1, InvAlways, PTL

(* DB.dump's epoch guard under DB._lock is sufficient: for both engines    *)
(* and any number of flushes, no snapshot in flight, no crash and no       *)
(* restart brings back a key that a successful FLUSHDB removed.            *)
THEOREM FlushIsFinal == Spec => []FlushedStayFlushed
<1>1. Inv => FlushedStayFlushed
  BY DEF Inv, FreshInv, Fresh, FlushedStayFlushed
<1> QED BY <1>1, InvAlways, PTL

-----------------------------------------------------------------------------
(* Deadlines.  Rows and entries carry the deadline their client asked for. *)

Timed(f) == \A k \in Key : f[k] # Absent =>
    f[k].value.due \in Int \cup {NoTTL} /\ f[k].deadline = f[k].value.due

Armed(f, b) == \A k \in Key : f[k] # Absent =>
    /\ f[k].value.due \in Int \cup {NoTTL}
    /\ f[k].expires_at = (IF f[k].value.due = NoTTL THEN NoTTL ELSE f[k].value.due - b)

(* The table, every snapshot in flight and the store of a running process. *)
TimeInv ==
    /\ Timed(disk)
    /\ \A j \in Dump : Timed(job[j].rows)
    /\ loop # "down" => Armed(d.storage, boot)

LEMMA NothingTimed ==
    /\ Timed(NoEntries) /\ Timed(Idle.rows)
    /\ \A b : Armed(NoEntries, b) /\ Armed(Emptied.storage, b)
BY DEF Timed, Armed, NoEntries, Idle, Emptied

LEMMA SetArmed ==
    ASSUME Inv, Armed(d.storage, boot), NEW k \in Key, NEW due \in Due
    PROVE  Armed(Set(d, k, [era |-> era, due |-> due], due, FALSE, Now, wall).storage, boot)
<1> DEFINE at == IF due # NoTTL THEN Monotonic(due, Now, wall) ELSE NoTTL
           entry == [value |-> [era |-> era, due |-> due], expires_at |-> at]
           s == Set(d, k, [era |-> era, due |-> due], due, FALSE, Now, wall)
<1>1. d \in Store /\ wall \in Int /\ boot \in Int /\ due \in Int \cup {NoTTL}
  BY DEF Inv, TypeOK
<1>2. at = IF due = NoTTL THEN NoTTL ELSE due - boot
  BY <1>1 DEF Monotonic, Now
<1>3. /\ entry.value.due = due /\ entry.expires_at = at
  OBVIOUS
<1>4. s = Put(d, k, entry)
  BY DEF Set
<1> HIDE DEF entry, at
<1>5. \A j \in Key : s.storage[j] = IF j = k THEN entry ELSE d.storage[j]
  BY <1>1, <1>4 DEF Put, Store
<1> QED BY <1>1, <1>2, <1>3, <1>5 DEF Armed

LEMMA DropArmed ==
    ASSUME d \in Store, Armed(d.storage, boot), NEW k \in Key
    PROVE  Armed(Drop(d, k).storage, boot)
<1>1. \A j \in Key : Drop(d, k).storage[j] = IF j = k THEN Absent ELSE d.storage[j]
  BY DEF Drop, Store
<1> QED BY <1>1 DEF Armed

LEMMA SweptArmed ==
    ASSUME d \in Store, Armed(d.storage, boot)
    PROVE  Armed(Swept.storage, boot)
<1>1. Swept.storage = Sweep(d, Now).storage
  BY DEF Swept, Sweep, Store
<1>2. Sweep(d, Now).storage = [k \in Key |-> IF Corpse(d, k, Now) THEN Absent ELSE d.storage[k]]
  BY DEF Sweep, Store
<1> QED BY <1>1, <1>2 DEF Armed

(* snapshot() turns a monotonic deadline back into the one asked for, *)
LEMMA SnapshotTimed ==
    ASSUME Inv, Armed(d.storage, boot)
    PROVE  Timed(TakeSnapshot)
<1> SUFFICES ASSUME NEW k \in Key, TakeSnapshot[k] # Absent
             PROVE  /\ TakeSnapshot[k].value.due \in Int \cup {NoTTL}
                    /\ TakeSnapshot[k].deadline = TakeSnapshot[k].value.due
  BY DEF Timed
<1>1. Contains(d, k, Now)
  BY DEF TakeSnapshot, Snapshot
<1>2. d.storage[k] # Absent
  BY <1>1 DEF Contains, Live
<1> DEFINE v == d.storage[k].value
           e == d.storage[k].expires_at
<1>3. v.due \in Int \cup {NoTTL} /\ e = (IF v.due = NoTTL THEN NoTTL ELSE v.due - boot)
  BY <1>2 DEF Armed
<1>4. TakeSnapshot[k] = [value |-> v, deadline |-> IF e = NoTTL THEN NoTTL ELSE wall + (e - Now)]
  BY <1>1 DEF TakeSnapshot, Snapshot
<1>5. wall \in Int /\ boot \in Int
  BY DEF Inv, TypeOK
<1> HIDE DEF v, e
<1>6. (IF e = NoTTL THEN NoTTL ELSE wall + (e - Now)) = v.due
  BY <1>3, <1>5 DEF Now
<1> QED BY <1>3, <1>4, <1>6

(* and restore() arms it against the clock of the new boot. *)
LEMMA RestoredArmed ==
    ASSUME Timed(disk), wall \in Int
    PROVE  Armed([Emptied EXCEPT !.storage = Restored(disk, 0, wall)].storage, wall)
<1> DEFINE f == Restored(disk, 0, wall)
<1>1. [Emptied EXCEPT !.storage = f].storage = f
  BY DEF Emptied
<1>2. ASSUME NEW k \in Key, f[k] # Absent
      PROVE  /\ f[k].value.due \in Int \cup {NoTTL}
             /\ f[k].expires_at = (IF f[k].value.due = NoTTL THEN NoTTL ELSE f[k].value.due - wall)
  <2>1. disk[k] # Absent
    BY <1>2 DEF Restored
  <2>2. disk[k].value.due \in Int \cup {NoTTL} /\ disk[k].deadline = disk[k].value.due
    BY <2>1 DEF Timed
  <2>3. CASE disk[k].deadline = NoTTL
    <3>1. f[k] = [value |-> disk[k].value, expires_at |-> NoTTL]
      BY <1>2, <2>1, <2>3 DEF Restored
    <3>2. f[k].value = disk[k].value /\ f[k].expires_at = NoTTL
      BY <3>1
    <3> HIDE DEF f
    <3> QED BY <2>2, <2>3, <3>2
  <2>4. CASE disk[k].deadline # NoTTL
    <3> DEFINE at == Monotonic(disk[k].deadline, 0, wall)
    <3>1. f[k] = [value |-> disk[k].value, expires_at |-> at]
      BY <1>2, <2>1, <2>4 DEF Restored
    <3>2. at = disk[k].value.due - wall
      BY <2>2, <2>4 DEF Monotonic
    <3>3. f[k].value = disk[k].value /\ f[k].expires_at = at
      BY <3>1
    <3> HIDE DEF at, f
    <3> QED BY <2>2, <2>4, <3>2, <3>3
  <2> QED BY <2>3, <2>4
<1> HIDE DEF f
<1> QED BY <1>1, <1>2 DEF Armed, f

LEMMA InitTime == Init => TimeInv
<1> SUFFICES ASSUME Init PROVE TimeInv
  OBVIOUS
<1>1. Timed(disk)
  <2>1. \A k \in Key : disk[k] # Absent => disk[k] = [value |-> [era |-> 0, due |-> NoTTL], deadline |-> NoTTL]
    BY DEF Init
  <2> QED BY <2>1 DEF Timed
<1> QED BY <1>1, NothingTimed DEF Init, TimeInv

LEMMA StepTime == Inv /\ TimeInv /\ [Next]_vars => TimeInv'
<1> SUFFICES ASSUME Inv, TimeInv, [Next]_vars PROVE TimeInv'
  OBVIOUS
<1>0. d \in Store /\ wall \in Int /\ job \in [Dump -> JobRecord]
  BY InvFacts
<1>1. ASSUME loop' = "down" \/ (d' = d /\ boot' = boot /\ loop # "down"),
             disk' = disk, \A j \in Dump : job'[j].rows \in {job[j].rows, NoEntries}
      PROVE  TimeInv'
  BY <1>1, NothingTimed DEF TimeInv
<1>2. CASE Tick \/ UNCHANGED vars
  BY <1>2 DEF Tick, vars, TimeInv
<1>3. ASSUME NEW k \in Key, DelKey(k) PROVE TimeInv'
  BY <1>0, <1>3, DropArmed DEF DelKey, TimeInv
<1>4. ASSUME NEW k \in Key, NEW due \in Due, SetKey(k, due) PROVE TimeInv'
  BY <1>4, SetArmed DEF SetKey, TimeInv
<1>5. CASE FlushClear
  <2>1. d'.storage = NoEntries /\ UNCHANGED <<disk, job, boot>>
    BY <1>5 DEF FlushClear, Clear
  <2> QED BY <2>1, NothingTimed DEF TimeInv
<1>6. CASE Flushing
  BY <1>6, NothingTimed DEF Flushing, FlushLock, FlushWipe, FlushFail, TimeInv
<1>7. ASSUME loop = "serve" \/ loop = "closing", d' = Swept, UNCHANGED <<disk, boot>>,
             NEW j \in Dump, job' = job \/ job' = [job EXCEPT ![j] = Submitted]
      PROVE  TimeInv'
  <2>1. Armed(d.storage, boot) /\ Timed(TakeSnapshot) /\ Armed(d'.storage, boot)
    BY <1>0, <1>7, SnapshotTimed, SweptArmed DEF TimeInv
  <2>2. Submitted.rows = TakeSnapshot
    BY DEF Submitted
  <2>3. \A i \in Dump : job'[i] = job[i] \/ job'[i] = Submitted
    BY <1>0, <1>7
  <2> QED BY <1>7, <2>1, <2>2, <2>3 DEF TimeInv
<1>8. CASE DumperTurn
  BY <1>7, <1>8 DEF DumperTurn, Dump
<1>9. CASE DumperWake
  <2>1. \A j \in Dump : job'[j] \in {job[j], Idle}
    BY <1>0, <1>9 DEF DumperWake
  <2> QED BY <1>1, <1>9, <2>1 DEF DumperWake, Idle
<1>10. ASSUME NEW j \in Dump, Working(j) PROVE TimeInv'
  <2>1. \A i \in Dump : job'[i].rows = job[i].rows
    BY <1>0, <1>10 DEF Working, JobOpen, JobLock, JobCheck, JobCommit, JobFail, JobRecord
  <2>2. disk' = disk \/ disk' = job[j].rows
    BY <1>10 DEF Working, JobOpen, JobLock, JobCheck, JobCommit, JobFail
  <2>3. UNCHANGED <<d, boot, loop>>
    BY <1>10 DEF Working, JobOpen, JobLock, JobCheck, JobCommit, JobFail
  <2> QED BY <2>1, <2>2, <2>3 DEF TimeInv
<1>11. CASE Sigterm
  <2>1. \A j \in Dump : job'[j] \in {job[j], Idle}
    BY <1>0, <1>11 DEF Sigterm
  <2>2. \A j \in Dump : job'[j].rows \in {job[j].rows, NoEntries}
    BY <2>1 DEF Idle
  <2>3. loop # "down" /\ UNCHANGED <<d, disk, boot>>
    BY <1>11 DEF Sigterm
  <2> QED BY <1>1, <2>2, <2>3
<1>12. CASE Closing
  <2>1. CASE FinalDump /\ save
    BY <1>7, <2>1 DEF FinalDump, Dump
  <2>2. CASE FinalDump /\ ~save
    BY <1>1, <2>2 DEF FinalDump
  <2>3. CASE FinalDone \/ Exit
    BY <1>1, <2>3 DEF FinalDone, Exit
  <2> QED BY <1>12, <2>1, <2>2, <2>3 DEF Closing
<1>13. CASE Crash
  BY <1>1, <1>13 DEF Crash, Idle
<1>14. CASE Start
  <2>1. /\ boot' = wall /\ disk' = disk /\ \A j \in Dump : job'[j] = Idle
        /\ d' \in {Emptied, [Emptied EXCEPT !.storage = Restored(disk, 0, wall)]}
    BY <1>14 DEF Start
  <2>2. Timed(disk)
    BY DEF TimeInv
  <2>3. Armed(d'.storage, wall)
    BY <1>0, <2>1, <2>2, RestoredArmed, NothingTimed
  <2> QED BY <2>1, <2>2, <2>3, NothingTimed DEF TimeInv
<1> QED BY <1>2, <1>3, <1>4, <1>5, <1>6, <1>8, <1>9, <1>10, <1>11, <1>12, <1>13, <1>14 DEF Next

(* Deadlines keep their wall-clock meaning through snapshot, crash and     *)
(* restore: Data.snapshot and Data.restore convert between two clocks of   *)
(* which one starts anew with every boot, and lose nothing.                *)
THEOREM DeadlinesAreAbsolute == Spec => []DeadlinesSurviveRestart
<1>1. TimeInv => DeadlinesSurviveRestart
  BY DEF TimeInv, Timed, Armed, DeadlinesSurviveRestart
<1> QED BY <1>1, InvAlways, InitTime, StepTime, PTL DEF Spec

-----------------------------------------------------------------------------
(* Snapshots and what they promised. *)

Serving == loop \in {"serve", "flushing", "wiping"}

(* The dump j that was handed over last is still on its way, with nothing  *)
(* flushed since, or has committed.                                        *)
Underway(j) ==
    \/ Pending(j) /\ job[j].rows = promised /\ job[j].epoch = d.epoch
    \/ job[j].pc = "done" /\ disk = promised

(* While the process serves there is no final dump, and no periodic one    *)
(* that the dumper does not wait for.                                      *)
OneDump ==
    /\ (Serving \/ loop = "closing") => job["final"].pc = "idle"
    /\ (Serving /\ dumper # "waiting") => job["periodic"].pc = "idle"
    /\ (Serving /\ ~save) => dumper = "off"

KeepInv ==
    (loop = "serve" /\ ~clean.failed) =>
       /\ dumper = "asleep" => (disk = promised \/ promised = NoEntries)
       /\ dumper = "waiting" => (promised = NoEntries \/ Underway("periodic"))

LEMMA Dumps == "periodic" \in Dump /\ "final" \in Dump /\ \A j \in Dump : j \in {"periodic", "final"}
BY DEF Dump

LEMMA InitKeep == Init => OneDump /\ KeepInv
BY DEF Init, OneDump, KeepInv, Serving

(* What the steps of a worker do to its call. *)
LEMMA WorkingSteps ==
    ASSUME Inv, NEW j \in Dump, Working(j)
    PROVE  /\ Pending(j)
           /\ \A i \in Dump : i # j => job'[i] = job[i]
           /\ job'[j].rows = job[j].rows /\ job'[j].epoch = job[j].epoch
           /\ UNCHANGED <<save, d, wall, boot, loop, dumper, era, promised>>
           /\ \/ Pending(j)' /\ UNCHANGED <<disk, clean>>
              \/ job'[j].pc = "done" /\ job[j].epoch # d.epoch /\ UNCHANGED <<disk, clean>>
              \/ job'[j].pc = "done" /\ disk' = job[j].rows /\ UNCHANGED clean
              \/ job'[j].pc = "done" /\ UNCHANGED disk /\ clean' = [clean EXCEPT !.failed = TRUE]
<1>1. job \in [Dump -> JobRecord]
  BY InvFacts
<1>2. CASE JobOpen(j)
  BY <1>1, <1>2 DEF JobOpen, Pending, JobRecord
<1>3. CASE JobLock(j)
  BY <1>1, <1>3 DEF JobLock, Pending, JobRecord
<1>4. CASE JobCheck(j)
  BY <1>1, <1>4 DEF JobCheck, Pending, JobRecord
<1>5. CASE JobCommit(j)
  BY <1>1, <1>5 DEF JobCommit, Pending, JobRecord
<1>6. CASE JobFail(j)
  BY <1>1, <1>6 DEF JobFail, Pending, JobRecord
<1> QED BY <1>2, <1>3, <1>4, <1>5, <1>6 DEF Working

(* A dump underway stays so, or its failure is noted. *)
LEMMA WorkingUnderway ==
    ASSUME Inv, NEW j \in Dump, Working(j), Underway(j), ~clean'.failed
    PROVE  Underway(j)'
<1>1. clean' = [clean EXCEPT !.failed = TRUE] => clean'.failed
  BY DEF Inv, TypeOK
<1>2. Pending(j) => job[j].pc # "done"
  BY DEF Pending
<1> QED BY <1>1, <1>2, WorkingSteps DEF Underway

LEMMA WorkingFailed ==
    ASSUME Inv, NEW j \in Dump, Working(j), clean.failed
    PROVE  clean'.failed
<1>1. clean' = [clean EXCEPT !.failed = TRUE] => clean'.failed
  BY DEF Inv, TypeOK
<1> QED BY <1>1, WorkingSteps

LEMMA StepOne == Inv /\ OneDump /\ [Next]_vars => OneDump'
<1> SUFFICES ASSUME Inv, OneDump, [Next]_vars PROVE OneDump'
  OBVIOUS
<1> USE DEF OneDump, Serving
<1>0. job \in [Dump -> JobRecord] /\ "periodic" # "final"
  BY InvFacts
<1>1. CASE Tick \/ UNCHANGED vars \/ \E k \in Key : DelKey(k) \/ \E due \in Due : SetKey(k, due)
  BY <1>1 DEF Tick, vars, DelKey, SetKey
<1>2. CASE FlushClear \/ Flushing
  BY <1>2 DEF FlushClear, Flushing, FlushLock, FlushWipe, FlushFail
<1>3. CASE DumperTurn
  BY <1>0, <1>3, Dumps DEF DumperTurn
<1>4. CASE DumperWake
  BY <1>0, <1>4, Dumps, IdleType DEF DumperWake
<1>5. ASSUME NEW j \in Dump, Working(j) PROVE OneDump'
  <2>1. job[j].pc # "idle"
    BY <1>5, WorkingSteps DEF Pending
  <2> QED BY <1>5, <2>1, WorkingSteps, Dumps
<1>6. CASE Sigterm
  <2>1. job'["final"] = job["final"] /\ loop' = "closing" /\ job["final"].pc = "idle"
    BY <1>0, <1>6, Dumps DEF Sigterm
  <2> QED BY <2>1
<1>7. CASE Closing \/ Crash
  BY <1>7 DEF Closing, FinalDump, FinalDone, Exit, Crash
<1>8. CASE Start
  BY <1>8, Dumps, IdleType DEF Start
<1> QED BY <1>1, <1>2, <1>3, <1>4, <1>5, <1>6, <1>7, <1>8 DEF Next

LEMMA StepKeep == Inv /\ OneDump /\ KeepInv /\ [Next]_vars => KeepInv'
<1> SUFFICES ASSUME Inv, OneDump, KeepInv, [Next]_vars, loop' = "serve", ~clean'.failed
             PROVE  /\ dumper' = "asleep" => (disk' = promised' \/ promised' = NoEntries)
                    /\ dumper' = "waiting" => (promised' = NoEntries \/ Underway("periodic")')
  BY DEF KeepInv
<1>0. /\ job \in [Dump -> JobRecord] /\ d \in Store
      /\ clean \in [exit: BOOLEAN, failed: BOOLEAN, loaded: BOOLEAN]
  BY InvFacts DEF Inv, TypeOK
<1>1. CASE Tick \/ UNCHANGED vars
  BY <1>1 DEF Tick, vars, KeepInv, Underway, Pending
<1>2. ASSUME NEW k \in Key, DelKey(k) \/ \E due \in Due : SetKey(k, due) PROVE d'.epoch = d.epoch
  BY <1>0, <1>2 DEF DelKey, SetKey, Drop, Set, Put, Store
<1>3. CASE \E k \in Key : DelKey(k) \/ \E due \in Due : SetKey(k, due)
  BY <1>2, <1>3 DEF DelKey, SetKey, KeepInv, Underway, Pending
<1>4. CASE FlushClear
  <2>1. ~save /\ UNCHANGED dumper /\ loop = "serve"
    BY <1>4 DEF FlushClear
  <2> QED BY <2>1 DEF OneDump, Serving
<1>5. CASE FlushWipe
  BY <1>5 DEF FlushWipe
<1>6. CASE FlushLock \/ FlushFail
  BY <1>0, <1>6 DEF FlushLock, FlushFail
<1>7. CASE DumperTurn
  <2>1. CASE TakeSnapshot = NoEntries
    BY <1>7, <2>1 DEF DumperTurn
  <2>2. CASE TakeSnapshot # NoEntries
    <3>1. job'["periodic"] = Submitted /\ promised' = TakeSnapshot /\ dumper' = "waiting"
      BY <1>0, <1>7, <2>2, Dumps DEF DumperTurn
    <3>2. d'.epoch = d.epoch
      BY <1>7, InvFacts, SweptGood DEF DumperTurn
    <3> QED BY <3>1, <3>2 DEF Submitted, Underway, Pending
  <2> QED BY <2>1, <2>2
<1>8. CASE DumperWake
  BY <1>8 DEF DumperWake, KeepInv, Underway, Pending
<1>9. ASSUME NEW j \in Dump, Working(j)
      PROVE  /\ dumper' = "asleep" => (disk' = promised' \/ promised' = NoEntries)
             /\ dumper' = "waiting" => (promised' = NoEntries \/ Underway("periodic")')
  <2>1. loop = "serve" /\ ~clean.failed /\ promised' = promised /\ dumper' = dumper
    BY <1>9, WorkingFailed, WorkingSteps
  <2>2. j = "periodic" /\ dumper = "waiting"
    <3>1. job[j].pc # "idle"
      BY <1>9, WorkingSteps DEF Pending
    <3>2. dumper \in {"off", "asleep", "waiting"}
      BY DEF Inv, TypeOK
    <3>3. j # "final"
      BY <2>1, <3>1 DEF OneDump, Serving
    <3> QED BY <2>1, <3>1, <3>3, Dumps DEF OneDump, Serving
  <2>3. promised = NoEntries \/ Underway("periodic")
    BY <2>1, <2>2 DEF KeepInv
  <2>4. Underway("periodic") => Underway("periodic")'
    BY <1>9, <2>2, WorkingUnderway
  <2> QED BY <2>1, <2>2, <2>3, <2>4
<1>10. CASE Sigterm \/ Closing \/ Crash
  BY <1>10 DEF Sigterm, Closing, FinalDump, FinalDone, Exit, Crash
<1>11. CASE Start
  BY <1>11 DEF Start
<1> QED BY <1>1, <1>3, <1>4, <1>5, <1>6, <1>7, <1>8, <1>9, <1>10, <1>11 DEF Next, Flushing

(* Between two dumps the table is what the last dump promised: no commit   *)
(* is lost or overtaken while the process serves, on either engine.        *)
THEOREM DumpsKeepUp == Spec => []DumpKeepsUp
<1>1. KeepInv => DumpKeepsUp
  BY DEF KeepInv, DumpKeepsUp
<1> QED BY <1>1, InvAlways, InitKeep, StepOne, StepKeep, PTL DEF Spec

-----------------------------------------------------------------------------
(* The final snapshot, on trio. *)

Ended == loop = "exit" \/ (loop = "down" /\ clean.exit)

FinalInv ==
    /\ loop # "down" => ~clean.exit
    /\ loop \in {"final", "exit"} => job["periodic"].pc \in {"idle", "done"}
    /\ (loop = "final" /\ ~clean.failed) => Underway("final")
    /\ Ended => /\ \A j \in Dump : job[j].pc \in {"idle", "done"}
                /\ (save /\ ~clean.failed) => disk = promised

LEMMA InitFinal == Init => FinalInv
BY DEF Init, FinalInv, Ended

LEMMA StepFinal ==
    ASSUME Engine = "trio"
    PROVE  Inv /\ OneDump /\ FinalInv /\ [Next]_vars => FinalInv'
<1> SUFFICES ASSUME Inv, OneDump, FinalInv, [Next]_vars PROVE FinalInv'
  OBVIOUS
<1>0. /\ job \in [Dump -> JobRecord] /\ d \in Store
      /\ clean \in [exit: BOOLEAN, failed: BOOLEAN, loaded: BOOLEAN]
  BY InvFacts DEF Inv, TypeOK
<1>1. CASE Tick \/ UNCHANGED vars
  BY <1>1 DEF Tick, vars, FinalInv, Underway, Pending, Ended
(* The steps of a process that serves. *)
<1>2. ASSUME Serving, loop' \in {"serve", "flushing", "wiping", "closing"}, clean'.exit = clean.exit
      PROVE  FinalInv'
  BY <1>2 DEF FinalInv, Serving, Ended
<1>3. CASE \/ \E k \in Key : DelKey(k) \/ \E due \in Due : SetKey(k, due)
           \/ FlushClear \/ Flushing \/ DumperTurn \/ DumperWake \/ Sigterm
  <2>1. Serving /\ loop' \in {"serve", "flushing", "wiping", "closing"}
    BY <1>3 DEF DelKey, SetKey, FlushClear, Flushing, FlushLock, FlushWipe, FlushFail,
                DumperTurn, DumperWake, Sigterm, Serving
  <2>2. clean'.exit = clean.exit
    BY <1>0, <1>3 DEF DelKey, SetKey, FlushClear, Flushing, FlushLock, FlushWipe, FlushFail,
                      DumperTurn, DumperWake, Sigterm
  <2> QED BY <1>2, <2>1, <2>2
<1>4. ASSUME NEW j \in Dump, Working(j) PROVE FinalInv'
  <2>1. job[j].pc \notin {"idle", "done"} /\ ~Ended
    BY <1>4, WorkingSteps DEF Pending, FinalInv
  <2>2. clean'.exit = clean.exit /\ loop' = loop
    BY <1>0, <1>4, WorkingSteps
  <2>3. ASSUME loop \in {"final", "exit"} PROVE job'["periodic"].pc \in {"idle", "done"}
    BY <1>4, <2>1, <2>3, WorkingSteps, Dumps DEF FinalInv
  <2>4. ASSUME loop = "final", ~clean'.failed PROVE Underway("final")'
    <3>1. ~clean.failed /\ j = "final"
      BY <1>4, <2>1, <2>4, WorkingFailed, Dumps DEF FinalInv
    <3> QED BY <1>4, <2>4, <3>1, WorkingUnderway DEF FinalInv
  <2>5. ~Ended' /\ (loop' # "down" => ~clean'.exit)
    BY <2>1, <2>2 DEF Ended, FinalInv
  <2> QED BY <2>2, <2>3, <2>4, <2>5 DEF FinalInv
<1>5. CASE FinalDump
  <2>1. /\ loop = "closing" /\ job["periodic"].pc \in {"idle", "done"} /\ ~clean.exit
        /\ job["final"].pc = "idle"
    BY <1>5 DEF FinalDump, FinalInv, OneDump
  <2>2. CASE save
    <3>1. /\ job'["final"] = Submitted /\ job'["periodic"] = job["periodic"]
          /\ loop' = "final" /\ promised' = TakeSnapshot
      BY <1>0, <1>5, <2>2, Dumps DEF FinalDump
    <3>2. d'.epoch = d.epoch
      BY <1>5, <2>2, InvFacts, SweptGood DEF FinalDump
    <3>3. Underway("final")'
      BY <3>1, <3>2 DEF Submitted, Underway, Pending
    <3>4. ~clean'.exit
      BY <1>0, <1>5, <2>1, <2>2 DEF FinalDump
    <3> QED BY <2>1, <3>1, <3>3, <3>4 DEF FinalInv, Ended
  <2>3. CASE ~save
    <3>1. UNCHANGED <<job, clean, save>> /\ loop' = "exit"
      BY <1>5, <2>3 DEF FinalDump
    <3> QED BY <2>1, <2>3, <3>1, Dumps DEF FinalInv, Ended
  <2> QED BY <2>2, <2>3
<1>6. CASE FinalDone
  <2>1. /\ loop = "final" /\ job["final"].pc = "done" /\ loop' = "exit"
        /\ UNCHANGED <<job, clean, save, disk, promised>>
    BY <1>6 DEF FinalDone
  <2>2. ~clean.failed => disk = promised
    BY <2>1 DEF FinalInv, Underway, Pending
  <2> QED BY <2>1, <2>2, Dumps DEF FinalInv, Ended
<1>7. CASE Exit
  <2>1. /\ loop = "exit" /\ loop' = "down" /\ clean'.failed = clean.failed
        /\ UNCHANGED <<job, save, disk, promised>>
    BY <1>0, <1>7 DEF Exit
  <2> QED BY <2>1 DEF FinalInv, Ended
<1>8. CASE Crash
  BY <1>8 DEF Crash, FinalInv, Ended
<1>9. CASE Start
  BY <1>9 DEF Start, FinalInv, Ended
<1> QED BY <1>1, <1>3, <1>4, <1>5, <1>6, <1>7, <1>8, <1>9 DEF Next, Closing

(* On trio, whose nursery waits for the dump on its thread before the last *)
(* one is made, a clean exit leaves the final snapshot in the table.  (On  *)
(* asyncio it may not.)                                                    *)
THEOREM FinalSnapshotOnTrio ==
    ASSUME Engine = "trio"
    PROVE  Spec => []FinalSnapshotKept
<1>1. FinalInv => FinalSnapshotKept
  BY DEF FinalInv, Ended, FinalSnapshotKept
<1>2. Inv /\ OneDump /\ FinalInv /\ [Next]_vars => FinalInv'
  BY StepFinal
<1> QED BY <1>1, <1>2, InvAlways, InitKeep, StepOne, InitFinal, PTL DEF Spec

=============================================================================
