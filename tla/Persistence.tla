----------------------------- MODULE Persistence -----------------------------
(***************************************************************************)
(* Snapshots to sqlite: the event loop that owns the store, the dumper     *)
(* coroutine, the worker thread that commits a snapshot, FLUSHDB wiping    *)
(* the table, graceful shutdown with its final snapshot, crash, restart.   *)
(*                                                                         *)
(* The wall clock runs on; the monotonic clock is the time since boot.  A  *)
(* stored value carries two facts no code looks at: the number of          *)
(* successful flushes before it was written, and the wall-clock deadline   *)
(* its client asked for.  Generations and keyspace events are left out.    *)
(***************************************************************************)
EXTENDS Data

CONSTANTS
    Engine,     \* "asyncio" or "trio"
    Due,        \* wall-clock deadlines clients ask for, or NoTTL
    MaxWall,    \* bound on the wall clock
    MaxEra      \* bound on the number of flushes

Dump == {"periodic", "final"}

ASSUME PersistenceAssumption ==
    /\ Engine \in {"asyncio", "trio"}
    /\ NoTTL \in Due /\ Due \subseteq Int \cup {NoTTL}
    /\ MaxWall \in Nat
    /\ MaxEra \in Nat
    /\ \A e \in 0 .. MaxEra, t \in Due : [era |-> e, due |-> t] \in Value
    /\ \A v \in Value : v.era \in Nat

VARIABLES
    d,         \* the store
    save,      \* FALSE when the process runs with --no-save
    disk,      \* the rows of the sqlite table
    wall,      \* the wall clock
    boot,      \* the wall clock when the process started
    loop,      \* what the event-loop thread is doing
    dumper,    \* the dumper coroutine
    job,       \* the db.dump calls on worker threads
    lock,      \* DB._lock
    era,       \* history: successful flushes so far
    promised,  \* history: what the last dump or flush should have left on disk
    clean      \* history: did it exit cleanly, did sqlite fail since the last
               \* snapshot was handed over, did this boot load the table

vars == <<d, save, disk, wall, boot, loop, dumper, job, lock, era, promised, clean>>

Rows == [Key -> Row \cup {Absent}]

Now == wall - boot

Emptied == [storage |-> NoEntries, generations |-> NoGenerations, epoch |-> 0, events |-> {}]

Idle == [pc |-> "idle", rows |-> NoEntries, epoch |-> 0]

(* The file a seeded or an earlier server left; no process runs yet. *)
Init ==
    /\ d = Emptied /\ save = TRUE
    /\ disk \in [Key -> {[value |-> [era |-> 0, due |-> NoTTL], deadline |-> NoTTL], Absent}]
    /\ wall = 0 /\ boot = 0
    /\ loop = "down" /\ dumper = "off"
    /\ job = [j \in Dump |-> Idle]
    /\ lock = "free"
    /\ era = 0
    /\ promised = disk
    /\ clean = [exit |-> FALSE, failed |-> FALSE, loaded |-> FALSE]

Tick == wall < MaxWall /\ wall' = wall + 1
        /\ UNCHANGED <<save, d, disk, boot, loop, dumper, job, lock, era, promised, clean>>

-----------------------------------------------------------------------------
(* Commands, on the event loop. *)

SetKey(k, due) ==
    /\ loop = "serve"
    /\ d' = Set(d, k, [era |-> era, due |-> due], due, FALSE, Now, wall)
    /\ UNCHANGED <<save, disk, wall, boot, loop, dumper, job, lock, era, promised, clean>>

DelKey(k) ==
    /\ loop = "serve"
    /\ d' = Drop(d, k)
    /\ UNCHANGED <<save, disk, wall, boot, loop, dumper, job, lock, era, promised, clean>>

(* _flush_all: clear() first, then DB.flush() on the loop thread, which    *)
(* waits there for the lock; without persistence only memory is cleared.   *)
FlushClear ==
    /\ loop = "serve" /\ era < MaxEra /\ d.epoch < MaxEra
    /\ d' = Clear(d)
    /\ loop' = IF save THEN "flushing" ELSE "serve"
    /\ UNCHANGED <<save, disk, wall, boot, dumper, job, lock, era, promised, clean>>

FlushLock ==
    /\ loop = "flushing" /\ lock = "free"
    /\ lock' = "loop" /\ loop' = "wiping"
    /\ UNCHANGED <<save, d, disk, wall, boot, dumper, job, era, promised, clean>>

FlushWipe ==
    /\ loop = "wiping"
    /\ disk' = NoEntries
    /\ lock' = "free" /\ loop' = "serve"
    /\ era' = era + 1
    /\ promised' = NoEntries
    /\ UNCHANGED <<save, d, wall, boot, dumper, job, clean>>

(* sqlite fails: FLUSHDB answers an internal error, the table keeps its    *)
(* rows and memory stays cleared.                                          *)
FlushFail ==
    /\ loop \in {"flushing", "wiping"}
    /\ lock' = IF loop = "wiping" THEN "free" ELSE lock
    /\ loop' = "serve"
    /\ clean' = [clean EXCEPT !.failed = TRUE]
    /\ UNCHANGED <<save, d, disk, wall, boot, dumper, job, era, promised>>

-----------------------------------------------------------------------------
(* The dumper coroutine and the db.dump call it hands to a worker thread.  *)

TakeSnapshot == Snapshot(d, Now, wall)
(* Mutant: snapshot() filters the dead keys but leaves them in the store. *)
SweptNothing == d

Swept == [Sweep(d, Now) EXCEPT !.events = {}]
Submitted == [pc |-> "queued", rows |-> TakeSnapshot, epoch |-> d.epoch]

(* One turn after sleep(interval): nothing is dumped when nothing is live. *)
DumperTurn ==
    /\ loop = "serve" /\ dumper = "asleep"
    /\ d' = Swept
    /\ IF TakeSnapshot = NoEntries
       THEN UNCHANGED <<dumper, job>>
       ELSE dumper' = "waiting" /\ job' = [job EXCEPT !["periodic"] = Submitted]
    /\ promised' = TakeSnapshot
    /\ clean' = [clean EXCEPT !.failed = FALSE]
    /\ UNCHANGED <<save, disk, wall, boot, loop, lock, era>>

DumperWake ==
    /\ loop = "serve" /\ dumper = "waiting" /\ job["periodic"].pc = "done"
    /\ dumper' = "asleep"
    /\ job' = [job EXCEPT !["periodic"] = Idle]
    /\ UNCHANGED <<save, d, disk, wall, boot, loop, lock, era, promised, clean>>

(* A worker thread picks the call up and opens its connection. *)
JobOpen(j) ==
    /\ job[j].pc = "queued"
    /\ job' = [job EXCEPT ![j].pc = "opened"]
    /\ UNCHANGED <<save, d, disk, wall, boot, loop, dumper, lock, era, promised, clean>>

JobLock(j) ==
    /\ job[j].pc = "opened" /\ lock = "free"
    /\ job' = [job EXCEPT ![j].pc = "locked"]
    /\ lock' = j
    /\ UNCHANGED <<save, d, disk, wall, boot, loop, dumper, era, promised, clean>>

(* Mutants: no epoch guard; a stale dump returns with the lock held. *)
JobCheckUnguarded(j) ==
    /\ job[j].pc = "locked"
    /\ job' = [job EXCEPT ![j].pc = "checked"]
    /\ UNCHANGED <<save, d, disk, wall, boot, loop, dumper, lock, era, promised, clean>>

JobCheckKeepsLock(j) ==
    /\ job[j].pc = "locked"
    /\ job' = [job EXCEPT ![j].pc = IF job[j].epoch = d.epoch THEN "checked" ELSE "done"]
    /\ UNCHANGED <<save, d, disk, wall, boot, loop, dumper, lock, era, promised, clean>>

(* The epoch guard, under the lock: a stale snapshot stands down. *)
JobCheck(j) ==
    /\ job[j].pc = "locked"
    /\ IF job[j].epoch = d.epoch
       THEN /\ job' = [job EXCEPT ![j].pc = "checked"]
            /\ UNCHANGED lock
       ELSE /\ job' = [job EXCEPT ![j].pc = "done"]
            /\ lock' = "free"
    /\ UNCHANGED <<save, d, disk, wall, boot, loop, dumper, era, promised, clean>>

(* Mutant: rows are only inserted, the table is not emptied first. *)
JobCommitInserts(j) ==
    /\ job[j].pc = "checked"
    /\ disk' = [k \in Key |-> IF job[j].rows[k] = Absent THEN disk[k] ELSE job[j].rows[k]]
    /\ job' = [job EXCEPT ![j].pc = "done"]
    /\ lock' = "free"
    /\ UNCHANGED <<save, d, wall, boot, loop, dumper, era, promised, clean>>

(* One transaction replaces the whole table. *)
JobCommit(j) ==
    /\ job[j].pc = "checked"
    /\ disk' = job[j].rows
    /\ job' = [job EXCEPT ![j].pc = "done"]
    /\ lock' = "free"
    /\ UNCHANGED <<save, d, wall, boot, loop, dumper, era, promised, clean>>

(* An sqlite error leaves the table as it was and is only logged. *)
JobFail(j) ==
    /\ job[j].pc \in {"opened", "checked"}
    /\ job' = [job EXCEPT ![j].pc = "done"]
    /\ lock' = IF lock = j THEN "free" ELSE lock
    /\ clean' = [clean EXCEPT !.failed = TRUE]
    /\ UNCHANGED <<save, d, disk, wall, boot, loop, dumper, era, promised>>

-----------------------------------------------------------------------------
(* Shutdown, crash, restart. *)

(* SIGTERM on trio cancels the nursery at a checkpoint, so never inside a  *)
(* command, and waits for a dump already on its thread.  On asyncio it     *)
(* raises KeyboardInterrupt in the loop thread, also inside a flush; once  *)
(* wait_closed() has returned, which is the moment of this step, the       *)
(* dumper task is cancelled, which withdraws a dump no thread has picked   *)
(* up and abandons one a thread is running.                                *)
Sigterm ==
    /\ \/ loop = "serve"
       \/ Engine = "asyncio" /\ loop \in {"flushing", "wiping"}
    /\ loop' = "closing"
    /\ lock' = IF loop = "wiping" THEN "free" ELSE lock
    /\ dumper' = "off"
    /\ job' = IF job["periodic"].pc = "queued" /\ Engine = "asyncio"
              THEN [job EXCEPT !["periodic"] = Idle] ELSE job
    /\ UNCHANGED <<save, d, disk, wall, boot, era, promised, clean>>

(* Mutant: the final dump does not wait for a periodic one under way. *)
FinalDumpAtOnce ==
    /\ loop = "closing"
    /\ IF save
       THEN /\ d' = Swept
            /\ job' = [job EXCEPT !["final"] = Submitted]
            /\ loop' = "final"
            /\ promised' = TakeSnapshot
            /\ clean' = [clean EXCEPT !.failed = FALSE]
       ELSE /\ loop' = "exit"
            /\ UNCHANGED <<d, job, promised, clean>>
    /\ UNCHANGED <<save, disk, wall, boot, dumper, lock, era>>

FinalDump ==
    /\ loop = "closing"
    /\ Engine = "trio" => job["periodic"].pc \in {"idle", "done"}
    /\ IF save
       THEN /\ d' = Swept
            /\ job' = [job EXCEPT !["final"] = Submitted]
            /\ loop' = "final"
            /\ promised' = TakeSnapshot
            /\ clean' = [clean EXCEPT !.failed = FALSE]
       ELSE /\ loop' = "exit"
            /\ UNCHANGED <<d, job, promised, clean>>
    /\ UNCHANGED <<save, disk, wall, boot, dumper, lock, era>>

FinalDone ==
    /\ loop = "final" /\ job["final"].pc = "done"
    /\ loop' = "exit"
    /\ UNCHANGED <<save, d, disk, wall, boot, dumper, job, lock, era, promised, clean>>

(* asyncio.run joins the executor's threads before the process ends. *)
Exit ==
    /\ loop = "exit"
    /\ \A j \in Dump : job[j].pc \in {"idle", "done"}
    /\ loop' = "down"
    /\ d' = Emptied
    /\ clean' = [clean EXCEPT !.exit = TRUE]
    /\ UNCHANGED <<save, disk, wall, boot, dumper, job, lock, era, promised>>

Crash ==
    /\ loop # "down"
    /\ loop' = "down" /\ dumper' = "off"
    /\ job' = [j \in Dump |-> Idle]
    /\ lock' = "free"
    /\ d' = Emptied
    /\ UNCHANGED <<save, disk, wall, boot, era, promised, clean>>

(* build_runtime, with or without --no-save: load and restore, or start    *)
(* empty when loading fails.                                               *)
Start ==
    /\ loop = "down"
    /\ loop' = "serve"
    /\ save' \in BOOLEAN
    /\ dumper' = IF save' THEN "asleep" ELSE "off"
    /\ boot' = wall
    /\ \E loaded \in BOOLEAN :
         /\ d' = IF loaded THEN [Emptied EXCEPT !.storage = Restored(disk, 0, wall)] ELSE Emptied
         /\ clean' = [exit |-> FALSE, failed |-> FALSE, loaded |-> loaded]
    /\ job' = [j \in Dump |-> Idle]
    /\ promised' = disk
    /\ UNCHANGED <<disk, wall, lock, era>>

-----------------------------------------------------------------------------
Flushing == FlushLock \/ FlushWipe \/ FlushFail
Working(j) == JobOpen(j) \/ JobLock(j) \/ JobCheck(j) \/ JobCommit(j) \/ JobFail(j)
Closing == FinalDump \/ FinalDone \/ Exit

Next ==
    \/ Tick
    \/ \E k \in Key : DelKey(k) \/ \E due \in Due : SetKey(k, due)
    \/ FlushClear \/ Flushing
    \/ DumperTurn \/ DumperWake
    \/ \E j \in Dump : Working(j)
    \/ Sigterm \/ Closing
    \/ Crash \/ Start

Spec == Init /\ [][Next]_vars

(* The scheduler runs the threads, the interval timer fires, and a lock    *)
(* that is released again and again is granted.  Nothing forces sqlite to  *)
(* fail.                                                                   *)
Fairness ==
    /\ WF_vars(DumperTurn) /\ WF_vars(DumperWake) /\ WF_vars(Closing)
    /\ SF_vars(FlushLock) /\ WF_vars(FlushWipe)
    /\ \A j \in Dump :
         /\ SF_vars(JobLock(j))
         /\ WF_vars(JobOpen(j)) /\ WF_vars(JobCheck(j)) /\ WF_vars(JobCommit(j))

FairSpec == Spec /\ Fairness

-----------------------------------------------------------------------------
Loop == {"down", "serve", "flushing", "wiping", "closing", "final", "exit"}

(* Store, table, threads and lock are well formed. *)
TypeOK ==
    /\ d \in Store /\ save \in BOOLEAN /\ disk \in Rows /\ promised \in Rows
    /\ wall \in 0 .. MaxWall /\ boot \in 0 .. MaxWall
    /\ loop \in Loop /\ dumper \in {"off", "asleep", "waiting"}
    /\ job \in [Dump -> [pc: {"idle", "queued", "opened", "locked", "checked", "done"},
                         rows: Rows, epoch: Nat]]
    /\ lock \in Dump \cup {"free", "loop"}
    /\ era \in 0 .. MaxEra
    /\ clean \in [exit: BOOLEAN, failed: BOOLEAN, loaded: BOOLEAN]

(* DB.dump: a snapshot that predates a FLUSHDB must not "resurrect the     *)
(* flushed keys": once a flush succeeded, neither the table nor memory     *)
(* holds a value written before it, whatever dump was in flight, and also  *)
(* after a crash and restart.                                              *)
FlushedStayFlushed ==
    \A k \in Key :
       /\ disk[k] # Absent => disk[k].value.era = era
       /\ d.storage[k] # Absent => d.storage[k].value.era = era

(* Deadlines are absolute: converted to the wall clock by snapshot() and   *)
(* back to a new boot's monotonic clock by restore(), a key still expires  *)
(* when its client asked, and an expired row is not restored.              *)
DeadlinesSurviveRestart ==
    \A k \in Key :
       /\ disk[k] # Absent => disk[k].deadline = disk[k].value.due
       /\ (loop # "down" /\ d.storage[k] # Absent) =>
            d.storage[k].expires_at =
               (IF d.storage[k].value.due = NoTTL THEN NoTTL ELSE d.storage[k].value.due - boot)

(* README 83: "SIGTERM shuts the server down gracefully, final snapshot    *)
(* included": after a clean exit with no sqlite error the table holds the  *)
(* final snapshot.                                                         *)
FinalSnapshotKept ==
    (save /\ loop = "down" /\ clean.exit /\ ~clean.failed) => disk = promised

(* Between two dumps the table is the last non-empty snapshot, unless a    *)
(* flush emptied it or sqlite failed.                                      *)
DumpKeepsUp ==
    (loop = "serve" /\ dumper = "asleep" /\ ~clean.failed)
        => (disk = promised \/ promised = NoEntries)

(* data.py: "expired entries cannot linger forever": the dumper sweeps     *)
(* them even if no client ever touches them again (under --no-save there   *)
(* is no dumper, and a dead entry does wait for a client).                 *)
CorpsesSwept == \A k \in Key : (save /\ Corpse(d, k, Now)) ~> ~Corpse(d, k, Now)

(* FLUSHDB holds up the event loop while a worker commits, never for good, *)
(* and a shutdown that began ends: loop thread and workers do not wait for *)
(* each other in a circle.                                                 *)
LoopComesBack ==
    /\ (loop \in {"flushing", "wiping"}) ~> (loop \in {"serve", "closing", "down"})
    /\ (loop = "closing") ~> (loop = "down")
=============================================================================
