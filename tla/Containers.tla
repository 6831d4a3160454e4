----------------------------- MODULE Containers -----------------------------
(***************************************************************************)
(* The list, set, sorted-set and bitmap commands (kagni/commands/lists.py, *)
(* set.py, zset.py, bit.py) and the ZSet class with its two indexes, on    *)
(* one store.  Container objects are mutated in place, so a value that     *)
(* changes keeps its key's deadline unless the key is stored anew.         *)
(*                                                                         *)
(* The clock stands still within a command (Keyspace is about deadlines    *)
(* that pass inside one), keyspace events are left out, and a variadic     *)
(* command appears with one pair or one element where more would only      *)
(* repeat it.                                                              *)
(***************************************************************************)
EXTENDS Data, Sequences, FiniteSets

CONSTANTS
    Member,        \* list elements and set members, ordered like bytes
    Score,         \* scores of sorted sets
    Bit,           \* the bits of a one-byte bitmap, scaled down
    MaxLen,        \* bound on the length of a list
    MaxGeneration, \* bound on a key's write generation
    MaxTime        \* bound on the monotonic clock

SX == INSTANCE SequencesExt

VARIABLES
    d,      \* the store
    clock   \* the monotonic clock

vars == <<d, clock>>

List(s) == [kind |-> "list", list |-> s]
Members(S) == [kind |-> "set", set |-> S]
Bitmap(B) == [kind |-> "bitmap", bits |-> B]

Container ==
    [kind: {"list"}, list: Seq(Member)]
    \cup [kind: {"set"}, set: SUBSET Member]
    \cup [kind: {"bitmap"}, bits: SUBSET Bit]
    \cup [kind: {"zset"}, scores: [Member -> Int \cup {Absent}], sorted: Seq(Int \X Member)]

Stored == [value: Container, expires_at: Int \cup {NoTTL}]

ASSUME ContainersAssumption ==
    /\ Member \subseteq Int /\ Score \subseteq Int /\ Bit \subseteq Nat
    /\ MaxLen \in Nat /\ MaxGeneration \in Nat /\ MaxTime \in Nat
    /\ Absent \notin Container /\ Absent \notin Stored /\ Absent \notin Int

Empty(c) ==
    CASE c.kind = "list" -> c.list = <<>>
      [] c.kind = "set" -> c.set = {}
      [] c.kind = "bitmap" -> c.bits = {}
      [] c.kind = "zset" -> c.sorted = <<>>

-----------------------------------------------------------------------------
(* How the handlers use the store. *)

Missing(s, k) == Read(s, k, clock) = Absent

(* expect_kind raises WRONGTYPE. *)
WrongKind(s, k, kind) == ~Missing(s, k) /\ Read(s, k, clock).kind # kind

(* The object under k is mutated in place, or a new one is stored there. *)
Keep(s, k, c) ==
    Put(s, k, [value |-> c,
               expires_at |-> IF Missing(s, k) THEN NoTTL ELSE s.storage[k].expires_at])

Written(s, k, c) == Touch(Keep(s, k, c), k)

(* A removal: the key disappears with its last element. *)
Shrunk(s, k, c) == IF Empty(c) THEN Drop(Written(s, k, c), k) ELSE Written(s, k, c)

Small(s) ==
    \A k \in Key :
       /\ s.generations[k] <= MaxGeneration
       /\ s.storage[k] # Absent =>
            CASE s.storage[k].value.kind = "list" -> Len(s.storage[k].value.list) <= MaxLen
              [] s.storage[k].value.kind = "zset" ->
                   \A i \in DOMAIN s.storage[k].value.sorted :
                      s.storage[k].value.sorted[i][1] \in Score
              [] OTHER -> TRUE

(* A command leaves the store as s. *)
Answer(s) == Small(s) /\ d' = [s EXCEPT !.events = {}] /\ UNCHANGED clock

(* A command on one key of a kind: f takes the store and what k holds. *)
UpdateIn(s, k, kind, f(_, _)) ==
    LET t == Reap(s, k, clock)
    IN Answer(IF WrongKind(t, k, kind) THEN t ELSE f(t, Read(t, k, clock)))

Update(k, kind, f(_, _)) == UpdateIn(d, k, kind, f)

(* Elements start..end of a sequence, counted from 0, negative indexes     *)
(* from the end: what LRANGE, LTRIM, ZREMRANGEBYRANK and ZPOP share.       *)
Larger(a, b) == IF a > b THEN a ELSE b
Smaller(a, b) == IF a < b THEN a ELSE b

First(start, len) == Larger(0, IF start < 0 THEN start + len ELSE start)
Final(end, len) == Smaller(len - 1, IF end < 0 THEN end + len ELSE end)

Window(len, start, end) == {i \in 1 .. len : First(start, len) < i /\ i <= Final(end, len) + 1}

(* The elements of seq at the positions I, in order. *)
Pick(seq, I) ==
    [n \in 1 .. Cardinality(I) |->
        seq[CHOOSE i \in I : Cardinality({j \in I : j <= i}) = n]]

-----------------------------------------------------------------------------
(* Lists *)

(* LPUSH, RPUSH, and LPUSHX, RPUSHX, which never create. *)
Push(k, v, left, xx) ==
    LET f(s, cur) ==
          IF cur = Absent THEN IF xx THEN s ELSE Written(s, k, List(<<v>>))
          ELSE Written(s, k, List(IF left THEN <<v>> \o cur.list ELSE Append(cur.list, v)))
    IN Update(k, "list", f)

(* LPOP, RPOP with a positive count. *)
Popped(s, k, cur, count, left) ==
    IF cur = Absent THEN s
    ELSE LET len == Len(cur.list)
             n == Smaller(count, len)
         IN Shrunk(s, k, List(IF left THEN SubSeq(cur.list, n + 1, len)
                              ELSE SubSeq(cur.list, 1, len - n)))

Pop(k, count, left) ==
    LET f(s, cur) == Popped(s, k, cur, count, left) IN Update(k, "list", f)

(* LMPOP of two keys whose first is missing; else it is Pop of the first. *)
LMPOP(j, k, count, left) ==
    LET s == Reap(d, j, clock)
        f(t, cur) == Popped(t, k, cur, count, left)
    IN Missing(s, j) /\ UpdateIn(s, k, "list", f)

(* Mutant: the element is replaced without _after_write. *)
LSETSilent(k, index, v) ==
    LET f(s, cur) ==
          LET i == IF index >= 0 THEN index ELSE Len(cur.list) + index
          IN IF cur = Absent THEN s
             ELSE IF i < 0 \/ i >= Len(cur.list) THEN s
             ELSE Keep(s, k, List(SX!ReplaceAt(cur.list, i + 1, v)))
    IN Update(k, "list", f)

LSET(k, index, v) ==
    LET f(s, cur) ==
          LET i == IF index >= 0 THEN index ELSE Len(cur.list) + index
          IN IF cur = Absent THEN s
             ELSE IF i < 0 \/ i >= Len(cur.list) THEN s
             ELSE Written(s, k, List(SX!ReplaceAt(cur.list, i + 1, v)))
    IN Update(k, "list", f)

(* A trim to nothing deletes the key and does not touch it. *)
LTRIM(k, start, end) ==
    LET f(s, cur) ==
          IF cur = Absent THEN s
          ELSE LET kept == Window(Len(cur.list), start, end)
               IN IF kept = {} THEN Drop(s, k)
                  ELSE Written(s, k, List(Pick(cur.list, kept)))
    IN Update(k, "list", f)

(* count = 0 removes every match, a positive count the first ones, a       *)
(* negative one the last ones.                                             *)
LREM(k, count, v) ==
    LET f(s, cur) ==
          IF cur = Absent THEN s
          ELSE LET match == {i \in DOMAIN cur.list : cur.list[i] = v}
                   removed == {i \in match :
                      \/ count = 0
                      \/ count > 0 /\ Cardinality({j \in match : j <= i}) <= count
                      \/ count < 0 /\ Cardinality({j \in match : j >= i}) <= -count}
               IN IF removed = {} THEN s
                  ELSE Shrunk(s, k, List(Pick(cur.list, DOMAIN cur.list \ removed)))
    IN Update(k, "list", f)

LINSERT(k, offset, pivot, v) ==
    LET f(s, cur) ==
          IF cur = Absent THEN s
          ELSE IF \A i \in DOMAIN cur.list : cur.list[i] # pivot THEN s
          ELSE LET at == CHOOSE i \in DOMAIN cur.list :
                            cur.list[i] = pivot /\ \A j \in 1 .. i - 1 : cur.list[j] # pivot
               IN Written(s, k, List(SX!InsertAt(cur.list, at + offset, v)))
    IN Update(k, "list", f)

(* LMOVE, RPOPLPUSH: both keys are checked before the element leaves; a    *)
(* key moved to itself is rotated, and touched twice.                      *)
MoveIn(t, a, b, fromLeft, toLeft) ==
    LET src == Read(t, a, clock).list
        v == IF fromLeft THEN Head(src) ELSE SX!Last(src)
        rest == IF fromLeft THEN Tail(src) ELSE SX!Front(src)
        dst == IF a = b THEN rest ELSE IF Missing(t, b) THEN <<>> ELSE Read(t, b, clock).list
        joined == Written(t, b, List(IF toLeft THEN <<v>> \o dst ELSE Append(dst, v)))
    IN IF a = b THEN Touch(joined, a) ELSE Shrunk(joined, a, List(rest))

(* Mutant: the destination is checked after the element was popped. *)
MoveUnchecked(a, b, fromLeft, toLeft) ==
    LET s == Reap(d, a, clock)
        t == Reap(s, b, clock)
        src == Read(s, a, clock).list
    IN Answer(IF Missing(s, a) \/ WrongKind(s, a, "list") THEN s
              ELSE IF WrongKind(t, b, "list")
                   THEN Shrunk(t, a, List(IF fromLeft THEN Tail(src) ELSE SX!Front(src)))
              ELSE MoveIn(t, a, b, fromLeft, toLeft))

Move(a, b, fromLeft, toLeft) ==
    LET s == Reap(d, a, clock)
        t == Reap(s, b, clock)
    IN Answer(IF Missing(s, a) \/ WrongKind(s, a, "list") THEN s
              ELSE IF WrongKind(t, b, "list") THEN t
              ELSE MoveIn(t, a, b, fromLeft, toLeft))

-----------------------------------------------------------------------------
(* Sets *)

SADD(k, M) ==
    LET f(s, cur) ==
          IF cur = Absent THEN Written(s, k, Members(M))
          ELSE IF M \subseteq cur.set THEN s
          ELSE Written(s, k, Members(cur.set \cup M))
    IN Update(k, "set", f)

(* SREM *)
Discard(k, M) ==
    LET f(s, cur) ==
          IF cur = Absent THEN s
          ELSE IF M \cap cur.set = {} THEN s
          ELSE Shrunk(s, k, Members(cur.set \ M))
    IN Update(k, "set", f)

(* SPOP of an existing set, with a positive count, takes any members. *)
SPOP(k, count) ==
    /\ ~Missing(d, k) /\ ~WrongKind(d, k, "set")
    /\ \E M \in SUBSET Read(d, k, clock).set :
          /\ Cardinality(M) = Smaller(count, Cardinality(Read(d, k, clock).set))
          /\ Discard(k, M)

SMOVE(a, b, m) ==
    LET s == Reap(d, a, clock)
        t == Reap(s, b, clock)
        src == Read(s, a, clock).set
        dst == IF Missing(t, b) THEN {} ELSE Read(t, b, clock).set
    IN Answer(IF Missing(s, a) \/ WrongKind(s, a, "set") THEN s
              ELSE IF m \notin src THEN s
              ELSE IF WrongKind(t, b, "set") THEN t
              ELSE IF a = b THEN Touch(Touch(t, a), a)
              ELSE Shrunk(Written(t, b, Members(dst \cup {m})), a, Members(src \ {m})))

(* A computed container replaces the target, deadline included; an empty   *)
(* one deletes it, without touching it.                                    *)
StoreResult(s, target, c) ==
    IF Empty(c) THEN Drop(s, target) ELSE Touch(SetItem(s, target, c), target)

(* Both sources are read in order; a wrong kind ends the command there. *)
FromTwo(target, a, b, kind, result(_, _)) ==
    LET s == Reap(d, a, clock)
        t == Reap(s, b, clock)
    IN Answer(IF WrongKind(s, a, kind) THEN s
              ELSE IF WrongKind(t, b, kind) THEN t
              ELSE StoreResult(t, target, result(Read(t, a, clock), Read(t, b, clock))))

Combined(op, A, B) ==
    CASE op = "union" -> A \cup B
      [] op = "inter" -> A \cap B
      [] op = "diff" -> A \ B
      [] op = "xor" -> (A \cup B) \ (A \cap B)
      [] op = "not" -> IF A = {} THEN {} ELSE Bit \ A

(* SUNIONSTORE, SINTERSTORE, SDIFFSTORE *)
SetStore(op, target, a, b) ==
    LET items(cur) == IF cur = Absent THEN {} ELSE cur.set
        result(x, y) == Members(Combined(op, items(x), items(y)))
    IN FromTwo(target, a, b, "set", result)

-----------------------------------------------------------------------------
(* class ZSet: a dict of scores and a list sorted by (score, member). *)

Before(p, q) == p[1] < q[1] \/ (p[1] = q[1] /\ p[2] < q[2])

(* bisect_left: where p belongs in a sorted list, counted from 1. *)
Place(sorted, p) == 1 + Cardinality({i \in DOMAIN sorted : Before(sorted[i], p)})

(* A set of pairs as a sorted list: each stands behind those before it.    *)
(* _aggregate adds the pairs to a new ZSet one by one, which comes to this *)
(* (AggregatesInTurn in ContainersProofs).                                 *)
InOrder(P) ==
    [n \in 1 .. Cardinality(P) |-> CHOOSE p \in P : Cardinality({q \in P : Before(q, p)}) = n - 1]

ZSet(scores, sorted) == [kind |-> "zset", scores |-> scores, sorted |-> sorted]
NoScores == [m \in Member |-> Absent]
NewZSet == ZSet(NoScores, <<>>)

(* Mutant: the pair with the old score stays in the list. *)
AddStale(z, m, score) ==
    IF z.scores[m] = score THEN z
    ELSE ZSet([z.scores EXCEPT ![m] = score],
              SX!InsertAt(z.sorted, Place(z.sorted, <<score, m>>), <<score, m>>))

Add(z, m, score) ==
    LET rest == IF z.scores[m] = Absent THEN z.sorted
                ELSE SX!RemoveAt(z.sorted, Place(z.sorted, <<z.scores[m], m>>))
    IN IF z.scores[m] = score THEN z
       ELSE ZSet([z.scores EXCEPT ![m] = score],
                 SX!InsertAt(rest, Place(rest, <<score, m>>), <<score, m>>))

(* remove() of each member of M: their entries, found by bisection, leave  *)
(* both indexes, in any order (RemovalsInTurn in ContainersProofs).        *)
Remove(z, M) ==
    LET present == {m \in M : z.scores[m] # Absent}
    IN ZSet([m \in Member |-> IF m \in M THEN Absent ELSE z.scores[m]],
            Pick(z.sorted, DOMAIN z.sorted \
                             {Place(z.sorted, <<z.scores[m], m>>) : m \in present}))

(* The entries at positions I leave both indexes. *)
RemoveAll(z, I) ==
    ZSet([m \in Member |-> IF \E i \in I : z.sorted[i][2] = m THEN Absent ELSE z.scores[m]],
         Pick(z.sorted, DOMAIN z.sorted \ I))

(* _score_bounds: bisect on the score alone, left or right of equal ones. *)
ScoreRange(z, lo, loOpen, hi, hiOpen) ==
    LET below(x, equalToo) == Cardinality({i \in DOMAIN z.sorted :
            z.sorted[i][1] < x \/ (equalToo /\ z.sorted[i][1] = x)})
    IN below(lo, loOpen) + 1 .. below(hi, ~hiOpen)

(* The lexicographic window; an Absent bound is unbounded. *)
LexRange(z, lo, loOpen, hi, hiOpen) ==
    {i \in DOMAIN z.sorted :
        LET m == z.sorted[i][2]
        IN /\ lo # Absent => lo < m \/ (~loOpen /\ m = lo)
           /\ hi # Absent => m < hi \/ (~hiOpen /\ m = hi)}

-----------------------------------------------------------------------------
(* Sorted-set commands *)

ZFlags == {F \in SUBSET {"NX", "XX", "GT", "LT", "INCR"} :
             ~({"NX", "XX"} \subseteq F) /\ ~({"GT", "LT"} \subseteq F)
             /\ ("NX" \in F => F \cap {"GT", "LT"} = {})}

(* ZADD of one pair; with INCR the score is added to the current one and   *)
(* the key is touched even when the sum is the old score.                  *)
ZADD(k, score, m, F) ==
    LET f(s, cur) ==
          LET z == IF cur = Absent THEN NewZSet ELSE cur
              old == z.scores[m]
              new == IF "INCR" \in F /\ old # Absent THEN old + score ELSE score
              refused == IF old = Absent THEN "XX" \in F
                         ELSE \/ "NX" \in F
                              \/ "GT" \in F /\ new <= old
                              \/ "LT" \in F /\ new >= old
          IN IF refused THEN s
             ELSE IF old = new /\ "INCR" \notin F THEN s
             ELSE Written(s, k, Add(z, m, new))
    IN Update(k, "zset", f)

ZINCRBY(k, increment, m) == ZADD(k, increment, m, {"INCR"})

ZREM(k, M) ==
    LET f(s, cur) ==
          IF cur = Absent THEN s
          ELSE IF \A m \in M : cur.scores[m] = Absent THEN s
          ELSE Shrunk(s, k, Remove(cur, M))
    IN Update(k, "zset", f)

(* ZREMRANGEBYRANK, BYSCORE, BYLEX, each with its window. *)
ZRemoveRange(k, range(_)) ==
    LET f(s, cur) ==
          IF cur = Absent THEN s
          ELSE IF range(cur) = {} THEN s
          ELSE Shrunk(s, k, RemoveAll(cur, range(cur)))
    IN Update(k, "zset", f)

ZREMRANGEBYRANK(k, start, stop) ==
    LET range(z) == Window(Len(z.sorted), start, stop) IN ZRemoveRange(k, range)

ZREMRANGEBYSCORE(k, lo, loOpen, hi, hiOpen) ==
    LET range(z) == ScoreRange(z, lo, loOpen, hi, hiOpen) IN ZRemoveRange(k, range)

ZREMRANGEBYLEX(k, lo, loOpen, hi, hiOpen) ==
    LET range(z) == LexRange(z, lo, loOpen, hi, hiOpen) IN ZRemoveRange(k, range)

(* ZPOPMIN, ZPOPMAX with a positive count. *)
ZPop(k, count, left) ==
    LET range(z) == IF left THEN Window(Len(z.sorted), 0, count - 1)
                    ELSE Window(Len(z.sorted), -count, -1)
    IN ZRemoveRange(k, range)

(* ZUNIONSTORE, ZINTERSTORE, ZDIFFSTORE with weights 1: a new ZSet. *)
ZStore(op, aggregate, dest, a, b) ==
    LET scores(cur) == IF cur = Absent THEN NoScores ELSE cur.scores
        held(x) == {m \in Member : scores(x)[m] # Absent}
        combine(u, v) == CASE aggregate = "MIN" -> Smaller(u, v)
                           [] aggregate = "MAX" -> Larger(u, v)
                           [] aggregate = "SUM" -> u + v
        value(x, y, m) ==
          IF m \notin Combined(op, held(x), held(y)) THEN Absent
          ELSE IF m \notin held(y) THEN scores(x)[m]
          ELSE IF m \notin held(x) THEN scores(y)[m]
          ELSE combine(scores(x)[m], scores(y)[m])
        result(x, y) ==
          LET agg == [m \in Member |-> value(x, y, m)]
          IN ZSet(agg, InOrder({<<agg[m], m>> : m \in {n \in Member : agg[n] # Absent}}))
    IN FromTwo(dest, a, b, "zset", result)

-----------------------------------------------------------------------------
(* Bitmaps *)

(* Mutant: bits are counted from one. *)
SETBITFromOne(k, bit, val) ==
    LET f(s, cur) ==
          LET old == IF cur = Absent THEN {} ELSE cur.bits
              new == IF val = 1 THEN old \cup {bit + 1} ELSE old \ {bit + 1}
          IN IF new = old THEN Keep(s, k, Bitmap(old)) ELSE Written(s, k, Bitmap(new))
    IN Update(k, "bitmap", f)

(* A zero bit on a missing key stores an empty bitmap, without a touch. *)
SETBIT(k, bit, val) ==
    LET f(s, cur) ==
          LET old == IF cur = Absent THEN {} ELSE cur.bits
              new == IF val = 1 THEN old \cup {bit} ELSE old \ {bit}
          IN IF new = old THEN Keep(s, k, Bitmap(old)) ELSE Written(s, k, Bitmap(new))
    IN Update(k, "bitmap", f)

(* BITFIELD with a SET or INCRBY that was not refused: its arithmetic,     *)
(* which is in Queries, leaves the bitmap as B.                            *)
BITFIELD(k, B) ==
    LET f(s, cur) == Written(s, k, Bitmap(B)) IN Update(k, "bitmap", f)

(* BITOP; NOT has one source. *)
BITOP(op, dest, a, b) ==
    LET bits(cur) == IF cur = Absent THEN {} ELSE cur.bits
        result(x, y) == Bitmap(Combined(op, bits(x), bits(y)))
    IN (op = "not" => a = b) /\ FromTwo(dest, a, b, "bitmap", result)

-----------------------------------------------------------------------------
(* The commands that only read; of another kind they answer WRONGTYPE. *)
Lookup(k) == Answer(Reap(d, k, clock))

Tick == clock < MaxTime /\ clock' = clock + 1 /\ d' = d

Sample ==
    {List(s) : s \in UNION {[1 .. n -> Member] : n \in 1 .. MaxLen}}
    \cup {Members(S) : S \in (SUBSET Member) \ {{}}}
    \cup {Bitmap(B) : B \in SUBSET Bit}

(* Any store of lists, sets and bitmaps that restore() may have left. *)
Init ==
    /\ clock = 0
    /\ d \in {[storage |-> f, generations |-> NoGenerations, epoch |-> 0, events |-> {}] :
                f \in [Key -> [value: Sample, expires_at: {NoTTL, 1}] \cup {Absent}]}

Index == -MaxLen - 1 .. MaxLen
Bound == Member \cup {Absent}

ListCommand(k) ==
    \/ \E v \in Member, left, xx \in BOOLEAN : Push(k, v, left, xx)
    \/ \E n \in 1 .. MaxLen, left \in BOOLEAN :
          Pop(k, n, left) \/ \E j \in Key : LMPOP(j, k, n, left)
    \/ \E i \in Index, v \in Member : LSET(k, i, v) \/ LREM(k, i, v)
    \/ \E i, j \in Index : LTRIM(k, i, j)
    \/ \E o \in {0, 1}, p, v \in Member : LINSERT(k, o, p, v)
    \/ \E b \in Key, fl, tl \in BOOLEAN : Move(k, b, fl, tl)

SetCommand(k) ==
    \/ \E M \in (SUBSET Member) \ {{}} : SADD(k, M) \/ Discard(k, M)
    \/ \E n \in 1 .. MaxLen : SPOP(k, n)
    \/ \E b \in Key, m \in Member : SMOVE(k, b, m)
    \/ \E op \in {"union", "inter", "diff"}, a, b \in Key : SetStore(op, k, a, b)

ZSetCommand(k) ==
    \/ \E score \in Score, m \in Member : ZINCRBY(k, score, m) \/ \E F \in ZFlags : ZADD(k, score, m, F)
    \/ \E M \in (SUBSET Member) \ {{}} : ZREM(k, M)
    \/ \E i, j \in Index : ZREMRANGEBYRANK(k, i, j)
    \/ \E lo, hi \in Score, p, q \in BOOLEAN : ZREMRANGEBYSCORE(k, lo, p, hi, q)
    \/ \E lo, hi \in Bound, p, q \in BOOLEAN : ZREMRANGEBYLEX(k, lo, p, hi, q)
    \/ \E n \in 1 .. MaxLen, left \in BOOLEAN : ZPop(k, n, left)
    \/ \E op \in {"union", "inter", "diff"}, g \in {"SUM", "MIN", "MAX"}, a, b \in Key :
          ZStore(op, g, k, a, b)

BitCommand(k) ==
    \/ \E b \in Bit, v \in {0, 1} : SETBIT(k, b, v)
    \/ \E B \in SUBSET Bit : BITFIELD(k, B)
    \/ \E op \in {"union", "inter", "xor", "not"}, a, b \in Key : BITOP(op, k, a, b)

Next ==
    \/ \E k \in Key : ListCommand(k) \/ SetCommand(k) \/ ZSetCommand(k) \/ BitCommand(k) \/ Lookup(k)
    \/ Tick

Spec == Init /\ [][Next]_vars

-----------------------------------------------------------------------------
(* The store and its containers are well typed. *)
TypeOK ==
    /\ d \in [storage: [Key -> Stored \cup {Absent}], generations: [Key -> Nat],
              epoch: Nat, events: {{}}]
    /\ clock \in 0 .. MaxTime

(* "Empty collections never persist" (set.py), "stored lists are never     *)
(* empty" (lists.py): no sequence of pops, trims, moves between keys and   *)
(* stores leaves an empty list, set or sorted set behind.                  *)
NoEmptyCollections ==
    \A k \in Key : d.storage[k] # Absent =>
        ~Empty(d.storage[k].value) \/ d.storage[k].value.kind = "bitmap"

(* class ZSet: the dict and the sorted list describe the same set, in      *)
(* strictly increasing (score, member) order, after any history of         *)
(* updates, range removals and stores.                                     *)
IndexesAgree ==
    \A k \in Key : (d.storage[k] # Absent /\ d.storage[k].value.kind = "zset") =>
        LET z == d.storage[k].value
        IN /\ \A i, j \in DOMAIN z.sorted : i < j => Before(z.sorted[i], z.sorted[j])
           /\ {z.sorted[i] : i \in DOMAIN z.sorted}
                = {<<z.scores[m], m>> : m \in {n \in Member : z.scores[n] # Absent}}

(* Whatever commands shared a key, what is stored under it is sound: no    *)
(* collection is empty, no sorted set disagrees with itself.               *)
CollectionsSound == NoEmptyCollections /\ IndexesAgree

(* How often v occurs in the list a client sees under k. *)
Copies(s, k, v) ==
    IF Missing(s, k) \/ WrongKind(s, k, "list") THEN 0
    ELSE LET list == Read(s, k, clock).list IN Cardinality({i \in DOMAIN list : list[i] = v})

(* LMOVE and RPOPLPUSH never lose or duplicate an element, also when the   *)
(* destination is the source, is missing, has expired or is of a kind that *)
(* makes the command fail ("type-checked before anything is popped").      *)
MovesLoseNothing ==
    [][\A a, b \in Key :
         (\E fl, tl \in BOOLEAN : Move(a, b, fl, tl)) =>
            \A v \in Member :
               IF a = b THEN Copies(d', a, v) = Copies(d, a, v)
               ELSE Copies(d', a, v) + Copies(d', b, v) = Copies(d, a, v) + Copies(d, b, v)]_vars

(* What SETBIT of a zero bit leaves under a missing key. *)
ZeroBit == [value |-> Bitmap({}), expires_at |-> NoTTL]

Contract == INSTANCE Versioned WITH
    content <- [k \in Key |-> Observed(d, k, clock)], generation <- d.generations,
    epoch <- d.epoch, Unnoticed <- {ZeroBit}

(* The container commands keep the promise WATCH rests on: no key appears  *)
(* and no content or deadline changes without _after_write, but for one    *)
(* command: SETBIT of a zero bit creates a missing key (as an empty        *)
(* bitmap) at an unchanged generation.                                     *)
ContentVersioned == Contract!Spec
=============================================================================
