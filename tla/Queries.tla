------------------------------ MODULE Queries ------------------------------
(***************************************************************************)
(* The algorithms behind the commands that answer questions about a value: *)
(* LCS and GETRANGE (kagni/commands/basic.py), LRANGE and LPOS (lists.py), *)
(* ZRANGE and its relatives (zset.py), and BITFIELD (bit.py), which writes *)
(* as well.  Each is translated from the code and compared with a          *)
(* definition of what it should answer.                                    *)
(*                                                                         *)
(* A query runs once, on a value and arguments chosen at the start.        *)
(* Positions count from 0, as they do for clients; TLA+ sequences from 1.  *)
(***************************************************************************)
EXTENDS Integers, Sequences, FiniteSets

CONSTANTS
    Query,  \* the questions asked, records with the command and its arguments
    Value,  \* what strings and lists are made of
    None    \* the null reply, an option not given, a lexicographic infinity

SX == INSTANCE SequencesExt

(* The questions the commands' parsing lets through.  Scores and members   *)
(* are numbers here, for their order; a zset's list is sorted by both.     *)
LcsQuery == [command: {"LCS"}, a: Seq(Value), b: Seq(Value), minmatchlen: Nat \ {0}]

RangeQuery == [command: {"GETRANGE", "LRANGE"}, val: Seq(Value), start: Int, end: Int]

LposQuery ==
    [command: {"LPOS"}, val: Seq(Value), element: Value,
     rank: Int \ {0}, count: Nat \cup {-1}, maxlen: Nat]

Sorted ==
    {pairs \in Seq(Int \X Int) : \A i, j \in DOMAIN pairs : i < j =>
        \/ pairs[i][1] < pairs[j][1]
        \/ pairs[i][1] = pairs[j][1] /\ pairs[i][2] < pairs[j][2]}

RankQuery ==
    [command: {"ZRANGE"}, mode: {"rank"}, pairs: Sorted, lo: Int, hi: Int,
     rev: BOOLEAN, limit: {<<>>}]

BoundsQuery(mode, bound) ==
    [command: {"ZRANGE"}, mode: {mode}, pairs: Sorted, lo: bound, hi: bound,
     lo_open: BOOLEAN, hi_open: BOOLEAN, rev: BOOLEAN, limit: {<<>>} \cup (Int \X Int)]

Field ==
    [op: {"GET", "SET", "INCRBY"}, signed: BOOLEAN, width: Nat \ {0}, offset: Nat,
     amount: Int, overflow: {"WRAP", "SAT", "FAIL"}]

BitfieldQuery == [command: {"BITFIELD"}, bits: SUBSET Nat, subs: Seq(Field)]

ASSUME QueriesAssumption ==
    /\ None \notin Int
    /\ Query \subseteq LcsQuery \cup RangeQuery \cup LposQuery \cup RankQuery
         \cup BoundsQuery("byscore", Int) \cup BoundsQuery("bylex", Int \cup {None})
         \cup BitfieldQuery

VARIABLES
    query,  \* what is asked
    reply   \* what the command answers

Greatest(S) == CHOOSE x \in S : \A y \in S : y <= x
Least(x, y) == IF x <= y THEN x ELSE y

(* The walks below that keep some of the elements they pass: those of x at *)
(* the positions P.                                                        *)
Picked(x, P) ==
    LET kept[n \in 0 .. Len(x)] ==
          IF n = 0 THEN <<>>
          ELSE IF n \in P THEN Append(kept[n - 1], x[n]) ELSE kept[n - 1]
    IN kept[Len(x)]

-----------------------------------------------------------------------------
(* LCS *)

(* A row of the table from the one above it, for the character c of a. *)
LcsRow(c, b, prev) ==
    LET cur[j \in 0 .. Len(b)] ==
          IF j = 0 THEN 0
          ELSE IF c = b[j] THEN prev[j - 1] + 1
          ELSE IF prev[j] > cur[j - 1] THEN prev[j]
          ELSE cur[j - 1]
    IN cur

(* The length of the LCS of every prefix of a and of b. *)
LcsTable(a, b) ==
    LET row[i \in 0 .. Len(a)] ==
          IF i = 0 THEN [j \in 0 .. Len(b) |-> 0] ELSE LcsRow(a[i], b, row[i - 1])
    IN row

(* A step of the walk back through the table: ties move left. *)
StepBack(a, b, table, w) ==
    IF w.i = 0 \/ w.j = 0 THEN w
    ELSE IF a[w.i] = b[w.j]
    THEN [i |-> w.i - 1, j |-> w.j - 1, cells |-> Append(w.cells, <<w.i, w.j>>)]
    ELSE IF table[w.i - 1][w.j] > table[w.i][w.j - 1] THEN [w EXCEPT !.i = @ - 1]
    ELSE [w EXCEPT !.j = @ - 1]

(* The cells on the diagonal moves of the walk, from the end. *)
LcsPath(a, b) ==
    LET table == LcsTable(a, b)
        walk[n \in 0 .. Len(a) + Len(b)] ==
          IF n = 0 THEN [i |-> Len(a), j |-> Len(b), cells |-> <<>>]
          ELSE StepBack(a, b, table, walk[n - 1])
    IN walk[Len(a) + Len(b)].cells

(* Mutant: a run goes on although b skipped a character. *)
JoinsOneSided(run, cell) == cell[1] = run.a - 1

(* The cell continues the run towards the start. *)
Joins(run, cell) == cell[1] = run.a - 1 /\ cell[2] = run.b - 1

Extended(runs, cell) ==
    IF runs # <<>> /\ Joins(runs[Len(runs)], cell)
    THEN [runs EXCEPT ![Len(runs)] = [a |-> cell[1], b |-> cell[2], cells |-> @.cells + 1]]
    ELSE Append(runs, [a |-> cell[1], b |-> cell[2], cells |-> 1])

(* The maximal diagonal runs of the cells, both from the last to the first. *)
Runs(cells) ==
    LET runs[n \in 0 .. Len(cells)] ==
          IF n = 0 THEN <<>> ELSE Extended(runs[n - 1], cells[n])
    IN runs[Len(cells)]

Spelled(a, runs) ==
    LET text[n \in 0 .. Len(runs)] ==
          IF n = 0 THEN <<>>
          ELSE SubSeq(a, runs[n].a, runs[n].a + runs[n].cells - 1) \o text[n - 1]
    IN text[Len(runs)]

(* The last c of x before position p, 0 if there is none. *)
LastBefore(x, p, c) == Greatest({0} \cup {q \in 1 .. p - 1 : x[q] = c})

(* IDX: the rightmost occurrence of the subsequence in either string, from *)
(* its last character.                                                     *)
Rightmost(a, b, text) ==
    LET n == Len(text)
        cell[k \in 0 .. n] ==
          IF k = 0 THEN <<Len(a) + 1, Len(b) + 1>>
          ELSE <<LastBefore(a, cell[k - 1][1], text[n + 1 - k]),
                 LastBefore(b, cell[k - 1][2], text[n + 1 - k])>>
    IN [k \in 1 .. n |-> cell[k]]

LCS(q) ==
    LET text == Spelled(q.a, Runs(LcsPath(q.a, q.b)))
        runs == Runs(Rightmost(q.a, q.b, text))
    IN [text |-> text,
        len |-> LcsTable(q.a, q.b)[Len(q.a)][Len(q.b)],
        matches |-> Picked(runs, {i \in DOMAIN runs : runs[i].cells >= q.minmatchlen})]

-----------------------------------------------------------------------------
(* Ranges *)

(* A slice of a python sequence: from lo, up to and without hi. *)
PySlice(val, lo, hi) ==
    LET clip(x) == IF x < 0 THEN Greatest({0, Len(val) + x}) ELSE Least(x, Len(val))
    IN SubSeq(val, clip(lo) + 1, clip(hi))

GETRANGE(q) == PySlice(q.val, q.start, IF q.end >= 0 THEN q.end + 1 ELSE Len(q.val) + q.end + 1)

(* LRANGE, _slice_ranks *)
Window(val, start, end) ==
    LET n == Len(val)
        from == Greatest({0, IF start < 0 THEN start + n ELSE start})
        to == IF end < 0 THEN end + n ELSE end
    IN IF from > to \/ from >= n THEN <<>> ELSE SubSeq(val, from + 1, Least(to, n - 1) + 1)

LRANGE(q) == Window(q.val, q.start, q.end)

-----------------------------------------------------------------------------
(* LPOS *)

(* The walk from either end over at most maxlen elements, and the matches  *)
(* from the rank-th on, at most count of them.                             *)
LPOS(q) ==
    LET n == Len(q.val)
        tail == q.rank < 0
        skip == (IF tail THEN -q.rank ELSE q.rank) - 1
        scanned == IF q.maxlen = 0 THEN n ELSE Least(q.maxlen, n)
        walk == [i \in 1 .. scanned |-> IF tail THEN n - i ELSE i - 1]
        matches == Picked(walk, {i \in DOMAIN walk : q.val[walk[i] + 1] = q.element})
        found == SubSeq(matches, skip + 1, Len(matches))
    IN IF q.count = -1 THEN SubSeq(found, 1, Least(1, Len(found)))
       ELSE IF q.count = 0 THEN found
       ELSE SubSeq(found, 1, Least(q.count, Len(found)))

-----------------------------------------------------------------------------
(* ZRANGE *)

(* How many pairs come before the score: bisect_left, bisect_right. *)
BisectLeft(pairs, score) == Cardinality({i \in DOMAIN pairs : pairs[i][1] < score})
BisectRight(pairs, score) == Cardinality({i \in DOMAIN pairs : pairs[i][1] <= score})

ScorePairs(pairs, q) ==
    LET from == IF q.lo_open THEN BisectRight(pairs, q.lo) ELSE BisectLeft(pairs, q.lo)
        to == IF q.hi_open THEN BisectLeft(pairs, q.hi) ELSE BisectRight(pairs, q.hi)
    IN PySlice(pairs, from, to)

MemberPairs(pairs, q) ==
    LET skipped(m) ==
          \/ q.lo # None /\ (m < q.lo \/ (q.lo_open /\ m = q.lo))
          \/ q.hi # None /\ (m > q.hi \/ (q.hi_open /\ m = q.hi))
    IN Picked(pairs, {i \in DOMAIN pairs : ~skipped(pairs[i][2])})

(* Mutant: the count is taken for the end of the window. *)
LimitPairsToCount(pairs, limit) ==
    IF limit = <<>> THEN pairs
    ELSE IF limit[1] < 0 THEN <<>>
    ELSE PySlice(pairs, limit[1], IF limit[2] < 0 THEN Len(pairs) ELSE limit[2])

(* _limit_pairs *)
LimitPairs(pairs, limit) ==
    IF limit = <<>> THEN pairs
    ELSE IF limit[1] < 0 THEN <<>>
    ELSE PySlice(pairs, limit[1], limit[1] + (IF limit[2] < 0 THEN Len(pairs) ELSE limit[2]))

(* _range_pairs: the bounds arrive as lowest and highest in both           *)
(* directions; ranks count from the chosen end.                            *)
RangePairs(q) ==
    LET turn(pairs) == IF q.rev THEN SX!Reverse(pairs) ELSE pairs
    IN CASE q.mode = "rank" -> Window(turn(q.pairs), q.lo, q.hi)
         [] q.mode = "byscore" -> turn(ScorePairs(q.pairs, q))
         [] q.mode = "bylex" -> turn(MemberPairs(q.pairs, q))

ZRANGE(q) == LimitPairs(RangePairs(q), q.limit)

-----------------------------------------------------------------------------
(* BITFIELD; a bitmap is the set of its 1 bits *)

(* 1 << width *)
Span(width) ==
    LET span[k \in 0 .. width] == IF k = 0 THEN 1 ELSE 2 * span[k - 1]
    IN span[width]

(* The first bit is the most significant one. *)
ExtractBits(bits, offset, width) ==
    LET value[k \in 0 .. width] ==
          IF k = 0 THEN 0
          ELSE 2 * value[k - 1] + (IF offset + k - 1 \in bits THEN 1 ELSE 0)
    IN value[width]

StoreBits(bits, offset, width, value) ==
    LET field == offset .. offset + width - 1
        shifted[i \in 0 .. width] == IF i = 0 THEN value ELSE shifted[i - 1] \div 2
    IN (bits \ field) \cup {bit \in field : shifted[offset + width - 1 - bit] % 2 = 1}

Interpret(value, signed, width) ==
    IF signed /\ value >= Span(width - 1) THEN value - Span(width) ELSE value

Lowest(signed, width) == IF signed THEN -Span(width - 1) ELSE 0
Highest(signed, width) == (IF signed THEN Span(width - 1) ELSE Span(width)) - 1

(* Mutant: saturation ends at the top whichever way the value left. *)
OverflowHigh(value, signed, width, mode) ==
    LET lo == Lowest(signed, width)
        hi == Highest(signed, width)
    IN IF value \in lo .. hi THEN [value |-> value, ok |-> TRUE]
       ELSE IF mode = "SAT" THEN [value |-> hi, ok |-> TRUE]
       ELSE IF mode = "WRAP" THEN [value |-> Interpret(value % Span(width), signed, width), ok |-> TRUE]
       ELSE [value |-> 0, ok |-> FALSE]

(* _bitfield_overflow *)
Overflow(value, signed, width, mode) ==
    LET lo == Lowest(signed, width)
        hi == Highest(signed, width)
    IN IF value \in lo .. hi THEN [value |-> value, ok |-> TRUE]
       ELSE IF mode = "SAT" THEN [value |-> IF value < lo THEN lo ELSE hi, ok |-> TRUE]
       ELSE IF mode = "WRAP" THEN [value |-> Interpret(value % Span(width), signed, width), ok |-> TRUE]
       ELSE [value |-> 0, ok |-> FALSE]

(* One GET, SET or INCRBY: the bits it leaves, its reply, and whether it   *)
(* wrote.                                                                  *)
Subcommand(bits, s) ==
    LET old == Interpret(ExtractBits(bits, s.offset, s.width), s.signed, s.width)
        new == Overflow(IF s.op = "SET" THEN s.amount ELSE old + s.amount,
                        s.signed, s.width, s.overflow)
    IN IF s.op = "GET" THEN [bits |-> bits, out |-> old, wrote |-> FALSE]
       ELSE IF ~new.ok THEN [bits |-> bits, out |-> None, wrote |-> FALSE]
       ELSE [bits |-> StoreBits(bits, s.offset, s.width, new.value % Span(s.width)),
             out |-> IF s.op = "SET" THEN old ELSE new.value,
             wrote |-> TRUE]

(* The subcommands in order, on the bitmap or on a new one; a new one is   *)
(* stored, and the key touched, only if something was written.             *)
BITFIELD(q) ==
    LET next(acc, s) ==
          LET r == Subcommand(acc.bits, s)
          IN [bits |-> r.bits, out |-> Append(acc.out, r.out), wrote |-> acc.wrote \/ r.wrote]
        after[n \in 0 .. Len(q.subs)] ==
          IF n = 0 THEN [bits |-> q.bits, out |-> <<>>, wrote |-> FALSE]
          ELSE next(after[n - 1], q.subs[n])
    IN after[Len(q.subs)]

-----------------------------------------------------------------------------
Unanswered == [command |-> "none"]

Answered(q) ==
    [command |-> q.command,
     result |-> CASE q.command = "LCS" -> LCS(q)
                  [] q.command = "GETRANGE" -> GETRANGE(q)
                  [] q.command = "LRANGE" -> LRANGE(q)
                  [] q.command = "LPOS" -> LPOS(q)
                  [] q.command = "ZRANGE" -> ZRANGE(q)
                  [] q.command = "BITFIELD" -> BITFIELD(q)]

Asked == query \in Query /\ reply = Unanswered

Answer == reply = Unanswered /\ reply' = Answered(query) /\ UNCHANGED query

QuerySpec == Asked /\ [][Answer]_<<query, reply>>

-----------------------------------------------------------------------------
Subsequences(x) == {Picked(x, P) : P \in SUBSET DOMAIN x}

(* What LCS answers is a subsequence of both strings, as long as LEN says, *)
(* and no longer one exists: the path back through the table of            *)
(* _lcs_runs, with its ties, and the runs cut from it lose nothing.        *)
LcsLongest ==
    reply.command = "LCS" =>
        LET r == reply.result
            common == Subsequences(query.a) \cap Subsequences(query.b)
        IN /\ r.text \in common /\ Len(r.text) = r.len
           /\ \A s \in common : Len(s) <= r.len

(* The matches of LCS IDX: stretches that are equal in both strings, from  *)
(* the end to the start without overlap, none joined to the next, none     *)
(* shorter than MINMATCHLEN; without that option they spell the LCS.  They *)
(* come from a second walk, which must find what the first one found.      *)
LcsIndexesAlign ==
    reply.command = "LCS" =>
        LET ms == reply.result.matches
        IN /\ \A i \in DOMAIN ms :
                /\ ms[i].a >= 1 /\ ms[i].b >= 1 /\ ms[i].cells >= query.minmatchlen
                /\ \A c \in 0 .. ms[i].cells - 1 : query.a[ms[i].a + c] = query.b[ms[i].b + c]
           /\ \A i \in 2 .. Len(ms) :
                /\ ms[i].a + ms[i].cells <= ms[i - 1].a
                /\ ms[i].b + ms[i].cells <= ms[i - 1].b
                /\ query.minmatchlen = 1 =>
                     ~(ms[i].a + ms[i].cells = ms[i - 1].a /\ ms[i].b + ms[i].cells = ms[i - 1].b)
           /\ query.minmatchlen = 1 => Spelled(query.a, ms) = reply.result.text

(* LCS answers a longest common subsequence, and LCS IDX its places.       *)
LcsExact == LcsLongest /\ LcsIndexesAlign

(* The elements from start to end, both counted from the end when          *)
(* negative.                                                               *)
Between(val, start, end) ==
    LET at(x) == IF x < 0 THEN Len(val) + x ELSE x
    IN Picked(val, {i \in DOMAIN val : at(start) <= i - 1 /\ i - 1 <= at(end)})

(* GETRANGE, LRANGE and ZRANGE by rank, from either end, answer exactly    *)
(* the elements between their bounds, also when these cross or lie outside *)
(* the value.  GETRANGE is exempt where its end lies more than one before  *)
(* the start of the string: there `stop' is negative and python counts it  *)
(* from the end once more.                                                 *)
RangesExact ==
    /\ reply.command = "GETRANGE" /\ query.end >= -(Len(query.val) + 1) =>
         reply.result = Between(query.val, query.start, query.end)
    /\ reply.command = "LRANGE" => reply.result = Between(query.val, query.start, query.end)
    /\ reply.command = "ZRANGE" /\ query.mode = "rank" =>
         reply.result = Between(IF query.rev THEN SX!Reverse(query.pairs) ELSE query.pairs,
                                query.lo, query.hi)

Above(x, bound, open) == bound = None \/ x > bound \/ (x = bound /\ ~open)
Below(x, bound, open) == bound = None \/ x < bound \/ (x = bound /\ ~open)

(* A pair is answered by a range of scores or members exactly when it      *)
(* satisfies both bounds and LIMIT's window, counted in the direction      *)
(* asked for, holds its place among those that do; pairs come in that      *)
(* direction.                                                              *)
ZRangeExact ==
    reply.command = "ZRANGE" /\ query.mode # "rank" =>
        LET c == IF query.mode = "byscore" THEN 1 ELSE 2
            in(p) == Above(p[c], query.lo, query.lo_open) /\ Below(p[c], query.hi, query.hi_open)
            n == Len(query.pairs)
            inside == {i \in 1 .. n : in(query.pairs[i])}
            place(i) == Cardinality({j \in inside : IF query.rev THEN j > i ELSE j < i})
            limited(i) ==
              \/ query.limit = <<>>
              \/ /\ query.limit[1] >= 0 /\ place(i) >= query.limit[1]
                 /\ query.limit[2] < 0 \/ place(i) < query.limit[1] + query.limit[2]
            chosen == Picked(query.pairs, {i \in inside : limited(i)})
        IN reply.result = IF query.rev THEN SX!Reverse(chosen) ELSE chosen

(* LPOS answers the position of an element exactly when it is among the    *)
(* MAXLEN nearest to the chosen end and, counted from there, the RANK-th   *)
(* match or one of the COUNT from it on.                                   *)
LposExact ==
    reply.command = "LPOS" =>
        LET n == Len(query.val)
            tail == query.rank < 0
            far(p) == IF tail THEN n - 1 - p ELSE p
            match(p) == query.val[p + 1] = query.element
            number(p) == Cardinality({o \in 0 .. n - 1 : match(o) /\ far(o) <= far(p)})
            rank == IF tail THEN -query.rank ELSE query.rank
            many == IF query.count = -1 THEN 1 ELSE IF query.count = 0 THEN n ELSE query.count
            expected == {p \in 0 .. n - 1 : /\ match(p)
                                            /\ query.maxlen = 0 \/ far(p) < query.maxlen
                                            /\ number(p) \in rank .. rank + many - 1}
        IN /\ {reply.result[i] : i \in DOMAIN reply.result} = expected
           /\ \A i \in 2 .. Len(reply.result) : far(reply.result[i - 1]) < far(reply.result[i])

(* What GETRANGE, LRANGE, ZRANGE and LPOS pick out of a value is exactly   *)
(* what their bounds, windows and counts name, in the order asked for.     *)
SelectionsExact == RangesExact /\ ZRangeExact /\ LposExact

(* The reply a subcommand owes, and the value its field then holds. *)
Owed(s, old, target) ==
    LET lo == Lowest(s.signed, s.width)
        hi == Highest(s.signed, s.width)
        fits == lo <= target /\ target <= hi
        new == IF fits THEN target
               ELSE IF s.overflow = "WRAP"
               THEN CHOOSE v \in lo .. hi : (v - target) % Span(s.width) = 0
               ELSE IF s.overflow = "FAIL" THEN old
               ELSE CHOOSE v \in lo .. hi : \A w \in lo .. hi :
                      (IF v > target THEN v - target ELSE target - v)
                        <= (IF w > target THEN w - target ELSE target - w)
    IN [value |-> new,
        out |-> IF ~fits /\ s.overflow = "FAIL" THEN None ELSE IF s.op = "SET" THEN old ELSE new]

(* The number a field holds: its bits weighted, the first one negative in  *)
(* a signed field.                                                         *)
Number(bits, s) ==
    LET weight(i) ==
          IF s.offset + i \notin bits THEN 0
          ELSE IF s.signed /\ i = 0 THEN -Span(s.width - 1) ELSE Span(s.width - 1 - i)
        sum[k \in 0 .. s.width] == IF k = 0 THEN 0 ELSE sum[k - 1] + weight(k - 1)
    IN sum[s.width]

(* Each subcommand of BITFIELD sees what the ones before it left, answers  *)
(* and stores the exact number, wrapped, saturated or refused as OVERFLOW  *)
(* asks, and touches no bit outside its field; a command all of whose      *)
(* writes were refused counts as no write.                                 *)
BitfieldExact ==
    reply.command = "BITFIELD" =>
        LET upto(i) == BITFIELD([query EXCEPT !.subs = SubSeq(@, 1, i)])
            refused(i) == reply.result.out[i] = None
        IN /\ reply.result = upto(Len(query.subs))
           /\ \A i \in DOMAIN query.subs :
                LET s == query.subs[i]
                    before == upto(i - 1).bits
                    after == upto(i).bits
                    old == Number(before, s)
                    owed == Owed(s, old, IF s.op = "SET" THEN s.amount ELSE old + s.amount)
                IN /\ s.op = "GET" => after = before /\ reply.result.out[i] = old
                   /\ s.op # "GET" =>
                        Number(after, s) = owed.value /\ reply.result.out[i] = owed.out
                   /\ (after \cup before) \ (after \cap before)
                        \subseteq s.offset .. s.offset + s.width - 1
           /\ reply.result.wrote <=>
                \E i \in DOMAIN query.subs : query.subs[i].op # "GET" /\ ~refused(i)
=============================================================================
