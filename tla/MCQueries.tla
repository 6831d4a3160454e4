----------------------------- MODULE MCQueries -----------------------------
(* Strings of two letters up to four long, where common subsequences are   *)
(* ambiguous; every zset of three members and two scores, with bounds on,  *)
(* between and beyond the scores; fields of one to three bits that meet    *)
(* and overlap, and amounts that overflow them more than once either way.  *)
EXTENDS Queries

Upto(S, n) == UNION {[1 .. i -> S] : i \in 0 .. n}

MCValue == 1 .. 3

MCLcs == [command: {"LCS"}, a: Upto({1, 2}, 4), b: Upto({1, 2}, 4), minmatchlen: {1, 2}]

MCRanges ==
    [command: {"GETRANGE", "LRANGE"}, val: {[i \in 1 .. n |-> i] : n \in 0 .. 3},
     start: -5 .. 5, end: -5 .. 5]

MCLpos ==
    [command: {"LPOS"}, val: Upto({1, 2}, 4), element: {1},
     rank: (-3 .. 3) \ {0}, count: -1 .. 2, maxlen: 0 .. 3]

(* The sorted lists of all zsets. *)
MCPairs ==
    {s \in Upto({0, 1} \X (1 .. 3), 3) :
        /\ \A i, j \in DOMAIN s : i # j => s[i][2] # s[j][2]
        /\ \A i \in 2 .. Len(s) :
             s[i - 1][1] < s[i][1] \/ (s[i - 1][1] = s[i][1] /\ s[i - 1][2] < s[i][2])}

MCLimits == {<<>>} \cup ((-1 .. 2) \X (-1 .. 2))

MCByRank ==
    [command: {"ZRANGE"}, mode: {"rank"}, pairs: MCPairs, lo: -4 .. 3, hi: -4 .. 3,
     rev: BOOLEAN, limit: {<<>>}]

MCByBounds ==
    [command: {"ZRANGE"}, mode: {"byscore"}, pairs: MCPairs, lo: -1 .. 1, hi: 0 .. 2,
     lo_open: BOOLEAN, hi_open: BOOLEAN, rev: BOOLEAN, limit: MCLimits]
    \cup
    [command: {"ZRANGE"}, mode: {"bylex"}, pairs: MCPairs, lo: {None, 1, 2}, hi: {None, 2, 3},
     lo_open: BOOLEAN, hi_open: BOOLEAN, rev: BOOLEAN, limit: MCLimits]

MCSub(widths, offsets, amounts) ==
    [op: {"GET"}, signed: BOOLEAN, width: widths, offset: offsets,
     amount: {0}, overflow: {"WRAP"}]
    \cup
    [op: {"SET", "INCRBY"}, signed: BOOLEAN, width: widths, offset: offsets,
     amount: amounts, overflow: {"WRAP", "SAT", "FAIL"}]

MCBitfield ==
    [command: {"BITFIELD"}, bits: SUBSET (0 .. 3),
     subs: [1 .. 1 -> MCSub(1 .. 3, {0, 2}, {-9, -4, -1, 0, 1, 3, 4, 9})]
           \cup [1 .. 2 -> MCSub({2}, {0, 1}, {-1, 3})]]

MCQuery == MCLcs \cup MCRanges \cup MCLpos \cup MCByRank \cup MCByBounds \cup MCBitfield
=============================================================================
