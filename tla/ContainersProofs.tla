-------------------------- MODULE ContainersProofs --------------------------
(***************************************************************************)
(* Type correctness of Containers, the soundness of every collection, the  *)
(* proof that the container commands keep the contract of Versioned, and   *)
(* that moves lose no element; for any keys, members, scores and bits and  *)
(* any bounds.  On the way: a sorted set is determined by its scores.      *)
(*                                                                         *)
(* A command passes through stores that differ from d in what it has done  *)
(* so far.  Fair says of such a store that its containers are sound and    *)
(* that every change a client can see was paid with a generation; each     *)
(* operation on the store keeps it, and a command is a chain of operations.*)
(***************************************************************************)
EXTENDS Containers, FiniteSetTheorems, SequenceTheorems, TLAPS

-----------------------------------------------------------------------------
(* Counting: ranks in finite sets, and initial segments. *)

LEMMA Interval ==
    ASSUME NEW n \in Nat
    PROVE  IsFiniteSet(1 .. n) /\ Cardinality(1 .. n) = n
BY FS_Interval

(* A numbering of a finite set by different numbers up to its size uses    *)
(* every number.                                                           *)
LEMMA NumberingIsOnto ==
    ASSUME NEW S, IsFiniteSet(S), NEW f \in [S -> 1 .. Cardinality(S)],
           \A x, y \in S : f[x] = f[y] => x = y
    PROVE  \A n \in 1 .. Cardinality(S) : \E x \in S : f[x] = n
<1> DEFINE c == Cardinality(S)
<1>1. c \in Nat /\ IsFiniteSet(1 .. c) /\ Cardinality(1 .. c) = c
  BY FS_CardinalityType, Interval
<1>2. f \in Injection(S, 1 .. c)
  BY DEF Injection, IsInjective
<1>3. f \in Surjection(S, 1 .. c)
  BY <1>1, <1>2, FS_Injection
<1> QED BY <1>3 DEF Surjection

(* A set that contains the numbers below each of its members. *)
LEMMA InitialSegment ==
    ASSUME NEW n \in Nat, NEW T \in SUBSET (1 .. n), \A i \in T : 1 .. i \subseteq T
    PROVE  T = 1 .. Cardinality(T) /\ Cardinality(T) \in 0 .. n
<1> DEFINE c == Cardinality(T)
<1>1. IsFiniteSet(T) /\ c \in Nat /\ c <= n
  <2>1. IsFiniteSet(1 .. n) /\ Cardinality(1 .. n) = n
    BY Interval
  <2>2. IsFiniteSet(T) /\ Cardinality(T) <= n
    BY <2>1, FS_Subset
  <2> QED BY <2>2, FS_CardinalityType
<1>2. \A i \in T : i <= c
  <2> TAKE i \in T
  <2>1. i \in Nat /\ (1 .. i) \in SUBSET T
    OBVIOUS
  <2>2. Cardinality(1 .. i) <= c
    BY <1>1, <2>1, FS_Subset
  <2> QED BY <2>1, <2>2, Interval
<1>3. T \in SUBSET (1 .. c)
  BY <1>2
<1>4. Cardinality(1 .. c) = c /\ IsFiniteSet(1 .. c)
  BY <1>1, Interval
<1>5. T = 1 .. c
  BY <1>3, <1>4, FS_Subset
<1> QED BY <1>1, <1>5

(* r lists the elements of seq at the positions I, in order. *)
Selects(r, seq, I) ==
    \E pos \in [1 .. Len(r) -> I] :
        /\ \A a \in 1 .. Len(r) : r[a] = seq[pos[a]]
        /\ \A a, b \in 1 .. Len(r) : a < b => pos[a] < pos[b]
        /\ \A i \in I : \E a \in 1 .. Len(r) : pos[a] = i

LEMMA PickProperties ==
    ASSUME NEW S, NEW seq \in Seq(S), NEW I \in SUBSET DOMAIN seq
    PROVE  /\ Pick(seq, I) \in Seq(S)
           /\ Pick(seq, I) = <<>> <=> I = {}
           /\ Selects(Pick(seq, I), seq, I)
<1> DEFINE upto(i) == {j \in I : j <= i}
           n == Cardinality(I)
           rank == [i \in I |-> Cardinality(upto(i))]
           pos == [a \in 1 .. n |-> CHOOSE i \in I : Cardinality(upto(i)) = a]
<1>1. Len(seq) \in Nat /\ DOMAIN seq = 1 .. Len(seq)
  OBVIOUS
<1>2. IsFiniteSet(I) /\ n \in Nat /\ I \subseteq Int
  BY <1>1, Interval, FS_Subset, FS_CardinalityType
<1>3. \A i \in I : IsFiniteSet(upto(i)) /\ Cardinality(upto(i)) \in 1 .. n
  <2> TAKE i \in I
  <2>1. upto(i) \in SUBSET I /\ i \in upto(i)
    BY <1>2
  <2>2. IsFiniteSet(upto(i)) /\ Cardinality(upto(i)) \in Nat /\ Cardinality(upto(i)) <= n
    BY <1>2, <2>1, FS_Subset, FS_CardinalityType
  <2>3. Cardinality(upto(i)) # 0
    BY <2>1, <2>2, FS_EmptySet
  <2> QED BY <1>2, <2>2, <2>3
<1>4. \A i, j \in I : i < j => rank[i] < rank[j]
  <2> TAKE i, j \in I
  <2> HAVE i < j
  <2>1. upto(i) \in SUBSET upto(j) /\ j \in upto(j) /\ j \notin upto(i)
    BY <1>2
  <2>2. Cardinality(upto(i)) <= Cardinality(upto(j))
        /\ Cardinality(upto(i)) # Cardinality(upto(j))
    BY <1>3, <2>1, FS_Subset
  <2> HIDE DEF upto
  <2>3. Cardinality(upto(i)) \in Int /\ Cardinality(upto(j)) \in Int
    BY <1>2, <1>3
  <2> QED BY <2>2, <2>3
<1>5. rank \in [I -> 1 .. n]
  BY <1>3
<1>6. \A i, j \in I : rank[i] = rank[j] => i = j
  <2> HIDE DEF rank
  <2> QED BY <1>2, <1>4, <1>5
<1>7. \A a \in 1 .. n : \E i \in I : rank[i] = a
  <2> HIDE DEF rank
  <2> QED BY <1>2, <1>5, <1>6, NumberingIsOnto
<1>8. \A a \in 1 .. n : pos[a] \in I /\ rank[pos[a]] = a
  BY <1>7
<1>9. Pick(seq, I) = [a \in 1 .. n |-> seq[pos[a]]]
  BY DEF Pick
<1> HIDE DEF pos, rank, upto, n
<1>10. \A a, b \in 1 .. n : a < b => pos[a] < pos[b]
  <2> TAKE a, b \in 1 .. n
  <2> HAVE a < b
  <2>1. pos[a] \in Int /\ pos[b] \in Int /\ pos[a] # pos[b]
    BY <1>2, <1>8
  <2>2. ~(pos[b] < pos[a])
    BY <1>4, <1>8
  <2> QED BY <2>1, <2>2
<1>11. \A i \in I : \E a \in 1 .. n : pos[a] = i
  BY <1>5, <1>6, <1>8
<1>12. pos \in [1 .. n -> I]
  BY <1>8 DEF pos
<1>13. \A a \in 1 .. n : seq[pos[a]] \in S
  BY <1>1, <1>8
<1>14. Pick(seq, I) \in Seq(S) /\ Len(Pick(seq, I)) = n
  BY <1>2, <1>9, <1>13
<1>15. Pick(seq, I) = <<>> <=> I = {}
  <2>1. n = 0 <=> I = {}
    BY <1>2, FS_EmptySet DEF n
  <2> QED BY <1>14, <2>1
<1>16. \A a \in 1 .. n : Pick(seq, I)[a] = seq[pos[a]]
  BY <1>9
<1>17. Selects(Pick(seq, I), seq, I)
  BY <1>10, <1>11, <1>12, <1>14, <1>16 DEF Selects
<1> QED BY <1>14, <1>15, <1>17

-----------------------------------------------------------------------------
(* class ZSet: the sorted list and the dict of scores. *)

Sorted(s) == \A i, j \in DOMAIN s : i < j => Before(s[i], s[j])
Pairs(s) == {s[i] : i \in DOMAIN s}
Held(scores) == {m \in Member : scores[m] # Absent}
Scored(scores) == {<<scores[m], m>> : m \in Held(scores)}

(* What IndexesAgree says of one sorted set. *)
Agrees(z) == Sorted(z.sorted) /\ Pairs(z.sorted) = Scored(z.scores)

Pair == Int \X Member

(* Tuples of a score and a member are compared like pairs of numbers. *)
LEMMA BeforeIsAnOrder ==
    ASSUME NEW p \in Pair, NEW q \in Pair, NEW r \in Pair
    PROVE  /\ ~Before(p, p)
           /\ Before(p, q) /\ Before(q, r) => Before(p, r)
           /\ Before(p, q) \/ Before(q, p) \/ p = q
           /\ ~(Before(p, q) /\ Before(q, p))
<1>1. /\ p[1] \in Int /\ p[2] \in Int /\ q[1] \in Int /\ q[2] \in Int
      /\ r[1] \in Int /\ r[2] \in Int
  BY ContainersAssumption DEF Pair
<1>2. p[1] = q[1] /\ p[2] = q[2] => p = q
  BY DEF Pair
<1> QED BY <1>1, <1>2 DEF Before

(* bisect_left: everything before the place sorts before p, nothing at or  *)
(* after it does; and an entry of the list is at its place.                *)
LEMMA PlaceSplits ==
    ASSUME NEW s \in Seq(Pair), Sorted(s), NEW p \in Pair
    PROVE  /\ Place(s, p) \in 1 .. Len(s) + 1
           /\ \A i \in 1 .. Len(s) : i < Place(s, p) <=> Before(s[i], p)
           /\ \A i \in 1 .. Len(s) : s[i] = p => i = Place(s, p)
<1> DEFINE T == {i \in DOMAIN s : Before(s[i], p)}
           c == Cardinality(T)
<1>1. Len(s) \in Nat /\ DOMAIN s = 1 .. Len(s) /\ \A i \in 1 .. Len(s) : s[i] \in Pair
  OBVIOUS
<1>2. T \in SUBSET (1 .. Len(s))
  BY <1>1
<1>3. ASSUME NEW i \in T
      PROVE  1 .. i \subseteq T
  <2> SUFFICES ASSUME NEW j \in 1 .. i, j # i
               PROVE  j \in T
    BY <1>3
  <2>1. i \in 1 .. Len(s) /\ j \in 1 .. Len(s) /\ j < i /\ Before(s[i], p)
    BY <1>1, <1>3
  <2>2. Before(s[j], s[i])
    BY <1>1, <2>1 DEF Sorted
  <2>3. Before(s[j], p)
    BY <1>1, <2>1, <2>2, BeforeIsAnOrder
  <2> QED BY <1>1, <2>1, <2>3
<1>4. T = 1 .. c /\ c \in 0 .. Len(s)
  <2> HIDE DEF T
  <2> QED BY <1>1, <1>2, <1>3, InitialSegment
<1>5. Place(s, p) = 1 + c
  BY DEF Place
<1>6. \A i \in 1 .. Len(s) : Before(s[i], p) <=> i \in 1 .. c
  BY <1>1, <1>4
<1> HIDE DEF T, c
<1>7. \A i \in 1 .. Len(s) : i < Place(s, p) <=> Before(s[i], p)
  BY <1>1, <1>4, <1>5, <1>6
<1>8. ASSUME NEW i \in 1 .. Len(s), s[i] = p
      PROVE  i = Place(s, p)
  <2>1. ~Before(s[i], p)
    BY <1>1, <1>8, BeforeIsAnOrder
  <2>2. ~(i < Place(s, p))
    BY <1>7, <2>1
  <2>3. ASSUME Place(s, p) < i
        PROVE  FALSE
    <3>1. Place(s, p) \in 1 .. Len(s)
      BY <1>1, <1>4, <1>5, <2>3
    <3>2. Before(s[Place(s, p)], p)
      BY <1>1, <1>8, <2>3, <3>1 DEF Sorted
    <3> QED BY <1>4, <1>5, <1>7, <3>1, <3>2
  <2> QED BY <1>1, <1>4, <1>5, <2>2, <2>3
<1> QED BY <1>1, <1>4, <1>5, <1>7, <1>8

LEMMA InsertProperties ==
    ASSUME NEW S, NEW s \in Seq(S), NEW q \in 1 .. Len(s) + 1, NEW e \in S
    PROVE  /\ SX!InsertAt(s, q, e) \in Seq(S)
           /\ Len(SX!InsertAt(s, q, e)) = Len(s) + 1
           /\ \A i \in 1 .. Len(s) + 1 :
                SX!InsertAt(s, q, e)[i] = IF i < q THEN s[i] ELSE IF i = q THEN e ELSE s[i - 1]
<1> DEFINE a == SubSeq(s, 1, q - 1)
           b == SubSeq(s, q, Len(s))
<1>1. Len(s) \in Nat /\ q \in Int
  OBVIOUS
<1>2. /\ a \in Seq(S) /\ Len(a) = q - 1 /\ \A i \in 1 .. q - 1 : a[i] = s[i]
      /\ b \in Seq(S) /\ Len(b) = Len(s) - q + 1
      /\ \A i \in 1 .. Len(s) - q + 1 : b[i] = s[q + i - 1]
  BY <1>1
<1>3. <<e>> \in Seq(S) /\ Len(<<e>>) = 1 /\ <<e>>[1] = e
  OBVIOUS
<1>4. SX!InsertAt(s, q, e) = (a \o <<e>>) \o b
  BY DEF SX!InsertAt
<1> HIDE DEF a, b
<1>5. /\ a \o <<e>> \in Seq(S) /\ Len(a \o <<e>>) = q
      /\ \A i \in 1 .. q : (a \o <<e>>)[i] = IF i < q THEN s[i] ELSE e
  BY <1>1, <1>2, <1>3
<1>6. /\ (a \o <<e>>) \o b \in Seq(S) /\ Len((a \o <<e>>) \o b) = Len(s) + 1
      /\ \A i \in 1 .. Len(s) + 1 :
           ((a \o <<e>>) \o b)[i] = IF i <= q THEN (a \o <<e>>)[i] ELSE b[i - q]
  BY <1>1, <1>2, <1>5
<1>7. \A i \in 1 .. Len(s) + 1 : i > q => b[i - q] = s[i - 1]
  BY <1>1, <1>2
<1> QED BY <1>1, <1>4, <1>5, <1>6, <1>7

LEMMA RemoveProperties ==
    ASSUME NEW S, NEW s \in Seq(S), NEW q \in 1 .. Len(s)
    PROVE  /\ SX!RemoveAt(s, q) \in Seq(S)
           /\ Len(SX!RemoveAt(s, q)) = Len(s) - 1
           /\ \A i \in 1 .. Len(s) - 1 :
                SX!RemoveAt(s, q)[i] = IF i < q THEN s[i] ELSE s[i + 1]
<1> DEFINE a == SubSeq(s, 1, q - 1)
           b == SubSeq(s, q + 1, Len(s))
<1>1. Len(s) \in Nat /\ q \in Int
  OBVIOUS
<1>2. /\ a \in Seq(S) /\ Len(a) = q - 1 /\ \A i \in 1 .. q - 1 : a[i] = s[i]
      /\ b \in Seq(S) /\ Len(b) = Len(s) - q
      /\ \A i \in 1 .. Len(s) - q : b[i] = s[q + i]
  BY <1>1
<1>3. SX!RemoveAt(s, q) = a \o b
  BY DEF SX!RemoveAt
<1> HIDE DEF a, b
<1>4. /\ a \o b \in Seq(S) /\ Len(a \o b) = Len(s) - 1
      /\ \A i \in 1 .. Len(s) - 1 : (a \o b)[i] = IF i <= q - 1 THEN a[i] ELSE b[i - (q - 1)]
  <2>0. a \in Seq(S) /\ b \in Seq(S)
    BY <1>2
  <2>1. a \o b \in Seq(S) /\ Len(a \o b) = Len(a) + Len(b)
    BY <2>0, ConcatProperties
  <2>2. \A i \in 1 .. Len(a) + Len(b) :
          (a \o b)[i] = IF i <= Len(a) THEN a[i] ELSE b[i - Len(a)]
    BY <1>2
  <2>3. Len(a) = q - 1 /\ Len(a) + Len(b) = Len(s) - 1
    BY <1>1, <1>2
  <2> QED BY <2>1, <2>2, <2>3
<1>5. \A i \in 1 .. Len(s) - 1 : i >= q => b[i - (q - 1)] = s[i + 1]
  BY <1>1, <1>2
<1> QED BY <1>1, <1>2, <1>3, <1>4, <1>5

(* bisect.insort of a new pair. *)
LEMMA InsortSorted ==
    ASSUME NEW s \in Seq(Pair), Sorted(s), NEW p \in Pair, p \notin Pairs(s)
    PROVE  LET r == SX!InsertAt(s, Place(s, p), p)
           IN  r \in Seq(Pair) /\ Sorted(r) /\ Pairs(r) = Pairs(s) \cup {p} /\ r # <<>>
<1> DEFINE q == Place(s, p)
           r == SX!InsertAt(s, q, p)
<1>1. /\ Len(s) \in Nat /\ DOMAIN s = 1 .. Len(s) /\ q \in 1 .. Len(s) + 1
      /\ \A i \in 1 .. Len(s) : s[i] \in Pair /\ s[i] # p
  BY PlaceSplits DEF Pairs
<1>2. /\ r \in Seq(Pair) /\ Len(r) = Len(s) + 1
      /\ \A i \in 1 .. Len(s) + 1 :
           r[i] = IF i < q THEN s[i] ELSE IF i = q THEN p ELSE s[i - 1]
  <2> HIDE DEF q
  <2>1. \A x \in 1 .. Len(s) + 1, e \in Pair :
          /\ SX!InsertAt(s, x, e) \in Seq(Pair) /\ Len(SX!InsertAt(s, x, e)) = Len(s) + 1
          /\ \A i \in 1 .. Len(s) + 1 :
               SX!InsertAt(s, x, e)[i] = IF i < x THEN s[i] ELSE IF i = x THEN e ELSE s[i - 1]
    BY InsertProperties
  <2> QED BY <1>1, <2>1
<1>3. DOMAIN r = 1 .. Len(s) + 1 /\ r # <<>>
  BY <1>1, <1>2
<1>4. \A i \in 1 .. Len(s) : IF i < q THEN Before(s[i], p) ELSE Before(p, s[i])
  BY <1>1, PlaceSplits, BeforeIsAnOrder
<1> HIDE DEF q, r
<1>5. Sorted(r)
  <2> SUFFICES ASSUME NEW i \in 1 .. Len(s) + 1, NEW j \in 1 .. Len(s) + 1, i < j
               PROVE  Before(r[i], r[j])
    BY <1>3 DEF Sorted
  <2>1. CASE j < q
    BY <1>1, <1>2, <2>1 DEF Sorted
  <2>2. CASE j = q
    <3>1. r[i] = s[i] /\ r[j] = p /\ i \in 1 .. Len(s) /\ i < q
      BY <1>1, <1>2, <2>2
    <3> QED BY <1>4, <3>1
  <2>3. CASE j > q /\ i < q
    <3>1. r[i] = s[i] /\ r[j] = s[j - 1] /\ i \in 1 .. Len(s) /\ j - 1 \in 1 .. Len(s) /\ i < j - 1
      BY <1>1, <1>2, <2>3
    <3> QED BY <1>1, <3>1 DEF Sorted
  <2>4. CASE j > q /\ i = q
    <3>1. r[i] = p /\ r[j] = s[j - 1] /\ j - 1 \in 1 .. Len(s) /\ ~(j - 1 < q)
      BY <1>1, <1>2, <2>4
    <3> QED BY <1>4, <3>1
  <2>5. CASE i > q
    <3>1. r[i] = s[i - 1] /\ r[j] = s[j - 1] /\ i - 1 \in 1 .. Len(s)
          /\ j - 1 \in 1 .. Len(s) /\ i - 1 < j - 1
      BY <1>1, <1>2, <2>5
    <3> QED BY <1>1, <3>1 DEF Sorted
  <2> QED BY <1>1, <2>1, <2>2, <2>3, <2>4, <2>5
<1>6. Pairs(r) = Pairs(s) \cup {p}
  <2>1. ASSUME NEW i \in 1 .. Len(s)
        PROVE  s[i] \in Pairs(r)
    <3>1. CASE i < q
      BY <1>1, <1>2, <1>3, <3>1 DEF Pairs
    <3>2. CASE ~(i < q)
      <4>1. i + 1 \in 1 .. Len(s) + 1 /\ r[i + 1] = s[i]
        BY <1>1, <1>2, <3>2
      <4> QED BY <1>3, <4>1 DEF Pairs
    <3> QED BY <3>1, <3>2
  <2>2. p \in Pairs(r)
    BY <1>1, <1>2, <1>3 DEF Pairs
  <2>3. ASSUME NEW i \in 1 .. Len(s) + 1
        PROVE  r[i] \in Pairs(s) \cup {p}
    <3>1. r[i] = p \/ \E j \in 1 .. Len(s) : r[i] = s[j]
      BY <1>1, <1>2
    <3> QED BY <1>1, <3>1 DEF Pairs
  <2> QED BY <1>1, <1>3, <2>1, <2>2, <2>3 DEF Pairs
<1> QED BY <1>2, <1>3, <1>5, <1>6 DEF q, r

(* del of the entry bisection finds. *)
LEMMA DeleteSorted ==
    ASSUME NEW s \in Seq(Pair), Sorted(s), NEW p \in Pairs(s)
    PROVE  LET r == SX!RemoveAt(s, Place(s, p))
           IN  r \in Seq(Pair) /\ Sorted(r) /\ Pairs(r) = Pairs(s) \ {p}
<1> DEFINE q == Place(s, p)
           r == SX!RemoveAt(s, q)
<1>1. /\ Len(s) \in Nat /\ DOMAIN s = 1 .. Len(s) /\ p \in Pair
      /\ \A i \in 1 .. Len(s) : s[i] \in Pair
  BY DEF Pairs
<1>2. /\ q \in 1 .. Len(s)
      /\ \A i \in 1 .. Len(s) : s[i] = p <=> i = q
  BY <1>1, PlaceSplits DEF Pairs
<1>3. /\ r \in Seq(Pair) /\ Len(r) = Len(s) - 1
      /\ \A i \in 1 .. Len(s) - 1 : r[i] = IF i < q THEN s[i] ELSE s[i + 1]
  BY <1>2, RemoveProperties
<1> HIDE DEF q, r
<1>4. DOMAIN r = 1 .. Len(s) - 1
  BY <1>1, <1>3
<1>5. Sorted(r)
  <2> SUFFICES ASSUME NEW i \in 1 .. Len(s) - 1, NEW j \in 1 .. Len(s) - 1, i < j
               PROVE  Before(r[i], r[j])
    BY <1>4 DEF Sorted
  <2>1. PICK a, b \in 1 .. Len(s) : r[i] = s[a] /\ r[j] = s[b] /\ a < b
    BY <1>1, <1>2, <1>3
  <2> QED BY <1>1, <2>1 DEF Sorted
<1>6. Pairs(r) = Pairs(s) \ {p}
  <2>1. ASSUME NEW i \in 1 .. Len(s), i # q
        PROVE  s[i] \in Pairs(r)
    <3>1. CASE i < q
      BY <1>1, <1>2, <1>3, <1>4, <3>1 DEF Pairs
    <3>2. CASE ~(i < q)
      <4>1. i - 1 \in 1 .. Len(s) - 1 /\ r[i - 1] = s[i]
        BY <1>1, <1>2, <1>3, <2>1, <3>2
      <4> QED BY <1>4, <4>1 DEF Pairs
    <3> QED BY <3>1, <3>2
  <2>2. ASSUME NEW i \in 1 .. Len(s) - 1
        PROVE  r[i] \in Pairs(s) \ {p}
    <3>1. PICK j \in 1 .. Len(s) : r[i] = s[j] /\ j # q
      BY <1>1, <1>2, <1>3
    <3> QED BY <1>1, <1>2, <3>1 DEF Pairs
  <2> QED BY <1>1, <1>2, <1>4, <2>1, <2>2 DEF Pairs
<1> QED BY <1>3, <1>5, <1>6 DEF q, r

LEMMA PickSorted ==
    ASSUME NEW s \in Seq(Pair), Sorted(s), NEW I \in SUBSET DOMAIN s
    PROVE  /\ Pick(s, I) \in Seq(Pair) /\ Sorted(Pick(s, I))
           /\ Pairs(Pick(s, I)) = {s[i] : i \in I}
           /\ Pick(s, I) = <<>> <=> I = {}
<1> DEFINE r == Pick(s, I)
<1>1. r \in Seq(Pair) /\ (r = <<>> <=> I = {}) /\ Selects(r, s, I)
  BY PickProperties
<1> HIDE DEF r
<1>2. PICK pos \in [1 .. Len(r) -> I] :
        /\ \A a \in 1 .. Len(r) : r[a] = s[pos[a]]
        /\ \A a, b \in 1 .. Len(r) : a < b => pos[a] < pos[b]
        /\ \A i \in I : \E a \in 1 .. Len(r) : pos[a] = i
  BY <1>1 DEF Selects
<1>3. DOMAIN r = 1 .. Len(r)
  BY <1>1
<1>4. Sorted(r)
  BY <1>2, <1>3 DEF Sorted
<1>5. Pairs(r) = {s[i] : i \in I}
  BY <1>2, <1>3 DEF Pairs
<1> QED BY <1>1, <1>4, <1>5 DEF r

ZSets == [kind: {"zset"}, scores: [Member -> Int \cup {Absent}], sorted: Seq(Pair)]

(* A sorted set as class ZSet keeps it. *)
Whole(z) == z \in ZSets /\ Agrees(z)

LEMMA ZSetParts ==
    ASSUME NEW scores \in [Member -> Int \cup {Absent}], NEW sorted \in Seq(Pair)
    PROVE  /\ ZSet(scores, sorted) \in ZSets
           /\ ZSet(scores, sorted).scores = scores /\ ZSet(scores, sorted).sorted = sorted
BY DEF ZSet, ZSets

LEMMA EntriesAndScores ==
    ASSUME NEW z, Whole(z)
    PROVE  /\ z.sorted \in Seq(Pair) /\ Sorted(z.sorted) /\ Pairs(z.sorted) \subseteq Pair
           /\ \A m \in Member : z.scores[m] \in Int \cup {Absent}
           /\ \A m \in Member, x \in Int : <<x, m>> \in Pairs(z.sorted) <=> z.scores[m] = x
           /\ \A p \in Pairs(z.sorted) : p[2] \in Member /\ p = <<z.scores[p[2]], p[2]>>
                                         /\ z.scores[p[2]] # Absent
           /\ \A i \in DOMAIN z.sorted : z.sorted[i] \in Pairs(z.sorted)
<1>1. /\ z.sorted \in Seq(Pair) /\ Sorted(z.sorted) /\ Pairs(z.sorted) = Scored(z.scores)
      /\ \A m \in Member : z.scores[m] \in Int \cup {Absent}
      /\ Absent \notin Int
  BY ContainersAssumption DEF Whole, Agrees, ZSets
<1>2. Pairs(z.sorted) \subseteq Pair
  BY <1>1 DEF Pairs
<1>3. ASSUME NEW m \in Member, NEW x \in Int
      PROVE  <<x, m>> \in Pairs(z.sorted) <=> z.scores[m] = x
  BY <1>1 DEF Scored, Held
<1>4. ASSUME NEW p \in Pairs(z.sorted)
      PROVE  p[2] \in Member /\ p = <<z.scores[p[2]], p[2]>> /\ z.scores[p[2]] # Absent
  <2>1. PICK m \in Held(z.scores) : p = <<z.scores[m], m>>
    BY <1>1 DEF Scored
  <2> QED BY <2>1 DEF Held
<1>5. \A i \in DOMAIN z.sorted : z.sorted[i] \in Pairs(z.sorted)
  BY DEF Pairs
<1> QED BY <1>1, <1>2, <1>3, <1>4, <1>5

LEMMA NewZSetWhole == Whole(NewZSet)
<1>1. NoScores \in [Member -> Int \cup {Absent}] /\ <<>> \in Seq(Pair)
  BY DEF NoScores
<1>2. NewZSet \in ZSets /\ NewZSet.scores = NoScores /\ NewZSet.sorted = <<>>
  BY <1>1, ZSetParts DEF NewZSet
<1>3. Scored(NoScores) = {} /\ Pairs(<<>>) = {} /\ Sorted(<<>>)
  BY DEF Scored, Held, NoScores, Pairs, Sorted
<1> QED BY <1>2, <1>3 DEF Whole, Agrees

(* ZSet.add *)
LEMMA AddWhole ==
    ASSUME NEW z, Whole(z), NEW m \in Member, NEW score \in Int
    PROVE  Whole(Add(z, m, score)) /\ Add(z, m, score).sorted # <<>>
<1> DEFINE old == z.scores[m]
           rest == IF old = Absent THEN z.sorted
                   ELSE SX!RemoveAt(z.sorted, Place(z.sorted, <<old, m>>))
           scores == [z.scores EXCEPT ![m] = score]
           sorted == SX!InsertAt(rest, Place(rest, <<score, m>>), <<score, m>>)
<1>1. /\ z.sorted \in Seq(Pair) /\ Sorted(z.sorted) /\ old \in Int \cup {Absent}
      /\ z.scores \in [Member -> Int \cup {Absent}] /\ score # Absent
      /\ Pairs(z.sorted) = Scored(z.scores)
  BY EntriesAndScores, ContainersAssumption DEF Whole, Agrees, ZSets
<1>2. CASE old = score
  <2>1. <<score, m>> \in Pairs(z.sorted)
    BY <1>2, EntriesAndScores
  <2>2. z.sorted # <<>>
    BY <2>1 DEF Pairs
  <2> QED BY <1>2, <2>2 DEF Add
<1>3. CASE old # score
  <2>1. rest \in Seq(Pair) /\ Sorted(rest) /\ Pairs(rest) = Pairs(z.sorted) \ {<<old, m>>}
    <3>1. CASE old = Absent
      <4>1. <<old, m>> \notin Pairs(z.sorted)
        BY <1>1, <3>1 DEF Scored, Held
      <4> QED BY <1>1, <3>1, <4>1
    <3>2. CASE old # Absent
      <4>1. <<old, m>> \in Pairs(z.sorted)
        BY <1>1, <3>2, EntriesAndScores
      <4> QED BY <1>1, <3>2, <4>1, DeleteSorted
    <3> QED BY <3>1, <3>2
  <2>2. <<score, m>> \in Pair /\ <<score, m>> \notin Pairs(rest)
    <3>1. <<score, m>> \notin Pairs(z.sorted)
      BY <1>3, EntriesAndScores
    <3> QED BY <2>1, <3>1 DEF Pair
  <2> HIDE DEF rest
  <2>3. /\ sorted \in Seq(Pair) /\ Sorted(sorted) /\ sorted # <<>>
        /\ Pairs(sorted) = (Pairs(z.sorted) \ {<<old, m>>}) \cup {<<score, m>>}
    BY <2>1, <2>2, InsortSorted
  <2>4. /\ scores \in [Member -> Int \cup {Absent}] /\ scores[m] = score
        /\ \A n \in Member : n # m => scores[n] = z.scores[n]
    BY <1>1
  <2> HIDE DEF scores, sorted
  <2>5. Scored(scores) = (Scored(z.scores) \ {<<old, m>>}) \cup {<<score, m>>}
    <3>1. \A n \in Member : n \in Held(scores) <=> n = m \/ n \in Held(z.scores)
      BY <1>1, <2>4 DEF Held
    <3>2. Held(scores) \subseteq Member /\ Held(z.scores) \subseteq Member
      BY DEF Held
    <3>3. ASSUME NEW n \in Held(scores)
          PROVE  <<scores[n], n>> \in (Scored(z.scores) \ {<<old, m>>}) \cup {<<score, m>>}
      BY <2>4, <3>1, <3>2 DEF Scored
    <3>4. ASSUME NEW n \in Held(z.scores), n # m
          PROVE  <<z.scores[n], n>> \in Scored(scores)
      BY <2>4, <3>1, <3>2, <3>4 DEF Scored
    <3>5. <<score, m>> \in Scored(scores)
      BY <2>4, <3>1 DEF Scored
    <3> QED BY <3>3, <3>4, <3>5 DEF Scored
  <2>6. ZSet(scores, sorted) \in ZSets /\ ZSet(scores, sorted).scores = scores
        /\ ZSet(scores, sorted).sorted = sorted
    BY <2>3, <2>4, ZSetParts
  <2>7. Whole(ZSet(scores, sorted)) /\ ZSet(scores, sorted).sorted # <<>>
    BY <1>1, <2>3, <2>5, <2>6 DEF Whole, Agrees
  <2>8. Add(z, m, score) = ZSet(scores, sorted)
    BY <1>3 DEF Add, scores, sorted, rest
  <2> QED BY <2>7, <2>8
<1> QED BY <1>2, <1>3

(* remove_rank, remove_score, remove_member *)
LEMMA RemoveAllWhole ==
    ASSUME NEW z, Whole(z), NEW I \in SUBSET DOMAIN z.sorted
    PROVE  Whole(RemoveAll(z, I))
<1> DEFINE kept == DOMAIN z.sorted \ I
           scores == [m \in Member |-> IF \E i \in I : z.sorted[i][2] = m THEN Absent
                                       ELSE z.scores[m]]
           sorted == Pick(z.sorted, kept)
<1>1. /\ z.sorted \in Seq(Pair) /\ Sorted(z.sorted) /\ Len(z.sorted) \in Nat
      /\ DOMAIN z.sorted = 1 .. Len(z.sorted)
      /\ z.scores \in [Member -> Int \cup {Absent}]
      /\ Pairs(z.sorted) = Scored(z.scores)
  BY EntriesAndScores DEF Whole, Agrees, ZSets
<1>2. sorted \in Seq(Pair) /\ Sorted(sorted) /\ Pairs(sorted) = {z.sorted[i] : i \in kept}
  BY <1>1, PickSorted
<1>3. scores \in [Member -> Int \cup {Absent}]
  BY <1>1
(* Two entries of one member are one entry. *)
<1>4. ASSUME NEW i \in DOMAIN z.sorted, NEW j \in DOMAIN z.sorted, z.sorted[i][2] = z.sorted[j][2]
      PROVE  i = j
  <2>1. z.sorted[i] = z.sorted[j] /\ z.sorted[i] \in Pair
    BY <1>4, EntriesAndScores
  <2>2. ~Before(z.sorted[i], z.sorted[j]) /\ ~Before(z.sorted[j], z.sorted[i])
    BY <2>1, BeforeIsAnOrder
  <2>3. i \in Int /\ j \in Int
    BY <1>1
  <2> QED BY <1>1, <2>2, <2>3 DEF Sorted
<1>5. Pairs(sorted) = Scored(scores)
  <2>1. ASSUME NEW i \in kept
        PROVE  z.sorted[i] \in Scored(scores)
    <3> DEFINE m == z.sorted[i][2]
    <3>1. m \in Member /\ z.sorted[i] = <<z.scores[m], m>> /\ z.scores[m] # Absent
      BY EntriesAndScores
    <3>2. ~\E j \in I : z.sorted[j][2] = m
      BY <1>4
    <3>3. scores[m] = z.scores[m]
      BY <3>1, <3>2
    <3> HIDE DEF m, scores
    <3> QED BY <3>1, <3>3 DEF Scored, Held
  <2>2. ASSUME NEW m \in Held(scores)
        PROVE  \E i \in kept : z.sorted[i] = <<scores[m], m>>
    <3>1. m \in Member /\ scores[m] = z.scores[m] /\ z.scores[m] # Absent
          /\ ~\E i \in I : z.sorted[i][2] = m
      BY DEF Held
    <3>2. <<z.scores[m], m>> \in Pairs(z.sorted)
      BY <1>1, <3>1 DEF Scored, Held
    <3>3. PICK i \in DOMAIN z.sorted : z.sorted[i] = <<z.scores[m], m>>
      BY <3>2 DEF Pairs
    <3>4. i \notin I
      BY <3>1, <3>3
    <3> QED BY <3>1, <3>3, <3>4
  <2> HIDE DEF scores, kept
  <2> QED BY <1>2, <2>1, <2>2 DEF Scored
<1> HIDE DEF scores, sorted
<1>6. Whole(ZSet(scores, sorted))
  BY <1>2, <1>3, <1>5, ZSetParts DEF Whole, Agrees
<1> QED BY <1>6 DEF RemoveAll, scores, sorted

(* remove() of some members: the entries it finds are those of the members.*)
LEMMA RemoveWhole ==
    ASSUME NEW z, Whole(z), NEW M \in SUBSET Member
    PROVE  Whole(Remove(z, M))
<1> DEFINE present == {m \in M : z.scores[m] # Absent}
           I == {Place(z.sorted, <<z.scores[m], m>>) : m \in present}
<1>1. /\ z.sorted \in Seq(Pair) /\ Sorted(z.sorted) /\ DOMAIN z.sorted = 1 .. Len(z.sorted)
      /\ z.scores \in [Member -> Int \cup {Absent}]
  BY EntriesAndScores DEF Whole, ZSets
<1>2. ASSUME NEW m \in present
      PROVE  /\ Place(z.sorted, <<z.scores[m], m>>) \in DOMAIN z.sorted
             /\ z.sorted[Place(z.sorted, <<z.scores[m], m>>)] = <<z.scores[m], m>>
  <2>1. z.scores[m] \in Int /\ m \in Member
    BY <1>1
  <2>2. <<z.scores[m], m>> \in Pairs(z.sorted) /\ <<z.scores[m], m>> \in Pair
    BY <2>1, EntriesAndScores DEF Pair
  <2>3. PICK i \in DOMAIN z.sorted : z.sorted[i] = <<z.scores[m], m>>
    BY <2>2 DEF Pairs
  <2>4. i = Place(z.sorted, <<z.scores[m], m>>)
    BY <1>1, <2>2, <2>3, PlaceSplits
  <2> QED BY <2>3, <2>4
<1>3. I \in SUBSET DOMAIN z.sorted
  BY <1>2
<1>4. \A m \in Member : (m \in M /\ z.scores[m] # Absent) <=> \E i \in I : z.sorted[i][2] = m
  <2>1. ASSUME NEW m \in Member, m \in M, z.scores[m] # Absent
        PROVE  \E i \in I : z.sorted[i][2] = m
    <3> DEFINE i == Place(z.sorted, <<z.scores[m], m>>)
    <3>1. m \in present /\ i \in I
      BY <2>1
    <3>2. z.sorted[i] = <<z.scores[m], m>>
      BY <1>2, <3>1
    <3> HIDE DEF i, I
    <3>3. z.sorted[i][2] = m
      BY <3>2
    <3> QED BY <3>1, <3>3
  <2>2. ASSUME NEW i \in I
        PROVE  z.sorted[i][2] \in present
    <3>1. PICK m \in present : i = Place(z.sorted, <<z.scores[m], m>>)
      OBVIOUS
    <3> QED BY <1>2, <3>1
  <2> QED BY <2>1, <2>2
<1> HIDE DEF I, present
<1>5. [m \in Member |-> IF m \in M THEN Absent ELSE z.scores[m]]
        = [m \in Member |-> IF \E i \in I : z.sorted[i][2] = m THEN Absent ELSE z.scores[m]]
  BY <1>4
<1>6. Remove(z, M) = RemoveAll(z, I)
  BY <1>5 DEF Remove, RemoveAll, I, present
<1> QED BY <1>3, <1>6, RemoveAllWhole

-----------------------------------------------------------------------------
(* Sorted sets made of a finite set of pairs, as the aggregates make them. *)

LEMMA InOrderSorted ==
    ASSUME NEW P \in SUBSET Pair, IsFiniteSet(P)
    PROVE  /\ InOrder(P) \in Seq(Pair) /\ Sorted(InOrder(P)) /\ Pairs(InOrder(P)) = P
           /\ InOrder(P) = <<>> => P = {}
<1> DEFINE n == Cardinality(P)
           below(p) == {q \in P : Before(q, p)}
           rank == [p \in P |-> Cardinality(below(p)) + 1]
           r == InOrder(P)
<1>1. n \in Nat
  BY FS_CardinalityType
<1>2. \A p \in P : IsFiniteSet(below(p)) /\ Cardinality(below(p)) \in 0 .. n - 1
  <2> TAKE p \in P
  <2>1. below(p) \in SUBSET P /\ below(p) # P
    BY BeforeIsAnOrder
  <2>2. IsFiniteSet(below(p)) /\ Cardinality(below(p)) <= n /\ Cardinality(below(p)) # n
    BY <2>1, FS_Subset
  <2> HIDE DEF below
  <2> QED BY <1>1, <2>2, FS_CardinalityType
<1>3. \A p, q \in P : Before(p, q) => rank[p] < rank[q]
  <2> TAKE p, q \in P
  <2> HAVE Before(p, q)
  <2>1. below(p) \in SUBSET below(q) /\ p \in below(q) /\ p \notin below(p)
    BY BeforeIsAnOrder
  <2>2. Cardinality(below(p)) <= Cardinality(below(q))
        /\ Cardinality(below(p)) # Cardinality(below(q))
    BY <1>2, <2>1, FS_Subset
  <2> HIDE DEF below, n
  <2>3. Cardinality(below(p)) \in Int /\ Cardinality(below(q)) \in Int
    BY <1>1, <1>2
  <2> QED BY <2>2, <2>3
<1>4. rank \in [P -> 1 .. n]
  <2> HIDE DEF below, n
  <2> QED BY <1>1, <1>2
<1> HIDE DEF rank
<1>5. \A p, q \in P : rank[p] = rank[q] => p = q
  BY <1>1, <1>3, <1>4, BeforeIsAnOrder
<1>6. \A a \in 1 .. n : \E p \in P : rank[p] = a
  BY <1>4, <1>5, NumberingIsOnto
<1>7. ASSUME NEW a \in 1 .. n
      PROVE  r[a] \in P /\ rank[r[a]] = a
  <2>1. r[a] = CHOOSE p \in P : Cardinality(below(p)) = a - 1
    BY DEF InOrder
  <2>2. PICK p \in P : rank[p] = a
    BY <1>6
  <2>3. \A q \in P : Cardinality(below(q)) \in Int /\ rank[q] = Cardinality(below(q)) + 1
    BY <1>1, <1>2 DEF rank
  <2> HIDE DEF below, r
  <2>4. Cardinality(below(p)) = a - 1
    BY <2>2, <2>3
  <2>5. r[a] \in P /\ Cardinality(below(r[a])) = a - 1
    BY <2>1, <2>4
  <2> QED BY <2>3, <2>5
<1>8. r \in Seq(Pair) /\ Len(r) = n /\ DOMAIN r = 1 .. n
  <2>0. r = [a \in 1 .. n |-> CHOOSE p \in P : Cardinality(below(p)) = a - 1]
    BY DEF InOrder
  <2>1. r = [a \in 1 .. n |-> r[a]]
    <3> HIDE DEF r, below, n
    <3> QED BY <2>0
  <2>2. \A a \in 1 .. n : r[a] \in Pair
    BY <1>7
  <2> HIDE DEF r, n
  <2> QED BY <1>1, <2>1, <2>2
<1> HIDE DEF r, n
<1>9. Sorted(r)
  <2> SUFFICES ASSUME NEW a \in 1 .. n, NEW b \in 1 .. n, a < b
               PROVE  Before(r[a], r[b])
    BY <1>8 DEF Sorted
  <2>1. ~Before(r[b], r[a]) /\ r[a] # r[b]
    BY <1>1, <1>3, <1>7
  <2> QED BY <1>7, <2>1, BeforeIsAnOrder
<1>10. Pairs(r) = P
  <2>1. ASSUME NEW p \in P
        PROVE  \E a \in 1 .. n : r[a] = p
    <3>1. rank[p] \in 1 .. n
      BY <1>4
    <3>2. r[rank[p]] = p
      BY <1>5, <1>7, <3>1
    <3> QED BY <3>1, <3>2
  <2> QED BY <1>7, <1>8, <2>1 DEF Pairs
<1>11. r = <<>> => P = {}
  BY <1>10 DEF Pairs
<1> QED BY <1>8, <1>9, <1>10, <1>11 DEF r

(* The members of a sorted set are as many as its entries: finitely many. *)
LEMMA HeldFinite ==
    ASSUME NEW z, Whole(z)
    PROVE  IsFiniteSet(Held(z.scores))
<1> DEFINE s == z.sorted
           f == [i \in 1 .. Len(s) |-> s[i][2]]
<1>1. Len(s) \in Nat /\ DOMAIN s = 1 .. Len(s) /\ Pairs(s) = Scored(z.scores)
  <2>1. s \in Seq(Pair)
    BY EntriesAndScores
  <2> QED BY <2>1 DEF Whole, Agrees
<1>2. ASSUME NEW i \in 1 .. Len(s)
      PROVE  s[i][2] \in Held(z.scores)
  BY <1>1, EntriesAndScores DEF Held
<1>3. ASSUME NEW m \in Held(z.scores)
      PROVE  \E i \in 1 .. Len(s) : s[i][2] = m
  <2>1. <<z.scores[m], m>> \in Pairs(s)
    BY <1>1 DEF Scored
  <2>2. PICK i \in 1 .. Len(s) : s[i] = <<z.scores[m], m>>
    BY <1>1, <2>1 DEF Pairs
  <2> QED BY <2>2
<1>4. f \in Surjection(1 .. Len(s), Held(z.scores))
  <2> HIDE DEF s
  <2> QED BY <1>2, <1>3 DEF Surjection
<1>5. IsFiniteSet(1 .. Len(s))
  BY <1>1, Interval
<1> QED BY <1>4, <1>5, FS_Surjection

(* A dict of finitely many scores and the list sorted from it. *)
LEMMA AggregateWhole ==
    ASSUME NEW scores \in [Member -> Int \cup {Absent}], IsFiniteSet(Held(scores))
    PROVE  /\ Whole(ZSet(scores, InOrder(Scored(scores))))
           /\ ZSet(scores, InOrder(Scored(scores))).sorted = InOrder(Scored(scores))
<1> DEFINE f == [m \in Held(scores) |-> <<scores[m], m>>]
<1>1. f \in Surjection(Held(scores), Scored(scores))
  BY DEF Surjection, Scored
<1>2. IsFiniteSet(Scored(scores))
  BY <1>1, FS_Surjection
<1>3. Scored(scores) \subseteq Pair
  BY ContainersAssumption DEF Scored, Held, Pair
<1>4. /\ InOrder(Scored(scores)) \in Seq(Pair) /\ Sorted(InOrder(Scored(scores)))
      /\ Pairs(InOrder(Scored(scores))) = Scored(scores)
  BY <1>2, <1>3, InOrderSorted
<1> QED BY <1>4, ZSetParts DEF Whole, Agrees

-----------------------------------------------------------------------------
(* The sorted list follows from the scores, so the order in which members  *)
(* are removed or added does not matter.                                   *)

(* Where p belongs depends only on the entries, not on their positions. *)
LEMMA PlaceCounts ==
    ASSUME NEW s \in Seq(Pair), Sorted(s), NEW p \in Pair
    PROVE  Place(s, p) = 1 + Cardinality({q \in Pairs(s) : Before(q, p)})
<1> DEFINE T == {i \in DOMAIN s : Before(s[i], p)}
           Q == {q \in Pairs(s) : Before(q, p)}
           f == [i \in T |-> s[i]]
<1>1. Len(s) \in Nat /\ DOMAIN s = 1 .. Len(s) /\ \A i \in 1 .. Len(s) : s[i] \in Pair
  OBVIOUS
<1>2. T \in SUBSET (1 .. Len(s)) /\ IsFiniteSet(T)
  BY <1>1, Interval, FS_Subset
<1>3. f \in [T -> Q] /\ \A q \in Q : \E i \in T : f[i] = q
  BY DEF Pairs
<1>4. ASSUME NEW i \in T, NEW j \in T, f[i] = f[j]
      PROVE  i = j
  <2>1. s[i] = s[j] /\ s[i] \in Pair /\ i \in 1 .. Len(s) /\ j \in 1 .. Len(s)
    BY <1>1, <1>2, <1>4
  <2>2. i = Place(s, s[i]) /\ j = Place(s, s[i])
    BY <2>1, PlaceSplits
  <2> QED BY <2>2
<1> HIDE DEF f, T, Q
<1>5. f \in Bijection(T, Q)
  BY <1>3, <1>4 DEF Bijection, Injection, Surjection, IsInjective
<1>6. ExistsBijection(T, Q)
  BY <1>5 DEF ExistsBijection
<1>7. Cardinality(T) = Cardinality(Q)
  BY <1>2, <1>6, FS_Bijection
<1> QED BY <1>7 DEF Place, T, Q

(* Each entry of s stands at the same position of t. *)
LEMMA SameEntriesAgree ==
    ASSUME NEW s \in Seq(Pair), NEW t \in Seq(Pair), Sorted(s), Sorted(t), Pairs(s) = Pairs(t),
           NEW i \in 1 .. Len(s)
    PROVE  i \in 1 .. Len(t) /\ t[i] = s[i]
<1>1. s[i] \in Pair /\ s[i] \in Pairs(t) /\ i = Place(s, s[i])
  <2>1. s[i] \in Pair
    OBVIOUS
  <2>2. s[i] \in Pairs(s)
    BY DEF Pairs
  <2> QED BY <2>1, <2>2, PlaceSplits
<1>2. PICK j \in 1 .. Len(t) : t[j] = s[i]
  BY <1>1 DEF Pairs
<1>3. j = Place(t, s[i])
  BY <1>1, <1>2, PlaceSplits
<1>4. Place(s, s[i]) = Place(t, s[i])
  BY <1>1, PlaceCounts
<1> QED BY <1>1, <1>2, <1>3, <1>4

LEMMA SortedDetermined ==
    ASSUME NEW s \in Seq(Pair), NEW t \in Seq(Pair), Sorted(s), Sorted(t), Pairs(s) = Pairs(t)
    PROVE  s = t
<1>1. \A i \in 1 .. Len(s) : i \in 1 .. Len(t) /\ t[i] = s[i]
  BY SameEntriesAgree
<1>2. \A i \in 1 .. Len(t) : i \in 1 .. Len(s)
  BY SameEntriesAgree
<1>3. Len(s) \in Nat /\ Len(t) \in Nat
  OBVIOUS
<1>4. Len(s) = Len(t)
  <2>1. ~(Len(s) > Len(t))
    BY <1>1, <1>3
  <2>2. ~(Len(t) > Len(s))
    BY <1>2, <1>3
  <2> QED BY <1>3, <2>1, <2>2
<1> QED BY <1>1, <1>3, <1>4

LEMMA ScoresDetermine ==
    ASSUME NEW y, Whole(y), NEW z, Whole(z), y.scores = z.scores
    PROVE  y = z
<1>1. y \in ZSets /\ z \in ZSets /\ Sorted(y.sorted) /\ Sorted(z.sorted)
      /\ Pairs(y.sorted) = Pairs(z.sorted)
  BY DEF Whole, Agrees
<1>2. y.sorted \in Seq(Pair) /\ z.sorted \in Seq(Pair)
  BY <1>1 DEF ZSets
<1>3. y.sorted = z.sorted
  BY <1>1, <1>2, SortedDetermined
<1> QED BY <1>1, <1>3 DEF ZSets

(* ZSet.remove of one member. *)
RemoveOne(z, m) ==
    IF z.scores[m] = Absent THEN z
    ELSE ZSet([z.scores EXCEPT ![m] = Absent],
              SX!RemoveAt(z.sorted, Place(z.sorted, <<z.scores[m], m>>)))

LEMMA RemoveOneWhole ==
    ASSUME NEW z, Whole(z), NEW m \in Member
    PROVE  /\ Whole(RemoveOne(z, m))
           /\ RemoveOne(z, m).scores = [z.scores EXCEPT ![m] = Absent]
<1>1. /\ z.sorted \in Seq(Pair) /\ Sorted(z.sorted)
      /\ z.scores \in [Member -> Int \cup {Absent}] /\ Pairs(z.sorted) = Scored(z.scores)
  BY DEF Whole, Agrees, ZSets
<1>2. CASE z.scores[m] = Absent
  BY <1>1, <1>2 DEF RemoveOne
<1>3. CASE z.scores[m] # Absent
  <2> DEFINE p == <<z.scores[m], m>>
             scores == [z.scores EXCEPT ![m] = Absent]
             sorted == SX!RemoveAt(z.sorted, Place(z.sorted, p))
  <2>1. p \in Pairs(z.sorted)
    BY <1>1, <1>3 DEF Scored, Held
  <2>2. sorted \in Seq(Pair) /\ Sorted(sorted) /\ Pairs(sorted) = Pairs(z.sorted) \ {p}
    BY <1>1, <2>1, DeleteSorted
  <2>3. /\ scores \in [Member -> Int \cup {Absent}] /\ scores[m] = Absent
        /\ \A n \in Member : n # m => scores[n] = z.scores[n]
    BY <1>1
  <2>4. RemoveOne(z, m) = ZSet(scores, sorted)
    BY <1>3 DEF RemoveOne
  <2> HIDE DEF scores, sorted
  <2>5. Held(scores) = Held(z.scores) \ {m} /\ Held(z.scores) \subseteq Member
    BY <2>3 DEF Held
  <2>6. Scored(scores) = Scored(z.scores) \ {p}
    BY <2>3, <2>5 DEF Scored
  <2>7. /\ ZSet(scores, sorted) \in ZSets /\ ZSet(scores, sorted).scores = scores
        /\ ZSet(scores, sorted).sorted = sorted
    BY <2>2, <2>3, ZSetParts
  <2>8. Whole(ZSet(scores, sorted))
    BY <1>1, <2>2, <2>6, <2>7 DEF Whole, Agrees
  <2> QED BY <2>4, <2>7, <2>8 DEF scores
<1> QED BY <1>2, <1>3

(* ZREM removes its members one by one; Remove, which takes them at once,  *)
(* is what any order of doing so comes to.                                 *)
THEOREM RemovalsInTurn ==
    ASSUME NEW z, Whole(z), NEW M \in SUBSET Member, NEW m \in Member
    PROVE  /\ Remove(z, {}) = z
           /\ Remove(z, M \cup {m}) = RemoveOne(Remove(z, M), m)
<1>1. z.scores \in [Member -> Int \cup {Absent}]
  BY DEF Whole, ZSets
<1>2. ASSUME NEW N \in SUBSET Member
      PROVE  /\ Whole(Remove(z, N))
             /\ Remove(z, N).scores = [n \in Member |-> IF n \in N THEN Absent ELSE z.scores[n]]
  BY RemoveWhole DEF Remove, ZSet
<1>3. Remove(z, {}) = z
  <2>1. {} \in SUBSET Member
    OBVIOUS
  <2>2. Whole(Remove(z, {})) /\ Remove(z, {}).scores = z.scores
    BY <1>1, <1>2, <2>1
  <2> QED BY <2>2, ScoresDetermine
<1>4. Remove(z, M \cup {m}) = RemoveOne(Remove(z, M), m)
  <2>1. M \cup {m} \in SUBSET Member
    OBVIOUS
  <2>2. Whole(Remove(z, M)) /\ Whole(Remove(z, M \cup {m}))
    BY <1>2, <2>1
  <2>3. Whole(RemoveOne(Remove(z, M), m))
        /\ RemoveOne(Remove(z, M), m).scores = [Remove(z, M).scores EXCEPT ![m] = Absent]
    BY <2>2, RemoveOneWhole
  <2>4. Remove(z, M \cup {m}).scores = [Remove(z, M).scores EXCEPT ![m] = Absent]
    <3>1. /\ Remove(z, M).scores = [n \in Member |-> IF n \in M THEN Absent ELSE z.scores[n]]
          /\ Remove(z, M \cup {m}).scores
               = [n \in Member |-> IF n \in M \cup {m} THEN Absent ELSE z.scores[n]]
      BY <1>2, <2>1
    <3> QED BY <3>1
  <2> QED BY <2>2, <2>3, <2>4, ScoresDetermine
<1> QED BY <1>3, <1>4

(* The aggregates add their pairs to a new ZSet one by one; sorting them   *)
(* all at once is what any order of doing so comes to.                     *)
THEOREM AggregatesInTurn ==
    ASSUME NEW scores \in [Member -> Int \cup {Absent}], IsFiniteSet(Held(scores)),
           NEW m \in Member, NEW x \in Int
    PROVE  LET Sort(f) == ZSet(f, InOrder(Scored(f)))
           IN  /\ Sort(NoScores) = NewZSet
               /\ Sort([scores EXCEPT ![m] = x]) = Add(Sort(scores), m, x)
<1> DEFINE more == [scores EXCEPT ![m] = x]
<1>1. /\ more \in [Member -> Int \cup {Absent}] /\ IsFiniteSet(Held(more))
  <2>1. more \in [Member -> Int \cup {Absent}]
    OBVIOUS
  <2>2. Held(more) \in SUBSET (Held(scores) \cup {m})
    BY DEF Held
  <2>3. IsFiniteSet(Held(scores) \cup {m})
    BY FS_AddElement
  <2> QED BY <2>1, <2>2, <2>3, FS_Subset
<1>2. NoScores \in [Member -> Int \cup {Absent}] /\ IsFiniteSet(Held(NoScores))
  <2>1. Held(NoScores) = {}
    BY DEF Held, NoScores
  <2> QED BY <2>1, FS_EmptySet DEF NoScores
<1>3. ASSUME NEW f \in [Member -> Int \cup {Absent}], IsFiniteSet(Held(f))
      PROVE  /\ Whole(ZSet(f, InOrder(Scored(f))))
             /\ ZSet(f, InOrder(Scored(f))).scores = f
  BY <1>3, AggregateWhole DEF ZSet
<1>4. ZSet(NoScores, InOrder(Scored(NoScores))) = NewZSet
  <2>1. Whole(NewZSet) /\ NewZSet.scores = NoScores
    BY NewZSetWhole DEF NewZSet, ZSet
  <2> QED BY <1>2, <1>3, <2>1, ScoresDetermine
<1>5. ASSUME NEW z, Whole(z)
      PROVE  Add(z, m, x).scores = [z.scores EXCEPT ![m] = x]
  <2>1. z.scores \in [Member -> Int \cup {Absent}]
    BY <1>5 DEF Whole, ZSets
  <2> QED BY <2>1 DEF Add, ZSet
<1>6. ZSet(more, InOrder(Scored(more))) = Add(ZSet(scores, InOrder(Scored(scores))), m, x)
  <2>1. /\ Whole(ZSet(more, InOrder(Scored(more))))
        /\ ZSet(more, InOrder(Scored(more))).scores = more
    BY <1>1, <1>3
  <2>2. /\ Whole(ZSet(scores, InOrder(Scored(scores))))
        /\ ZSet(scores, InOrder(Scored(scores))).scores = scores
    BY <1>3
  <2> DEFINE z == ZSet(scores, InOrder(Scored(scores)))
             y == ZSet(more, InOrder(Scored(more)))
  <2> HIDE DEF z, y
  <2>3. Whole(Add(z, m, x)) /\ Add(z, m, x).scores = more
    BY <1>5, <2>2, AddWhole DEF z
  <2>4. Whole(y) /\ y.scores = more
    BY <2>1 DEF y
  <2>5. y = Add(z, m, x)
    BY <2>3, <2>4, ScoresDetermine
  <2> QED BY <2>5 DEF y, z
<1> QED BY <1>4, <1>6

-----------------------------------------------------------------------------
(* Stores that a command may pass through.                                 *)

Stores == [storage: [Key -> Stored \cup {Absent}], generations: [Key -> Nat],
           epoch: Nat, events: SUBSET (Key \X EventName)]

(* What CollectionsSound says of one container. *)
Sound(c) ==
    /\ c.kind = "bitmap" \/ ~Empty(c)
    /\ c.kind = "zset" => Agrees(c)

(* Store t is a lawful successor of s for one key: what appears or changes *)
(* is paid with a generation.                                              *)
Owed(s, t, k) ==
    \/ t.generations[k] > s.generations[k]
    \/ /\ t.generations[k] = s.generations[k]
       /\ Observed(t, k, clock) \in {Observed(s, k, clock), Absent}

(* The same, but for the zero bit set on a missing key. *)
Allowed(s, t, k) ==
    \/ Owed(s, t, k)
    \/ /\ t.generations[k] = s.generations[k]
       /\ Observed(s, k, clock) = Absent /\ Observed(t, k, clock) = ZeroBit

(* Every container is sound, and every change since d is allowed.          *)
Fair(s) ==
    /\ s \in Stores /\ s.epoch = d.epoch
    /\ \A k \in Key : s.storage[k] # Absent => Sound(s.storage[k].value)
    /\ \A k \in Key : Allowed(d, s, k)

Inv == TypeOK /\ CollectionsSound

LEMMA InvFair ==
    ASSUME Inv
    PROVE  Fair(d) /\ clock \in Int
<1>1. d \in Stores /\ clock \in Int
  BY ContainersAssumption DEF Inv, TypeOK, Stores
<1>2. ASSUME NEW k \in Key, d.storage[k] # Absent
      PROVE  Sound(d.storage[k].value)
  <2>1. ~Empty(d.storage[k].value) \/ d.storage[k].value.kind = "bitmap"
    BY <1>2 DEF Inv, CollectionsSound, NoEmptyCollections
  <2>2. d.storage[k].value.kind = "zset" => Agrees(d.storage[k].value)
    BY <1>2 DEF Inv, CollectionsSound, IndexesAgree, Agrees, Sorted, Pairs, Scored, Held
  <2> QED BY <2>1, <2>2 DEF Sound
<1>3. \A k \in Key : Allowed(d, d, k)
  BY DEF Allowed, Owed
<1> QED BY <1>1, <1>2, <1>3 DEF Fair

(* A store that differs in one key. *)
LEMMA ChangeFair ==
    ASSUME NEW s, Fair(s), Inv, NEW k \in Key, NEW t \in Stores, t.epoch = s.epoch,
           \A j \in Key : j # k => t.storage[j] = s.storage[j]
                                   /\ t.generations[j] = s.generations[j],
           t.storage[k] # Absent => Sound(t.storage[k].value),
           Owed(s, t, k) \/ Allowed(d, t, k)
    PROVE  Fair(t)
<1>1. /\ s \in Stores /\ s.epoch = d.epoch /\ d \in Stores
      /\ \A j \in Key : s.storage[j] # Absent => Sound(s.storage[j].value)
      /\ \A j \in Key : Allowed(d, s, j)
  BY InvFair DEF Fair
<1>2. ASSUME NEW j \in Key
      PROVE  (t.storage[j] # Absent => Sound(t.storage[j].value)) /\ Allowed(d, t, j)
  <2>1. CASE j # k
    <3>1. t.storage[j] = s.storage[j] /\ t.generations[j] = s.generations[j]
      BY <2>1
    <3>2. Observed(t, j, clock) = Observed(s, j, clock)
      BY <3>1 DEF Observed, Contains
    <3> QED BY <1>1, <3>1, <3>2 DEF Allowed, Owed
  <2>2. CASE j = k
    <3>1. d.generations[k] \in Nat /\ s.generations[k] \in Nat /\ t.generations[k] \in Nat
      BY <1>1 DEF Stores
    <3>2. Allowed(d, s, k)
      BY <1>1
    <3> QED BY <1>1, <2>2, <3>1, <3>2 DEF Allowed, Owed
  <2> QED BY <2>1, <2>2
<1> QED BY <1>1, <1>2 DEF Fair

(* Deleting without a touch; the purge of a corpse. *)
LEMMA DropFair ==
    ASSUME NEW s, Fair(s), Inv, NEW k \in Key
    PROVE  Fair(Drop(s, k)) /\ Drop(s, k).storage[k] = Absent
<1> DEFINE t == Drop(s, k)
<1>1. s \in Stores
  BY DEF Fair
<1>2. /\ t \in Stores /\ t.epoch = s.epoch /\ t.generations = s.generations
      /\ \A j \in Key : t.storage[j] = IF j = k THEN Absent ELSE s.storage[j]
  BY <1>1 DEF Stores, Drop
<1> HIDE DEF t
<1>3. Owed(s, t, k)
  BY <1>2 DEF Owed, Observed, Contains, Live
<1>4. Fair(t)
  BY <1>2, <1>3, ChangeFair
<1> QED BY <1>2, <1>4 DEF t

LEMMA ReapFair ==
    ASSUME NEW s, Fair(s), Inv, NEW k \in Key
    PROVE  /\ Fair(Reap(s, k, clock))
           /\ \A j \in Key : j # k => Reap(s, k, clock).storage[j] = s.storage[j]
           /\ ~Missing(Reap(s, k, clock), k) => Reap(s, k, clock).storage[k] # Absent
<1>1. s \in Stores
  BY DEF Fair
<1>2. CASE Corpse(s, k, clock)
  <2> DEFINE t == Drop(s, k)
             u == Notify(t, k, "expired")
  <2>1. Fair(t) /\ t \in Stores /\ t.storage[k] = Absent
        /\ \A j \in Key : j # k => t.storage[j] = s.storage[j]
    <3>1. \A j \in Key : j # k => t.storage[j] = s.storage[j]
      BY <1>1 DEF Drop, Stores
    <3> QED BY <3>1, DropFair DEF Fair
  <2> HIDE DEF t
  <2>2. u \in Stores /\ u.epoch = t.epoch /\ u.generations = t.generations
        /\ u.storage = t.storage
    BY <2>1 DEF Stores, Notify, EventName
  <2> HIDE DEF u
  <2>3. Owed(t, u, k) /\ (u.storage[k] # Absent => Sound(u.storage[k].value))
    BY <2>1, <2>2 DEF Owed, Observed, Contains
  <2>4. Fair(u)
    BY <2>1, <2>2, <2>3, ChangeFair
  <2>5. Missing(u, k)
    BY <2>1, <2>2 DEF Missing, Read, Contains, Live
  <2>6. u = Reap(s, k, clock)
    BY <1>2 DEF Reap, PurgeKey, u, t
  <2> QED BY <2>1, <2>2, <2>4, <2>5, <2>6
<1>3. CASE ~Corpse(s, k, clock)
  <2>1. Reap(s, k, clock) = s
    BY <1>3 DEF Reap
  <2> QED BY <2>1 DEF Missing, Read, Contains, Live
<1> QED BY <1>2, <1>3

(* What a command finds under its key. *)
LEMMA FetchedSound ==
    ASSUME NEW s, Fair(s), Inv, NEW k \in Key
    PROVE  /\ Missing(s, k) <=> Read(s, k, clock) = Absent
           /\ ~Missing(s, k) =>
                 /\ Read(s, k, clock) \in Container /\ Sound(Read(s, k, clock))
                 /\ s.storage[k].value = Read(s, k, clock)
                 /\ s.storage[k] \in Stored
<1>1. Missing(s, k) <=> Read(s, k, clock) = Absent
  BY DEF Missing
<1>2. ASSUME ~Missing(s, k)
      PROVE  /\ Read(s, k, clock) \in Container /\ Sound(Read(s, k, clock))
             /\ s.storage[k].value = Read(s, k, clock)
             /\ s.storage[k] \in Stored
  <2>1. s.storage[k] # Absent /\ Read(s, k, clock) = s.storage[k].value
    BY <1>2 DEF Missing, Read, Contains, Live
  <2>2. s.storage[k] \in Stored
    BY <2>1 DEF Fair, Stores
  <2>3. s.storage[k].value \in Container
    BY <2>2 DEF Stored
  <2>4. Sound(s.storage[k].value)
    BY <2>1 DEF Fair
  <2> QED BY <2>1, <2>2, <2>3, <2>4
<1> QED BY <1>1, <1>2

-----------------------------------------------------------------------------
(* What commands do to the store. *)

LEMMA KeepEntry ==
    ASSUME NEW s \in Stores, NEW k \in Key, NEW c \in Container
    PROVE  \E e \in Stored :
              /\ e.value = c
              /\ e.expires_at = IF Missing(s, k) THEN NoTTL ELSE s.storage[k].expires_at
              /\ Keep(s, k, c) = [s EXCEPT !.storage[k] = e]
<1> DEFINE e == [value |-> c,
                 expires_at |-> IF Missing(s, k) THEN NoTTL ELSE s.storage[k].expires_at]
<1>1. s.storage[k] \in Stored \cup {Absent}
  BY DEF Stores
<1>2. ~Missing(s, k) => s.storage[k] \in Stored
  BY <1>1 DEF Missing, Read, Contains, Live
<1>3. ~Missing(s, k) => s.storage[k].expires_at \in Int \cup {NoTTL}
  BY <1>2 DEF Stored
<1>4. e \in Stored
  <2> HIDE DEF Missing
  <2> QED BY <1>3 DEF Stored
<1> QED BY <1>4 DEF Keep, Put

LEMMA KeepParts ==
    ASSUME NEW s \in Stores, NEW k \in Key, NEW c \in Container
    PROVE  /\ Keep(s, k, c) \in Stores /\ Keep(s, k, c).epoch = s.epoch
           /\ Keep(s, k, c).generations = s.generations
           /\ \A j \in Key : j # k => Keep(s, k, c).storage[j] = s.storage[j]
           /\ Keep(s, k, c).storage[k] \in Stored /\ Keep(s, k, c).storage[k].value = c
           /\ Keep(s, k, c).storage[k].expires_at =
                IF Missing(s, k) THEN NoTTL ELSE s.storage[k].expires_at
<1>1. PICK e \in Stored :
        /\ e.value = c
        /\ e.expires_at = IF Missing(s, k) THEN NoTTL ELSE s.storage[k].expires_at
        /\ Keep(s, k, c) = [s EXCEPT !.storage[k] = e]
  BY KeepEntry
<1>2. /\ Keep(s, k, c) \in Stores /\ Keep(s, k, c).epoch = s.epoch
      /\ Keep(s, k, c).generations = s.generations
      /\ \A j \in Key : j # k => Keep(s, k, c).storage[j] = s.storage[j]
      /\ Keep(s, k, c).storage[k] = e
  BY <1>1 DEF Stores
<1> QED BY <1>1, <1>2

LEMMA TouchParts ==
    ASSUME NEW s \in Stores, NEW k \in Key
    PROVE  /\ Touch(s, k) \in Stores /\ Touch(s, k).epoch = s.epoch
           /\ Touch(s, k).storage = s.storage
           /\ Touch(s, k).generations[k] = s.generations[k] + 1
           /\ \A j \in Key : j # k => Touch(s, k).generations[j] = s.generations[j]
BY DEF Touch, Stores

LEMMA WrittenParts ==
    ASSUME NEW s \in Stores, NEW k \in Key, NEW c \in Container
    PROVE  /\ Written(s, k, c) \in Stores /\ Written(s, k, c).epoch = s.epoch
           /\ \A j \in Key : j # k => /\ Written(s, k, c).storage[j] = s.storage[j]
                                      /\ Written(s, k, c).generations[j] = s.generations[j]
           /\ Written(s, k, c).storage[k] \in Stored /\ Written(s, k, c).storage[k].value = c
           /\ Written(s, k, c).generations[k] > s.generations[k]
<1> DEFINE t == Keep(s, k, c)
<1>1. /\ t \in Stores /\ t.epoch = s.epoch /\ t.generations = s.generations
      /\ \A j \in Key : j # k => t.storage[j] = s.storage[j]
      /\ t.storage[k] \in Stored /\ t.storage[k].value = c
  BY KeepParts
<1> HIDE DEF t
<1>2. /\ Touch(t, k) \in Stores /\ Touch(t, k).epoch = t.epoch
      /\ Touch(t, k).storage = t.storage
      /\ Touch(t, k).generations[k] = t.generations[k] + 1
      /\ \A j \in Key : j # k => Touch(t, k).generations[j] = t.generations[j]
  BY <1>1, TouchParts
<1>3. s.generations[k] \in Nat
  BY DEF Stores
<1>4. Written(s, k, c) = Touch(t, k)
  BY DEF Written, t
<1> QED BY <1>1, <1>2, <1>3, <1>4

LEMMA TouchFair ==
    ASSUME NEW s, Fair(s), Inv, NEW k \in Key
    PROVE  Fair(Touch(s, k))
<1>1. s \in Stores /\ s.generations[k] \in Nat
      /\ (s.storage[k] # Absent => Sound(s.storage[k].value))
  BY DEF Fair, Stores
<1>2. /\ Touch(s, k) \in Stores /\ Touch(s, k).epoch = s.epoch
      /\ Touch(s, k).storage = s.storage
      /\ Touch(s, k).generations[k] = s.generations[k] + 1
      /\ \A j \in Key : j # k => Touch(s, k).generations[j] = s.generations[j]
  BY <1>1, TouchParts
<1>3. Owed(s, Touch(s, k), k)
  BY <1>1, <1>2 DEF Owed
<1> QED BY <1>1, <1>2, <1>3, ChangeFair

LEMMA WrittenFair ==
    ASSUME NEW s, Fair(s), Inv, NEW k \in Key, NEW c \in Container, Sound(c)
    PROVE  Fair(Written(s, k, c))
<1>1. s \in Stores
  BY DEF Fair
<1>2. /\ Written(s, k, c) \in Stores /\ Written(s, k, c).epoch = s.epoch
      /\ \A j \in Key : j # k => /\ Written(s, k, c).storage[j] = s.storage[j]
                                 /\ Written(s, k, c).generations[j] = s.generations[j]
      /\ Written(s, k, c).storage[k].value = c
      /\ Written(s, k, c).generations[k] > s.generations[k]
  BY <1>1, WrittenParts
<1>3. Owed(s, Written(s, k, c), k)
  BY <1>2 DEF Owed
<1> QED BY <1>2, <1>3, ChangeFair

(* A removal may leave the container empty: then the key goes. *)
LEMMA ShrunkFair ==
    ASSUME NEW s, Fair(s), Inv, NEW k \in Key, NEW c \in Container, ~Empty(c) => Sound(c)
    PROVE  Fair(Shrunk(s, k, c))
<1>1. CASE ~Empty(c)
  BY <1>1, WrittenFair DEF Shrunk
<1>2. CASE Empty(c)
  <2> DEFINE t == Written(s, k, c)
             u == Drop(t, k)
  <2>1. s \in Stores
    BY DEF Fair
  <2>2. /\ t \in Stores /\ t.epoch = s.epoch
        /\ \A j \in Key : j # k => t.storage[j] = s.storage[j]
                                   /\ t.generations[j] = s.generations[j]
        /\ t.generations[k] > s.generations[k]
    BY <2>1, WrittenParts
  <2> HIDE DEF t
  <2>3. /\ u \in Stores /\ u.epoch = t.epoch /\ u.generations = t.generations
        /\ \A j \in Key : u.storage[j] = IF j = k THEN Absent ELSE t.storage[j]
    BY <2>2 DEF Drop, Stores
  <2> HIDE DEF u
  <2>4. Owed(s, u, k)
    BY <2>2, <2>3 DEF Owed
  <2>5. Fair(u)
    BY <2>2, <2>3, <2>4, ChangeFair
  <2> QED BY <1>2, <2>5 DEF Shrunk, u, t
<1> QED BY <1>1, <1>2

LEMMA StoreResultFair ==
    ASSUME NEW s, Fair(s), Inv, NEW k \in Key, NEW c \in Container, ~Empty(c) => Sound(c)
    PROVE  Fair(StoreResult(s, k, c))
<1>1. CASE Empty(c)
  BY <1>1, DropFair DEF StoreResult
<1>2. CASE ~Empty(c)
  <2> DEFINE e == [value |-> c, expires_at |-> NoTTL]
             t == [s EXCEPT !.storage[k] = e]
             u == Touch(t, k)
  <2>1. s \in Stores /\ e \in Stored /\ s.generations[k] \in Nat
    BY DEF Fair, Stores, Stored
  <2>2. e.value = c
    OBVIOUS
  <2> HIDE DEF e
  <2>3. /\ t \in Stores /\ t.epoch = s.epoch /\ t.generations = s.generations
        /\ t.storage[k] = e /\ \A j \in Key : j # k => t.storage[j] = s.storage[j]
    BY <2>1 DEF Stores
  <2> HIDE DEF t
  <2>4. /\ u \in Stores /\ u.epoch = t.epoch /\ u.storage = t.storage
        /\ u.generations[k] = t.generations[k] + 1
        /\ \A j \in Key : j # k => u.generations[j] = t.generations[j]
    BY <2>3, TouchParts
  <2> HIDE DEF u
  <2>5. Owed(s, u, k)
    BY <2>1, <2>3, <2>4 DEF Owed
  <2>6. Fair(u)
    BY <1>2, <2>2, <2>3, <2>4, <2>5, ChangeFair
  <2> QED BY <1>2, <2>6 DEF StoreResult, SetItem, Put, u, t, e
<1> QED BY <1>1, <1>2

-----------------------------------------------------------------------------
(* A command ends: what its answer leaves of the invariant and contract. *)

Lawful == TypeOK' /\ CollectionsSound' /\ Contract!Proceed

LEMMA AnswerLawful ==
    ASSUME Inv, NEW s, Fair(s), Answer(s)
    PROVE  Lawful
<1>1. d' = [s EXCEPT !.events = {}] /\ clock' = clock
  BY DEF Answer
<1>2. /\ s \in Stores /\ s.epoch = d.epoch
      /\ \A k \in Key : s.storage[k] # Absent => Sound(s.storage[k].value)
      /\ \A k \in Key : Allowed(d, s, k)
  BY DEF Fair
<1>3. /\ d'.storage = s.storage /\ d'.generations = s.generations /\ d'.epoch = s.epoch
      /\ d' \in [storage: [Key -> Stored \cup {Absent}], generations: [Key -> Nat],
                 epoch: Nat, events: {{}}]
  BY <1>1, <1>2 DEF Stores
<1>4. TypeOK'
  BY <1>1, <1>3 DEF TypeOK, Inv
<1>5. CollectionsSound'
  <2>1. NoEmptyCollections'
    BY <1>2, <1>3 DEF NoEmptyCollections, Sound
  <2>2. IndexesAgree'
    <3> SUFFICES ASSUME NEW k \in Key, d'.storage[k] # Absent, d'.storage[k].value.kind = "zset"
                 PROVE  LET z == d'.storage[k].value
                        IN /\ \A i, j \in DOMAIN z.sorted : i < j => Before(z.sorted[i], z.sorted[j])
                           /\ {z.sorted[i] : i \in DOMAIN z.sorted}
                                = {<<z.scores[m], m>> : m \in {n \in Member : z.scores[n] # Absent}}
      BY DEF IndexesAgree
    <3>1. Agrees(d'.storage[k].value)
      BY <1>2, <1>3 DEF Sound
    <3> QED BY <3>1 DEF Agrees, Sorted, Pairs, Scored, Held
  <2> QED BY <2>1, <2>2 DEF CollectionsSound
<1>6. ASSUME NEW k \in Key
      PROVE  Observed(d, k, clock)' = Observed(s, k, clock)
  BY <1>1, <1>3 DEF Observed, Contains
<1>7. Contract!Proceed
  BY <1>2, <1>3, <1>6 DEF Contract!Proceed, Allowed, Owed
<1> QED BY <1>4, <1>5, <1>7 DEF Lawful

-----------------------------------------------------------------------------
(* Containers, kind by kind: what is stored, and what a command finds.     *)

LEMMA ListMade ==
    ASSUME NEW l \in Seq(Member)
    PROVE  /\ List(l) \in Container /\ List(l).list = l
           /\ Empty(List(l)) <=> l = <<>>
           /\ ~Empty(List(l)) => Sound(List(l))
BY DEF List, Container, Empty, Sound

LEMMA SetMade ==
    ASSUME NEW S \in SUBSET Member
    PROVE  /\ Members(S) \in Container /\ Members(S).set = S
           /\ Empty(Members(S)) <=> S = {}
           /\ ~Empty(Members(S)) => Sound(Members(S))
BY DEF Members, Container, Empty, Sound

LEMMA BitmapMade ==
    ASSUME NEW B \in SUBSET Bit
    PROVE  /\ Bitmap(B) \in Container /\ Bitmap(B).bits = B /\ Bitmap(B).kind = "bitmap"
           /\ Empty(Bitmap(B)) <=> B = {}
           /\ Sound(Bitmap(B))
BY DEF Bitmap, Container, Empty, Sound

LEMMA ZSetMade ==
    ASSUME NEW z, Whole(z)
    PROVE  /\ z \in Container
           /\ Empty(z) <=> z.sorted = <<>>
           /\ ~Empty(z) => Sound(z)
BY DEF Whole, ZSets, Pair, Container, Empty, Sound

LEMMA ListFound ==
    ASSUME NEW s, Fair(s), Inv, NEW k \in Key, ~WrongKind(s, k, "list"), ~Missing(s, k)
    PROVE  /\ Read(s, k, clock).list \in Seq(Member) /\ Read(s, k, clock).list # <<>>
           /\ Read(s, k, clock) # Absent
<1> DEFINE c == Read(s, k, clock)
<1>1. c \in Container /\ Sound(c) /\ c # Absent /\ c.kind = "list"
  BY FetchedSound DEF WrongKind
<1> HIDE DEF c
<1>2. c.list \in Seq(Member) /\ c.list # <<>>
  BY <1>1 DEF Container, Sound, Empty
<1> QED BY <1>1, <1>2 DEF c

LEMMA SetFound ==
    ASSUME NEW s, Fair(s), Inv, NEW k \in Key, ~WrongKind(s, k, "set"), ~Missing(s, k)
    PROVE  /\ Read(s, k, clock).set \in SUBSET Member /\ Read(s, k, clock).set # {}
           /\ Read(s, k, clock) # Absent
<1> DEFINE c == Read(s, k, clock)
<1>1. c \in Container /\ Sound(c) /\ c # Absent /\ c.kind = "set"
  BY FetchedSound DEF WrongKind
<1> HIDE DEF c
<1>2. c.set \in SUBSET Member /\ c.set # {}
  BY <1>1 DEF Container, Sound, Empty
<1> QED BY <1>1, <1>2 DEF c

LEMMA BitmapFound ==
    ASSUME NEW s, Fair(s), Inv, NEW k \in Key, ~WrongKind(s, k, "bitmap"), ~Missing(s, k)
    PROVE  /\ Read(s, k, clock).bits \in SUBSET Bit
           /\ Read(s, k, clock) = Bitmap(Read(s, k, clock).bits)
           /\ Read(s, k, clock) # Absent
<1> DEFINE c == Read(s, k, clock)
<1>1. c \in Container /\ c # Absent /\ c.kind = "bitmap"
  BY FetchedSound DEF WrongKind
<1> HIDE DEF c
<1>2. c \in [kind: {"bitmap"}, bits: SUBSET Bit]
  BY <1>1 DEF Container
<1>3. c.bits \in SUBSET Bit /\ c = Bitmap(c.bits)
  BY <1>2 DEF Bitmap
<1> QED BY <1>1, <1>3 DEF c

LEMMA ZSetFound ==
    ASSUME NEW s, Fair(s), Inv, NEW k \in Key, ~WrongKind(s, k, "zset"), ~Missing(s, k)
    PROVE  Whole(Read(s, k, clock)) /\ Read(s, k, clock) # Absent
<1> DEFINE c == Read(s, k, clock)
<1>1. c \in Container /\ Sound(c) /\ c # Absent /\ c.kind = "zset"
  BY FetchedSound DEF WrongKind
<1> HIDE DEF c
<1>2. c \in ZSets
  BY <1>1 DEF Container, ZSets, Pair
<1> QED BY <1>1, <1>2 DEF c, Whole, Sound

(* What every command on a key starts from. *)
LEMMA Prologue ==
    ASSUME Inv, NEW k \in Key
    PROVE  Fair(Reap(d, k, clock))
BY InvFair, ReapFair

-----------------------------------------------------------------------------
(* Lists *)

LEMMA ListWritten ==
    ASSUME NEW s, Fair(s), Inv, NEW k \in Key, NEW l \in Seq(Member), l # <<>>
    PROVE  Fair(Written(s, k, List(l)))
BY ListMade, WrittenFair

LEMMA ListShrunk ==
    ASSUME NEW s, Fair(s), Inv, NEW k \in Key, NEW l \in Seq(Member)
    PROVE  Fair(Shrunk(s, k, List(l)))
BY ListMade, ShrunkFair

LEMMA PushLawful ==
    ASSUME Inv, NEW k \in Key, NEW v \in Member, NEW left, NEW xx, Push(k, v, left, xx)
    PROVE  Lawful
<1> DEFINE s == Reap(d, k, clock)
           cur == Read(s, k, clock)
<1>1. \/ Answer(s)
      \/ /\ ~WrongKind(s, k, "list")
         /\ IF cur = Absent THEN Answer(s) \/ Answer(Written(s, k, List(<<v>>)))
            ELSE \/ Answer(Written(s, k, List(<<v>> \o cur.list)))
                 \/ Answer(Written(s, k, List(Append(cur.list, v))))
  BY DEF Push, Update, UpdateIn
<1>2. Fair(s) /\ (cur = Absent <=> Missing(s, k))
  BY Prologue DEF Missing
<1> HIDE DEF s
<1>3. <<v>> \in Seq(Member) /\ <<v>> # <<>>
  OBVIOUS
<1>4. Fair(Written(s, k, List(<<v>>)))
  BY <1>2, <1>3, ListWritten
<1>5. ASSUME ~WrongKind(s, k, "list"), cur # Absent
      PROVE  /\ Fair(Written(s, k, List(<<v>> \o cur.list)))
             /\ Fair(Written(s, k, List(Append(cur.list, v))))
  <2>1. cur.list \in Seq(Member)
    BY <1>2, <1>5, ListFound
  <2> HIDE DEF cur
  <2>2. <<v>> \o cur.list \in Seq(Member) /\ <<v>> \o cur.list # <<>>
    <3>1. Len(<<v>> \o cur.list) = 1 + Len(cur.list) /\ Len(cur.list) \in Nat
      BY <1>3, <2>1
    <3>2. <<v>> \o cur.list \in Seq(Member)
      BY <1>3, <2>1, ConcatProperties
    <3> QED BY <3>1, <3>2
  <2>3. Append(cur.list, v) \in Seq(Member) /\ Append(cur.list, v) # <<>>
    BY <2>1
  <2> QED BY <1>2, <2>2, <2>3, ListWritten
<1> QED BY <1>1, <1>2, <1>4, <1>5, AnswerLawful

LEMMA PoppedFair ==
    ASSUME NEW s, Fair(s), Inv, NEW k \in Key, ~WrongKind(s, k, "list"),
           NEW count \in Nat, NEW left
    PROVE  Fair(Popped(s, k, Read(s, k, clock), count, left))
<1> DEFINE cur == Read(s, k, clock)
           len == Len(cur.list)
           n == Smaller(count, len)
<1>1. CASE cur = Absent
  BY <1>1 DEF Popped
<1>2. CASE cur # Absent
  <2>1. cur.list \in Seq(Member)
    BY <1>2, ListFound DEF Missing
  <2> HIDE DEF cur
  <2>2. len \in Nat /\ n \in 0 .. len
    BY <2>1 DEF Smaller
  <2> HIDE DEF n
  <2>3. SubSeq(cur.list, n + 1, len) \in Seq(Member) /\ SubSeq(cur.list, 1, len - n) \in Seq(Member)
    BY <2>1, <2>2
  <2>4. /\ Fair(Shrunk(s, k, List(SubSeq(cur.list, n + 1, len))))
        /\ Fair(Shrunk(s, k, List(SubSeq(cur.list, 1, len - n))))
    BY <2>3, ListShrunk
  <2>5. Fair(Popped(s, k, cur, count, left))
    BY <1>2, <2>4 DEF Popped, n
  <2> QED BY <2>5 DEF cur
<1> QED BY <1>1, <1>2

LEMMA PopLawful ==
    ASSUME Inv, NEW k \in Key, NEW count \in Nat, NEW left,
           Pop(k, count, left) \/ \E j \in Key : LMPOP(j, k, count, left)
    PROVE  Lawful
<1>1. PICK s : /\ Fair(s)
               /\ \/ Answer(s)
                  \/ /\ ~WrongKind(s, k, "list")
                     /\ Answer(Popped(s, k, Read(s, k, clock), count, left))
  <2>1. CASE Pop(k, count, left)
    BY <2>1, Prologue DEF Pop, Update, UpdateIn
  <2>2. CASE \E j \in Key : LMPOP(j, k, count, left)
    <3>1. PICK j \in Key : LMPOP(j, k, count, left)
      BY <2>2
    <3>2. Fair(Reap(Reap(d, j, clock), k, clock))
      BY Prologue, ReapFair
    <3> QED BY <3>1, <3>2 DEF LMPOP, UpdateIn
  <2> QED BY <2>1, <2>2
<1> QED BY <1>1, PoppedFair, AnswerLawful

LEMMA LsetLawful ==
    ASSUME Inv, NEW k \in Key, NEW index \in Int, NEW v \in Member, LSET(k, index, v)
    PROVE  Lawful
<1> DEFINE s == Reap(d, k, clock)
           cur == Read(s, k, clock)
           i == IF index >= 0 THEN index ELSE Len(cur.list) + index
           l == SX!ReplaceAt(cur.list, i + 1, v)
<1>1. \/ Answer(s)
      \/ /\ ~WrongKind(s, k, "list") /\ cur # Absent /\ ~(i < 0 \/ i >= Len(cur.list))
         /\ Answer(Written(s, k, List(l)))
  BY DEF LSET, Update, UpdateIn
<1>2. Fair(s) /\ (cur = Absent <=> Missing(s, k))
  BY Prologue DEF Missing
<1> HIDE DEF s
<1>3. ASSUME ~WrongKind(s, k, "list"), cur # Absent, ~(i < 0 \/ i >= Len(cur.list))
      PROVE  Fair(Written(s, k, List(l)))
  <2>1. cur.list \in Seq(Member)
    BY <1>2, <1>3, ListFound
  <2> HIDE DEF cur
  <2>2. i \in Int /\ Len(cur.list) \in Nat /\ Len(cur.list) > 0
    BY <1>3, <2>1
  <2> HIDE DEF i
  <2>3. l \in Seq(Member) /\ Len(l) = Len(cur.list)
    <3>1. cur.list \in [1 .. Len(cur.list) -> Member] /\ i + 1 \in 1 .. Len(cur.list)
      BY <1>3, <2>1, <2>2
    <3>2. l \in [1 .. Len(cur.list) -> Member]
      BY <3>1 DEF SX!ReplaceAt
    <3> HIDE DEF l
    <3> QED BY <2>2, <3>2
  <2>4. l # <<>>
    BY <2>2, <2>3
  <2> QED BY <1>2, <2>3, <2>4, ListWritten
<1> QED BY <1>1, <1>2, <1>3, AnswerLawful

LEMMA LtrimLawful ==
    ASSUME Inv, NEW k \in Key, NEW start \in Int, NEW end \in Int, LTRIM(k, start, end)
    PROVE  Lawful
<1> DEFINE s == Reap(d, k, clock)
           cur == Read(s, k, clock)
           kept == Window(Len(cur.list), start, end)
<1>1. \/ Answer(s)
      \/ Answer(Drop(s, k))
      \/ /\ ~WrongKind(s, k, "list") /\ cur # Absent /\ kept # {}
         /\ Answer(Written(s, k, List(Pick(cur.list, kept))))
  BY DEF LTRIM, Update, UpdateIn
<1>2. Fair(s) /\ Fair(Drop(s, k)) /\ (cur = Absent <=> Missing(s, k))
  BY Prologue, DropFair DEF Missing
<1> HIDE DEF s
<1>3. ASSUME ~WrongKind(s, k, "list"), cur # Absent, kept # {}
      PROVE  Fair(Written(s, k, List(Pick(cur.list, kept))))
  <2>1. cur.list \in Seq(Member)
    BY <1>2, <1>3, ListFound
  <2> HIDE DEF cur
  <2>2. kept \in SUBSET DOMAIN cur.list
    BY <2>1 DEF Window
  <2> HIDE DEF kept
  <2>3. Pick(cur.list, kept) \in Seq(Member) /\ Pick(cur.list, kept) # <<>>
    BY <1>3, <2>1, <2>2, PickProperties
  <2> QED BY <1>2, <2>3, ListWritten
<1> QED BY <1>1, <1>2, <1>3, AnswerLawful

LEMMA LremLawful ==
    ASSUME Inv, NEW k \in Key, NEW count, NEW v, LREM(k, count, v)
    PROVE  Lawful
<1> DEFINE s == Reap(d, k, clock)
           cur == Read(s, k, clock)
<1>1. \/ Answer(s)
      \/ /\ ~WrongKind(s, k, "list") /\ cur # Absent
         /\ \E removed \in SUBSET DOMAIN cur.list :
              Answer(Shrunk(s, k, List(Pick(cur.list, DOMAIN cur.list \ removed))))
  <2> DEFINE match == {i \in DOMAIN cur.list : cur.list[i] = v}
             removed == {i \in match :
                           \/ count = 0
                           \/ count > 0 /\ Cardinality({j \in match : j <= i}) <= count
                           \/ count < 0 /\ Cardinality({j \in match : j >= i}) <= -count}
  <2>1. \/ Answer(s)
        \/ /\ ~WrongKind(s, k, "list") /\ cur # Absent
           /\ Answer(Shrunk(s, k, List(Pick(cur.list, DOMAIN cur.list \ removed))))
    BY DEF LREM, Update, UpdateIn
  <2>2. removed \in SUBSET DOMAIN cur.list
    OBVIOUS
  <2> HIDE DEF removed
  <2> QED BY <2>1, <2>2
<1>2. Fair(s) /\ (cur = Absent <=> Missing(s, k))
  BY Prologue DEF Missing
<1> HIDE DEF s
<1>3. ASSUME ~WrongKind(s, k, "list"), cur # Absent, NEW removed \in SUBSET DOMAIN cur.list
      PROVE  Fair(Shrunk(s, k, List(Pick(cur.list, DOMAIN cur.list \ removed))))
  <2>1. cur.list \in Seq(Member)
    BY <1>2, <1>3, ListFound
  <2> HIDE DEF cur
  <2>2. DOMAIN cur.list \ removed \in SUBSET DOMAIN cur.list
    OBVIOUS
  <2>3. Pick(cur.list, DOMAIN cur.list \ removed) \in Seq(Member)
    BY <2>1, <2>2, PickProperties
  <2> QED BY <1>2, <2>3, ListShrunk
<1> QED BY <1>1, <1>2, <1>3, AnswerLawful

(* The first occurrence of an element that occurs. *)
LEMMA FirstOccurrence ==
    ASSUME NEW l \in Seq(Member), NEW v, \E i \in DOMAIN l : l[i] = v
    PROVE  \E i \in DOMAIN l : l[i] = v /\ \A j \in 1 .. i - 1 : l[j] # v
<1> DEFINE T == {j \in 1 .. Len(l) : \A i \in 1 .. j : l[i] # v}
           c == Cardinality(T)
<1>1. Len(l) \in Nat /\ DOMAIN l = 1 .. Len(l)
  OBVIOUS
<1>2. T \in SUBSET (1 .. Len(l)) /\ \A j \in T : 1 .. j \subseteq T
  BY <1>1
<1>3. T = 1 .. c /\ c \in 0 .. Len(l)
  <2> HIDE DEF T
  <2> QED BY <1>1, <1>2, InitialSegment
<1> HIDE DEF c
<1>4. c < Len(l)
  <2>1. PICK i \in 1 .. Len(l) : l[i] = v
    BY <1>1
  <2>2. i \notin T
    BY <2>1
  <2> HIDE DEF T
  <2> QED BY <1>1, <1>3, <2>2
<1>5. \A j \in 1 .. c : l[j] # v
  BY <1>1, <1>3
<1>6. c + 1 \notin T /\ c + 1 \in 1 .. Len(l)
  <2> HIDE DEF T
  <2> QED BY <1>1, <1>3, <1>4
<1>7. l[c + 1] = v
  BY <1>1, <1>3, <1>5, <1>6
<1> HIDE DEF T
<1>8. c + 1 \in DOMAIN l /\ 1 .. (c + 1) - 1 = 1 .. c
  BY <1>1, <1>3, <1>6
<1> QED BY <1>5, <1>7, <1>8

LEMMA LinsertLawful ==
    ASSUME Inv, NEW k \in Key, NEW offset \in {0, 1}, NEW pivot, NEW v \in Member,
           LINSERT(k, offset, pivot, v)
    PROVE  Lawful
<1> DEFINE s == Reap(d, k, clock)
           cur == Read(s, k, clock)
           at == CHOOSE i \in DOMAIN cur.list :
                    cur.list[i] = pivot /\ \A j \in 1 .. i - 1 : cur.list[j] # pivot
           l == SX!InsertAt(cur.list, at + offset, v)
<1>1. \/ Answer(s)
      \/ /\ ~WrongKind(s, k, "list") /\ cur # Absent
         /\ \E i \in DOMAIN cur.list : cur.list[i] = pivot
         /\ Answer(Written(s, k, List(l)))
  BY DEF LINSERT, Update, UpdateIn
<1>2. Fair(s) /\ (cur = Absent <=> Missing(s, k))
  BY Prologue DEF Missing
<1> HIDE DEF s
<1>3. ASSUME ~WrongKind(s, k, "list"), cur # Absent,
             \E i \in DOMAIN cur.list : cur.list[i] = pivot
      PROVE  Fair(Written(s, k, List(l)))
  <2>1. cur.list \in Seq(Member)
    BY <1>2, <1>3, ListFound
  <2> HIDE DEF cur
  <2>2. at \in DOMAIN cur.list
    BY <1>3, <2>1, FirstOccurrence
  <2> HIDE DEF at
  <2>3. at + offset \in 1 .. Len(cur.list) + 1 /\ Len(cur.list) \in Nat
    BY <2>1, <2>2
  <2>4. \A q \in 1 .. Len(cur.list) + 1 :
          /\ SX!InsertAt(cur.list, q, v) \in Seq(Member)
          /\ Len(SX!InsertAt(cur.list, q, v)) = Len(cur.list) + 1
    BY <2>1, InsertProperties
  <2>5. l \in Seq(Member) /\ Len(l) = Len(cur.list) + 1
    BY <2>3, <2>4
  <2>6. l # <<>>
    BY <2>3, <2>5
  <2> QED BY <1>2, <2>5, <2>6, ListWritten
<1> QED BY <1>1, <1>2, <1>3, AnswerLawful

(* A key that is there stays as it is while another one is read. *)
LEMMA ReapKeeps ==
    ASSUME NEW s, Fair(s), Inv, NEW a \in Key, NEW b \in Key, ~Missing(s, a)
    PROVE  /\ ~Missing(Reap(s, b, clock), a)
           /\ Read(Reap(s, b, clock), a, clock) = Read(s, a, clock)
<1>1. CASE a # b
  <2>1. Reap(s, b, clock).storage[a] = s.storage[a]
    BY <1>1, ReapFair
  <2> QED BY <2>1 DEF Missing, Read, Contains
<1>2. CASE a = b
  <2>1. ~Corpse(s, b, clock)
    BY <1>2 DEF Missing, Read, Contains, Corpse
  <2> QED BY <2>1 DEF Reap
<1> QED BY <1>1, <1>2

LEMMA MoveLawful ==
    ASSUME Inv, NEW a \in Key, NEW b \in Key, NEW fromLeft, NEW toLeft,
           Move(a, b, fromLeft, toLeft)
    PROVE  Lawful
<1> DEFINE s == Reap(d, a, clock)
           t == Reap(s, b, clock)
<1>1. \/ Answer(s) \/ Answer(t)
      \/ /\ ~Missing(s, a) /\ ~WrongKind(s, a, "list") /\ ~WrongKind(t, b, "list")
         /\ Answer(MoveIn(t, a, b, fromLeft, toLeft))
  BY DEF Move
<1>2. Fair(s) /\ Fair(t)
  BY Prologue, ReapFair
<1>3. ~Missing(s, a) => ~Missing(t, a) /\ Read(t, a, clock) = Read(s, a, clock)
  BY <1>2, ReapKeeps
<1> HIDE DEF s, t
<1>4. ASSUME ~Missing(s, a), ~WrongKind(s, a, "list"), ~WrongKind(t, b, "list")
      PROVE  Fair(MoveIn(t, a, b, fromLeft, toLeft))
  <2> DEFINE src == Read(t, a, clock).list
             v == IF fromLeft THEN Head(src) ELSE SX!Last(src)
             rest == IF fromLeft THEN Tail(src) ELSE SX!Front(src)
             dst == IF a = b THEN rest ELSE IF Missing(t, b) THEN <<>>
                    ELSE Read(t, b, clock).list
             l == IF toLeft THEN <<v>> \o dst ELSE Append(dst, v)
             joined == Written(t, b, List(l))
  <2>1. src \in Seq(Member) /\ src # <<>>
    BY <1>2, <1>3, <1>4, ListFound
  <2>2. ~Missing(t, b) => Read(t, b, clock).list \in Seq(Member)
    BY <1>2, <1>4, ListFound
  <2>3. MoveIn(t, a, b, fromLeft, toLeft)
          = IF a = b THEN Touch(joined, a) ELSE Shrunk(joined, a, List(rest))
    BY DEF MoveIn
  <2> HIDE DEF src
  <2>4. v \in Member /\ rest \in Seq(Member)
    BY <2>1 DEF SX!Last, SX!Front
  <2> HIDE DEF v, rest
  <2>5. dst \in Seq(Member)
    BY <2>2, <2>4
  <2> HIDE DEF dst
  <2>6. <<v>> \in Seq(Member) /\ Len(<<v>>) = 1 /\ Len(dst) \in Nat
    BY <2>4, <2>5
  <2>7. <<v>> \o dst \in Seq(Member) /\ Append(dst, v) \in Seq(Member)
        /\ Len(<<v>> \o dst) = Len(dst) + 1 /\ Len(Append(dst, v)) = Len(dst) + 1
    BY <2>4, <2>5, <2>6, ConcatProperties
  <2>8. l \in Seq(Member) /\ l # <<>>
    BY <2>6, <2>7
  <2> HIDE DEF l
  <2>9. Fair(joined)
    BY <1>2, <2>8, ListWritten
  <2> HIDE DEF joined
  <2>10. Fair(Touch(joined, a)) /\ Fair(Shrunk(joined, a, List(rest)))
    BY <2>4, <2>9, TouchFair, ListShrunk
  <2> QED BY <2>3, <2>10
<1> QED BY <1>1, <1>2, <1>4, AnswerLawful

-----------------------------------------------------------------------------
(* Sets *)

LEMMA SetWritten ==
    ASSUME NEW s, Fair(s), Inv, NEW k \in Key, NEW S \in SUBSET Member, S # {}
    PROVE  Fair(Written(s, k, Members(S)))
BY SetMade, WrittenFair

LEMMA SetShrunk ==
    ASSUME NEW s, Fair(s), Inv, NEW k \in Key, NEW S \in SUBSET Member
    PROVE  Fair(Shrunk(s, k, Members(S)))
BY SetMade, ShrunkFair

LEMMA SaddLawful ==
    ASSUME Inv, NEW k \in Key, NEW M \in SUBSET Member, M # {}, SADD(k, M)
    PROVE  Lawful
<1> DEFINE s == Reap(d, k, clock)
           cur == Read(s, k, clock)
<1>1. \/ Answer(s)
      \/ Answer(Written(s, k, Members(M)))
      \/ ~WrongKind(s, k, "set") /\ cur # Absent /\ Answer(Written(s, k, Members(cur.set \cup M)))
  BY DEF SADD, Update, UpdateIn
<1>2. Fair(s) /\ (cur = Absent <=> Missing(s, k))
  BY Prologue DEF Missing
<1> HIDE DEF s
<1>3. Fair(Written(s, k, Members(M)))
  BY <1>2, SetWritten
<1>4. ASSUME ~WrongKind(s, k, "set"), cur # Absent
      PROVE  Fair(Written(s, k, Members(cur.set \cup M)))
  <2>1. cur.set \in SUBSET Member
    BY <1>2, <1>4, SetFound
  <2>2. cur.set \cup M \in SUBSET Member /\ cur.set \cup M # {}
    BY <2>1
  <2> QED BY <1>2, <2>2, SetWritten
<1> QED BY <1>1, <1>2, <1>3, <1>4, AnswerLawful

LEMMA DiscardLawful ==
    ASSUME Inv, NEW k \in Key, NEW M, Discard(k, M)
    PROVE  Lawful
<1> DEFINE s == Reap(d, k, clock)
           cur == Read(s, k, clock)
<1>1. \/ Answer(s)
      \/ ~WrongKind(s, k, "set") /\ cur # Absent /\ Answer(Shrunk(s, k, Members(cur.set \ M)))
  BY DEF Discard, Update, UpdateIn
<1>2. Fair(s) /\ (cur = Absent <=> Missing(s, k))
  BY Prologue DEF Missing
<1> HIDE DEF s
<1>3. ASSUME ~WrongKind(s, k, "set"), cur # Absent
      PROVE  Fair(Shrunk(s, k, Members(cur.set \ M)))
  <2>1. cur.set \in SUBSET Member
    BY <1>2, <1>3, SetFound
  <2>2. cur.set \ M \in SUBSET Member
    BY <2>1
  <2> QED BY <1>2, <2>2, SetShrunk
<1> QED BY <1>1, <1>2, <1>3, AnswerLawful

LEMMA SmoveLawful ==
    ASSUME Inv, NEW a \in Key, NEW b \in Key, NEW m \in Member, SMOVE(a, b, m)
    PROVE  Lawful
<1> DEFINE s == Reap(d, a, clock)
           t == Reap(s, b, clock)
           src == Read(s, a, clock).set
           dst == IF Missing(t, b) THEN {} ELSE Read(t, b, clock).set
           u == Written(t, b, Members(dst \cup {m}))
<1>1. \/ Answer(s) \/ Answer(t) \/ Answer(Touch(Touch(t, a), a))
      \/ /\ ~Missing(s, a) /\ ~WrongKind(s, a, "set") /\ ~WrongKind(t, b, "set")
         /\ Answer(Shrunk(u, a, Members(src \ {m})))
  BY DEF SMOVE
<1>2. Fair(s) /\ Fair(t)
  BY Prologue, ReapFair
<1> HIDE DEF s, t
<1>3. Fair(Touch(Touch(t, a), a))
  BY <1>2, TouchFair
<1>4. ASSUME ~Missing(s, a), ~WrongKind(s, a, "set"), ~WrongKind(t, b, "set")
      PROVE  Fair(Shrunk(u, a, Members(src \ {m})))
  <2>1. src \in SUBSET Member /\ dst \in SUBSET Member
    BY <1>2, <1>4, SetFound
  <2> HIDE DEF src, dst
  <2>2. dst \cup {m} \in SUBSET Member /\ dst \cup {m} # {} /\ src \ {m} \in SUBSET Member
    BY <2>1
  <2>3. Fair(u)
    BY <1>2, <2>2, SetWritten
  <2> HIDE DEF u
  <2> QED BY <2>2, <2>3, SetShrunk
<1> QED BY <1>1, <1>2, <1>3, <1>4, AnswerLawful

(* The two sources of a store command, read in order. *)
LEMMA TwoSources ==
    ASSUME Inv, NEW a \in Key, NEW b \in Key
    PROVE  /\ Fair(Reap(d, a, clock)) /\ Fair(Reap(Reap(d, a, clock), b, clock))
           /\ \A kind : ~WrongKind(Reap(d, a, clock), a, kind) =>
                          ~WrongKind(Reap(Reap(d, a, clock), b, clock), a, kind)
<1> DEFINE s == Reap(d, a, clock)
           t == Reap(s, b, clock)
<1>1. Fair(s) /\ Fair(t)
  BY Prologue, ReapFair
<1>2. Missing(s, a) => Missing(t, a)
  BY <1>1, ReapFair DEF Missing, Read, Contains, Live, Reap, PurgeKey, Notify, Drop, Fair, Stores
<1>3. ~Missing(s, a) => Read(t, a, clock) = Read(s, a, clock)
  BY <1>1, ReapKeeps
<1> HIDE DEF s, t
<1>4. \A kind : ~WrongKind(s, a, kind) => ~WrongKind(t, a, kind)
  BY <1>2, <1>3 DEF WrongKind
<1> QED BY <1>1, <1>4 DEF s, t

LEMMA SetStoreLawful ==
    ASSUME Inv, NEW op \in {"union", "inter", "diff"}, NEW k \in Key, NEW a \in Key, NEW b \in Key,
           SetStore(op, k, a, b)
    PROVE  Lawful
<1> DEFINE s == Reap(d, a, clock)
           t == Reap(s, b, clock)
           x == Read(t, a, clock)
           y == Read(t, b, clock)
           A == IF x = Absent THEN {} ELSE x.set
           B == IF y = Absent THEN {} ELSE y.set
<1>1. \/ Answer(s) \/ Answer(t)
      \/ /\ ~WrongKind(s, a, "set") /\ ~WrongKind(t, b, "set")
         /\ Answer(StoreResult(t, k, Members(Combined(op, A, B))))
  BY DEF SetStore, FromTwo
<1>2. /\ Fair(s) /\ Fair(t)
      /\ ~WrongKind(s, a, "set") => ~WrongKind(t, a, "set")
      /\ (x = Absent <=> Missing(t, a)) /\ (y = Absent <=> Missing(t, b))
  BY TwoSources DEF Missing
<1> HIDE DEF s, t
<1>3. ASSUME ~WrongKind(s, a, "set"), ~WrongKind(t, b, "set")
      PROVE  Fair(StoreResult(t, k, Members(Combined(op, A, B))))
  <2>1. A \in SUBSET Member /\ B \in SUBSET Member
    BY <1>2, <1>3, SetFound
  <2> HIDE DEF A, B
  <2>2. Combined(op, A, B) \in SUBSET Member
    BY <2>1 DEF Combined
  <2> QED BY <1>2, <2>2, SetMade, StoreResultFair
<1> QED BY <1>1, <1>2, <1>3, AnswerLawful

-----------------------------------------------------------------------------
(* Bitmaps *)

(* What the lookup purges was nothing to a client. *)
LEMMA ReapHides ==
    ASSUME Inv, NEW k \in Key
    PROVE  /\ Reap(d, k, clock).generations = d.generations
           /\ Missing(Reap(d, k, clock), k) => Observed(d, k, clock) = Absent
<1>1. CASE Corpse(d, k, clock)
  <2>1. Observed(d, k, clock) = Absent
    BY <1>1 DEF Corpse, Observed, Contains
  <2>2. Reap(d, k, clock).generations = d.generations
    BY <1>1, InvFair DEF Reap, PurgeKey, Notify, Drop, Fair, Stores
  <2> QED BY <2>1, <2>2
<1>2. CASE ~Corpse(d, k, clock)
  <2>1. Reap(d, k, clock) = d
    BY <1>2 DEF Reap
  <2>2. Contains(d, k, clock) => d.storage[k].value \in Container
    BY DEF Contains, Live, Inv, TypeOK, Stored
  <2>3. Missing(d, k) => Observed(d, k, clock) = Absent
    BY <2>2, ContainersAssumption DEF Missing, Read, Observed
  <2> QED BY <2>1, <2>3
<1> QED BY <1>1, <1>2

(* A bitmap stored unchanged, or the zero bit under a missing key. *)
LEMMA KeptBitmapFair ==
    ASSUME NEW s, Fair(s), Inv, NEW k \in Key, NEW B \in SUBSET Bit,
           IF Missing(s, k) THEN B = {} ELSE Read(s, k, clock) = Bitmap(B),
           s.generations = d.generations,
           Missing(s, k) => Observed(d, k, clock) = Absent
    PROVE  Fair(Keep(s, k, Bitmap(B)))
<1> DEFINE t == Keep(s, k, Bitmap(B))
<1>1. s \in Stores /\ Bitmap(B) \in Container /\ Sound(Bitmap(B)) /\ Bitmap(B).kind = "bitmap"
      /\ (Empty(Bitmap(B)) <=> B = {})
  BY BitmapMade DEF Fair
<1>2. /\ t \in Stores /\ t.epoch = s.epoch /\ t.generations = s.generations
      /\ \A j \in Key : j # k => t.storage[j] = s.storage[j]
      /\ t.storage[k] \in Stored /\ t.storage[k].value = Bitmap(B)
      /\ t.storage[k].expires_at = IF Missing(s, k) THEN NoTTL ELSE s.storage[k].expires_at
  BY <1>1, KeepParts
<1> HIDE DEF t
<1>4. Owed(s, t, k) \/ Allowed(d, t, k)
  <2>1. CASE Missing(s, k)
    <3>1. t.storage[k] = ZeroBit
      BY <1>2, <2>1 DEF Stored, ZeroBit
    <3>2. Observed(t, k, clock) \in {ZeroBit, Absent}
      BY <3>1 DEF Observed
    <3> QED BY <1>2, <2>1, <3>2 DEF Allowed, Owed
  <2>2. CASE ~Missing(s, k)
    <3>1. s.storage[k] \in Stored /\ s.storage[k].value = Bitmap(B)
      BY <2>2, FetchedSound
    <3>2. t.storage[k] = s.storage[k]
      BY <1>2, <2>2, <3>1 DEF Stored
    <3> QED BY <1>2, <3>2 DEF Owed, Observed, Contains
  <2> QED BY <2>1, <2>2
<1> QED BY <1>1, <1>2, <1>4, ChangeFair DEF t

LEMMA BitmapWritten ==
    ASSUME NEW s, Fair(s), Inv, NEW k \in Key, NEW B \in SUBSET Bit
    PROVE  Fair(Written(s, k, Bitmap(B)))
BY BitmapMade, WrittenFair

LEMMA SetbitLawful ==
    ASSUME Inv, NEW k \in Key, NEW bit \in Bit, NEW val, SETBIT(k, bit, val)
    PROVE  Lawful
<1> DEFINE s == Reap(d, k, clock)
           cur == Read(s, k, clock)
           old == IF cur = Absent THEN {} ELSE cur.bits
           new == IF val = 1 THEN old \cup {bit} ELSE old \ {bit}
<1>1. \/ Answer(s)
      \/ /\ ~WrongKind(s, k, "bitmap")
         /\ Answer(Keep(s, k, Bitmap(old))) \/ Answer(Written(s, k, Bitmap(new)))
  BY DEF SETBIT, Update, UpdateIn
<1>2. /\ Fair(s) /\ (cur = Absent <=> Missing(s, k))
      /\ s.generations = d.generations
      /\ Missing(s, k) => Observed(d, k, clock) = Absent
  BY Prologue, ReapHides DEF Missing
<1> HIDE DEF s
<1>3. ASSUME ~WrongKind(s, k, "bitmap")
      PROVE  Fair(Keep(s, k, Bitmap(old))) /\ Fair(Written(s, k, Bitmap(new)))
  <2>1. old \in SUBSET Bit /\ IF Missing(s, k) THEN old = {} ELSE cur = Bitmap(old)
    BY <1>2, <1>3, BitmapFound
  <2> HIDE DEF old
  <2>2. new \in SUBSET Bit
    BY <2>1
  <2> HIDE DEF new
  <2> QED BY <1>2, <2>1, <2>2, KeptBitmapFair, BitmapWritten
<1> QED BY <1>1, <1>2, <1>3, AnswerLawful

LEMMA BitfieldLawful ==
    ASSUME Inv, NEW k \in Key, NEW B \in SUBSET Bit, BITFIELD(k, B)
    PROVE  Lawful
<1> DEFINE s == Reap(d, k, clock)
<1>1. Answer(s) \/ Answer(Written(s, k, Bitmap(B)))
  BY DEF BITFIELD, Update, UpdateIn
<1>2. Fair(s)
  BY Prologue
<1> QED BY <1>1, <1>2, BitmapWritten, AnswerLawful

LEMMA BitopLawful ==
    ASSUME Inv, NEW op \in {"union", "inter", "xor", "not"}, NEW k \in Key,
           NEW a \in Key, NEW b \in Key, BITOP(op, k, a, b)
    PROVE  Lawful
<1> DEFINE s == Reap(d, a, clock)
           t == Reap(s, b, clock)
           x == Read(t, a, clock)
           y == Read(t, b, clock)
           A == IF x = Absent THEN {} ELSE x.bits
           B == IF y = Absent THEN {} ELSE y.bits
<1>1. \/ Answer(s) \/ Answer(t)
      \/ /\ ~WrongKind(s, a, "bitmap") /\ ~WrongKind(t, b, "bitmap")
         /\ Answer(StoreResult(t, k, Bitmap(Combined(op, A, B))))
  BY DEF BITOP, FromTwo
<1>2. /\ Fair(s) /\ Fair(t)
      /\ ~WrongKind(s, a, "bitmap") => ~WrongKind(t, a, "bitmap")
      /\ (x = Absent <=> Missing(t, a)) /\ (y = Absent <=> Missing(t, b))
  BY TwoSources DEF Missing
<1> HIDE DEF s, t
<1>3. ASSUME ~WrongKind(s, a, "bitmap"), ~WrongKind(t, b, "bitmap")
      PROVE  Fair(StoreResult(t, k, Bitmap(Combined(op, A, B))))
  <2>1. A \in SUBSET Bit /\ B \in SUBSET Bit
    BY <1>2, <1>3, BitmapFound
  <2> HIDE DEF A, B
  <2>2. Combined(op, A, B) \in SUBSET Bit
    BY <2>1 DEF Combined
  <2> QED BY <1>2, <2>2, BitmapMade, StoreResultFair
<1> QED BY <1>1, <1>2, <1>3, AnswerLawful

-----------------------------------------------------------------------------
(* Sorted sets *)

LEMMA ZaddLawful ==
    ASSUME Inv, NEW k \in Key, NEW score \in Int, NEW m \in Member, NEW F, ZADD(k, score, m, F)
    PROVE  Lawful
<1> DEFINE s == Reap(d, k, clock)
           cur == Read(s, k, clock)
           z == IF cur = Absent THEN NewZSet ELSE cur
           old == z.scores[m]
           new == IF "INCR" \in F /\ old # Absent THEN old + score ELSE score
<1>1. \/ Answer(s)
      \/ ~WrongKind(s, k, "zset") /\ Answer(Written(s, k, Add(z, m, new)))
  BY DEF ZADD, Update, UpdateIn
<1>2. Fair(s) /\ (cur = Absent <=> Missing(s, k))
  BY Prologue DEF Missing
<1> HIDE DEF s
<1>3. ASSUME ~WrongKind(s, k, "zset")
      PROVE  Fair(Written(s, k, Add(z, m, new)))
  <2>1. Whole(z)
    BY <1>2, <1>3, NewZSetWhole, ZSetFound
  <2> HIDE DEF z
  <2>2. old \in Int \cup {Absent}
    BY <2>1, EntriesAndScores
  <2> HIDE DEF old
  <2>3. new \in Int
    BY <2>2
  <2> HIDE DEF new
  <2>4. Whole(Add(z, m, new)) /\ Add(z, m, new).sorted # <<>>
    BY <2>1, <2>3, AddWhole
  <2> QED BY <1>2, <2>4, ZSetMade, WrittenFair
<1> QED BY <1>1, <1>2, <1>3, AnswerLawful

LEMMA ZremLawful ==
    ASSUME Inv, NEW k \in Key, NEW M \in SUBSET Member, ZREM(k, M)
    PROVE  Lawful
<1> DEFINE s == Reap(d, k, clock)
           cur == Read(s, k, clock)
<1>1. \/ Answer(s)
      \/ ~WrongKind(s, k, "zset") /\ cur # Absent /\ Answer(Shrunk(s, k, Remove(cur, M)))
  BY DEF ZREM, Update, UpdateIn
<1>2. Fair(s) /\ (cur = Absent <=> Missing(s, k))
  BY Prologue DEF Missing
<1> HIDE DEF s
<1>3. ASSUME ~WrongKind(s, k, "zset"), cur # Absent
      PROVE  Fair(Shrunk(s, k, Remove(cur, M)))
  <2>1. Whole(Remove(cur, M))
    BY <1>2, <1>3, ZSetFound, RemoveWhole
  <2> HIDE DEF cur
  <2> QED BY <1>2, <2>1, ZSetMade, ShrunkFair
<1> QED BY <1>1, <1>2, <1>3, AnswerLawful

(* A window of any of the three kinds is a set of positions. *)
LEMMA RangesAreWindows ==
    ASSUME NEW z, Whole(z)
    PROVE  /\ \A start, stop : Window(Len(z.sorted), start, stop) \subseteq DOMAIN z.sorted
           /\ \A lo, loOpen, hi, hiOpen :
                /\ ScoreRange(z, lo, loOpen, hi, hiOpen) \subseteq DOMAIN z.sorted
                /\ LexRange(z, lo, loOpen, hi, hiOpen) \subseteq DOMAIN z.sorted
<1>1. Len(z.sorted) \in Nat /\ DOMAIN z.sorted = 1 .. Len(z.sorted)
  <2>1. z.sorted \in Seq(Pair)
    BY EntriesAndScores
  <2> QED BY <2>1
<1>2. ASSUME NEW lo, NEW loOpen, NEW hi, NEW hiOpen
      PROVE  ScoreRange(z, lo, loOpen, hi, hiOpen) \subseteq DOMAIN z.sorted
  <2> DEFINE under(x, equalToo) == {i \in DOMAIN z.sorted :
                 z.sorted[i][1] < x \/ (equalToo /\ z.sorted[i][1] = x)}
  <2>1. \A T \in SUBSET DOMAIN z.sorted : Cardinality(T) \in 0 .. Len(z.sorted)
    <3> TAKE T \in SUBSET DOMAIN z.sorted
    <3>1. IsFiniteSet(DOMAIN z.sorted) /\ Cardinality(DOMAIN z.sorted) = Len(z.sorted)
      BY <1>1, Interval
    <3>2. Cardinality(T) <= Len(z.sorted) /\ Cardinality(T) \in Nat
      BY <3>1, FS_Subset, FS_CardinalityType
    <3> QED BY <1>1, <3>2
  <2>2. under(lo, loOpen) \in SUBSET DOMAIN z.sorted
        /\ under(hi, ~hiOpen) \in SUBSET DOMAIN z.sorted
    OBVIOUS
  <2>3. ScoreRange(z, lo, loOpen, hi, hiOpen)
          = Cardinality(under(lo, loOpen)) + 1 .. Cardinality(under(hi, ~hiOpen))
    BY DEF ScoreRange
  <2> HIDE DEF under
  <2>4. Cardinality(under(lo, loOpen)) \in 0 .. Len(z.sorted)
        /\ Cardinality(under(hi, ~hiOpen)) \in 0 .. Len(z.sorted)
    BY <2>1, <2>2
  <2> QED BY <1>1, <2>3, <2>4
<1>3. \A start, stop : Window(Len(z.sorted), start, stop) \subseteq DOMAIN z.sorted
  BY <1>1 DEF Window
<1>4. \A lo, loOpen, hi, hiOpen : LexRange(z, lo, loOpen, hi, hiOpen) \subseteq DOMAIN z.sorted
  BY DEF LexRange
<1> QED BY <1>2, <1>3, <1>4

LEMMA RangeRemovalLawful ==
    ASSUME Inv, NEW k \in Key,
           \/ \E start, stop \in Int : ZREMRANGEBYRANK(k, start, stop)
           \/ \E lo, loOpen, hi, hiOpen : \/ ZREMRANGEBYSCORE(k, lo, loOpen, hi, hiOpen)
                                          \/ ZREMRANGEBYLEX(k, lo, loOpen, hi, hiOpen)
           \/ \E count \in Nat, left \in BOOLEAN : ZPop(k, count, left)
    PROVE  Lawful
<1> DEFINE s == Reap(d, k, clock)
           cur == Read(s, k, clock)
           removed(I) == ~WrongKind(s, k, "zset") /\ cur # Absent
                         /\ Answer(Shrunk(s, k, RemoveAll(cur, I)))
<1>1. \/ Answer(s)
      \/ \E start, stop : removed(Window(Len(cur.sorted), start, stop))
      \/ \E lo, loOpen, hi, hiOpen : \/ removed(ScoreRange(cur, lo, loOpen, hi, hiOpen))
                                     \/ removed(LexRange(cur, lo, loOpen, hi, hiOpen))
  <2>1. CASE \E start, stop \in Int : ZREMRANGEBYRANK(k, start, stop)
    BY <2>1 DEF ZREMRANGEBYRANK, ZRemoveRange, Update, UpdateIn
  <2>2. CASE \E lo, loOpen, hi, hiOpen : ZREMRANGEBYSCORE(k, lo, loOpen, hi, hiOpen)
    BY <2>2 DEF ZREMRANGEBYSCORE, ZRemoveRange, Update, UpdateIn
  <2>3. CASE \E lo, loOpen, hi, hiOpen : ZREMRANGEBYLEX(k, lo, loOpen, hi, hiOpen)
    BY <2>3 DEF ZREMRANGEBYLEX, ZRemoveRange, Update, UpdateIn
  <2>4. CASE \E count \in Nat, left \in BOOLEAN : ZPop(k, count, left)
    BY <2>4 DEF ZPop, ZRemoveRange, Update, UpdateIn
  <2> QED BY <2>1, <2>2, <2>3, <2>4
<1>2. Fair(s) /\ (cur = Absent <=> Missing(s, k))
  BY Prologue DEF Missing
<1> HIDE DEF s
<1>3. ASSUME NEW I, removed(I), Whole(cur) => I \subseteq DOMAIN cur.sorted
      PROVE  Lawful
  <2>1. Whole(cur)
    BY <1>2, <1>3, ZSetFound
  <2>2. Whole(RemoveAll(cur, I))
    BY <1>3, <2>1, RemoveAllWhole
  <2> HIDE DEF cur
  <2>3. Fair(Shrunk(s, k, RemoveAll(cur, I)))
    BY <1>2, <2>2, ZSetMade, ShrunkFair
  <2> QED BY <1>3, <2>3, AnswerLawful
<1> HIDE DEF removed, cur
<1> QED BY <1>1, <1>2, <1>3, RangesAreWindows, AnswerLawful

(* ZUNIONSTORE, ZINTERSTORE, ZDIFFSTORE: the scores of the result are those*)
(* of members of the sources, so there are finitely many to sort.          *)
LEMMA ZstoreLawful ==
    ASSUME Inv, NEW op \in {"union", "inter", "diff"}, NEW aggregate \in {"SUM", "MIN", "MAX"},
           NEW k \in Key, NEW a \in Key, NEW b \in Key, ZStore(op, aggregate, k, a, b)
    PROVE  Lawful
<1> DEFINE s == Reap(d, a, clock)
           t == Reap(s, b, clock)
           x == Read(t, a, clock)
           y == Read(t, b, clock)
           X == IF x = Absent THEN NoScores ELSE x.scores
           Y == IF y = Absent THEN NoScores ELSE y.scores
           combine(u, v) == CASE aggregate = "MIN" -> Smaller(u, v)
                              [] aggregate = "MAX" -> Larger(u, v)
                              [] aggregate = "SUM" -> u + v
           agg == [m \in Member |->
                     IF m \notin Combined(op, Held(X), Held(Y)) THEN Absent
                     ELSE IF m \notin Held(Y) THEN X[m]
                     ELSE IF m \notin Held(X) THEN Y[m]
                     ELSE combine(X[m], Y[m])]
           z == ZSet(agg, InOrder(Scored(agg)))
<1>1. \/ Answer(s) \/ Answer(t)
      \/ ~WrongKind(s, a, "zset") /\ ~WrongKind(t, b, "zset") /\ Answer(StoreResult(t, k, z))
  BY DEF ZStore, FromTwo, Scored, Held
<1>2. /\ Fair(s) /\ Fair(t)
      /\ ~WrongKind(s, a, "zset") => ~WrongKind(t, a, "zset")
      /\ (x = Absent <=> Missing(t, a)) /\ (y = Absent <=> Missing(t, b))
  BY TwoSources DEF Missing
<1> HIDE DEF s, t, z
<1>3. ASSUME ~WrongKind(s, a, "zset"), ~WrongKind(t, b, "zset")
      PROVE  Fair(StoreResult(t, k, z))
  <2>1. /\ NoScores \in [Member -> Int \cup {Absent}] /\ IsFiniteSet(Held(NoScores))
    <3>1. Held(NoScores) = {}
      BY DEF Held, NoScores
    <3> QED BY <3>1, FS_EmptySet DEF NoScores
  <2>2. X \in [Member -> Int \cup {Absent}] /\ IsFiniteSet(Held(X))
    <3>1. CASE x = Absent
      BY <2>1, <3>1
    <3>2. CASE x # Absent
      <4>1. Whole(x)
        BY <1>2, <1>3, <3>2, ZSetFound
      <4> HIDE DEF x
      <4> QED BY <3>2, <4>1, HeldFinite DEF Whole, ZSets
    <3> QED BY <3>1, <3>2
  <2>3. Y \in [Member -> Int \cup {Absent}] /\ IsFiniteSet(Held(Y))
    <3>1. CASE y = Absent
      BY <2>1, <3>1
    <3>2. CASE y # Absent
      <4>1. Whole(y)
        BY <1>2, <1>3, <3>2, ZSetFound
      <4> HIDE DEF y
      <4> QED BY <3>2, <4>1, HeldFinite DEF Whole, ZSets
    <3> QED BY <3>1, <3>2
  <2> HIDE DEF X, Y
  <2>4. \A u, v \in Int : combine(u, v) \in Int
    BY DEF Smaller, Larger
  <2> HIDE DEF combine
  <2>5. /\ \A m \in Held(X) : X[m] \in Int
        /\ \A m \in Held(Y) : Y[m] \in Int
        /\ Combined(op, Held(X), Held(Y)) \subseteq Held(X) \cup Held(Y)
    BY <2>2, <2>3 DEF Held, Combined
  <2>6. agg \in [Member -> Int \cup {Absent}]
    <3> SUFFICES ASSUME NEW m \in Member
                 PROVE  agg[m] \in Int \cup {Absent}
      BY DEF agg
    <3> QED BY <2>4, <2>5
  <2>7. Held(agg) \in SUBSET (Held(X) \cup Held(Y))
    <3>1. \A m \in Member : agg[m] # Absent => m \in Combined(op, Held(X), Held(Y))
      OBVIOUS
    <3> HIDE DEF agg
    <3>2. Held(agg) \subseteq Combined(op, Held(X), Held(Y))
      BY <3>1 DEF Held
    <3> QED BY <2>5, <3>2
  <2> HIDE DEF agg
  <2>8. IsFiniteSet(Held(X) \cup Held(Y))
    BY <2>2, <2>3, FS_Union
  <2>9. IsFiniteSet(Held(agg))
    BY <2>7, <2>8, FS_Subset
  <2>10. Whole(z)
    BY <2>6, <2>9, AggregateWhole DEF z
  <2> QED BY <1>2, <2>10, ZSetMade, StoreResultFair
<1> QED BY <1>1, <1>2, <1>3, AnswerLawful

-----------------------------------------------------------------------------
(* The theorems. *)

LEMMA InitSound == Init => Inv /\ Contract!Init
<1> SUFFICES ASSUME Init
             PROVE  Inv /\ Contract!Init
  OBVIOUS
<1>1. ASSUME NEW c \in Sample
      PROVE  c \in Container /\ Sound(c)
  <2>1. CASE c \in {List(s) : s \in UNION {[1 .. n -> Member] : n \in 1 .. MaxLen}}
    <3>0. PICK n \in 1 .. MaxLen : \E s \in [1 .. n -> Member] : c = List(s)
      BY <2>1
    <3>1. PICK s \in [1 .. n -> Member] : c = List(s)
      BY <3>0
    <3>2. n \in Nat /\ n > 0
      BY ContainersAssumption
    <3>3. s \in Seq(Member) /\ Len(s) = n
      BY <3>1, <3>2
    <3>4. s # <<>>
      BY <3>2, <3>3
    <3> QED BY <3>1, <3>3, <3>4, ListMade
  <2>2. CASE c \in {Members(S) : S \in (SUBSET Member) \ {{}}}
    BY <2>2, SetMade
  <2>3. CASE c \in {Bitmap(B) : B \in SUBSET Bit}
    BY <2>3, BitmapMade
  <2> QED BY <2>1, <2>2, <2>3 DEF Sample
<1>2. PICK f \in [Key -> [value: Sample, expires_at: {NoTTL, 1}] \cup {Absent}] :
        d = [storage |-> f, generations |-> NoGenerations, epoch |-> 0, events |-> {}]
  BY DEF Init
<1>3. ASSUME NEW k \in Key, f[k] # Absent
      PROVE  f[k] \in Stored /\ Sound(f[k].value)
  <2>1. f[k] \in [value: Sample, expires_at: {NoTTL, 1}]
    BY <1>3
  <2> HIDE DEF Sample
  <2>2. f[k].value \in Sample /\ f[k].expires_at \in Int \cup {NoTTL}
        /\ f[k] = [value |-> f[k].value, expires_at |-> f[k].expires_at]
    BY <2>1
  <2> QED BY <1>1, <2>2 DEF Stored
<1>4. f \in [Key -> Stored \cup {Absent}]
  BY <1>2, <1>3
<1>5. NoGenerations \in [Key -> Nat] /\ clock \in 0 .. MaxTime
  BY ContainersAssumption DEF NoGenerations, Init
<1>6. /\ d.storage = f /\ d.generations = NoGenerations /\ d.epoch = 0 /\ d.events = {}
      /\ d \in [storage: [Key -> Stored \cup {Absent}], generations: [Key -> Nat],
                epoch: Nat, events: {{}}]
  BY <1>2, <1>4, <1>5
<1>7. TypeOK /\ Contract!Init
  BY <1>5, <1>6 DEF TypeOK, Contract!Init, NoGenerations
<1>8. CollectionsSound
  <2>1. NoEmptyCollections
    BY <1>3, <1>6 DEF NoEmptyCollections, Sound
  <2>2. ASSUME NEW k \in Key, d.storage[k] # Absent, d.storage[k].value.kind = "zset"
        PROVE  LET z == d.storage[k].value
               IN /\ \A i, j \in DOMAIN z.sorted : i < j => Before(z.sorted[i], z.sorted[j])
                  /\ {z.sorted[i] : i \in DOMAIN z.sorted}
                       = {<<z.scores[m], m>> : m \in {n \in Member : z.scores[n] # Absent}}
    <3>1. Agrees(d.storage[k].value)
      BY <1>3, <1>6, <2>2 DEF Sound
    <3> QED BY <3>1 DEF Agrees, Sorted, Pairs, Scored, Held
  <2> QED BY <2>1, <2>2 DEF CollectionsSound, IndexesAgree
<1> QED BY <1>7, <1>8 DEF Inv

(* Any command on key k. *)
LEMMA CommandLawful ==
    ASSUME Inv, NEW k \in Key,
           ListCommand(k) \/ SetCommand(k) \/ ZSetCommand(k) \/ BitCommand(k) \/ Lookup(k)
    PROVE  Lawful
<1>1. /\ 1 .. MaxLen \subseteq Nat /\ Index \subseteq Int /\ Score \subseteq Int
      /\ \A n : n \in 1 .. MaxLen => n \in Nat
  BY ContainersAssumption DEF Index
<1>2. CASE ListCommand(k)
  <2>1. CASE \E v \in Member, left, xx \in BOOLEAN : Push(k, v, left, xx)
    BY <2>1, PushLawful
  <2>2. CASE \E n \in 1 .. MaxLen, left \in BOOLEAN :
               Pop(k, n, left) \/ \E j \in Key : LMPOP(j, k, n, left)
    BY <1>1, <2>2, PopLawful
  <2>3. CASE \E i \in Index, v \in Member : LSET(k, i, v) \/ LREM(k, i, v)
    BY <1>1, <2>3, LsetLawful, LremLawful
  <2>4. CASE \E i, j \in Index : LTRIM(k, i, j)
    BY <1>1, <2>4, LtrimLawful
  <2>5. CASE \E o \in {0, 1}, p, v \in Member : LINSERT(k, o, p, v)
    BY <2>5, LinsertLawful
  <2>6. CASE \E b \in Key, fl, tl \in BOOLEAN : Move(k, b, fl, tl)
    BY <2>6, MoveLawful
  <2> QED BY <1>2, <2>1, <2>2, <2>3, <2>4, <2>5, <2>6 DEF ListCommand
<1>3. CASE SetCommand(k)
  <2>1. CASE \E M \in (SUBSET Member) \ {{}} : SADD(k, M) \/ Discard(k, M)
    BY <2>1, SaddLawful, DiscardLawful
  <2>2. CASE \E n \in 1 .. MaxLen : SPOP(k, n)
    BY <2>2, DiscardLawful DEF SPOP
  <2>3. CASE \E b \in Key, m \in Member : SMOVE(k, b, m)
    BY <2>3, SmoveLawful
  <2>4. CASE \E op \in {"union", "inter", "diff"}, a, b \in Key : SetStore(op, k, a, b)
    BY <2>4, SetStoreLawful
  <2> QED BY <1>3, <2>1, <2>2, <2>3, <2>4 DEF SetCommand
<1>4. CASE ZSetCommand(k)
  <2>1. CASE \E score \in Score, m \in Member :
               ZINCRBY(k, score, m) \/ \E F \in ZFlags : ZADD(k, score, m, F)
    BY <1>1, <2>1, ZaddLawful DEF ZINCRBY
  <2>2. CASE \E M \in (SUBSET Member) \ {{}} : ZREM(k, M)
    BY <2>2, ZremLawful
  <2>3. CASE \E i, j \in Index : ZREMRANGEBYRANK(k, i, j)
    BY <1>1, <2>3, RangeRemovalLawful
  <2>4. CASE \E lo, hi \in Score, p, q \in BOOLEAN : ZREMRANGEBYSCORE(k, lo, p, hi, q)
    BY <2>4, RangeRemovalLawful
  <2>5. CASE \E lo, hi \in Bound, p, q \in BOOLEAN : ZREMRANGEBYLEX(k, lo, p, hi, q)
    BY <2>5, RangeRemovalLawful
  <2>6. CASE \E n \in 1 .. MaxLen, left \in BOOLEAN : ZPop(k, n, left)
    BY <1>1, <2>6, RangeRemovalLawful
  <2>7. CASE \E op \in {"union", "inter", "diff"}, g \in {"SUM", "MIN", "MAX"}, a, b \in Key :
               ZStore(op, g, k, a, b)
    BY <2>7, ZstoreLawful
  <2> QED BY <1>4, <2>1, <2>2, <2>3, <2>4, <2>5, <2>6, <2>7 DEF ZSetCommand
<1>5. CASE BitCommand(k)
  BY <1>5, SetbitLawful, BitfieldLawful, BitopLawful DEF BitCommand
<1>6. CASE Lookup(k)
  BY <1>6, Prologue, AnswerLawful DEF Lookup
<1> QED BY <1>2, <1>3, <1>4, <1>5, <1>6

LEMMA StepLawful ==
    ASSUME Inv, [Next]_vars
    PROVE  Inv' /\ (Contract!Next \/ UNCHANGED Contract!vvars)
<1>1. CASE \E k \in Key : \/ ListCommand(k) \/ SetCommand(k) \/ ZSetCommand(k)
                          \/ BitCommand(k) \/ Lookup(k)
  BY <1>1, CommandLawful DEF Lawful, Inv, Contract!Next
<1>2. CASE Tick
  <2>1. d' = d /\ clock' = clock + 1 /\ clock \in Int /\ clock' \in 0 .. MaxTime
    BY <1>2, ContainersAssumption DEF Tick, Inv, TypeOK
  <2>2. Inv'
    BY <2>1 DEF Inv, TypeOK, CollectionsSound, NoEmptyCollections, IndexesAgree
  <2>3. ASSUME NEW k \in Key
        PROVE  Observed(d, k, clock)' \in {Observed(d, k, clock), Absent}
    <3>1. d.storage[k] \in Stored \cup {Absent}
      BY DEF Inv, TypeOK
    <3>2. d.storage[k] # Absent => d.storage[k].expires_at \in Int \cup {NoTTL}
      BY <3>1 DEF Stored
    <3>3. Observed(d, k, clock') \in {Observed(d, k, clock), Absent}
      BY <2>1, <3>2 DEF Observed, Contains, Live
    <3> QED BY <2>1, <3>3 DEF Observed, Contains
  <2>4. Contract!Proceed
    BY <2>1, <2>3 DEF Contract!Proceed
  <2> QED BY <2>2, <2>4 DEF Contract!Next
<1>3. CASE UNCHANGED vars
  <2>1. d' = d /\ clock' = clock
    BY <1>3 DEF vars
  <2>2. Inv'
    BY <2>1 DEF Inv, TypeOK, CollectionsSound, NoEmptyCollections, IndexesAgree
  <2>3. \A k \in Key : Observed(d, k, clock)' = Observed(d, k, clock)
    BY <2>1 DEF Observed, Contains
  <2>4. UNCHANGED Contract!vvars
    BY <2>1, <2>3 DEF Contract!vvars
  <2> QED BY <2>2, <2>4
<1> QED BY <1>1, <1>2, <1>3 DEF Next

LEMMA SpecInv == Spec => []Inv
<1>1. Init => Inv
  BY InitSound
<1>2. Inv /\ [Next]_vars => Inv'
  BY StepLawful
<1> QED BY <1>1, <1>2, PTL DEF Spec

(* Type correctness: every command on a list, set, sorted set or bitmap    *)
(* leaves a well-formed store.                                             *)
THEOREM ContainersTypeCorrect == Spec => []TypeOK
<1>1. Inv => TypeOK
  BY DEF Inv
<1> QED BY <1>1, SpecInv, PTL

(* No command leaves an empty list, set or sorted set behind, and the two  *)
(* indexes of every sorted set (the dict and the sorted list) agree, after *)
(* any history of additions, removals, pops, moves and stores.             *)
THEOREM CollectionsStaySound == Spec => []CollectionsSound
<1>1. Inv => CollectionsSound
  BY DEF Inv
<1> QED BY <1>1, SpecInv, PTL

(* Refinement: what a key holds, its deadline included, never appears or   *)
(* changes without touch().  Two changes show in no generation: a key may  *)
(* vanish (by expiry, by an LTRIM to nothing or a store of an empty        *)
(* result, which do not touch), and SETBIT of a zero bit may create a      *)
(* missing key, as an empty bitmap.                                        *)
THEOREM ContainersImplementVersioned == Spec => ContentVersioned
<1>1. Init => Contract!Init
  BY InitSound
<1>2. Inv /\ [Next]_vars => [Contract!Next]_(Contract!vvars)
  BY StepLawful
<1> QED BY <1>1, <1>2, SpecInv, PTL DEF Spec, ContentVersioned, Contract!Spec

-----------------------------------------------------------------------------
(* LMOVE and RPOPLPUSH count elements. *)

Occurrences(l, v) == {i \in DOMAIN l : l[i] = v}
Count(l, v) == Cardinality(Occurrences(l, v))
One(e, v) == IF e = v THEN 1 ELSE 0

LEMMA CountFinite ==
    ASSUME NEW l \in Seq(Member), NEW v
    PROVE  IsFiniteSet(Occurrences(l, v)) /\ Count(l, v) \in Nat
<1>1. Len(l) \in Nat /\ Occurrences(l, v) \in SUBSET (1 .. Len(l))
  BY DEF Occurrences
<1>2. IsFiniteSet(Occurrences(l, v))
  BY <1>1, Interval, FS_Subset
<1> QED BY <1>2, FS_CardinalityType DEF Count

(* A set with at most one more element. *)
LEMMA CountOneMore ==
    ASSUME NEW S, IsFiniteSet(S), NEW x, x \notin S, NEW e, NEW v, NEW T,
           T = IF e = v THEN S \cup {x} ELSE S
    PROVE  Cardinality(T) = Cardinality(S) + One(e, v)
<1>1. Cardinality(S) \in Nat
  BY FS_CardinalityType
<1>2. Cardinality(S \cup {x}) = Cardinality(S) + 1
  BY FS_AddElement
<1> QED BY <1>1, <1>2 DEF One

LEMMA CountLast ==
    ASSUME NEW l \in Seq(Member), NEW e \in Member, NEW v
    PROVE  Count(Append(l, e), v) = Count(l, v) + One(e, v)
<1> DEFINE r == Append(l, e)
<1>1. /\ Len(l) \in Nat /\ DOMAIN l = 1 .. Len(l) /\ DOMAIN r = 1 .. Len(l) + 1
      /\ r[Len(l) + 1] = e /\ \A i \in 1 .. Len(l) : r[i] = l[i]
  OBVIOUS
<1> HIDE DEF r
<1>2. Occurrences(r, v) = IF e = v THEN Occurrences(l, v) \cup {Len(l) + 1} ELSE Occurrences(l, v)
  BY <1>1 DEF Occurrences
<1>3. Len(l) + 1 \notin Occurrences(l, v)
  BY <1>1 DEF Occurrences
<1> QED BY <1>2, <1>3, CountFinite, CountOneMore DEF Count, r

LEMMA CountFirst ==
    ASSUME NEW l \in Seq(Member), NEW e \in Member, NEW v
    PROVE  Count(<<e>> \o l, v) = Count(l, v) + One(e, v)
<1> DEFINE r == <<e>> \o l
           S == Occurrences(l, v)
           T == {i \in 2 .. Len(l) + 1 : l[i - 1] = v}
           f == [i \in S |-> i + 1]
<1>1. /\ Len(l) \in Nat /\ DOMAIN l = 1 .. Len(l) /\ DOMAIN r = 1 .. Len(l) + 1
      /\ r[1] = e /\ \A i \in 2 .. Len(l) + 1 : r[i] = l[i - 1]
  <2>1. <<e>> \in Seq(Member) /\ Len(<<e>>) = 1 /\ <<e>>[1] = e
    OBVIOUS
  <2>2. r \in Seq(Member) /\ Len(r) = Len(l) + 1
    BY <2>1, ConcatProperties
  <2>3. \A i \in 1 .. Len(l) + 1 : r[i] = IF i <= 1 THEN <<e>>[i] ELSE l[i - 1]
    BY <2>1
  <2> HIDE DEF r
  <2> QED BY <2>1, <2>2, <2>3
<1> HIDE DEF r
<1>2. \A i \in S : i + 1 \in T
  BY <1>1 DEF Occurrences
<1>3. \A j \in T : j - 1 \in S /\ (j - 1) + 1 = j
  BY <1>1 DEF Occurrences
<1>4. \A i, j \in S : i + 1 = j + 1 => i = j
  BY <1>1 DEF Occurrences
<1>5. f \in Bijection(S, T)
  <2> HIDE DEF S, T
  <2>1. f \in [S -> T] /\ \A i, j \in S : f[i] = f[j] => i = j
    BY <1>2, <1>4
  <2>2. \A j \in T : \E i \in S : f[i] = j
    BY <1>3
  <2> HIDE DEF f
  <2> QED BY <2>1, <2>2 DEF Bijection, Injection, Surjection, IsInjective
<1>6. IsFiniteSet(T) /\ Cardinality(T) = Cardinality(S)
  <2>1. IsFiniteSet(S) /\ ExistsBijection(S, T)
    BY <1>5, CountFinite DEF ExistsBijection
  <2> HIDE DEF S, T
  <2> QED BY <2>1, FS_Bijection
<1>7. Occurrences(r, v) = IF e = v THEN T \cup {1} ELSE T
  BY <1>1 DEF Occurrences
<1>8. 1 \notin T
  OBVIOUS
<1> HIDE DEF T, S
<1>9. Cardinality(Occurrences(r, v)) = Cardinality(T) + One(e, v)
  BY <1>6, <1>7, <1>8, CountOneMore
<1> QED BY <1>6, <1>9 DEF Count, r, S

(* An element taken from either end, and the rest. *)
LEMMA CountTaken ==
    ASSUME NEW l \in Seq(Member), l # <<>>, NEW v
    PROVE  /\ Head(l) \in Member /\ Tail(l) \in Seq(Member)
           /\ Count(l, v) = Count(Tail(l), v) + One(Head(l), v)
           /\ SX!Last(l) \in Member /\ SX!Front(l) \in Seq(Member)
           /\ Count(l, v) = Count(SX!Front(l), v) + One(SX!Last(l), v)
<1>1. Len(l) \in Nat /\ Len(l) > 0
  OBVIOUS
<1>2. Head(l) \in Member /\ Tail(l) \in Seq(Member) /\ l = <<Head(l)>> \o Tail(l)
  OBVIOUS
<1>3. SX!Last(l) \in Member /\ SX!Front(l) \in Seq(Member) /\ l = Append(SX!Front(l), SX!Last(l))
  BY <1>1 DEF SX!Last, SX!Front
<1>4. Count(<<Head(l)>> \o Tail(l), v) = Count(Tail(l), v) + One(Head(l), v)
  BY <1>2, CountFirst
<1>5. Count(Append(SX!Front(l), SX!Last(l)), v) = Count(SX!Front(l), v) + One(SX!Last(l), v)
  BY <1>3, CountLast
<1> QED BY <1>2, <1>3, <1>4, <1>5

(* The list a client sees under a key: nothing for a missing key, or for   *)
(* one of another kind.                                                    *)
ListAt(s, k) ==
    IF Missing(s, k) \/ WrongKind(s, k, "list") THEN <<>> ELSE Read(s, k, clock).list

LEMMA CopiesCount ==
    ASSUME NEW s, NEW k, NEW v
    PROVE  Copies(s, k, v) = Count(ListAt(s, k), v)
<1>1. Count(<<>>, v) = 0
  <2>1. Occurrences(<<>>, v) = {}
    BY DEF Occurrences
  <2> QED BY <2>1, FS_EmptySet DEF Count
<1> QED BY <1>1 DEF Copies, ListAt, Count, Occurrences

(* Purging a corpse changes nothing a client reads. *)
LEMMA ReapReads ==
    ASSUME NEW s, Fair(s), Inv, NEW b \in Key, NEW k \in Key
    PROVE  Read(Reap(s, b, clock), k, clock) = Read(s, k, clock)
<1>1. CASE ~Missing(s, k)
  BY <1>1, ReapKeeps
<1>2. CASE Missing(s, k)
  <2>1. CASE k # b
    <3>1. Reap(s, b, clock).storage[k] = s.storage[k]
      BY <2>1, ReapFair
    <3> QED BY <3>1 DEF Read, Contains
  <2>2. CASE k = b
    <3>1. s \in Stores
      BY DEF Fair
    <3>2. Drop(s, b).storage[k] = Absent
      BY <2>2, DropFair
    <3>3. PurgeKey(s, b).storage = Drop(s, b).storage
      BY <3>1 DEF PurgeKey, Notify, Drop, Stores
    <3>4. Read(PurgeKey(s, b), k, clock) = Absent
      BY <3>2, <3>3 DEF Read, Contains, Live
    <3> QED BY <1>2, <3>4 DEF Reap, Missing
  <2> QED BY <2>1, <2>2
<1> QED BY <1>1, <1>2

(* What is written can be read, whether the key was there or not. *)
LEMMA WrittenReads ==
    ASSUME NEW s, Fair(s), Inv, NEW k \in Key, NEW c \in Container
    PROVE  /\ Read(Written(s, k, c), k, clock) = c
           /\ \A j \in Key : j # k =>
                 Read(Written(s, k, c), j, clock) = Read(s, j, clock)
<1> DEFINE t == Keep(s, k, c)
           u == Written(s, k, c)
<1>1. s \in Stores
  BY DEF Fair
<1>2. /\ t \in Stores /\ t.storage[k] \in Stored /\ t.storage[k].value = c
      /\ \A j \in Key : j # k => t.storage[j] = s.storage[j]
      /\ t.storage[k].expires_at = IF Missing(s, k) THEN NoTTL ELSE s.storage[k].expires_at
  BY <1>1, KeepParts
<1>3. u.storage = t.storage
  <2>1. \A x \in Stores : Touch(x, k).storage = x.storage
    BY TouchParts
  <2> HIDE DEF t
  <2>2. Touch(t, k).storage = t.storage
    BY <1>2, <2>1
  <2> QED BY <2>2 DEF Written, t
<1> HIDE DEF t, u
<1>4. Live(u.storage[k], clock)
  <2>1. u.storage[k] # Absent
    BY <1>2, <1>3, ContainersAssumption
  <2>2. ~Missing(s, k) => Live(s.storage[k], clock)
    BY DEF Missing, Read, Contains
  <2> QED BY <1>2, <1>3, <2>1, <2>2 DEF Live
<1>5. Read(u, k, clock) = c
  BY <1>2, <1>3, <1>4 DEF Read, Contains
<1>6. \A j \in Key : j # k => Read(u, j, clock) = Read(s, j, clock)
  BY <1>2, <1>3 DEF Read, Contains
<1> QED BY <1>5, <1>6 DEF u

(* The same for a list that may have become empty. *)
LEMMA ShrunkReads ==
    ASSUME NEW s, Fair(s), Inv, NEW k \in Key, NEW l \in Seq(Member)
    PROVE  /\ ListAt(Shrunk(s, k, List(l)), k) = l
           /\ \A j \in Key : j # k =>
                 ListAt(Shrunk(s, k, List(l)), j) = ListAt(s, j)
<1> DEFINE t == Written(s, k, List(l))
           u == Drop(t, k)
<1>1. /\ List(l) \in Container /\ List(l).list = l /\ List(l).kind = "list"
      /\ (Empty(List(l)) <=> l = <<>>) /\ List(l) # Absent
  BY ListMade, ContainersAssumption DEF List
<1>2. /\ Read(t, k, clock) = List(l)
      /\ \A j \in Key : j # k => Read(t, j, clock) = Read(s, j, clock)
  BY <1>1, WrittenReads
<1>3. t \in Stores
  BY <1>1, WrittenParts DEF Fair
<1> HIDE DEF t
<1>4. CASE l # <<>>
  <2>1. Shrunk(s, k, List(l)) = t
    BY <1>1, <1>4 DEF Shrunk, t
  <2> QED BY <1>1, <1>2, <2>1 DEF ListAt, Missing, WrongKind
<1>5. CASE l = <<>>
  <2>1. Shrunk(s, k, List(l)) = u
    BY <1>1, <1>5 DEF Shrunk, t
  <2>2. \A j \in Key : u.storage[j] = IF j = k THEN Absent ELSE t.storage[j]
    BY <1>3 DEF Drop, Stores
  <2> HIDE DEF u
  <2>3. Read(u, k, clock) = Absent /\ \A j \in Key : j # k => Read(u, j, clock) = Read(t, j, clock)
    BY <2>2 DEF Read, Contains, Live
  <2> QED BY <1>2, <1>5, <2>1, <2>3 DEF ListAt, Missing, WrongKind
<1> QED BY <1>4, <1>5

LEMMA MoveCounts ==
    ASSUME Inv, NEW a \in Key, NEW b \in Key, NEW fromLeft, NEW toLeft,
           Move(a, b, fromLeft, toLeft), NEW v \in Member
    PROVE  IF a = b THEN Copies(d', a, v) = Copies(d, a, v)
           ELSE Copies(d', a, v) + Copies(d', b, v) = Copies(d, a, v) + Copies(d, b, v)
<1> DEFINE s == Reap(d, a, clock)
           t == Reap(s, b, clock)
<1>1. \/ Answer(s) \/ Answer(t)
      \/ /\ ~Missing(s, a) /\ ~WrongKind(s, a, "list") /\ ~WrongKind(t, b, "list")
         /\ Answer(MoveIn(t, a, b, fromLeft, toLeft))
  BY DEF Move
<1>2. Fair(s) /\ Fair(t) /\ Fair(d)
  BY Prologue, ReapFair, InvFair
<1>3. /\ Read(s, a, clock) = Read(d, a, clock) /\ Read(s, b, clock) = Read(d, b, clock)
      /\ Read(t, a, clock) = Read(d, a, clock) /\ Read(t, b, clock) = Read(d, b, clock)
  BY <1>2, ReapReads
<1> HIDE DEF s, t
<1>4. /\ ListAt(s, a) = ListAt(d, a) /\ ListAt(s, b) = ListAt(d, b)
      /\ ListAt(t, a) = ListAt(d, a) /\ ListAt(t, b) = ListAt(d, b)
      /\ ~Missing(s, a) => ~Missing(t, a)
      /\ ~WrongKind(s, a, "list") => ~WrongKind(t, a, "list")
  BY <1>3 DEF ListAt, Missing, WrongKind
<1>5. ASSUME NEW x, x \in Stores, Answer(x), NEW k \in Key
      PROVE  Copies(d', k, v) = Count(ListAt(x, k), v)
  <2>1. d'.storage = x.storage
    BY <1>5 DEF Answer, Stores
  <2>2. Read(d', k, clock) = Read(x, k, clock)
    BY <2>1 DEF Read, Contains
  <2>3. ListAt(d', k) = ListAt(x, k)
    BY <2>2 DEF ListAt, Missing, WrongKind
  <2> QED BY <2>3, CopiesCount
<1>6. \A k \in Key : Copies(d, k, v) = Count(ListAt(d, k), v)
  BY CopiesCount
<1>7. CASE Answer(s) \/ Answer(t)
  BY <1>2, <1>4, <1>5, <1>6, <1>7 DEF Fair
<1>8. CASE /\ ~Missing(s, a) /\ ~WrongKind(s, a, "list") /\ ~WrongKind(t, b, "list")
           /\ Answer(MoveIn(t, a, b, fromLeft, toLeft))
  <2> DEFINE src == Read(t, a, clock).list
             e == IF fromLeft THEN Head(src) ELSE SX!Last(src)
             rest == IF fromLeft THEN Tail(src) ELSE SX!Front(src)
             dst == IF a = b THEN rest ELSE IF Missing(t, b) THEN <<>>
                    ELSE Read(t, b, clock).list
             l == IF toLeft THEN <<e>> \o dst ELSE Append(dst, e)
             joined == Written(t, b, List(l))
             x == MoveIn(t, a, b, fromLeft, toLeft)
  <2>1. src \in Seq(Member) /\ src # <<>> /\ src = ListAt(t, a)
    BY <1>2, <1>4, <1>8, ListFound DEF ListAt
  <2>2. a # b => dst \in Seq(Member) /\ dst = ListAt(t, b)
    <3>1. <<>> \in Seq(Member)
      OBVIOUS
    <3> QED BY <1>2, <1>8, <3>1, ListFound DEF ListAt
  <2>3. x = IF a = b THEN Touch(joined, a) ELSE Shrunk(joined, a, List(rest))
    BY DEF MoveIn
  <2> HIDE DEF src
  <2>4. e \in Member /\ rest \in Seq(Member) /\ Count(src, v) = Count(rest, v) + One(e, v)
    BY <2>1, CountTaken
  <2> HIDE DEF e, rest
  <2>5. dst \in Seq(Member) /\ (a = b => dst = rest)
    BY <2>2, <2>4
  <2> HIDE DEF dst
  <2>6. <<e>> \in Seq(Member) /\ Len(<<e>>) = 1 /\ Len(dst) \in Nat
    BY <2>4, <2>5
  <2>7. <<e>> \o dst \in Seq(Member) /\ Append(dst, e) \in Seq(Member)
        /\ Len(<<e>> \o dst) = Len(dst) + 1 /\ Len(Append(dst, e)) = Len(dst) + 1
    BY <2>4, <2>5, <2>6, ConcatProperties
  <2>8. l \in Seq(Member) /\ l # <<>>
    BY <2>6, <2>7
  <2>9. Count(l, v) = Count(dst, v) + One(e, v)
    BY <2>4, <2>5, CountFirst, CountLast
  <2> HIDE DEF l
  <2>10. /\ Fair(joined) /\ ListAt(joined, b) = l
         /\ a # b => ListAt(joined, a) = ListAt(t, a)
    <3>1. List(l) \in Container /\ List(l) # Absent /\ List(l).list = l /\ List(l).kind = "list"
      BY <2>8, ListMade, ContainersAssumption DEF List
    <3>2. Read(joined, b, clock) = List(l) /\ (a # b => Read(joined, a, clock) = Read(t, a, clock))
      BY <1>2, <3>1, WrittenReads
    <3>3. Fair(joined)
      BY <1>2, <2>8, ListWritten
    <3> QED BY <3>1, <3>2, <3>3 DEF ListAt, Missing, WrongKind
  <2> HIDE DEF joined, x
  <2>11. /\ Count(rest, v) \in Nat /\ Count(dst, v) \in Nat /\ One(e, v) \in Nat
         /\ Count(ListAt(d, a), v) = Count(rest, v) + One(e, v)
    BY <1>4, <2>1, <2>4, <2>5, CountFinite DEF One
  <2>12. CASE a = b
    <3>1. joined \in Stores /\ x = Touch(joined, a)
      BY <2>3, <2>10, <2>12 DEF Fair
    <3>2. x \in Stores /\ x.storage = joined.storage
      BY <3>1, TouchParts
    <3>3. ListAt(x, a) = l
      BY <2>10, <2>12, <3>2 DEF ListAt, Missing, WrongKind, Read, Contains
    <3>4. Copies(d', a, v) = Count(l, v)
      BY <1>5, <1>8, <3>2, <3>3 DEF x
    <3> QED BY <1>6, <2>5, <2>9, <2>11, <2>12, <3>4
  <2>13. CASE a # b
    <3>1. x = Shrunk(joined, a, List(rest))
      BY <2>3, <2>13
    <3>2. x \in Stores
      BY <2>4, <2>10, <3>1, ListShrunk DEF Fair
    <3>3. ListAt(x, a) = rest /\ ListAt(x, b) = l
      BY <2>4, <2>10, <2>13, <3>1, ShrunkReads
    <3>4. Copies(d', a, v) = Count(rest, v) /\ Copies(d', b, v) = Count(l, v)
      BY <1>5, <1>8, <3>2, <3>3 DEF x
    <3>5. Copies(d, b, v) = Count(dst, v)
      BY <1>4, <1>6, <2>2, <2>13
    <3> QED BY <1>6, <2>9, <2>11, <2>13, <3>4, <3>5
  <2> QED BY <2>12, <2>13
<1> QED BY <1>1, <1>7, <1>8

(* LMOVE and RPOPLPUSH neither lose nor duplicate an element, whatever     *)
(* their source and destination are: the same key, missing, expired, or of *)
(* a kind that makes the command fail.                                     *)
THEOREM MovesKeepElements == Spec => MovesLoseNothing
<1> DEFINE Kept ==
      \A a, b \in Key :
         (\E fl, tl \in BOOLEAN : Move(a, b, fl, tl)) =>
            \A v \in Member :
               IF a = b THEN Copies(d', a, v) = Copies(d, a, v)
               ELSE Copies(d', a, v) + Copies(d', b, v) = Copies(d, a, v) + Copies(d, b, v)
<1>1. ASSUME Inv
      PROVE  Kept
  BY <1>1, MoveCounts
<1>2. Inv /\ [Next]_vars => [Kept]_vars
  BY <1>1
<1> QED BY <1>2, SpecInv, PTL DEF Spec, MovesLoseNothing
=============================================================================
